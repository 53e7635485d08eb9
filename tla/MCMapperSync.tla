----------------------------- MODULE MCMapperSync -----------------------------
(***************************************************************************)
(* Small instances of MapperSync: a few frames of two IMU periods each,    *)
(* whose clouds are empty, nearly empty or usable.                         *)
(***************************************************************************)
EXTENDS MapperSync

AllClouds == {0, 1, 2}
Usable == {2}
===============================================================================
