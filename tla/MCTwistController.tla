--------------------------- MODULE MCTwistController ---------------------------
(***************************************************************************)
(* Small instances of TwistController: two wheel velocities, a yaw of four *)
(* steps to the turn, three descriptors.                                   *)
(***************************************************************************)
EXTENDS TwistController

MCLinear == {0, 1}
MCAngular == {0, 1}
===============================================================================
