----------------------------- MODULE MCVoxelOctree -----------------------------
EXTENDS VoxelOctree

\* A left leaf that may be split again, with two cells, and a right one with one.
MCCells == {<<0, 0>>, <<0, 1>>, <<1, 0>>}
===============================================================================
