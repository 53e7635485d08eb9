------------------------------ MODULE MCVisualMap ------------------------------
EXTENDS VisualMap

\* Two voxels in front of the origin and one behind it.
MCPositions == {-1, 1, 3}
MCCameras == {[at |-> 0, facing |-> TRUE], [at |-> 1, facing |-> TRUE], [at |-> -1, facing |-> FALSE]}
MCScans == {{-1, 1, 3}, {1, 3}, {3}}
MCCorrection == {-1}
MCScores == {-1, 1}
===============================================================================
