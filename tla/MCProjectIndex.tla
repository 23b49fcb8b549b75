--------------------------- MODULE MCProjectIndex ---------------------------
(* ProjectIndex for TLC: named files, runs and watchers.                   *)
EXTENDS ProjectIndex, TLC

CONSTANTS f1, r1, w1
=============================================================================
