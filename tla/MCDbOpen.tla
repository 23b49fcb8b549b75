------------------------------ MODULE MCDbOpen ------------------------------
(* DbOpen for TLC: named processes.                                        *)
EXTENDS DbOpen, TLC

CONSTANTS p1, p2
=============================================================================
