--------------------------- MODULE MCSessionStore ---------------------------
(* SessionStore for TLC: named hooks and files, interchangeable.           *)
EXTENDS SessionStore, TLC

CONSTANTS p1, p2, p3, f1, f2

Symmetry == Permutations(Proc) \cup Permutations(File)

\* hazards only grows: cutting behaviours at the first one loses nothing of a
\* property that speaks of hazard-free states.
NoHazardYet == hazards = {}
=============================================================================
