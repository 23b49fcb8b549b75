----------------------------- MODULE MCReadGuard -----------------------------
\* Values for TLC: windows of two line files, with and without a limit.
EXTENDS ReadGuard, TLC

MCWindow == {1..1, Whole}
\* A behaviour is followed up to its first hazard: hazards only grows, and
\* the properties speak of states without.  Other hints fill hints_seen as
\* long as no file has changed.
UntilHazard ==
  /\ hazards \subseteq {"crossed"}
  /\ writes = 0 \/ store.seen \cap OtherHint = {}
Symmetry == Permutations(Caller) \cup Permutations(File)
=============================================================================
