------------------------- MODULE MCWorkerLifecycle -------------------------
(* WorkerLifecycle for TLC: interchangeable daemons and hooks.             *)
EXTENDS WorkerLifecycle, TLC

CONSTANTS d1, d2, d3, n1, n2

Symmetry == Permutations(Daemon) \cup Permutations(Nudger)

\* The safety properties are about behaviours in which nobody has taken the claim of
\* a live daemon; hazards only grows, so that nothing after that needs a look.
UntilSlotLost == SlotRespected
=============================================================================
