----------------------------- MODULE SessionLog -----------------------------
(***************************************************************************)
(* What the session cache promises its hooks, lock, versions, fingerprints *)
(* and retries aside: a shared store of edit counts to which each hook's   *)
(* save applies its own view in one atomic step.  The promise ends at the  *)
(* first hazard.                                                           *)
(***************************************************************************)
EXTENDS Naturals

CONSTANTS Proc, File
VARIABLES store,    \* the counts on disk
          view,     \* the counts each hook holds
          trusted   \* no hazard so far

logVars == <<store, view, trusted>>

Most(a, b) == IF a >= b THEN a ELSE b
Zero == [f \in File |-> 0]
Below(e, d) == \A f \in File : e[f] <= d[f]

LogInit == store = Zero /\ view = [p \in Proc |-> Zero] /\ trusted = TRUE

\* A hook loads some state of the store, possibly an old one or none, or ends.
Learn(p) ==
  /\ \A q \in Proc \ {p} : view'[q] = view[q]
  /\ Below(view'[p], store)
  /\ UNCHANGED store

Edit(p, f) ==
  /\ view' = [view EXCEPT ![p][f] = @ + 1]
  /\ UNCHANGED store

Commit(p) ==
  /\ store' = [f \in File |-> Most(store[f], view[p][f])]
  /\ UNCHANGED view

LogNext ==
  \/ ~trusted'
  \/ /\ trusted /\ trusted'
     /\ \E p \in Proc : Learn(p) \/ Commit(p) \/ \E f \in File : Edit(p, f)

LogSpec == LogInit /\ [][LogNext]_logVars
=============================================================================
