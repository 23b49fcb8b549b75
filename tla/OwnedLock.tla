------------------------------ MODULE OwnedLock ------------------------------
(***************************************************************************)
(* What a lock file promises while it can be trusted: it is created only   *)
(* where there is none, by the one process that then has the lock, and     *)
(* removed only by that process or after it is gone.  The session's lock,  *)
(* the project's writer lock and the worker's claim file implement this    *)
(* until a live owner's file is unlinked.                                  *)
(***************************************************************************)
CONSTANT Process
VARIABLES file,     \* owner of the lock file: {} or {p}
          inside,   \* processes that act as owners
          trusted   \* no live owner's file has been unlinked

lockVars == <<file, inside, trusted>>

Init == file = {} /\ inside = {} /\ trusted = TRUE

Acquire(p) == file = {} /\ inside = {} /\ file' = {p} /\ inside' = {p}

\* The owner removes the file, or is killed and leaves it behind.
Leave(p) == inside = {p} /\ file = {p} /\ inside' = {} /\ file' \in {{}, file}

\* Somebody removes a file that was left behind.
Recover == inside = {} /\ file' = {} /\ UNCHANGED inside

Next ==
  \/ ~trusted'
  \/ /\ trusted /\ trusted'
     /\ Recover \/ \E p \in Process : Acquire(p) \/ Leave(p)

Spec == Init /\ [][Next]_lockVars
=============================================================================
