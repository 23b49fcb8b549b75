-------------------------- MODULE DirtyQueueProofs --------------------------
(***************************************************************************)
(* Proofs about DirtyQueue: type correctness, and that without a hazard no *)
(* edit is forgotten, for every set of hooks, workers and projects.        *)
(***************************************************************************)
EXTENDS DirtyQueue, FiniteSetTheorems, TLAPS

-----------------------------------------------------------------------------
(* Type correctness.                                                       *)

\* The steps of the index runs.
IndexStep(w) ==
  \/ \E ps \in SUBSET Eligible : ReindexActive(w, ps)
  \/ \E p \in Proj : Walk(w, p)
  \/ \E p \in Proj : \E v \in 1..MaxEdits : IndexDone(w, p, v)

LEMMA TypeInit == Init => TypeOK
  BY BoundsAreNat DEF Init, TypeOK, HookPc, WorkerPc

LEMMA TypeHook ==
  ASSUME TypeOK, NEW h \in Hook,
         \/ HookStep(h) \/ HookFault(h) \/ \E p \in Proj : Edit(h, p)
  PROVE  TypeOK'
<1> USE DEF TypeOK, HookPc, Hazard, started
<1>1. ASSUME NEW p \in Proj, Edit(h, p) PROVE TypeOK'
  BY <1>1 DEF Edit, files, workers
<1>2. CASE CheckCap(h)
  BY <1>2 DEF CheckCap, Returns, files, workers
<1>3. CASE Open(h)
  <2>1. CASE queue # {}
    BY <1>3, <2>1 DEF Open, files, workers
  <2>2. CASE queue = {}
    BY <1>3, <2>2 DEF Open, workers
  <2> QED BY <2>1, <2>2
<1>4. CASE AppendLine(h)
  BY <1>4 DEF AppendLine, Returns, workers
<1>5. CASE AppendFails(h)
  BY <1>5, BoundsAreNat DEF AppendFails, Returns, files, workers
<1>6. CASE HookKilled(h)
  BY <1>6, BoundsAreNat DEF HookKilled, Returns, files, workers
<1>7. CASE StatFails(h)
  BY <1>7, BoundsAreNat DEF StatFails, files, workers
<1> QED BY <1>1, <1>2, <1>3, <1>4, <1>5, <1>6, <1>7 DEF HookStep, HookFault

LEMMA TypeDrain ==
  ASSUME TypeOK, NEW w \in Worker, DrainStep(w) \/ DrainFault(w) \/ Restart(w)
  PROVE  TypeOK'
<1> USE ResidentIsBoolean DEF TypeOK, WorkerPc, Hazard, Goto, TickOver, hooks, started
<1>0. \A f \in SUBSET Inode : Named(f) \in SUBSET Proj
  BY DEF Named
<1>1. CASE Recover(w)
  BY <1>0, <1>1 DEF Recover, files
<1>2. CASE Forget(w)
  BY <1>2 DEF Forget
<1>3. CASE Claim(w)
  BY <1>3 DEF Claim
<1>4. CASE ReadClaimed(w)
  BY <1>0, <1>4 DEF ReadClaimed, files
<1>5. CASE Clear(w)
  BY <1>5 DEF Clear
<1>6. CASE Process(w)
  BY <1>6 DEF Process, Start, files
<1>7. CASE Quarantine(w)
  BY <1>7, BoundsAreNat DEF Quarantine
<1>8. CASE ForgetFails(w)
  BY <1>8, BoundsAreNat DEF ForgetFails, files
<1>9. CASE Defer(w)
  BY <1>9, BoundsAreNat DEF Defer, files
<1>10. CASE LeaveClaimed(w)
  BY <1>10, BoundsAreNat DEF LeaveClaimed, files
<1>11. CASE ProcessUnderPressure(w)
  BY <1>11, BoundsAreNat DEF ProcessUnderPressure, files
<1>12. CASE IndexRejects(w)
  BY <1>12, BoundsAreNat DEF IndexRejects, Dies, files
<1>13. CASE WorkerKilled(w)
  BY <1>13, BoundsAreNat DEF WorkerKilled, Dies, files
<1>14. CASE Restart(w)
  BY <1>14 DEF Restart, files
<1>15. CASE Leave(w)
  BY <1>15 DEF Leave, Dies, files
<1> QED
  BY <1>1, <1>2, <1>3, <1>4, <1>5, <1>6, <1>7, <1>8, <1>9, <1>10, <1>11, <1>12,
     <1>13, <1>14, <1>15 DEF DrainStep, DrainFault

LEMMA TypeIndex ==
  ASSUME TypeOK, NEW w \in Worker,
         IndexStep(w)
  PROVE  TypeOK'
<1> USE DEF TypeOK, Hazard, files, hooks
<1>1. ASSUME NEW ps \in SUBSET Eligible, ReindexActive(w, ps) PROVE TypeOK'
  BY <1>1 DEF ReindexActive, Start, Eligible
<1>2. ASSUME NEW p \in Proj, NEW v \in 1..MaxEdits, IndexDone(w, p, v) PROVE TypeOK'
  BY <1>2, BoundsAreNat DEF IndexDone
<1>3. ASSUME NEW p \in Proj, Walk(w, p) PROVE TypeOK'
  BY <1>3 DEF Walk
<1> QED BY <1>1, <1>2, <1>3 DEF IndexStep

\* A step is one of a hook, one of a worker's drain or one of an index run.
LEMMA TypeNext == ASSUME TypeOK, [Next]_vars PROVE TypeOK'
<1>1. CASE UNCHANGED vars
  BY <1>1 DEF TypeOK, vars, files, hooks, workers, started
<1>2. CASE Next
  BY <1>2, TypeHook, TypeDrain, TypeIndex DEF Next, IndexStep
<1> QED BY <1>1, <1>2

\* Every variable keeps its type, and each of the two names stands for at most
\* one file (worker.ts, enqueue_dirty and drain_dirty_queue).
THEOREM TypeCorrect == Spec => []TypeOK
  BY TypeInit, TypeNext, PTL DEF Spec

-----------------------------------------------------------------------------
(* A hazard stays: a hazard-free state has hazard-free predecessors.       *)

LEMMA HazardsStay == ASSUME [Next]_vars PROVE hazards \subseteq hazards'
<1>1. CASE UNCHANGED vars
  BY <1>1 DEF vars
<1>2. ASSUME NEW h \in Hook, HookStep(h) \/ HookFault(h) \/ \E p \in Proj : Edit(h, p)
      PROVE  hazards \subseteq hazards'
  BY <1>2 DEF HookStep, HookFault, CheckCap, Open, AppendLine, StatFails,
              AppendFails, HookKilled, Edit
<1>3. ASSUME NEW w \in Worker, DrainStep(w) \/ DrainFault(w) \/ Restart(w)
      PROVE  hazards \subseteq hazards'
  BY <1>3 DEF DrainStep, DrainFault, Restart, Recover, Forget, Claim, ReadClaimed,
     Clear, Process, Quarantine, ForgetFails, Defer, LeaveClaimed,
     ProcessUnderPressure, IndexRejects, WorkerKilled, Leave
<1>4. ASSUME NEW w \in Worker, IndexStep(w)
      PROVE  hazards \subseteq hazards'
  BY <1>4 DEF IndexStep, ReindexActive, Walk, IndexDone
<1> QED BY <1>1, <1>2, <1>3, <1>4 DEF Next, IndexStep

-----------------------------------------------------------------------------
(* The drains of hazard-free behaviours.                                   *)

\* A hook changes no line of .draining unless its append is late.
LEMMA HookKeepsDraining ==
  ASSUME TypeOK, queue \cap draining = {}, NEW h \in Hook, hazards' = {},
         \/ HookStep(h) \/ HookFault(h) \/ \E p \in Proj : Edit(h, p)
  PROVE  /\ UNCHANGED <<draining, wpc, lines, started, indexed>>
         /\ Named(draining)' = Named(draining)
         /\ (queue \cap draining)' = {}
<1> SUFFICES UNCHANGED <<draining, wpc, lines, started, indexed>>
             /\ (\A i \in draining : names'[i] = names[i]) /\ (queue \cap draining)' = {}
  BY DEF Named
<1>1. CASE (\E p \in Proj : Edit(h, p)) \/ CheckCap(h) \/ HookFault(h)
  BY <1>1 DEF Edit, CheckCap, HookFault, StatFails, AppendFails, HookKilled, files, workers
<1>2. CASE Open(h)
  BY <1>2 DEF Open, Free, TypeOK, files, workers
<1>3. CASE AppendLine(h)
  <2>1. fd[h] = queue
    BY <1>3 DEF AppendLine
  <2> QED BY <1>3, <2>1 DEF AppendLine, TypeOK, workers
<1> QED BY <1>1, <1>2, <1>3 DEF HookStep

LEMMA DrainInvInit == Init => DrainInv
  BY DEF Init, DrainInv, Draining

LEMMA DrainInvNext == ASSUME TypeOK, DrainInv, [Next]_vars PROVE DrainInv'
<1> SUFFICES ASSUME hazards' = {} PROVE DrainInv'
  BY DEF DrainInv
<1>0. hazards = {}
  BY HazardsStay
<1>a. /\ queue \cap draining = {}
      /\ \A h \in Hook : /\ hpc[h] = "idle" => hproj[h] = {}
                         /\ hpc[h] = "append" => fd[h] # {}
      /\ \A v, w \in Worker : Draining(v) /\ Draining(w) => v = w
      /\ \A w \in Worker :
           /\ ~Draining(w) => lines[w] = {}
           /\ wpc[w] = "claim" => draining = {}
           /\ wpc[w] = "forget" => lines[w] = Named(draining)
           /\ wpc[w] = "clear" => Named(draining) \subseteq lines[w]
  BY <1>0 DEF DrainInv
<1>1. CASE UNCHANGED vars
  BY <1>1, <1>a DEF vars, files, hooks, workers, DrainInv, Draining, Named
<1>2. ASSUME NEW h \in Hook, HookStep(h) \/ HookFault(h) \/ \E p \in Proj : Edit(h, p)
      PROVE  DrainInv'
  <2>1. \A g \in Hook : /\ hpc'[g] = "idle" => hproj'[g] = {}
                        /\ hpc'[g] = "append" => fd'[g] # {}
    <3>1. CASE Open(h)
      <4>1. hpc' = [hpc EXCEPT ![h] = "append"] /\ hproj' = hproj
        BY <3>1 DEF Open
      <4>2. fd \in [Hook -> SUBSET Inode]
        BY DEF TypeOK
      <4>3. CASE queue # {} /\ fd' = [fd EXCEPT ![h] = queue]
        BY <1>a, <4>1, <4>2, <4>3 DEF TypeOK
      <4>4. CASE \E i \in Inode : fd' = [fd EXCEPT ![h] = {i}]
        <5>1. PICK i \in Inode : fd' = [fd EXCEPT ![h] = {i}]
          BY <4>4
        <5>2. fd'[h] = {i} /\ \A g \in Hook : g # h => fd'[g] = fd[g]
          BY <4>2, <5>1
        <5> QED BY <1>a, <4>1, <5>2 DEF TypeOK
      <4> QED BY <3>1, <4>3, <4>4 DEF Open
    <3>2. CASE (\E p \in Proj : Edit(h, p)) \/ CheckCap(h) \/ AppendLine(h) \/ HookFault(h)
      BY <1>a, <3>2 DEF HookFault, Edit, CheckCap, AppendLine, StatFails,
                        AppendFails, HookKilled, Returns, TypeOK
    <3> QED BY <1>2, <3>1, <3>2 DEF HookStep
  <2> QED BY <1>2, <1>a, <2>1, HookKeepsDraining DEF DrainInv, Draining
<1>3. ASSUME NEW w \in Worker, DrainStep(w) \/ DrainFault(w) \/ Restart(w)
      PROVE  DrainInv'
  <2>0. UNCHANGED hooks
    BY <1>3 DEF DrainStep, DrainFault, Restart, Recover, Forget, Claim, ReadClaimed,
       Clear, Process, Quarantine, ForgetFails, Defer, LeaveClaimed,
       ProcessUnderPressure, IndexRejects, WorkerKilled, Leave
  <2> USE <1>a, <2>0 DEF DrainInv, Draining, TypeOK, Goto, TickOver, hooks
  <2>1. CASE Recover(w)
    <3>1. \A v \in Worker : v # w => ~Draining(v)
      BY <2>1 DEF Recover
    <3>2. UNCHANGED <<queue, draining, names>> /\ Named(draining)' = Named(draining)
      BY <2>1 DEF Recover, files, Named
    <3> QED BY <2>1, <3>1, <3>2 DEF Recover
  <2>2. CASE Forget(w)
    BY <2>2 DEF Forget, Named
  <2>3. CASE Claim(w)
    BY <2>3 DEF Claim, Named
  <2>4. CASE ReadClaimed(w)
    <3>1. UNCHANGED <<queue, draining, names>> /\ Named(draining)' = Named(draining)
      BY <2>4 DEF ReadClaimed, files, Named
    <3> QED BY <2>4, <3>1 DEF ReadClaimed
  <2>5. CASE Clear(w)
    BY <2>5 DEF Clear, Named
  <2>6. CASE Process(w) \/ ProcessUnderPressure(w)
    <3>1. UNCHANGED <<queue, draining, names>> /\ Named(draining)' = Named(draining)
      BY <2>6 DEF Process, ProcessUnderPressure, files, Named
    <3> QED BY <2>6, <3>1 DEF Process, ProcessUnderPressure
  <2>7. CASE Quarantine(w)
    BY <2>7 DEF Quarantine
  <2>8. CASE ForgetFails(w) \/ Defer(w) \/ LeaveClaimed(w)
    <3>1. UNCHANGED <<queue, draining, names>> /\ Named(draining)' = Named(draining)
      BY <2>8 DEF ForgetFails, Defer, LeaveClaimed, files, Named
    <3> QED BY <2>8, <3>1 DEF ForgetFails, Defer, LeaveClaimed
  <2>9. CASE IndexRejects(w) \/ WorkerKilled(w) \/ Leave(w) \/ Restart(w)
    <3>1. UNCHANGED <<queue, draining, names>> /\ Named(draining)' = Named(draining)
      BY <2>9 DEF IndexRejects, WorkerKilled, Leave, Restart, files, Named
    <3> QED BY <2>9, <3>1 DEF IndexRejects, WorkerKilled, Leave, Restart, Dies
  <2> QED
    BY <1>3, <2>1, <2>2, <2>3, <2>4, <2>5, <2>6, <2>7, <2>8, <2>9
       DEF DrainStep, DrainFault
<1>4. ASSUME NEW w \in Worker, IndexStep(w)
      PROVE  DrainInv'
  <2>1. UNCHANGED <<files, hooks, wpc, lines>>
    BY <1>4 DEF IndexStep, ReindexActive, Walk, IndexDone
  <2> QED BY <1>a, <2>1 DEF files, hooks, DrainInv, Draining, Named
<1> QED BY <1>1, <1>2, <1>3, <1>4 DEF Next, IndexStep

-----------------------------------------------------------------------------
(* No edit is forgotten.                                                   *)

\* A step that lets nothing pending go keeps NothingLost.
LEMMA PendingKept ==
  ASSUME NothingLost, UNCHANGED <<version, indexed>>,
         \A p \in Proj : Pending(p) => Pending(p)'
  PROVE  NothingLost'
  BY DEF NothingLost, UpToDate

LEMMA NothingLostHook ==
  ASSUME TypeOK, NothingLost, queue \cap draining = {}, NEW h \in Hook,
         hpc[h] = "idle" => hproj[h] = {}, hpc[h] = "append" => fd[h] # {},
         hazards' = {},
         \/ HookStep(h) \/ HookFault(h) \/ \E p \in Proj : Edit(h, p)
  PROVE  NothingLost'
<1> USE DEF TypeOK
<1>0. UNCHANGED <<wpc, lines, awaiting, runs, indexed>> /\ Named(draining)' = Named(draining)
  BY HookKeepsDraining DEF started
<1>1. ASSUME NEW p \in Proj, Edit(h, p) PROVE NothingLost'
  <2>1. /\ p \in hproj'[h] /\ UNCHANGED files
        /\ \A g \in Hook : hproj[g] \subseteq hproj'[g]
        /\ \A q \in Proj : q # p => version'[q] = version[q]
    BY <1>1 DEF Edit
  <2>2. \A q \in Proj : q # p /\ Pending(q) => Pending(q)'
    BY <1>0, <2>1 DEF Pending, Named, files
  <2>3. Pending(p)'
    BY <2>1 DEF Pending
  <2> QED BY <1>0, <2>1, <2>2, <2>3 DEF NothingLost, UpToDate
<1>2. CASE CheckCap(h)
  <2>1. UNCHANGED <<hproj, files, version>>
    BY <1>2 DEF CheckCap
  <2> QED BY <1>0, <2>1, PendingKept DEF Pending, Named, files
<1>3. CASE Open(h)
  <2>1. UNCHANGED <<hproj, version>> /\ Named(queue \cup draining) \subseteq Named(queue \cup draining)'
    BY <1>3 DEF Open, Named, Free, files
  <2> QED BY <1>0, <2>1, PendingKept DEF Pending
<1>4. CASE AppendLine(h)
  <2>1. UNCHANGED <<queue, draining, version>> /\ fd[h] = queue
    BY <1>4 DEF AppendLine
  <2>2. \A i \in Inode : names[i] \subseteq names'[i] /\ (i \in queue => hproj[h] \subseteq names'[i])
    BY <1>4, <2>1 DEF AppendLine
  <2>3. queue # {}
    BY <1>4, <2>1 DEF AppendLine
  <2>4. hproj[h] \subseteq Named(queue \cup draining)'
    BY <2>1, <2>2, <2>3 DEF Named
  <2>5. Named(queue \cup draining) \subseteq Named(queue \cup draining)'
    BY <2>1, <2>2 DEF Named
  <2>6. \A g \in Hook : g # h => hproj'[g] = hproj[g]
    BY <1>4 DEF AppendLine, Returns
  <2> QED BY <1>0, <2>1, <2>4, <2>5, <2>6, PendingKept DEF Pending
<1>5. CASE HookFault(h)
  <2>1. UNCHANGED <<hproj, files, version>>
    BY <1>5 DEF HookFault, StatFails, AppendFails, HookKilled
  <2> QED BY <1>0, <2>1, PendingKept DEF Pending, Named, files
<1> QED BY <1>1, <1>2, <1>3, <1>4, <1>5 DEF HookStep

LEMMA NothingLostDrain ==
  ASSUME TypeOK, NothingLost, hazards = {}, DrainInv, NEW w \in Worker, hazards' = {},
         DrainStep(w) \/ DrainFault(w) \/ Restart(w)
  PROVE  NothingLost'
<1>0. UNCHANGED <<version, indexed, hooks, names>>
  BY DEF DrainStep, DrainFault, Restart, Recover, Forget, Claim, ReadClaimed,
     Clear, Process, Quarantine, ForgetFails, Defer, LeaveClaimed, files,
     ProcessUnderPressure, IndexRejects, WorkerKilled, Leave
<1>a. /\ ~Draining(w) => lines[w] = {}
      /\ wpc[w] = "claim" => draining = {}
      /\ wpc[w] = "forget" => lines[w] = Named(draining)
      /\ wpc[w] = "clear" => Named(draining) \subseteq lines[w]
  BY DEF DrainInv
<1>b. \A v \in Worker : v # w => /\ lines'[v] = lines[v] /\ awaiting'[v] = awaiting[v]
                                /\ runs'[v] = runs[v]
  BY DEF started, DrainStep, DrainFault, Restart, Recover, Forget, Claim, ReadClaimed,
     Clear, Process, Quarantine, ForgetFails, Defer, LeaveClaimed, TypeOK, Start,
     ProcessUnderPressure, IndexRejects, WorkerKilled, Leave, Dies
\* What p may be pending on and this worker may let go of.
<1> DEFINE Held(p) == p \in Named(queue \cup draining) \/ p \in lines[w] \cup awaiting[w]
                        \/ <<p, version[p]>> \in runs[w]
<1> SUFFICES ASSUME NEW p \in Proj, Held(p) PROVE Held(p)'
  <2>1. \A p \in Proj : Pending(p) => Pending(p)'
    BY <1>0, <1>b DEF Pending, hooks
  <2> QED BY <1>0, <2>1, PendingKept
<1> USE <1>0, <1>a DEF TypeOK, Goto, TickOver, Named, Draining, started
<1>1. CASE Recover(w)
  BY <1>1 DEF Recover, files
<1>2. CASE Forget(w)
  BY <1>2 DEF Forget
<1>3. CASE Claim(w)
  BY <1>3 DEF Claim
<1>4. CASE ReadClaimed(w)
  BY <1>4 DEF ReadClaimed, files
<1>5. CASE Clear(w)
  BY <1>5 DEF Clear
<1>6. CASE Process(w)
  BY <1>6 DEF Process, Start, files
<1>7. CASE Quarantine(w) \/ ProcessUnderPressure(w) \/ IndexRejects(w)
  BY <1>7 DEF Quarantine, ProcessUnderPressure, IndexRejects
<1>8. CASE ForgetFails(w)
  BY <1>8 DEF ForgetFails, files
<1>9. CASE Defer(w) \/ LeaveClaimed(w)
  BY <1>9 DEF Defer, LeaveClaimed, files
<1>10. CASE WorkerKilled(w) \/ Leave(w)
  <2>1. awaiting[w] = {} /\ runs[w] = {} /\ lines[w] \subseteq Named(draining)
    BY <1>10 DEF WorkerKilled, Leave, InNoFile, Indexing
  <2> QED BY <1>10, <2>1 DEF WorkerKilled, Leave, files
<1>11. CASE Restart(w)
  BY <1>11 DEF Restart, files
<1> QED
  BY <1>1, <1>2, <1>3, <1>4, <1>5, <1>6, <1>7, <1>8, <1>9, <1>10, <1>11
     DEF DrainStep, DrainFault

LEMMA NothingLostIndex ==
  ASSUME TypeOK, NothingLost, NEW w \in Worker, hazards' = {},
         IndexStep(w)
  PROVE  NothingLost'
<1>1. ASSUME NEW ps \in SUBSET Eligible, ReindexActive(w, ps) PROVE NothingLost'
  <2>1. UNCHANGED <<version, indexed, files, hooks, lines, runs>>
        /\ \A v \in Worker : awaiting[v] \subseteq awaiting'[v]
    BY <1>1 DEF ReindexActive, Start, TypeOK
  <2> QED BY <2>1, PendingKept DEF Pending, Named, files, hooks
<1>2. ASSUME NEW p \in Proj, NEW walked \in 1..MaxEdits, IndexDone(w, p, walked)
      PROVE  NothingLost'
  <2>1. PICK v \in walked..version[p] : indexed' = [indexed EXCEPT ![p] = v]
    BY <1>2 DEF IndexDone
  <2>2. UNCHANGED <<version, files, hooks, lines, awaiting>>
        /\ \A u \in Worker : \A r : r \in runs[u] => r \in runs'[u] \/ r = <<p, walked>>
    BY <1>2 DEF IndexDone, TypeOK
  <2>3. ~(walked < indexed[p])
    BY <1>2 DEF IndexDone
  <2>4. ASSUME NEW q \in Proj, q # p PROVE UpToDate(q)' \/ Pending(q)'
    BY <2>1, <2>2, <2>4 DEF NothingLost, UpToDate, Pending, Named, files, hooks, TypeOK
  <2>5. CASE walked = version[p]
    <3>1. UpToDate(p)'
      BY <2>1, <2>2, <2>5, BoundsAreNat DEF UpToDate, TypeOK
    <3> QED BY <2>4, <3>1 DEF NothingLost
  <2>6. CASE walked # version[p]
    <3>1. walked < version[p] /\ walked \in Nat
      BY <2>1, <2>6, BoundsAreNat DEF TypeOK
    <3>2. ~UpToDate(p)
      BY <2>3, <3>1 DEF UpToDate, TypeOK
    <3>3. Pending(p)'
      BY <2>2, <2>6, <3>2 DEF NothingLost, Pending, Named, files, hooks
    <3> QED BY <2>4, <3>3 DEF NothingLost
  <2> QED BY <2>5, <2>6
\* The run walks the tree as the last edit left it.
<1>3. ASSUME NEW p \in Proj, Walk(w, p) PROVE NothingLost'
  <2>1. UNCHANGED <<version, indexed, files, hooks, lines>>
        /\ \A u \in Worker : /\ runs[u] \subseteq runs'[u]
                            /\ \A q \in awaiting[u] : \/ q \in awaiting'[u]
                                                    \/ <<q, version[q]>> \in runs'[u]
    BY <1>3 DEF Walk, TypeOK
  <2> QED BY <2>1, PendingKept DEF Pending, Named, files, hooks
<1> QED BY <1>1, <1>2, <1>3 DEF IndexStep

LEMMA NothingLostNext ==
  ASSUME TypeOK, DrainInv, NoSilentLoss, [Next]_vars PROVE NoSilentLoss'
<1> SUFFICES ASSUME hazards' = {} PROVE NothingLost'
  BY DEF NoSilentLoss
<1>0. hazards = {} /\ NothingLost
  BY HazardsStay DEF NoSilentLoss
<1>1. CASE UNCHANGED vars
  BY <1>0, <1>1, PendingKept DEF Pending, Named, vars, files, hooks, workers, started
<1>2. ASSUME NEW h \in Hook, HookStep(h) \/ HookFault(h) \/ \E p \in Proj : Edit(h, p)
      PROVE  NothingLost'
  BY <1>0, <1>2, NothingLostHook DEF DrainInv
<1>3. ASSUME NEW w \in Worker, DrainStep(w) \/ DrainFault(w) \/ Restart(w)
      PROVE  NothingLost'
  BY <1>0, <1>3, NothingLostDrain
<1>4. ASSUME NEW w \in Worker, IndexStep(w)
      PROVE  NothingLost'
  BY <1>0, <1>4, NothingLostIndex
<1> QED BY <1>1, <1>2, <1>3, <1>4 DEF Next, IndexStep

LEMMA NothingLostInit == Init => NoSilentLoss
  BY DEF Init, NoSilentLoss, NothingLost, UpToDate

\* Hazard-free, one worker drains at a time and unlinks only what it has read
\* (worker.ts, drain_dirty_queue).
THEOREM DrainsAreSafe == Spec => []DrainInv
  BY TypeInit, TypeNext, DrainInvInit, DrainInvNext, PTL DEF Spec

\* Until a hazard no edit is forgotten: whatever the interleaving of appends,
\* drains, failed file calls and deaths, somebody still has to act on it
\* (worker.ts, enqueue_dirty, drain_dirty_queue, _process_dirty_entries).
THEOREM NothingForgotten == Spec => []NoSilentLoss
<1>1. Init => TypeOK /\ DrainInv /\ NoSilentLoss
  BY TypeInit, DrainInvInit, NothingLostInit
<1>2. TypeOK /\ DrainInv /\ NoSilentLoss /\ [Next]_vars
        => (TypeOK /\ DrainInv /\ NoSilentLoss)'
  BY TypeNext, DrainInvNext, NothingLostNext
<1> QED BY <1>1, <1>2, PTL DEF Spec

-----------------------------------------------------------------------------
(* The cap.                                                                *)

LEMMA PastCapIsFinite ==
  /\ IsFiniteSet(PastCap) /\ Cardinality(PastCap) \in Nat /\ Cardinality(Hook) \in Nat
  /\ Cardinality(PastCap) <= Cardinality(Hook)
  BY HooksAreFinite, FS_Subset, FS_CardinalityType DEF PastCap

\* What the queue would be if every hook past the look at its size had appended.
LEMMA BoundKept ==
  ASSUME TypeOK, TypeOK', QueueBounded, PastCap' \subseteq PastCap,
         faults' \in {faults, faults + 1},
         \A i \in queue' : i \in queue /\ size'[i] = size[i]
  PROVE  QueueBounded'
<1>1. Cardinality(PastCap') <= Cardinality(PastCap) /\ Cardinality(PastCap') \in Nat
  BY PastCapIsFinite, FS_Subset, FS_CardinalityType
<1>2. ASSUME NEW i \in queue'
      PROVE  size'[i] + Cardinality(PastCap') < Cap + Cardinality(Hook) + faults'
  BY <1>1, <1>2, PastCapIsFinite, BoundsAreNat DEF QueueBounded, TypeOK
<1> QED BY <1>2 DEF QueueBounded

LEMMA HooksKeepBound ==
  ASSUME TypeOK, TypeOK', QueueBounded, NEW h \in Hook,
         HookStep(h) \/ HookFault(h) \/ \E p \in Proj : Edit(h, p)
  PROVE  QueueBounded'
<1>0. /\ Cardinality(PastCap)' \in Nat /\ Cardinality(PastCap)' <= Cardinality(Hook)
  <2>1. PastCap' \subseteq Hook
    BY DEF PastCap
  <2> QED BY <2>1, HooksAreFinite, FS_Subset, FS_CardinalityType
<1>1. CASE (\E p \in Proj : Edit(h, p)) \/ AppendFails(h) \/ HookKilled(h)
  <2>1. PastCap' \subseteq PastCap /\ UNCHANGED <<queue, size>>
        /\ faults' \in {faults, faults + 1}
    BY <1>1 DEF PastCap, Edit, AppendFails, HookKilled, Returns, TypeOK, files
  <2> QED BY <2>1, BoundKept
<1>2. CASE CheckCap(h)
  <2>1. CASE AtCap
    <3>1. PastCap' \subseteq PastCap /\ UNCHANGED <<queue, size, faults>>
      BY <1>2, <2>1 DEF CheckCap, PastCap, Returns, TypeOK, files
    <3> QED BY <3>1, BoundKept
  <2>2. CASE ~AtCap
    <3>1. UNCHANGED <<queue, size, faults>> /\ \A i \in queue : size[i] < Cap /\ size[i] \in Nat
      BY <1>2, <2>2, BoundsAreNat DEF CheckCap, AtCap, TypeOK, files
    <3> QED BY <1>0, <3>1, PastCapIsFinite, BoundsAreNat DEF QueueBounded, TypeOK
  <2> QED BY <2>1, <2>2
<1>3. CASE Open(h)
  <2>1. PastCap' \subseteq PastCap /\ faults' = faults
    BY <1>3 DEF Open, PastCap, TypeOK
  <2>2. CASE queue # {}
    BY <1>3, <2>1, <2>2, BoundKept DEF Open, files
  <2>3. CASE queue = {}
    <3>1. \A i \in queue' : size'[i] = 0
      BY <1>3, <2>3 DEF Open, TypeOK
    <3> QED BY <1>0, <3>1, PastCapIsFinite, BoundsAreNat DEF QueueBounded, TypeOK
  <2> QED BY <2>2, <2>3
<1>4. CASE AppendLine(h)
  <2>1. PastCap' = PastCap \ {h} /\ h \in PastCap
    BY <1>4 DEF AppendLine, Returns, PastCap, TypeOK
  <2>2. Cardinality(PastCap') = Cardinality(PastCap) - 1
    BY <2>1, PastCapIsFinite, FS_RemoveElement
  <2>3. UNCHANGED <<queue, faults>> /\ \A i \in queue : size'[i] \in {size[i], size[i] + 1}
    BY <1>4 DEF AppendLine, TypeOK
  <2>4. ASSUME NEW i \in queue
        PROVE  size'[i] + Cardinality(PastCap') < Cap + Cardinality(Hook) + faults
    <3>1. /\ size[i] \in Nat /\ faults \in Nat
          /\ size[i] + Cardinality(PastCap) < Cap + Cardinality(Hook) + faults
      BY <2>4 DEF QueueBounded, TypeOK
    <3> QED BY <2>2, <2>3, <3>1, PastCapIsFinite, BoundsAreNat
  <2> QED BY <2>3, <2>4 DEF QueueBounded
\* One more hook past the look, and one more fault.
<1>5. CASE StatFails(h)
  <2>1. PastCap' = PastCap \cup {h} /\ h \notin PastCap
    BY <1>5 DEF StatFails, PastCap, TypeOK
  <2>2. Cardinality(PastCap') = Cardinality(PastCap) + 1
    BY <2>1, PastCapIsFinite, FS_AddElement
  <2>3. UNCHANGED <<queue, size>> /\ faults' = faults + 1
    BY <1>5 DEF StatFails, files
  <2> QED BY <2>2, <2>3, PastCapIsFinite, BoundsAreNat DEF QueueBounded, TypeOK
<1> QED BY <1>1, <1>2, <1>3, <1>4, <1>5 DEF HookStep, HookFault

\* dirty.txt outgrows its cap by less than a line per hook and fault, however many
\* hooks have read its size before the others appended (worker.ts, enqueue_dirty).
THEOREM QueueStaysBounded == Spec => []QueueBounded
<1>1. Init => QueueBounded
  BY DEF Init, QueueBounded
<1>2. TypeOK /\ TypeOK' /\ QueueBounded /\ [Next]_vars => QueueBounded'
  <2> SUFFICES ASSUME TypeOK, TypeOK', QueueBounded, [Next]_vars PROVE QueueBounded'
    OBVIOUS
  <2>1. ASSUME NEW h \in Hook, HookStep(h) \/ HookFault(h) \/ \E p \in Proj : Edit(h, p)
        PROVE  QueueBounded'
    BY <2>1, HooksKeepBound
  <2>2. ASSUME NEW w \in Worker,
               DrainStep(w) \/ DrainFault(w) \/ Restart(w) \/ IndexStep(w)
        PROVE  QueueBounded'
    <3>1. UNCHANGED <<hpc, size>> /\ queue' \subseteq queue
          /\ faults' \in {faults, faults + 1}
      BY <2>2 DEF TypeOK, IndexStep, Walk, DrainStep, DrainFault, Restart, Recover, Forget, Claim, ReadClaimed, Clear,
         Process, Quarantine, ForgetFails, Defer, LeaveClaimed, ProcessUnderPressure,
         IndexRejects, WorkerKilled, Leave, ReindexActive, IndexDone, files, hooks
    <3> QED BY <3>1, BoundKept DEF PastCap
  <2>3. CASE UNCHANGED vars
    BY <2>3, BoundKept DEF vars, files, hooks, PastCap
  <2> QED BY <2>1, <2>2, <2>3 DEF Next, IndexStep
<1> QED BY <1>1, <1>2, TypeCorrect, PTL DEF Spec
=============================================================================
