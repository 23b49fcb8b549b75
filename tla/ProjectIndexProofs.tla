------------------------- MODULE ProjectIndexProofs -------------------------
(***************************************************************************)
(* The project index for every set of files, runs and watchers, and every  *)
(* bound: types, one writer at a time, and rows that are what their mtime  *)
(* says.                                                                   *)
(***************************************************************************)
EXTENDS ProjectIndex, TLAPS

\* The editor's steps.
LEMMA FilesKeepTypes ==
  ASSUME TypeOK, NEW f \in File, Edit(f) \/ Delete(f)
  PROVE  TypeOK'
<1> USE BoundsAreNat
<1>0. disk \in [File -> OnDisk] /\ disk[f] \in OnDisk /\ 0 \in 0..MaxEdits
  BY DEF TypeOK
<1>1. disk' \in [File -> OnDisk] /\ hazards' \in SUBSET Hazard
  <2>0. hazards' \in SUBSET Hazard
    BY DEF Edit, Delete, TypeOK, Hazard
  <2>1. ASSUME NEW v \in {disk[f].version, disk[f].version + 1} \ {0, MaxEdits + 1},
               disk[f].tick < MaxEdits,
               disk' = [disk EXCEPT ![f] = [mtime |-> disk[f].tick + 1, version |-> v,
                                            tick |-> disk[f].tick + 1]]
        PROVE  disk' \in [File -> OnDisk]
    <3>1. disk[f].tick + 1 \in 0..MaxEdits /\ v \in 0..MaxEdits
      BY <1>0, <2>1 DEF OnDisk
    <3>2. [mtime |-> disk[f].tick + 1, version |-> v, tick |-> disk[f].tick + 1] \in OnDisk
      BY <3>1 DEF OnDisk
    <3> QED BY <1>0, <2>1, <3>2
  <2>2. CASE disk' = [disk EXCEPT ![f].version = disk[f].version + 1] /\ disk[f].version < MaxEdits
    <3>1. disk' = [disk EXCEPT ![f] = [disk[f] EXCEPT !.version = disk[f].version + 1]]
      BY <2>2
    <3>2. disk[f].version + 1 \in 0..MaxEdits
      BY <1>0, <2>2 DEF OnDisk
    <3>3. [disk[f] EXCEPT !.version = disk[f].version + 1] \in OnDisk
      BY <1>0, <3>2 DEF OnDisk
    <3> QED BY <1>0, <2>0, <3>1, <3>3
  <2>3. CASE disk' = [disk EXCEPT ![f].mtime = 0]
    <3>1. disk' = [disk EXCEPT ![f] = [disk[f] EXCEPT !.mtime = 0]]
      BY <2>3
    <3>2. [disk[f] EXCEPT !.mtime = 0] \in OnDisk
      BY <1>0 DEF OnDisk
    <3> QED BY <1>0, <2>0, <3>1, <3>2
  <2> QED BY <2>0, <2>1, <2>2, <2>3 DEF Edit, Delete
<1>2. UNCHANGED <<store, lockVars, pc, local, faults>>
  BY DEF Edit, Delete
<1> QED BY <1>1, <1>2 DEF TypeOK, Reading, store, lockVars, local

\* A process whose call is over has variables of their types.
LEMMA LeaveKeepsTypes ==
  ASSUME TypeOK, NEW p \in Process, Leave(p)
  PROVE  /\ pc' \in [Process -> Pc]
         /\ walk' \in [Process -> SUBSET File] /\ todo' \in [Process -> SUBSET File]
         /\ full' \in SUBSET Run /\ known' \in [Process -> [File -> Row]]
         /\ cur' \in [Process -> [file : File \cup {NoFile}, pre : 0..MaxEdits, version : 0..MaxEdits]]
         /\ \A q \in Process : Reading(q)' => cur'[q].file \in File
<1> USE BoundsAreNat DEF Leave, Goto, TypeOK
<1>1. pc' \in [Process -> Pc]
  BY DEF Pc
<1>2. NoRows \in [File -> Row] /\ NoCur \in [file : File \cup {NoFile}, pre : 0..MaxEdits, version : 0..MaxEdits]
  BY DEF NoRows, NoRow, NoCur, Row
<1>3. \A q \in Process : Reading(q)' => q # p /\ Reading(q) /\ cur'[q] = cur[q]
  BY DEF Reading
<1> QED BY <1>1, <1>2, <1>3

\* Steps of the writer lock, and deaths.
LEMMA LockKeepsTypes ==
  ASSUME TypeOK, NEW p \in Process, LockStep(p) \/ Die(p)
  PROVE  TypeOK'
<1> USE DEF store, lockVars
<1>1. CASE TryAcquire(p)
  BY <1>1 DEF TryAcquire, CreateLock, Goto, TypeOK, Reading, Pc, Held, local
<1>2. CASE EvictLock(p)
  BY <1>2 DEF EvictLock, UnlinkLock, Goto, TypeOK, Reading, Pc, Held, Hazard, local
<1>3. CASE RetryAcquire(p)
  BY <1>3 DEF RetryAcquire, CreateLock, Goto, TypeOK, Reading, Pc, Held, local
<1>4. CASE StampLock(p)
  BY <1>4 DEF StampLock, Goto, TypeOK, Reading, Pc, Held, local, Process
<1>5. CASE GiveUp(p)
  BY <1>5, LeaveKeepsTypes DEF GiveUp, TypeOK
<1>6. CASE Release(p)
  BY <1>6, LeaveKeepsTypes DEF Release, UnlinkLock, TypeOK, Hazard
<1>7. CASE Die(p)
  BY <1>7, LeaveKeepsTypes, BoundsAreNat DEF Die, TypeOK, Hazard
<1> QED BY <1>1, <1>2, <1>3, <1>4, <1>5, <1>6, <1>7 DEF LockStep

\* The content read has the type of a version, for the same file.
LEMMA ContentKeepsTypes ==
  ASSUME TypeOK, NEW p \in Process, Reading(p), NEW next, TakeContent(p, next)
  PROVE  /\ cur' \in [Process -> [file : File \cup {NoFile}, pre : 0..MaxEdits, version : 0..MaxEdits]]
         /\ \A q \in Process : cur'[q].file = cur[q].file
<1>1. cur' = [cur EXCEPT ![p] = [cur[p] EXCEPT !.version = disk[cur[p].file].version]]
  BY DEF TakeContent
<1>2. disk[cur[p].file].version \in 0..MaxEdits
  BY DEF TypeOK, OnDisk
<1>3. [cur[p] EXCEPT !.version = disk[cur[p].file].version]
        \in [file : File \cup {NoFile}, pre : 0..MaxEdits, version : 0..MaxEdits]
  BY <1>2 DEF TypeOK
<1> QED BY <1>1, <1>3 DEF TypeOK

\* Steps of an index run.
LEMMA RunKeepsTypes ==
  ASSUME TypeOK, NEW r \in Run, RunStep(r) \/ Fail(r)
  PROVE  TypeOK'
<1> USE RunsAreNotWatchers DEF store, lockVars
<1>0. r \in Process /\ r \notin Watcher
  BY DEF Process
<1>1. CASE Walk(r)
  BY <1>0, <1>1 DEF Walk, Goto, TypeOK, Reading, Pc, Held
<1>2. CASE Load(r)
  <2>1. NoRows \in [File -> Row]
    BY BoundsAreNat DEF NoRows, NoRow, Row
  <2> QED BY <1>0, <1>2, <2>1 DEF Load, Goto, TypeOK, Reading, Pc, Held
<1>3. CASE Visit(r)
  <2>1. PICK f \in todo[r] :
          /\ todo' = [todo EXCEPT ![r] = @ \ {f}]
          /\ \/ UNCHANGED <<pc, cur>>
             \/ /\ cur' = [cur EXCEPT ![r] = [file |-> f, pre |-> disk[f].mtime, version |-> 0]]
                /\ Goto(r, "read")
    BY <1>3 DEF Visit
  <2>2. f \in File /\ disk[f].mtime \in 0..MaxEdits /\ 0 \in 0..MaxEdits
    BY <1>0, BoundsAreNat DEF TypeOK, OnDisk
  <2>3. CASE UNCHANGED <<pc, cur>>
    BY <1>0, <1>3, <2>1, <2>3 DEF Visit, TypeOK, Reading
  <2>4. CASE cur' = [cur EXCEPT ![r] = [file |-> f, pre |-> disk[f].mtime, version |-> 0]] /\ Goto(r, "read")
    BY <1>0, <1>3, <2>1, <2>2, <2>4 DEF Visit, Goto, TypeOK, Reading, Pc, Held
  <2> QED BY <2>1, <2>3, <2>4
<1>4. CASE VisitedAll(r)
  BY <1>0, <1>4 DEF VisitedAll, Goto, TypeOK, Reading, Pc, Held, local
<1>5. CASE Read(r)
  <2>1. cur[r].file \in File /\ disk[cur[r].file].version \in 0..MaxEdits
    BY <1>0, <1>5 DEF Read, TypeOK, Reading, OnDisk
  <2>2. NoCur \in [file : File \cup {NoFile}, pre : 0..MaxEdits, version : 0..MaxEdits]
    BY BoundsAreNat DEF NoCur
  <2>3. CASE TakeContent(r, "check")
    BY <1>0, <1>5, <2>1, <2>3, ContentKeepsTypes
       DEF Read, TakeContent, Goto, TypeOK, Reading, Pc, Held, Hazard
  <2>4. CASE cur' = [cur EXCEPT ![r] = NoCur] /\ Goto(r, "visit") /\ UNCHANGED hazards
    BY <1>0, <1>5, <2>2, <2>4 DEF Read, Goto, TypeOK, Reading, Pc, Held
  <2> QED BY <1>5, <2>3, <2>4 DEF Read
<1>6. CASE Check(r)
  <2>1. cur[r].file \in File /\ Fresh(r) \in Row
    BY <1>0, <1>6 DEF Check, TypeOK, Reading, Fresh, Row, OnDisk
  <2>2. NoCur \in [file : File \cup {NoFile}, pre : 0..MaxEdits, version : 0..MaxEdits]
    BY BoundsAreNat DEF NoCur
  <2>3. rows' \in [File -> Row]
    BY <1>6, <2>1 DEF Check, TypeOK
  <2> QED BY <1>0, <1>6, <2>2, <2>3 DEF Check, Goto, TypeOK, Reading, Pc, Held
<1>7. CASE Prune(r)
  <2>1. rows' \in [File -> Row]
    BY <1>7, BoundsAreNat DEF Prune, TypeOK, NoRow, Row
  <2> QED BY <1>0, <1>7, <2>1 DEF Prune, Goto, TypeOK, Reading, Pc, Held, local
<1>8. CASE ClearGlobal(r)
  BY <1>0, <1>8, BoundsAreNat DEF ClearGlobal, Goto, TypeOK, Reading, Pc, Held, local
<1>9. CASE CopyGlobal(r)
  BY <1>0, <1>9 DEF CopyGlobal, Goto, TypeOK, Reading, Pc, Held, local, Row
<1>10. CASE Fail(r)
  BY <1>0, <1>10, BoundsAreNat DEF Fail, Goto, TypeOK, Reading, Pc, Held, local, Hazard
<1> QED BY <1>1, <1>2, <1>3, <1>4, <1>5, <1>6, <1>7, <1>8, <1>9, <1>10 DEF RunStep

\* Steps of a watcher.
LEMMA WatchKeepsTypes ==
  ASSUME TypeOK, NEW w \in Watcher, WatchStep(w)
  PROVE  TypeOK'
<1> USE DEF store, lockVars
<1>0. w \in Process
  BY DEF Process
<1>1. CASE Look(w)
  <2>1. PICK f \in File :
          cur' = [cur EXCEPT ![w] = [file |-> f, pre |-> disk[f].mtime, version |-> 0]]
    BY <1>1 DEF Look
  <2>2. disk[f].mtime \in 0..MaxEdits /\ 0 \in 0..MaxEdits
    BY BoundsAreNat DEF TypeOK, OnDisk
  <2> QED BY <1>0, <1>1, <2>1, <2>2 DEF Look, Goto, TypeOK, Reading, Pc, Held
<1>2. CASE Take(w)
  <2>1. cur[w].file \in File /\ disk[cur[w].file].version \in 0..MaxEdits
    BY <1>0, <1>2 DEF Take, TypeOK, Reading, OnDisk
  <2>2. CASE TakeContent(w, "confirm") /\ UNCHANGED <<walk, full, known, todo>>
    BY <1>0, <1>2, <2>1, <2>2, ContentKeepsTypes
       DEF Take, TakeContent, Goto, TypeOK, Reading, Pc, Held, Hazard
  <2>3. CASE Leave(w) /\ UNCHANGED hazards
    BY <1>0, <1>2, <2>3, LeaveKeepsTypes DEF Take, TypeOK
  <2> QED BY <1>2, <2>2, <2>3 DEF Take
<1>3. CASE Confirm(w)
  <2>1. cur[w].file \in File /\ disk[cur[w].file].mtime \in 0..MaxEdits
    BY <1>0, <1>3 DEF Confirm, TypeOK, Reading, OnDisk
  <2>2. CASE Unmoved(w)
    <3>1. cur' = [cur EXCEPT ![w] = [cur[w] EXCEPT !.pre = disk[cur[w].file].mtime]]
      BY <1>3, <2>2 DEF Confirm
    <3>2. [cur[w] EXCEPT !.pre = disk[cur[w].file].mtime]
            \in [file : File \cup {NoFile}, pre : 0..MaxEdits, version : 0..MaxEdits]
      BY <1>0, <2>1 DEF TypeOK
    <3>3. \A q \in Process : cur'[q].file = cur[q].file
      BY <1>0, <3>1 DEF TypeOK
    <3> QED BY <1>0, <1>3, <2>1, <2>2, <3>1, <3>2, <3>3 DEF Confirm, Goto, TypeOK, Reading, Pc, Held
  <2>3. CASE ~Unmoved(w)
    BY <1>0, <1>3, <2>3, LeaveKeepsTypes DEF Confirm, TypeOK
  <2> QED BY <2>2, <2>3
<1>4. CASE Put(w)
  <2>1. rows' \in [File -> Row]
    BY <1>0, <1>4 DEF Put, TypeOK, Reading, Row
  <2> QED BY <1>0, <1>4, <2>1 DEF Put, Goto, TypeOK, Reading, Pc, Held, local, Hazard
<1> QED BY <1>1, <1>2, <1>3, <1>4 DEF WatchStep

\* Every variable keeps its type, and the lock file has at most one owner
\* (db.ts, projectWriterLock; parser.ts, index_project).
THEOREM TypeCorrect == Spec => []TypeOK
<1> USE BoundsAreNat DEF Row
<1>1. Init => TypeOK
  <2> SUFFICES ASSUME Init PROVE TypeOK
    OBVIOUS
  <2> USE DEF Init, NoRow, NoRows, NoCur, Pc, Held
  <2>1. 0 \in 0..MaxEdits /\ 1 \in 0..MaxEdits
    OBVIOUS
  <2>2. rows \in [File -> Row] /\ global \in [File -> 0..MaxEdits]
    BY <2>1
  <2>3. disk \in [File -> OnDisk]
    BY <2>1 DEF OnDisk
  <2>4. pc \in [Process -> Pc] /\ \A p \in Process : ~Reading(p)
    BY DEF Reading
  <2>5. /\ known \in [Process -> [File -> Row]]
        /\ cur \in [Process -> [file : File \cup {NoFile}, pre : 0..MaxEdits, version : 0..MaxEdits]]
    BY <2>1
  <2>6. walk \in [Process -> SUBSET File] /\ todo \in [Process -> SUBSET File]
    OBVIOUS
  <2>7. faults \in 0..MaxFaults /\ hazards \in SUBSET Hazard
    OBVIOUS
  <2> QED BY <2>2, <2>3, <2>4, <2>5, <2>6, <2>7 DEF TypeOK
<1>2. TypeOK /\ [Next]_vars => TypeOK'
  <2> SUFFICES ASSUME TypeOK, [Next]_vars PROVE TypeOK'
    OBVIOUS
  <2>1. ASSUME NEW f \in File, Edit(f) \/ Delete(f) PROVE TypeOK'
    BY <2>1, FilesKeepTypes
  <2>2. ASSUME NEW p \in Process, LockStep(p) \/ Die(p) PROVE TypeOK'
    BY <2>2, LockKeepsTypes
  <2>3. ASSUME NEW r \in Run, RunStep(r) \/ Fail(r) PROVE TypeOK'
    BY <2>3, RunKeepsTypes
  <2>4. ASSUME NEW w \in Watcher, WatchStep(w) PROVE TypeOK'
    BY <2>4, WatchKeepsTypes
  <2>5. CASE LockAges \/ UNCHANGED vars
    BY <2>5 DEF LockAges, TypeOK, Reading, vars, store, lockVars, local
  <2> QED BY <2>1, <2>2, <2>3, <2>4, <2>5 DEF Next
<1> QED BY <1>1, <1>2, PTL DEF Spec

-----------------------------------------------------------------------------
\* Until the lock of a live process is unlinked, the lock file names whoever is in
\* the lock (db.ts, projectWriterLock).
THEOREM LockFileNamesOwner == Spec => []LockInv
<1> USE DEF InLock, Held
<1>1. Init => LockInv
  BY DEF Init, LockInv
<1>2. TypeOK /\ LockInv /\ [Next]_vars => LockInv'
  <2> SUFFICES ASSUME TypeOK, LockInv, [Next]_vars, "evicted" \notin hazards'
               PROVE  \A q \in Process : InLock(q)' => lock' = {q}
    BY DEF LockInv
  <2>0. pc \in [Process -> Pc]
    BY DEF TypeOK
  <2>1. ASSUME NEW f \in File, Edit(f) \/ Delete(f)
        PROVE  \A q \in Process : InLock(q)' => lock' = {q}
    BY <2>1 DEF Edit, Delete, LockInv, lockVars
  <2>2. ASSUME NEW p \in Process, LockStep(p) \/ Die(p)
        PROVE  \A q \in Process : InLock(q)' => lock' = {q}
    <3> USE <2>0 DEF Goto, lockVars
    <3>1. CASE TryAcquire(p) BY <3>1 DEF TryAcquire, CreateLock, LockInv
    <3>2. CASE EvictLock(p) BY <3>2 DEF EvictLock, UnlinkLock, LockInv
    <3>3. CASE RetryAcquire(p) BY <3>3 DEF RetryAcquire, CreateLock, LockInv
    <3>4. CASE StampLock(p) BY <3>4 DEF StampLock, LockInv
    <3>5. CASE GiveUp(p) BY <3>5 DEF GiveUp, Leave, LockInv
    <3>6. CASE Release(p)
      <4>1. "evicted" \notin hazards
        BY <3>6 DEF Release
      <4>2. \A q \in Process : InLock(q) => lock = {q}
        BY <4>1 DEF LockInv
      <4>3. \A q \in Process : InLock(q)' => InLock(q) /\ q # p
        BY <3>6 DEF Release, Leave
      <4>4. InLock(p)
        BY <3>6 DEF Release
      <4> QED BY <4>2, <4>3, <4>4
    <3>7. CASE Die(p) BY <3>7 DEF Die, Leave, LockInv
    <3> QED BY <2>2, <3>1, <3>2, <3>3, <3>4, <3>5, <3>6, <3>7 DEF LockStep
  <2>3. ASSUME NEW r \in Run, RunStep(r) \/ Fail(r)
        PROVE  \A q \in Process : InLock(q)' => lock' = {q}
    <3>0. r \in Process
      BY DEF Process
    <3>1. lock' = lock /\ ("evicted" \notin hazards)
      BY <2>3 DEF RunStep, Walk, Load, Visit, VisitedAll, Read, TakeContent, Check, Prune,
                  ClearGlobal, CopyGlobal, Fail, lockVars
    <3>2. \A q \in Process : InLock(q)' => InLock(q)
      BY <2>0, <2>3, <3>0 DEF RunStep, Walk, Load, Visit, VisitedAll, Read, TakeContent, Check,
                              Prune, ClearGlobal, CopyGlobal, Fail, Goto
    <3> QED BY <3>1, <3>2 DEF LockInv
  <2>4. ASSUME NEW w \in Watcher, WatchStep(w)
        PROVE  \A q \in Process : InLock(q)' => lock' = {q}
    <3>0. w \in Process
      BY DEF Process
    <3>1. lock' = lock /\ ("evicted" \notin hazards)
      BY <2>4 DEF WatchStep, Look, Take, TakeContent, Confirm, Put, lockVars
    <3>2. \A q \in Process : InLock(q)' => InLock(q)
      BY <2>0, <2>4, <3>0 DEF WatchStep, Look, Take, TakeContent, Confirm, Put, Goto, Leave
    <3> QED BY <3>1, <3>2 DEF LockInv
  <2>5. CASE LockAges \/ UNCHANGED vars
    BY <2>5 DEF LockAges, LockInv, vars, lockVars
  <2> QED BY <2>1, <2>2, <2>3, <2>4, <2>5 DEF Next
<1> QED BY <1>1, <1>2, TypeCorrect, PTL DEF Spec

\* At most one process writes the index (db.ts, projectWriterLock).
THEOREM OneProcessWrites == Spec => []OneWriter
<1>1. LockInv => OneWriter
  BY DEF LockInv, OneWriter
<1> QED BY <1>1, LockFileNamesOwner, PTL

-----------------------------------------------------------------------------
\* A clean history was always clean: hazards only grow.
LEMMA CleanBefore ==
  ASSUME [Next]_vars, Clean'
  PROVE  Clean
<1> USE DEF Clean
<1>1. ASSUME NEW f \in File, Edit(f) \/ Delete(f) PROVE Clean
  BY <1>1 DEF Edit, Delete
<1>2. ASSUME NEW p \in Process, LockStep(p) \/ Die(p) PROVE Clean
  BY <1>2 DEF LockStep, TryAcquire, EvictLock, RetryAcquire, StampLock, GiveUp, Release, Die
<1>3. ASSUME NEW r \in Run, RunStep(r) \/ Fail(r) PROVE Clean
  BY <1>3 DEF RunStep, Walk, Load, Visit, VisitedAll, Read, TakeContent, Check, Prune,
              ClearGlobal, CopyGlobal, Fail
<1>4. ASSUME NEW w \in Watcher, WatchStep(w) PROVE Clean
  BY <1>4 DEF WatchStep, Look, Take, TakeContent, Confirm, Put
<1>5. CASE LockAges \/ UNCHANGED vars
  BY <1>5 DEF LockAges, vars
<1> QED BY <1>1, <1>2, <1>3, <1>4, <1>5 DEF Next

\* Edits come with a later mtime, so what was seen at an mtime stays so.
LEMMA FilesKeepTruth ==
  ASSUME TypeOK, FilesTrue, \A p \in Process : ReadTrue(p), Clean', NEW f \in File,
         Edit(f) \/ Delete(f)
  PROVE  FilesTrue' /\ \A p \in Process : ReadTrue(p)'
<1>0. disk \in [File -> OnDisk] /\ disk' \in [File -> OnDisk]
  BY FilesKeepTypes DEF TypeOK
<1>1. \A g \in File : /\ disk'[g].mtime \in {0, disk'[g].tick}
                      /\ disk[g].tick <= disk'[g].tick
                      /\ disk'[g].tick = disk[g].tick => disk'[g].version = disk[g].version
  <2>0. \A g \in File : /\ disk[g].tick \in Nat
                        /\ disk[g].mtime \in {0, disk[g].tick}
    BY <1>0, BoundsAreNat DEF OnDisk, FilesTrue
  <2>1. CASE Edit(f)
    <3>1. PICK v : disk' = [disk EXCEPT ![f] = [mtime |-> disk[f].tick + 1, version |-> v,
                                                tick |-> disk[f].tick + 1]]
      BY <2>1 DEF Edit, Clean
    <3>2. /\ disk'[f].mtime = disk[f].tick + 1 /\ disk'[f].tick = disk[f].tick + 1
          /\ \A g \in File \ {f} : disk'[g] = disk[g]
      BY <1>0, <3>1
    <3> QED BY <2>0, <3>2
  <2>2. CASE Delete(f)
    <3>1. disk' = [disk EXCEPT ![f] = [disk[f] EXCEPT !.mtime = 0]]
      BY <2>2 DEF Delete
    <3>2. /\ disk'[f].mtime = 0 /\ disk'[f].tick = disk[f].tick
          /\ disk'[f].version = disk[f].version
          /\ \A g \in File \ {f} : disk'[g] = disk[g]
      BY <1>0, <3>1 DEF OnDisk
    <3> QED BY <2>0, <3>2
  <2> QED BY <2>1, <2>2
<1>2. ASSUME NEW n \in 0..MaxEdits, NEW v, NEW g \in File, SeenAt(n, v, g)
      PROVE  SeenAt(n, v, g)'
  <2>1. disk[g].tick \in Nat /\ disk'[g].tick \in Nat /\ n \in Nat
    BY <1>0, BoundsAreNat DEF OnDisk
  <2> QED BY <1>1, <1>2, <2>1 DEF SeenAt
<1>3. UNCHANGED <<rows, pc, cur>>
  BY DEF Edit, Delete, store, local
<1>4. FilesTrue'
  <2>1. \A g \in File : rows[g].mtime \in 0..MaxEdits
    BY DEF TypeOK, Row
  <2> QED BY <1>1, <1>2, <1>3, <2>1 DEF FilesTrue
<1>5. ASSUME NEW p \in Process, Reading(p) PROVE ReadTrue(p)'
  <2>1. cur[p].file \in File /\ cur[p].pre \in 0..MaxEdits
    BY <1>5 DEF TypeOK
  <2>2. CASE pc[p] \in {"read", "take"}
    <3>1. disk[cur[p].file].tick \in Nat /\ disk'[cur[p].file].tick \in Nat /\ cur[p].pre \in Nat
      BY <1>0, <2>1, BoundsAreNat DEF OnDisk
    <3>2. cur[p].pre <= disk'[cur[p].file].tick
      BY <1>1, <1>5, <2>1, <2>2, <3>1 DEF ReadTrue
    <3> QED BY <1>3, <2>2, <3>2 DEF ReadTrue
  <2>3. CASE pc[p] \notin {"read", "take"}
    <3>1. SeenAt(cur[p].pre, cur[p].version, cur[p].file)'
      BY <1>2, <1>3, <1>5, <2>1, <2>3 DEF ReadTrue
    <3> QED BY <1>3, <2>3, <3>1 DEF ReadTrue
  <2> QED BY <2>2, <2>3
<1>6. ASSUME NEW p \in Process, ~Reading(p) PROVE ReadTrue(p)'
  BY <1>3, <1>6 DEF ReadTrue, Reading
<1> QED BY <1>4, <1>5, <1>6

\* Nobody reads or writes: who leaves has nothing left to be true of.
LEMMA LockKeepsTruth ==
  ASSUME TypeOK, FilesTrue, \A q \in Process : ReadTrue(q), NEW p \in Process,
         LockStep(p) \/ Die(p)
  PROVE  FilesTrue' /\ \A q \in Process : ReadTrue(q)'
<1>0. pc \in [Process -> Pc] /\ Run \cap Watcher = {}
  BY RunsAreNotWatchers DEF TypeOK
<1>1. UNCHANGED <<disk, rows>>
  BY DEF LockStep, TryAcquire, EvictLock, RetryAcquire, StampLock, GiveUp, Release, Die, store
<1>2. ASSUME NEW q \in Process, q # p PROVE pc'[q] = pc[q] /\ cur'[q] = cur[q]
  BY <1>0, <1>2 DEF LockStep, TryAcquire, CreateLock, EvictLock, RetryAcquire, StampLock, GiveUp,
                    Release, Die, Goto, Leave, local, TypeOK
<1>3. ASSUME NEW q \in Process, q # p PROVE ReadTrue(q)'
  BY <1>1, <1>2, <1>3 DEF ReadTrue, Reading, SeenAt
<1>4. ReadTrue(p)'
  <2>1. \/ pc'[p] = "idle"
        \/ /\ pc[p] \in {"wait", "evict", "again", "stamp"} /\ cur' = cur
           /\ \/ pc'[p] \in {"wait", "evict", "again", "stamp", "load"}
              \/ pc'[p] = "put" /\ p \in Watcher
    BY <1>0 DEF LockStep, TryAcquire, CreateLock, EvictLock, RetryAcquire, StampLock, GiveUp,
                Release, Die, Goto, Leave, local, Process
  <2>2. CASE Reading(p)'
    <3>1. p \in Watcher /\ pc[p] \in {"wait", "evict", "again", "stamp"} /\ cur' = cur
      BY <2>1, <2>2 DEF Reading
    <3> QED BY <1>1, <2>1, <3>1 DEF ReadTrue, Reading, SeenAt
  <2>3. CASE ~Reading(p)'
    BY <2>3 DEF ReadTrue
  <2> QED BY <2>2, <2>3
<1> QED BY <1>1, <1>3, <1>4 DEF FilesTrue, SeenAt

\* The content that is read is the one at the mtime seen before, or a later mtime has come.
LEMMA ContentIsTrue ==
  ASSUME TypeOK, NEW p \in Process, pc[p] \in {"read", "take"}, ReadTrue(p), Clean',
         NEW next, next \in {"check", "confirm"}, TakeContent(p, next), disk' = disk
  PROVE  ReadTrue(p)'
<1>0. /\ cur \in [Process -> [file : File \cup {NoFile}, pre : 0..MaxEdits, version : 0..MaxEdits]]
      /\ pc \in [Process -> Pc]
  BY DEF TypeOK
<1>1. cur' = [cur EXCEPT ![p] = [cur[p] EXCEPT !.version = disk[cur[p].file].version]]
  BY DEF TakeContent
<1>2. /\ cur'[p].file = cur[p].file /\ cur'[p].pre = cur[p].pre
      /\ cur'[p].version = disk[cur[p].file].version
  BY <1>0, <1>1
<1>3. 0 < cur[p].pre
  <2>1. cur[p].pre \in 0..MaxEdits
    BY <1>0
  <2>2. cur[p].pre # 0
    BY DEF TakeContent, Clean
  <2> QED BY <2>1, <2>2, BoundsAreNat
<1>4. cur[p].pre <= disk[cur[p].file].tick
  BY DEF ReadTrue, Reading
<1>5. pc'[p] = next
  BY <1>0 DEF TakeContent, Goto
<1> QED BY <1>2, <1>3, <1>4, <1>5 DEF ReadTrue, SeenAt

\* The first look at a file sees no mtime later than its last.
LEMMA LookIsTrue ==
  ASSUME TypeOK, FilesTrue, NEW f \in File
  PROVE  disk[f].mtime <= disk[f].tick
<1>1. disk[f].tick \in Nat
  BY BoundsAreNat DEF TypeOK, OnDisk
<1>2. disk[f].mtime \in {0, disk[f].tick}
  BY DEF FilesTrue
<1> QED BY <1>1, <1>2

\* A row is written only when no edit came between the two looks at the file.
LEMMA RunKeepsTruth ==
  ASSUME TypeOK, FilesTrue, \A q \in Process : ReadTrue(q), Clean', NEW r \in Run,
         RunStep(r) \/ Fail(r)
  PROVE  FilesTrue' /\ \A q \in Process : ReadTrue(q)'
<1>0. /\ r \in Process /\ r \notin Watcher
      /\ pc \in [Process -> Pc] /\ cur \in [Process -> [file : File \cup {NoFile},
                                              pre : 0..MaxEdits, version : 0..MaxEdits]]
  BY RunsAreNotWatchers DEF TypeOK, Process
<1>1. disk' = disk
  BY DEF RunStep, Walk, Load, Visit, VisitedAll, Read, Check, Prune, ClearGlobal, CopyGlobal, Fail
<1>2. ASSUME NEW q \in Process, q # r PROVE ReadTrue(q)'
  <2>1. pc'[q] = pc[q] /\ cur'[q] = cur[q]
    BY <1>0, <1>2 DEF RunStep, Walk, Load, Visit, VisitedAll, Read, TakeContent, Check, Prune,
                      ClearGlobal, CopyGlobal, Fail, Goto, local
  <2> QED BY <1>1, <2>1 DEF ReadTrue, Reading, SeenAt
<1>3. CASE Check(r)
  <2> DEFINE f == cur[r].file
  <2>1. f \in File
    BY <1>0, <1>3 DEF Check, TypeOK, Reading
  <2>2. SeenAt(cur[r].pre, cur[r].version, f)
    BY <1>0, <1>3 DEF Check, ReadTrue, Reading
  <2>3. rows' = rows \/ (Unmoved(r) /\ rows' = [rows EXCEPT ![f] = Fresh(r)])
    BY <1>3 DEF Check
  <2>4. Unmoved(r) => SeenAt(Fresh(r).mtime, Fresh(r).version, f)
    BY <1>0, <2>2 DEF Unmoved, Fresh, SeenAt
  <2>5. FilesTrue'
    BY <1>1, <2>3, <2>4 DEF FilesTrue, SeenAt, TypeOK
  <2>6. ReadTrue(r)'
    BY <1>0, <1>3 DEF Check, Goto, ReadTrue, Reading
  <2> QED BY <1>2, <2>5, <2>6
<1>4. CASE Prune(r)
  <2>1. \A g \in File : rows'[g] \in {NoRow, rows[g]}
    BY <1>4 DEF Prune
  <2>2. ReadTrue(r)'
    BY <1>0, <1>4 DEF Prune, Goto, ReadTrue, Reading
  <2> QED BY <1>1, <1>2, <2>1, <2>2 DEF FilesTrue, SeenAt
<1>5. CASE Read(r)
  <2>1. CASE TakeContent(r, "check")
    <3>1. ReadTrue(r)'
      BY <1>0, <1>1, <1>5, <2>1, ContentIsTrue DEF Read
    <3> QED BY <1>1, <1>2, <1>5, <3>1 DEF Read, store, FilesTrue, SeenAt
  <2>2. CASE Goto(r, "visit")
    BY <1>0, <1>1, <1>2, <1>5, <2>2 DEF Read, store, Goto, ReadTrue, Reading, FilesTrue, SeenAt
  <2> QED BY <1>5, <2>1, <2>2 DEF Read
<1>6. CASE Visit(r)
  <2>1. PICK f \in todo[r] :
          \/ UNCHANGED <<pc, cur>>
          \/ /\ cur' = [cur EXCEPT ![r] = [file |-> f, pre |-> disk[f].mtime, version |-> 0]]
             /\ Goto(r, "read")
    BY <1>6 DEF Visit
  <2>2. f \in File
    BY <1>0 DEF TypeOK
  <2>3. disk[f].mtime <= disk[f].tick
    BY <2>2, LookIsTrue
  <2>4. CASE UNCHANGED <<pc, cur>>
    BY <1>0, <1>1, <1>2, <1>6, <2>4 DEF Visit, store, ReadTrue, Reading, FilesTrue, SeenAt
  <2>5. CASE /\ cur' = [cur EXCEPT ![r] = [file |-> f, pre |-> disk[f].mtime, version |-> 0]]
             /\ Goto(r, "read")
    <3>1. ReadTrue(r)'
      BY <1>0, <1>1, <2>3, <2>5 DEF Goto, ReadTrue
    <3> QED BY <1>1, <1>2, <1>6, <3>1 DEF Visit, store, FilesTrue, SeenAt
  <2> QED BY <2>1, <2>4, <2>5
<1>7. CASE \/ Walk(r) \/ Load(r) \/ VisitedAll(r) \/ ClearGlobal(r) \/ CopyGlobal(r) \/ Fail(r)
  <2>1. rows' = rows /\ pc'[r] \notin {"read", "take", "check", "confirm"}
    BY <1>0, <1>7 DEF Walk, Load, VisitedAll, ClearGlobal, CopyGlobal, Fail, Goto, store
  <2> QED BY <1>0, <1>1, <1>2, <2>1 DEF ReadTrue, Reading, FilesTrue, SeenAt
<1> QED BY <1>3, <1>4, <1>5, <1>6, <1>7 DEF RunStep

\* The watcher's row, too, is of the content at its mtime, however late it comes.
LEMMA WatchKeepsTruth ==
  ASSUME TypeOK, FilesTrue, \A q \in Process : ReadTrue(q), Clean', NEW w \in Watcher,
         WatchStep(w)
  PROVE  FilesTrue' /\ \A q \in Process : ReadTrue(q)'
<1>0. /\ w \in Process
      /\ pc \in [Process -> Pc] /\ cur \in [Process -> [file : File \cup {NoFile},
                                              pre : 0..MaxEdits, version : 0..MaxEdits]]
  BY DEF TypeOK, Process
<1>1. disk' = disk
  BY DEF WatchStep, Look, Take, Confirm, Put
<1>2. ASSUME NEW q \in Process, q # w PROVE ReadTrue(q)'
  <2>1. pc'[q] = pc[q] /\ cur'[q] = cur[q]
    BY <1>0, <1>2 DEF WatchStep, Look, Take, TakeContent, Confirm, Put, Goto, Leave, local
  <2> QED BY <1>1, <2>1 DEF ReadTrue, Reading, SeenAt
<1>3. CASE Look(w)
  <2>1. PICK f \in File :
          cur' = [cur EXCEPT ![w] = [file |-> f, pre |-> disk[f].mtime, version |-> 0]]
    BY <1>3 DEF Look
  <2>2. disk[f].mtime <= disk[f].tick
    BY LookIsTrue
  <2>3. ReadTrue(w)'
    BY <1>0, <1>1, <1>3, <2>1, <2>2 DEF Look, Goto, ReadTrue
  <2> QED BY <1>1, <1>2, <1>3, <2>3 DEF Look, store, FilesTrue, SeenAt
<1>4. CASE Take(w)
  <2>1. CASE TakeContent(w, "confirm")
    <3>1. ReadTrue(w)'
      BY <1>0, <1>1, <1>4, <2>1, ContentIsTrue DEF Take
    <3> QED BY <1>1, <1>2, <1>4, <3>1 DEF Take, store, FilesTrue, SeenAt
  <2>2. CASE Leave(w)
    BY <1>0, <1>1, <1>2, <1>4, <2>2
       DEF Take, store, Leave, Goto, ReadTrue, Reading, FilesTrue, SeenAt
  <2> QED BY <1>4, <2>1, <2>2 DEF Take
<1>5. CASE Confirm(w)
  <2>1. CASE Unmoved(w)
    <3>1. SeenAt(cur[w].pre, cur[w].version, cur[w].file)
      BY <1>0, <1>5 DEF Confirm, ReadTrue, Reading
    <3>2. cur[w].pre = disk[cur[w].file].mtime
      BY <1>0, <2>1, <3>1 DEF Unmoved, SeenAt
    <3>3. cur' = [cur EXCEPT ![w] = [cur[w] EXCEPT !.pre = disk[cur[w].file].mtime]]
      BY <1>5, <2>1 DEF Confirm
    <3>4. cur'[w] = cur[w]
      BY <1>0, <3>2, <3>3
    <3>5. ReadTrue(w)'
      BY <1>0, <1>1, <1>5, <2>1, <3>1, <3>4 DEF Confirm, Goto, ReadTrue, SeenAt
    <3> QED BY <1>1, <1>2, <1>5, <3>5 DEF Confirm, store, FilesTrue, SeenAt
  <2>2. CASE ~Unmoved(w)
    BY <1>0, <1>1, <1>2, <1>5, <2>2
       DEF Confirm, store, Leave, Goto, ReadTrue, Reading, FilesTrue, SeenAt
  <2> QED BY <2>1, <2>2
<1>6. CASE Put(w)
  <2>1. SeenAt(cur[w].pre, cur[w].version, cur[w].file)
    BY <1>0, <1>6 DEF Put, ReadTrue, Reading
  <2>2. FilesTrue'
    BY <1>1, <1>6, <2>1 DEF Put, FilesTrue, TypeOK, SeenAt
  <2>3. ReadTrue(w)'
    BY <1>0, <1>6 DEF Put, Goto, ReadTrue, Reading
  <2> QED BY <1>2, <2>2, <2>3
<1> QED BY <1>3, <1>4, <1>5, <1>6 DEF WatchStep

\* In a clean history every row was made from the content its mtime stands for
\* (parser.ts, _index_file_sync).
THEOREM ReadingsAreTrue == Spec => []ReadInv
<1>1. Init => ReadInv
  BY DEF Init, ReadInv, FilesTrue, ReadTrue, Reading, NoRows
<1>2. TypeOK /\ ReadInv /\ [Next]_vars => ReadInv'
  <2> SUFFICES ASSUME TypeOK, ReadInv, [Next]_vars, Clean'
               PROVE  FilesTrue' /\ \A p \in Process : ReadTrue(p)'
    BY DEF ReadInv
  <2>0. FilesTrue /\ \A p \in Process : ReadTrue(p)
    BY CleanBefore DEF ReadInv
  <2>1. ASSUME NEW f \in File, Edit(f) \/ Delete(f)
        PROVE  FilesTrue' /\ \A p \in Process : ReadTrue(p)'
    BY <2>0, <2>1, FilesKeepTruth
  <2>2. ASSUME NEW p \in Process, LockStep(p) \/ Die(p)
        PROVE  FilesTrue' /\ \A q \in Process : ReadTrue(q)'
    BY <2>0, <2>2, LockKeepsTruth
  <2>3. ASSUME NEW r \in Run, RunStep(r) \/ Fail(r)
        PROVE  FilesTrue' /\ \A q \in Process : ReadTrue(q)'
    BY <2>0, <2>3, RunKeepsTruth
  <2>4. ASSUME NEW w \in Watcher, WatchStep(w)
        PROVE  FilesTrue' /\ \A q \in Process : ReadTrue(q)'
    BY <2>0, <2>4, WatchKeepsTruth
  <2>5. CASE LockAges \/ UNCHANGED vars
    BY <2>0, <2>5 DEF LockAges, vars, store, local, FilesTrue, ReadTrue, Reading, SeenAt
  <2> QED BY <2>1, <2>2, <2>3, <2>4, <2>5 DEF Next
<1> QED BY <1>1, <1>2, TypeCorrect, PTL DEF Spec

\* A row that the mtime check takes for current is of the content the file has
\* (parser.ts, index_project).
THEOREM RowsStayTrue == Spec => []RowsAreTrue
<1>1. TypeOK /\ ReadInv => RowsAreTrue
  <2> SUFFICES ASSUME TypeOK, ReadInv, Clean, NEW f \in File,
                      rows[f] # NoRow, rows[f].mtime = disk[f].mtime
               PROVE  rows[f].version = disk[f].version
    BY DEF RowsAreTrue, Clean
  <2>1. SeenAt(rows[f].mtime, rows[f].version, f) /\ disk[f].mtime \in {0, disk[f].tick}
    BY DEF ReadInv, FilesTrue
  <2>2. rows[f].mtime # 0
    BY <2>1 DEF SeenAt
  <2> QED BY <2>1, <2>2 DEF SeenAt
<1> QED BY <1>1, TypeCorrect, ReadingsAreTrue, PTL

-----------------------------------------------------------------------------
(* The global snapshot.                                                    *)

\* A run between loading the rows and its copy: the rows may be ahead of the snapshot.
Changing(p) == pc[p] \in {"visit", "read", "check", "prune", "clear", "copy"}
Untroubled == {"broken", "watched"} \cap hazards = {}
Copied == \A f \in File : global[f] = rows[f].version
GlobalInv == Untroubled => Copied \/ \E r \in Run : Changing(r)

\* A step of process p that leaves the tables alone, and p where it was or at
\* an end of the changing part that it has not left.
LEMMA GlobalKept ==
  ASSUME TypeOK, GlobalInv, NEW p \in Process, Untroubled' => Untroubled, UNCHANGED store,
         \A q \in Process : q # p => pc'[q] = pc[q],
         Untroubled' => (Changing(p) => Changing(p)')
  PROVE  GlobalInv'
<1>1. Copied' <=> Copied
  BY DEF Copied, store
<1>2. ASSUME NEW r \in Run, Changing(r), Untroubled' PROVE Changing(r)'
  BY <1>2 DEF Changing, Process
<1> QED BY <1>1, <1>2 DEF GlobalInv

LEMMA LockKeepsGlobal ==
  ASSUME TypeOK, GlobalInv, NEW p \in Process, LockStep(p) \/ Die(p)
  PROVE  GlobalInv'
<1>1. UNCHANGED store /\ (Untroubled' => Untroubled)
  BY DEF LockStep, TryAcquire, EvictLock, RetryAcquire, StampLock, GiveUp, Release, Die,
         Untroubled
<1>2. \A q \in Process : q # p => pc'[q] = pc[q]
  BY DEF LockStep, TryAcquire, CreateLock, EvictLock, RetryAcquire, StampLock, GiveUp,
         Release, Die, Goto, Leave, TypeOK
<1>3. Untroubled' => ~Changing(p)
  BY DEF LockStep, TryAcquire, EvictLock, RetryAcquire, StampLock, GiveUp, Release, Die,
         Untroubled, Changing, InLock, Held
<1> QED BY <1>1, <1>2, <1>3, GlobalKept

LEMMA RunKeepsGlobal ==
  ASSUME TypeOK, GlobalInv, NEW r \in Run, RunStep(r) \/ Fail(r)
  PROVE  GlobalInv'
<1>0. r \in Process /\ pc \in [Process -> Pc]
  BY DEF Process, TypeOK
<1>1. CASE Check(r) \/ Prune(r) \/ ClearGlobal(r)
  <2>1. Changing(r)'
    BY <1>0, <1>1 DEF Check, Prune, ClearGlobal, Goto, Changing
  <2> QED BY <2>1 DEF GlobalInv
<1>2. CASE CopyGlobal(r)
  <2>1. Copied'
    BY <1>2 DEF CopyGlobal, Copied
  <2> QED BY <2>1 DEF GlobalInv
<1>3. CASE Fail(r)
  BY <1>3 DEF Fail, GlobalInv, Untroubled
<1>4. CASE Walk(r) \/ Load(r) \/ Visit(r) \/ VisitedAll(r) \/ Read(r)
  <2>1. UNCHANGED store /\ (Untroubled' => Untroubled)
    BY <1>4 DEF Walk, Load, Visit, VisitedAll, Read, TakeContent, Untroubled
  <2>2. \A q \in Process : q # r => pc'[q] = pc[q]
    BY <1>0, <1>4 DEF Walk, Load, Visit, VisitedAll, Read, TakeContent, Goto
  <2>3. Changing(r) => Changing(r)'
    BY <1>0, <1>4 DEF Walk, Load, Visit, VisitedAll, Read, TakeContent, Goto, Changing
  <2> QED BY <1>0, <2>1, <2>2, <2>3, GlobalKept
<1> QED BY <1>1, <1>2, <1>3, <1>4 DEF RunStep

LEMMA WatchKeepsGlobal ==
  ASSUME TypeOK, GlobalInv, NEW w \in Watcher, WatchStep(w)
  PROVE  GlobalInv'
<1>0. w \in Process /\ pc \in [Process -> Pc]
  BY DEF Process, TypeOK
<1>1. CASE Put(w)
  BY <1>1 DEF Put, GlobalInv, Untroubled
<1>2. CASE Look(w) \/ Take(w) \/ Confirm(w)
  <2>1. UNCHANGED store /\ (Untroubled' => Untroubled)
    BY <1>2 DEF Look, Take, TakeContent, Confirm, Untroubled
  <2>2. \A q \in Process : q # w => pc'[q] = pc[q]
    BY <1>0, <1>2 DEF Look, Take, TakeContent, Confirm, Goto, Leave
  <2>3. ~Changing(w)
    BY <1>2 DEF Look, Take, Confirm, Changing
  <2> QED BY <1>0, <2>1, <2>2, <2>3, GlobalKept
<1> QED BY <1>1, <1>2 DEF WatchStep

\* Whenever no run is between loading the rows and its copy the snapshot is the
\* project's own table; in particular between runs (parser.ts, index_project).
THEOREM GlobalFollows == Spec => []GlobalIsCurrent
<1>1. Init => GlobalInv
  BY DEF Init, GlobalInv, Copied, NoRows, NoRow
<1>2. TypeOK /\ GlobalInv /\ [Next]_vars => GlobalInv'
  <2> SUFFICES ASSUME TypeOK, GlobalInv, [Next]_vars PROVE GlobalInv'
    OBVIOUS
  <2>1. ASSUME NEW f \in File, Edit(f) \/ Delete(f) PROVE GlobalInv'
    BY <2>1 DEF Edit, Delete, store, GlobalInv, Untroubled, Copied, Changing
  <2>2. ASSUME NEW p \in Process, LockStep(p) \/ Die(p) PROVE GlobalInv'
    BY <2>2, LockKeepsGlobal
  <2>3. ASSUME NEW r \in Run, RunStep(r) \/ Fail(r) PROVE GlobalInv'
    BY <2>3, RunKeepsGlobal
  <2>4. ASSUME NEW w \in Watcher, WatchStep(w) PROVE GlobalInv'
    BY <2>4, WatchKeepsGlobal
  <2>5. CASE LockAges \/ UNCHANGED vars
    BY <2>5 DEF LockAges, vars, store, GlobalInv, Untroubled, Copied, Changing
  <2> QED BY <2>1, <2>2, <2>3, <2>4, <2>5 DEF Next
<1>3. GlobalInv => GlobalIsCurrent
  BY DEF GlobalInv, GlobalIsCurrent, Untroubled, Copied, Changing, InLock, Held, Process
<1> QED BY <1>1, <1>2, <1>3, TypeCorrect, PTL DEF Spec

-----------------------------------------------------------------------------
(* The lock file.                                                          *)

Owners == {p \in Process : InLock(p)}

\* What a step may do to the lock file and to who acts as its owner: create it where
\* there is none for one process, remove it, or leave it alone; nobody else enters.
LEMMA LockMoves ==
  ASSUME TypeOK, [Next]_vars
  PROVE  \/ lock' \in {lock, {}} /\ Owners' \subseteq Owners
         \/ \E p \in Process : lock = {} /\ lock' = {p} /\ Owners' = Owners \cup {p}
<1> USE DEF Owners, InLock, Held, lockVars, Goto
<1>0. pc \in [Process -> Pc]
  BY DEF TypeOK
<1>1. ASSUME NEW p \in Process, CreateLock(p)
      PROVE  lock = {} /\ lock' = {p} /\ Owners' = Owners \cup {p}
  BY <1>0, <1>1 DEF CreateLock
<1>2. ASSUME NEW p \in Process, LockStep(p) \/ Die(p), ~CreateLock(p)
      PROVE  lock' \in {lock, {}} /\ Owners' \subseteq Owners
  <2>1. CASE TryAcquire(p) BY <1>0, <1>2, <2>1 DEF TryAcquire
  <2>2. CASE EvictLock(p) BY <1>0, <2>2 DEF EvictLock, UnlinkLock
  <2>3. CASE RetryAcquire(p) BY <1>0, <1>2, <2>3 DEF RetryAcquire
  <2>4. CASE StampLock(p) BY <1>0, <2>4 DEF StampLock
  <2>5. CASE GiveUp(p) BY <1>0, <2>5 DEF GiveUp, Leave
  <2>6. CASE Release(p) BY <1>0, <2>6 DEF Release, UnlinkLock, Leave
  <2>7. CASE Die(p) BY <1>0, <2>7 DEF Die, Leave
  <2> QED BY <1>2, <2>1, <2>2, <2>3, <2>4, <2>5, <2>6, <2>7 DEF LockStep
<1>3. ASSUME NEW r \in Run, RunStep(r) \/ Fail(r)
      PROVE  lock' = lock /\ Owners' \subseteq Owners
  <2>0. r \in Process
    BY DEF Process
  <2> QED
    BY <1>0, <1>3, <2>0 DEF RunStep, Walk, Load, Visit, VisitedAll, Read, TakeContent, Check,
                            Prune, ClearGlobal, CopyGlobal, Fail
<1>4. ASSUME NEW w \in Watcher, WatchStep(w)
      PROVE  lock' = lock /\ Owners' \subseteq Owners
  <2>0. w \in Process
    BY DEF Process
  <2> QED BY <1>0, <1>4, <2>0 DEF WatchStep, Look, Take, TakeContent, Confirm, Put, Leave
<1>5. CASE LockAges \/ (\E f \in File : Edit(f) \/ Delete(f)) \/ UNCHANGED vars
  BY <1>5 DEF LockAges, Edit, Delete, vars
<1> QED BY <1>1, <1>2, <1>3, <1>4, <1>5 DEF Next

\* Once the lock file of a live process is unlinked, that stays known.
LEMMA TrustedBefore ==
  ASSUME [Next]_vars, "evicted" \notin hazards'
  PROVE  "evicted" \notin hazards
<1>1. ASSUME NEW f \in File, Edit(f) \/ Delete(f) PROVE "evicted" \notin hazards
  BY <1>1 DEF Edit, Delete
<1>2. ASSUME NEW p \in Process, LockStep(p) \/ Die(p) PROVE "evicted" \notin hazards
  BY <1>2 DEF LockStep, TryAcquire, EvictLock, RetryAcquire, StampLock, GiveUp, Release, Die
<1>3. ASSUME NEW r \in Run, RunStep(r) \/ Fail(r) PROVE "evicted" \notin hazards
  BY <1>3 DEF RunStep, Walk, Load, Visit, VisitedAll, Read, TakeContent, Check, Prune,
              ClearGlobal, CopyGlobal, Fail
<1>4. ASSUME NEW w \in Watcher, WatchStep(w) PROVE "evicted" \notin hazards
  BY <1>4 DEF WatchStep, Look, Take, TakeContent, Confirm, Put
<1>5. CASE LockAges \/ UNCHANGED vars
  BY <1>5 DEF LockAges, vars
<1> QED BY <1>1, <1>2, <1>3, <1>4, <1>5 DEF Next

\* A step that leaves trust in the lock file is a step of OwnedLock or none.
LEMMA NextLock ==
  ASSUME TypeOK, LockInv, LockInv', [Next]_vars
  PROVE  [Lock!Next]_<<lock, Owners, "evicted" \notin hazards>>
<1>1. CASE ~("evicted" \notin hazards)'
  BY <1>1 DEF Lock!Next
<1>2. CASE ("evicted" \notin hazards)'
  <2>0. "evicted" \notin hazards
    BY <1>2, TrustedBefore
  <2>1. /\ \A p \in Owners : lock = {p}
        /\ \A p \in Owners' : lock' = {p}
    BY <1>2, <2>0 DEF LockInv, Owners
  <2>2. \A p \in Owners : Owners = {p} /\ p \in Process
    BY <2>1 DEF Owners
  <2>3. CASE lock' \in {lock, {}} /\ Owners' \subseteq Owners
    <3>1. CASE Owners' = Owners /\ lock' = lock
      BY <1>2, <2>0, <3>1
    <3>2. CASE Owners = {} /\ lock' # lock
      <4>1. Owners' = {} /\ lock' = {}
        BY <2>3, <3>2
      <4>2. Lock!Recover
        BY <3>2, <4>1 DEF Lock!Recover, Owners
      <4> QED BY <1>2, <2>0, <4>2 DEF Lock!Next
    <3>3. CASE Owners # {} /\ ~(Owners' = Owners /\ lock' = lock)
      <4>1. PICK p \in Owners : Owners = {p} /\ p \in Process /\ lock = {p}
        BY <2>1, <2>2, <3>3
      <4>2. Owners' = {}
        BY <2>1, <2>3, <3>3, <4>1
      <4>3. Lock!Leave(p)
        BY <2>3, <4>1, <4>2 DEF Lock!Leave, Owners
      <4> QED BY <1>2, <2>0, <4>1, <4>3 DEF Lock!Next
    <3> QED BY <2>3, <3>1, <3>2, <3>3
  <2>4. CASE \E p \in Process : lock = {} /\ lock' = {p} /\ Owners' = Owners \cup {p}
    <3>1. PICK p \in Process : lock = {} /\ lock' = {p} /\ Owners' = Owners \cup {p}
      BY <2>4
    <3>2. Owners = {} /\ Owners' = {p}
      BY <2>1, <3>1
    <3>3. Lock!Acquire(p)
      BY <3>1, <3>2 DEF Lock!Acquire, Owners
    <3> QED BY <1>2, <2>0, <3>3 DEF Lock!Next
  <2> QED BY <2>3, <2>4, LockMoves
<1> QED BY <1>1, <1>2

\* The writer lock implements OwnedLock: its file is created only where there is none
\* and removed only by its owner or when nobody acts on it, until the file of a live
\* process is unlinked (db.ts, projectWriterLock).
THEOREM LockImplemented == Spec => LockIsOwned
<1>1. Init => Lock!Init
  BY DEF Init, Lock!Init, InLock, Held
<1>2. TypeOK /\ LockInv /\ LockInv' /\ [Next]_vars => [Lock!Next]_(Lock!lockVars)
  BY NextLock DEF Owners, Lock!lockVars
<1> QED BY <1>1, <1>2, TypeCorrect, LockFileNamesOwner, PTL DEF Spec, LockIsOwned, Lock!Spec
=============================================================================
