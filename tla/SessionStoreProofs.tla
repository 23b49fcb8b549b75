------------------------- MODULE SessionStoreProofs -------------------------
(* Theorems of SessionStore, for any sets of hooks and files and any bounds. *)
EXTENDS SessionStore, TLAPS

LEMMA StampTypes == NoStamp \in Stamp /\ (TypeOK => StampOf(disk) \in Stamp)
  BY DEF NoStamp, Stamp, TypeOK, StampOf, Disk

LEMMA FreshType == Fresh \in Cache
  BY StampTypes DEF Fresh, Cache, NoEdits, Edits

LEMMA JoinType == \A e, d \in Edits : Join(e, d) \in Edits
  BY DEF Edits, Join, MaxOf

LEMMA WorkType == TypeOK => \A p \in Proc : Work(p) \in Cache
  BY DEF TypeOK, Work

LEMMA OwnType == TypeOK => OwnObject \in Memo
  BY FreshType DEF TypeOK, OwnObject, Memo, Disk

LEMMA InitTypeOK == Init => TypeOK
  <1> SUFFICES ASSUME Init PROVE TypeOK
    OBVIOUS
  <1>1. disk \in Disk /\ saved \in Edits
    BY DEF Init, NoFile, Disk, NoEdits, Edits
  <1>2. memo \in [Proc -> Memo] /\ obj \in [Proc -> Cache] /\ merged \in [Proc -> Cache]
    BY FreshType DEF Init, NoMemo, Memo
  <1>3. pc \in [Proc -> Pc]
    BY DEF Init, Pc
  <1>4. /\ lastSaved \in [Proc -> Nat] /\ attempt \in [Proc -> 0..2]
        /\ ops \in [Proc -> 0..MaxOps]
        /\ fails \in 0..MaxFails /\ crashes \in 0..MaxCrashes
        /\ stalls \in 0..MaxStalls /\ resets \in 0..MaxResets
    BY BoundsAreNat DEF Init
  <1> QED
    BY <1>1, <1>2, <1>3, <1>4 DEF Init, TypeOK

LEMMA LoadType ==
  ASSUME TypeOK, NEW p \in Proc, LoadStep(p)
  PROVE  TypeOK'
  <1>0. Detached(p) \in Memo
    BY DEF TypeOK, Detached, Memo
  <1>1. CASE LoadOpen(p)
    <2>1. memo' \in [Proc -> Memo]
      BY <1>0, <1>1, OwnType DEF TypeOK, LoadOpen
    <2>2. obj' \in [Proc -> Cache]
      BY <1>1, FreshType DEF TypeOK, LoadOpen, Memo
    <2>3. pc' \in [Proc -> Pc]
      BY <1>1 DEF TypeOK, LoadOpen, Pc
    <2> QED
      BY <1>1, <2>1, <2>2, <2>3 DEF TypeOK, LoadOpen, bounds, history
  <1>2. CASE LoadRead(p)
    <2>1. [Fresh EXCEPT !.ver = disk.ver, !.edits = disk.edits,
                        !.compact = disk.compact, !.base = disk.id] \in Cache
      BY FreshType DEF TypeOK, Cache, Disk
    <2> QED
      BY <1>0, <1>2, <2>1 DEF TypeOK, LoadRead, Pc, bounds, history
  <1>3. CASE LoadGivesUp(p)
    <2>1. [Fresh EXCEPT !.unavailable = TRUE] \in Cache
      BY FreshType DEF Cache
    <2> QED
      BY <1>0, <1>3, <2>1 DEF TypeOK, LoadGivesUp, Pc, bounds, history
  <1>4. CASE LoadStamp(p)
    <2>1. obj' \in [Proc -> Cache]
      BY <1>4, StampTypes DEF TypeOK, LoadStamp, Cache
    <2>2. memo' \in [Proc -> Memo]
      BY <1>4, OwnType DEF TypeOK, LoadStamp
    <2> QED
      BY <1>4, <2>1, <2>2 DEF TypeOK, LoadStamp, Pc, bounds, Hazard
  <1> QED
    BY <1>1, <1>2, <1>3, <1>4 DEF LoadStep

LEMMA AttemptType ==
  ASSUME TypeOK, NEW p \in Proc, AttemptOver(p)
  PROVE  /\ pc' \in [Proc -> Pc] /\ attempt' \in [Proc -> 0..2]
         /\ obj' \in [Proc -> Cache] /\ merging' \in SUBSET Proc
  <1>1. pc' \in [Proc -> Pc]
    BY DEF TypeOK, AttemptOver, Pc, SavePc
  <1>2. attempt' \in [Proc -> 0..2]
    BY DEF TypeOK, AttemptOver
  <1>3. obj' \in [Proc -> Cache]
    <2> DEFINE u == obj[p].unavailable \/ (attempt[p] >= 2 /\ p \in failed /\ p \notin merging)
    <2>1. u \in BOOLEAN
      OBVIOUS
    <2>2. obj' = [obj EXCEPT ![p] = [obj[p] EXCEPT !.unavailable = u]]
      BY DEF TypeOK, AttemptOver
    <2> HIDE DEF u
    <2> QED
      BY <2>1, <2>2 DEF TypeOK, Cache
  <1>4. merging' \in SUBSET Proc
    BY DEF TypeOK, AttemptOver
  <1> QED
    BY <1>1, <1>2, <1>3, <1>4

LEMMA SaveType ==
  ASSUME TypeOK, NEW p \in Proc, SaveStep(p)
  PROVE  TypeOK'
  <1>1. CASE Acquire(p)
    BY <1>1 DEF TypeOK, Acquire, Pc, SavePc, memory, bounds, history
  <1>2. CASE JudgeStale(p)
    BY <1>2 DEF TypeOK, JudgeStale, Pc, SavePc, memory, bounds, history
  <1>3. CASE EvictLock(p)
    BY <1>3 DEF TypeOK, EvictLock, Pc, SavePc, Hazard, memory, bounds
  <1>4. CASE LockTimesOut(p)
    BY <1>4, AttemptType DEF TypeOK, LockTimesOut, bounds, history
  <1>5. CASE Examine(p)
    <2> DEFINE rereads == ~SkipsCas(p) /\ Exists
               merges == rereads /\ disk.ver > Work(p).ver
               onto == IF merges THEN Merge(Work(p), disk) ELSE Work(p)
               next == [onto EXCEPT !.ver = Bumped(onto, rereads)]
    <2>1. Merge(Work(p), disk) \in Cache
      BY WorkType, FreshType, JoinType DEF TypeOK, Merge, Cache, Disk
    <2>2. onto \in Cache
      BY <2>1, WorkType
    <2> HIDE DEF rereads
    <2>3. Bumped(onto, rereads) \in Nat
      BY <2>2 DEF TypeOK, Bumped, MaxOf, Cache, Disk
    <2>4. next \in Cache
      BY <2>2, <2>3 DEF Cache
    <2>5. \/ /\ merged' = [merged EXCEPT ![p] = next] /\ obj' = obj
             /\ merging' = merging \cup {p}
          \/ obj' = [obj EXCEPT ![p] = next] /\ UNCHANGED <<merged, merging>>
      BY <1>5 DEF Examine, rereads
    <2> HIDE DEF next
    <2>6. /\ obj' \in [Proc -> Cache] /\ merged' \in [Proc -> Cache]
          /\ merging' \in SUBSET Proc
      BY <2>4, <2>5 DEF TypeOK
    <2> QED
      BY <1>5, <2>6 DEF TypeOK, Examine, Pc, SavePc, bounds, history
  <1>6. CASE WriteTmp(p)
    BY <1>6 DEF TypeOK, WriteTmp, Pc, SavePc, memory, bounds, history
  <1>7. CASE TmpSwept(p)
    BY <1>7 DEF TypeOK, TmpSwept, WriteFails, Pc, SavePc, Hazard, memory
  <1>8. CASE Rename(p)
    <2>1. clock' \in Nat /\ disk' \in Disk /\ hazards' \in SUBSET Hazard
      BY <1>8, WorkType DEF TypeOK, Rename, Cache, Disk, Hazard
    <2>2. obj' \in [Proc -> Cache] /\ merged' \in [Proc -> Cache]
      <3>1. \A c \in Cache : [c EXCEPT !.base = writes + 1] \in Cache
        BY DEF TypeOK, Cache
      <3>2. \/ obj' = obj /\ merged' = [merged EXCEPT ![p] = [merged[p] EXCEPT !.base = writes + 1]]
            \/ merged' = merged /\ obj' = [obj EXCEPT ![p] = [obj[p] EXCEPT !.base = writes + 1]]
        BY <1>8 DEF TypeOK, Rename
      <3> QED
        BY <3>1, <3>2 DEF TypeOK
    <2>3. saved' \in Edits
      BY <1>8, JoinType DEF TypeOK, Rename, Cache
    <2>4. compacted' \in BOOLEAN
      BY <1>8 DEF Rename
    <2>5. lastSaved' \in [Proc -> Nat] /\ writes' \in Nat
      BY <1>8, WorkType DEF TypeOK, Rename, Cache
    <2>6. pc' \in [Proc -> Pc] /\ tmp' \in SUBSET Proc
      BY <1>8 DEF TypeOK, Rename, Pc, SavePc
    <2> QED
      BY <1>8, <2>1, <2>2, <2>3, <2>4, <2>5, <2>6 DEF TypeOK, Rename, bounds
  <1>9. CASE RestatAndRelease(p)
    <2> DEFINE done == [Work(p) EXCEPT !.stamp = IF Exists THEN StampOf(disk) ELSE @]
    <2>1. done \in Cache
      BY WorkType, StampTypes DEF Cache
    <2>2. obj' = obj \/ obj' = [obj EXCEPT ![p] = done]
      BY <1>9 DEF RestatAndRelease
    <2>3. \/ memo' = memo
          \/ memo' = [memo EXCEPT ![p] =
                        [mtime |-> disk.mtime, alias |-> FALSE, held |-> done]]
          \/ memo' = [memo EXCEPT ![p] = OwnObject]
      BY <1>9 DEF RestatAndRelease
    <2> HIDE DEF done
    <2>4. obj' \in [Proc -> Cache]
      BY <2>1, <2>2 DEF TypeOK
    <2>5. [mtime |-> disk.mtime, alias |-> FALSE, held |-> done] \in Memo
      BY <2>1 DEF TypeOK, Disk, Memo
    <2>6. memo' \in [Proc -> Memo]
      BY <2>3, <2>5, OwnType DEF TypeOK
    <2>7. pc' \in [Proc -> Pc] /\ attempt' \in [Proc -> 0..2]
      BY <1>9 DEF TypeOK, RestatAndRelease, Pc
    <2> QED
      BY <1>9, <2>4, <2>6, <2>7, FreshType DEF TypeOK, RestatAndRelease, bounds, history
  <1>10. CASE ReleaseAfterFailure(p)
    BY <1>10, AttemptType DEF TypeOK, ReleaseAfterFailure, bounds, history
  <1> QED
    BY <1>1, <1>2, <1>3, <1>4, <1>5, <1>6, <1>7, <1>8, <1>9, <1>10 DEF SaveStep

LEMMA MutateType ==
  ASSUME TypeOK, NEW p \in Proc, Mutate(p)
  PROVE  TypeOK'
  <1>1. ops[p] < MaxOps /\ SaveBegins(p)
    BY DEF Mutate, RecordCompact, MarkFileEdited
  <1>2. ops' \in [Proc -> 0..MaxOps]
    BY <1>1, BoundsAreNat DEF TypeOK, SaveBegins
  <1>3. obj' \in [Proc -> Cache]
    <2>1. CASE RecordCompact(p)
      BY <2>1 DEF TypeOK, RecordCompact, Cache
    <2>2. ASSUME NEW f \in File, MarkFileEdited(p, f) PROVE obj' \in [Proc -> Cache]
      <3>1. [obj[p].edits EXCEPT ![f] = @ + 1] \in Edits
        BY DEF TypeOK, Cache, Edits
      <3>2. obj' = [obj EXCEPT ![p] =
                      [obj[p] EXCEPT !.edits = [obj[p].edits EXCEPT ![f] = @ + 1]]]
        BY <2>2 DEF TypeOK, MarkFileEdited
      <3> QED
        BY <3>1, <3>2 DEF TypeOK, Cache
    <2> QED
      BY <2>1, <2>2 DEF Mutate
  <1>4. pc' \in [Proc -> Pc] /\ attempt' \in [Proc -> 0..2] /\ failed' \in SUBSET Proc
    BY <1>1 DEF TypeOK, SaveBegins, Pc, SavePc
  <1> QED
    BY <1>1, <1>2, <1>3, <1>4 DEF TypeOK, SaveBegins, history

LEMMA ForgetsType ==
  ASSUME TypeOK, NEW p \in Proc, Forgets(p)
  PROVE  /\ obj' \in [Proc -> Cache] /\ merged' \in [Proc -> Cache]
         /\ merging' \in SUBSET Proc /\ failed' \in SUBSET Proc
         /\ memo' \in [Proc -> Memo] /\ lastSaved' \in [Proc -> Nat]
         /\ attempt' \in [Proc -> 0..2]
  <1>1. NoMemo \in Memo
    BY FreshType DEF NoMemo, Memo
  <1> QED
    BY <1>1, FreshType DEF TypeOK, Forgets

LEMMA FaultType ==
  ASSUME TypeOK, NEW p \in Proc, Fault(p)
  PROVE  TypeOK'
  <1>1. CASE LockOpenFails(p)
    BY <1>1, AttemptType, BoundsAreNat DEF TypeOK, LockOpenFails, history
  <1>2. CASE DiskError(p)
    BY <1>2, BoundsAreNat
    DEF TypeOK, DiskError, WriteFails, Pc, SavePc, Hazard, memory
  <1>3. CASE Crash(p)
    BY <1>3, ForgetsType, BoundsAreNat DEF TypeOK, Crash, Pc, history
  <1> QED
    BY <1>1, <1>2, <1>3 DEF Fault

LEMMA NextTypeOK == TypeOK /\ [Next]_vars => TypeOK'
  <1> SUFFICES ASSUME TypeOK, [Next]_vars PROVE TypeOK'
    OBVIOUS
  <1>1. CASE \E p \in Proc : LoadStep(p) \/ SaveStep(p) \/ Mutate(p) \/ Fault(p)
    BY <1>1, LoadType, SaveType, MutateType, FaultType
  <1>2. CASE \E p \in Proc : Exit(p)
    BY <1>2, ForgetsType DEF TypeOK, Exit, Pc, bounds, history
  <1>3. CASE LockAges
    BY <1>3, BoundsAreNat DEF TypeOK, LockAges, memory, history
  <1>4. CASE Reset
    <2>1. disk' \in Disk /\ saved' \in Edits
      BY <1>4 DEF Reset, NoFile, Disk, NoEdits, Edits
    <2>2. resets' \in 0..MaxResets
      <3>1. resets < MaxResets /\ resets' = resets + 1
        BY <1>4 DEF Reset
      <3> QED
        BY <3>1, BoundsAreNat DEF TypeOK
    <2>3. compacted' \in BOOLEAN /\ hazards' \in SUBSET Hazard
      BY <1>4 DEF TypeOK, Reset, Hazard
    <2>4. /\ UNCHANGED <<clock, lock, aged, blank, tmp, pc, attempt, failed>>
          /\ UNCHANGED <<obj, merged, merging, memo, lastSaved>>
          /\ UNCHANGED <<ops, fails, crashes, stalls, writes>>
      BY <1>4 DEF Reset, memory
    <2> QED
      BY <2>1, <2>2, <2>3, <2>4 DEF TypeOK
  <1>5. CASE UNCHANGED vars
    BY <1>5 DEF TypeOK, vars, memory, bounds, history
  <1> QED
    BY <1>1, <1>2, <1>3, <1>4, <1>5 DEF Next, Terminating

\* Every variable keeps its type, for any hooks, files and bounds.
THEOREM TypeCorrect == Spec => []TypeOK
  BY InitTypeOK, NextTypeOK, PTL DEF Spec

-----------------------------------------------------------------------------
(* The lock.                                                               *)

LEMMA NextLockInv == TypeOK /\ LockInv /\ [Next]_vars => LockInv'
  <1> SUFFICES ASSUME TypeOK, LockInv, [Next]_vars, "liveEvict" \notin hazards',
                      NEW q \in Proc, InCritical(q)'
               PROVE  lock' = {q}
    BY DEF LockInv
  <1>1. CASE \E p \in Proc : LoadStep(p) \/ Mutate(p) \/ Exit(p) \/ Fault(p)
    <2> PICK p \in Proc : LoadStep(p) \/ Mutate(p) \/ Exit(p) \/ Fault(p)
      BY <1>1
    <2>1. lock' = lock /\ "liveEvict" \notin hazards
      BY DEF LoadStep, LoadOpen, LoadRead, LoadGivesUp, LoadStamp, Mutate,
             RecordCompact, MarkFileEdited, SaveBegins, Exit, Fault,
             LockOpenFails, DiskError, WriteFails, Crash, history
    <2>2. InCritical(q)
      <3>1. pc'[q] = pc[q] \/ pc'[q] \notin CriticalPc \/ DiskError(p)
        BY DEF LoadStep, LoadOpen, LoadRead, LoadGivesUp, LoadStamp, Mutate,
               RecordCompact, MarkFileEdited, SaveBegins, Exit, Fault, AttemptOver,
               LockOpenFails, Crash, TypeOK, CriticalPc
      <3>2. DiskError(p) => pc'[q] = pc[q] \/ pc[q] = "write"
        BY DEF DiskError, WriteFails, TypeOK
      <3> QED
        BY <3>1, <3>2 DEF InCritical, CriticalPc
    <2> QED
      BY <2>1, <2>2 DEF LockInv
  <1>2. CASE \E p \in Proc : SaveStep(p)
    <2> PICK p \in Proc : SaveStep(p)
      BY <1>2
    <2>0. "liveEvict" \notin hazards
      BY DEF SaveStep, Acquire, JudgeStale, EvictLock, LockTimesOut, Examine,
             WriteTmp, TmpSwept, WriteFails, Rename, RestatAndRelease,
             ReleaseAfterFailure, history
    <2>1. CASE Acquire(p)
      BY <2>0, <2>1 DEF Acquire, LockInv, InCritical, TypeOK
    <2>2. CASE EvictLock(p)
      <3>1. InCritical(q)
        BY <2>2 DEF EvictLock, InCritical, CriticalPc, TypeOK
      <3>2. lock = {q} /\ Alive(q)
        BY <2>0, <3>1 DEF LockInv, InCritical, CriticalPc, Alive
      <3> QED
        BY <2>2, <3>2 DEF EvictLock
    <2>3. CASE JudgeStale(p) \/ LockTimesOut(p)
      BY <2>0, <2>3
      DEF JudgeStale, LockTimesOut, AttemptOver, LockInv, InCritical, CriticalPc, TypeOK
    <2>4. CASE Examine(p) \/ WriteTmp(p) \/ TmpSwept(p) \/ Rename(p)
      BY <2>0, <2>4
      DEF Examine, WriteTmp, TmpSwept, WriteFails, Rename, LockInv, InCritical,
          CriticalPc, TypeOK
    <2>5. CASE RestatAndRelease(p) \/ ReleaseAfterFailure(p)
      <3>1. InCritical(q) /\ q # p
        BY <2>5
        DEF RestatAndRelease, ReleaseAfterFailure, AttemptOver, InCritical,
            CriticalPc, TypeOK
      <3>2. InCritical(p)
        BY <2>5 DEF RestatAndRelease, ReleaseAfterFailure, InCritical, CriticalPc
      <3> QED
        BY <2>0, <3>1, <3>2 DEF LockInv
    <2> QED
      BY <2>1, <2>2, <2>3, <2>4, <2>5 DEF SaveStep
  <1>3. CASE LockAges \/ Reset \/ UNCHANGED vars
    BY <1>3 DEF LockAges, Reset, vars, LockInv, InCritical, history
  <1> QED
    BY <1>1, <1>2, <1>3 DEF Next, Terminating

\* The lockfile of a session excludes: until a live owner's lock is unlinked
\* there are never two hooks in save()'s critical section.
THEOREM Exclusion == Spec => []MutualExclusion
  <1>1. Init => LockInv
    BY DEF Init, LockInv, InCritical, CriticalPc
  <1>2. LockInv => MutualExclusion
    BY DEF LockInv, MutualExclusion
  <1> QED
    BY <1>1, <1>2, InitTypeOK, NextTypeOK, NextLockInv, PTL DEF Spec

-----------------------------------------------------------------------------
(* The compare-and-swap.                                                   *)

LEMMA FreshConsistent == TypeOK /\ FileInv => Consistent(Fresh, disk, clock)
  BY DEF TypeOK, FileInv, Consistent, Stamped, Fresh, NoStamp, NoEdits, Exists, Disk

\* A step that writes neither the file nor hook q's memory keeps q's part.
LEMMA Frame ==
  ASSUME NEW q \in Proc, HookInv(q), UNCHANGED <<disk, clock>>,
         pc'[q] = pc[q], obj'[q] = obj[q], merged'[q] = merged[q],
         memo'[q] = memo[q], (q \in merging') <=> (q \in merging)
  PROVE  HookInv(q)'
  BY DEF HookInv, Preparing, Work

LEMMA HazardsGrow == [Next]_vars /\ hazards' = {} => hazards = {}
  BY DEF Next, LoadStep, LoadOpen, LoadRead, LoadGivesUp, LoadStamp, SaveStep,
         Acquire, JudgeStale, EvictLock, LockTimesOut, Examine, WriteTmp,
         TmpSwept, WriteFails, Rename, RestatAndRelease, ReleaseAfterFailure,
         Mutate, RecordCompact, MarkFileEdited, SaveBegins, Fault,
         LockOpenFails, DiskError, Crash, Exit, LockAges, Reset, Terminating,
         vars, history

LEMMA FileKept ==
  ASSUME FileInv, UNCHANGED <<disk, clock, writes, saved>>
  PROVE  FileInv'
  BY DEF FileInv, Exists

LEMMA LoadCas ==
  ASSUME TypeOK, FileInv, NEW p \in Proc, HookInv(p), LoadStep(p), hazards' = {}
  PROVE  HookInv(p)'
  <1>1. /\ Consistent(Fresh, disk, clock) /\ p \notin merging /\ merging' = merging
        /\ disk' = disk /\ clock' = clock
        /\ pc'[p] \in {"ready", "read", "stamp"}
    BY FreshConsistent
    DEF HookInv, LoadStep, LoadOpen, LoadRead, LoadGivesUp, LoadStamp, TypeOK
  <1>2. Consistent(obj[p], disk, clock) /\ Consistent(memo[p].held, disk, clock)
    BY DEF HookInv, Preparing, LoadStep, LoadOpen, LoadRead, LoadGivesUp, LoadStamp
  <1>3. Consistent(Detached(p).held, disk, clock) /\ OwnObject.held = Fresh
    BY <1>2 DEF Detached, TypeOK, Memo, OwnObject
  <1>4. SUFFICES Consistent(obj'[p], disk, clock) /\ Consistent(memo'[p].held, disk, clock)
    BY <1>1 DEF HookInv, Preparing
  <1>5. CASE LoadOpen(p)
    BY <1>1, <1>2, <1>3, <1>5 DEF LoadOpen, TypeOK
  <1>6. CASE LoadRead(p)
    <2>1. Consistent([Fresh EXCEPT !.ver = disk.ver, !.edits = disk.edits,
                        !.compact = disk.compact, !.base = disk.id], disk, clock)
      BY <1>6 DEF FileInv, LoadRead, Exists, Consistent, Stamped, TypeOK, Disk, Edits,
                  Fresh, NoStamp
    <2> QED
      BY <1>3, <1>6, <2>1 DEF LoadRead, TypeOK
  <1>7. CASE LoadGivesUp(p)
    <2>1. Consistent([Fresh EXCEPT !.unavailable = TRUE], disk, clock)
      BY <1>1 DEF Consistent, Stamped, Fresh
    <2> QED
      BY <1>3, <1>7, <2>1 DEF LoadGivesUp, TypeOK
  <1>8. CASE LoadStamp(p)
    <2>1. Exists => disk.id = obj[p].base
      BY <1>8 DEF LoadStamp
    <2>2. obj'[p] = [obj[p] EXCEPT !.stamp = IF Exists THEN StampOf(disk) ELSE NoStamp]
      BY <1>8 DEF LoadStamp, TypeOK
    <2>3. obj'[p].stamp[1] = IF Exists THEN disk.mtime ELSE 0
      BY <2>2 DEF StampOf, NoStamp, TypeOK, Cache
    <2>4. Consistent(obj'[p], disk, clock)
      BY <1>2, <2>1, <2>2, <2>3 DEF Consistent, Stamped, Exists, FileInv, TypeOK, Cache
    <2> QED
      BY <1>1, <1>3, <1>8, <2>4 DEF LoadStamp, TypeOK
  <1> QED
    BY <1>5, <1>6, <1>7, <1>8 DEF LoadStep

LEMMA MutateCas ==
  ASSUME TypeOK, FileInv, NEW p \in Proc, HookInv(p), Mutate(p)
  PROVE  HookInv(p)'
  <1>1. /\ pc[p] = "ready" /\ pc'[p] = "acquire" /\ merging' = merging
        /\ disk' = disk /\ clock' = clock /\ memo' = memo
    BY DEF TypeOK, Mutate, RecordCompact, MarkFileEdited, SaveBegins
  <1>2. Consistent(obj[p], disk, clock) /\ p \notin merging
    BY <1>1 DEF HookInv, Preparing
  <1>3. SUFFICES Consistent(obj'[p], disk, clock)
    BY <1>1, <1>2 DEF HookInv, Preparing
  <1>4. CASE RecordCompact(p)
    <2>1. obj'[p] = [obj[p] EXCEPT !.compact = TRUE]
      BY <1>4 DEF RecordCompact, TypeOK
    <2> QED
      BY <1>2, <2>1 DEF Consistent, Stamped, TypeOK, Cache
  <1>5. ASSUME NEW f \in File, MarkFileEdited(p, f)
        PROVE  Consistent(obj'[p], disk, clock)
    <2>1. obj'[p] = [obj[p] EXCEPT !.edits = [obj[p].edits EXCEPT ![f] = @ + 1]]
      BY <1>5 DEF MarkFileEdited, TypeOK
    <2>2. \A g \in File : obj[p].edits[g] <= obj'[p].edits[g]
      BY <2>1 DEF TypeOK, Cache, Edits
    <2>3. \A g \in File : disk.edits[g] <= obj[p].edits[g] => disk.edits[g] <= obj'[p].edits[g]
      <3>1. obj'[p].edits \in Edits
        BY <2>1 DEF TypeOK, Cache, Edits
      <3> QED
        BY <2>2, <3>1 DEF TypeOK, Disk, Cache, Edits
    <2> QED
      BY <1>2, <2>1, <2>3 DEF Consistent, Stamped, TypeOK, Cache
  <1> QED
    BY <1>4, <1>5 DEF Mutate

\* An attempt that ends in a time-out leaves the cache as it was.
LEMMA TimeOutCas ==
  ASSUME TypeOK, FileInv, NEW p \in Proc, HookInv(p),
         LockTimesOut(p) \/ LockOpenFails(p)
  PROVE  HookInv(p)'
  <1>1. /\ pc[p] = "acquire" /\ pc'[p] \in {"acquire", "ready"} /\ merging' \subseteq merging
        /\ disk' = disk /\ clock' = clock /\ memo' = memo
    BY DEF TypeOK, LockTimesOut, LockOpenFails, AttemptOver
  <1>2. Consistent(obj[p], disk, clock) /\ p \notin merging
    BY <1>1 DEF HookInv, Preparing
  <1>3. PICK u : obj'[p] = [obj[p] EXCEPT !.unavailable = u]
    BY DEF TypeOK, LockTimesOut, LockOpenFails, AttemptOver
  <1>4. Consistent(obj'[p], disk, clock)
    BY <1>2, <1>3 DEF Consistent, Stamped, TypeOK, Cache
  <1> QED
    BY <1>1, <1>2, <1>4 DEF HookInv, Preparing

\* The fast path, the re-read without a merge and the merge all prepare the join
\* of the hook's counts and the file's.
LEMMA ExamineCas ==
  ASSUME TypeOK, FileInv, NEW p \in Proc, HookInv(p), Examine(p)
  PROVE  HookInv(p)'
  <1> DEFINE rereads == ~SkipsCas(p) /\ Exists
             merges == rereads /\ disk.ver > Work(p).ver
             onto == IF merges THEN Merge(Work(p), disk) ELSE Work(p)
             next == [onto EXCEPT !.ver = Bumped(onto, rereads)]
  <1>1. /\ pc[p] = "examine" /\ pc'[p] = "write" /\ p \notin merging
        /\ disk' = disk /\ clock' = clock /\ memo' = memo
    BY DEF TypeOK, Examine, HookInv
  <1>2. Work(p) = obj[p] /\ Consistent(obj[p], disk, clock)
    BY <1>1 DEF HookInv, Work, Preparing
  <1>3. ~rereads => obj[p].base = disk.id
    <2>1. CASE SkipsCas(p)
      BY <1>2, <2>1 DEF SkipsCas, StampOf, Consistent, Stamped, FileInv, Exists
    <2>2. CASE ~Exists
      BY <1>2, <2>2 DEF Consistent, Exists, TypeOK, Cache
    <2> QED
      BY <2>1, <2>2
  <1>4. ~merges => obj[p].base = disk.id /\ disk.ver <= obj[p].ver
    <2>1. obj[p].ver \in Nat /\ disk.ver \in Nat /\ obj[p].base \in Nat /\ disk.id \in Nat
      BY DEF TypeOK, Cache, Disk
    <2>2. CASE rereads /\ ~(disk.ver > obj[p].ver)
      BY <1>2, <2>1, <2>2 DEF Consistent
    <2>3. CASE ~rereads
      BY <1>2, <1>3, <2>1, <2>3 DEF Consistent
    <2> QED
      BY <1>2, <2>2, <2>3
  <1>5. /\ next.ver > disk.ver
        /\ \A f \in File : next.edits[f] = MaxOf(obj[p].edits[f], disk.edits[f])
        /\ next.stamp = IF merges THEN NoStamp ELSE obj[p].stamp
        /\ next.base = disk.id
    <2>1. CASE merges
      <3>1. onto = Merge(obj[p], disk)
        BY <1>2, <2>1
      <3>2. /\ next.edits = Join(obj[p].edits, disk.edits) /\ next.stamp = NoStamp
            /\ next.base = disk.id /\ next.ver = Bumped(onto, rereads) /\ onto.ver = disk.ver
        BY <3>1 DEF Merge, Fresh
      <3> QED
        BY <2>1, <3>2 DEF Bumped, MaxOf, Join, TypeOK, Disk
    <2>2. CASE ~merges
      <3>1. onto = obj[p]
        BY <1>2, <2>2
      <3>2. /\ next.edits = obj[p].edits /\ next.stamp = obj[p].stamp
            /\ next.base = obj[p].base /\ next.ver = Bumped(obj[p], rereads)
        BY <3>1 DEF TypeOK, Cache
      <3>3. next.ver > disk.ver
        BY <1>4, <2>2, <3>2 DEF Bumped, MaxOf, TypeOK, Disk, Cache
      <3>4. \A f \in File : obj[p].edits[f] = MaxOf(obj[p].edits[f], disk.edits[f])
        BY <1>2, <1>4, <2>2 DEF Consistent, MaxOf, TypeOK, Cache, Disk, Edits
      <3> QED
        BY <1>4, <2>2, <3>2, <3>3, <3>4
    <2> QED
      BY <2>1, <2>2
  <1>6. Stamped(next, disk, clock)
    BY <1>2, <1>4, <1>5 DEF Stamped, Consistent, NoStamp, FileInv, TypeOK, Exists
  <1>7. \/ merges /\ obj' = obj /\ p \in merging' /\ Work(p)' = next
        \/ ~merges /\ obj'[p] = next /\ merging' = merging /\ Work(p)' = next
    BY <1>1 DEF Examine, TypeOK, Work
  <1> HIDE DEF next, merges
  <1>8. Prepared(next, obj'[p], disk, clock)
    <2>1. CASE merges
      BY <1>5, <1>6, <1>7, <2>1 DEF Prepared
    <2>2. CASE ~merges
      <3>1. obj'[p] = next /\ \A f \in File : next.edits[f] = MaxOf(next.edits[f], disk.edits[f])
        BY <1>5, <1>7, <2>2 DEF MaxOf, TypeOK, Cache, Disk, Edits
      <3> QED
        BY <1>5, <1>6, <3>1 DEF Prepared
    <2> QED
      BY <2>1, <2>2
  <1> QED
    BY <1>1, <1>2, <1>7, <1>8 DEF HookInv, Preparing

\* The other critical steps but Rename.
LEMMA SaveCas ==
  ASSUME TypeOK, FileInv, NEW p \in Proc, HookInv(p), hazards' = {},
         \/ Acquire(p) \/ JudgeStale(p) \/ EvictLock(p) \/ WriteTmp(p)
         \/ TmpSwept(p) \/ RestatAndRelease(p) \/ ReleaseAfterFailure(p)
  PROVE  HookInv(p)'
  <1>1. CASE Acquire(p) \/ JudgeStale(p) \/ EvictLock(p)
    BY <1>1 DEF Acquire, JudgeStale, EvictLock, HookInv, Preparing, Work, TypeOK, memory
  <1>2. CASE WriteTmp(p)
    BY <1>2 DEF WriteTmp, HookInv, Preparing, Work, TypeOK, memory
  <1>3. CASE TmpSwept(p) \/ ReleaseAfterFailure(p)
    BY <1>3 DEF TmpSwept, WriteFails, ReleaseAfterFailure, HookInv
  <1>4. CASE RestatAndRelease(p)
    <2> DEFINE done == [Work(p) EXCEPT !.stamp = IF Exists THEN StampOf(disk) ELSE @]
    <2>1. Consistent(Work(p), disk, clock) /\ Work(p).base = disk.id /\ Work(p) \in Cache
      BY <1>4, WorkType DEF RestatAndRelease, HookInv
    <2>2. /\ done.ver = Work(p).ver /\ done.edits = Work(p).edits
          /\ done.base = Work(p).base
          /\ done.stamp[1] = IF Exists THEN disk.mtime ELSE Work(p).stamp[1]
      BY <2>1 DEF Cache, StampOf
    <2>3. Consistent(done, disk, clock)
      BY <2>1, <2>2 DEF Consistent, Stamped, FileInv, Exists, TypeOK
    <2>4. /\ disk' = disk /\ clock' = clock /\ pc'[p] = "ready" /\ p \notin merging'
          /\ obj'[p] = IF p \in merging THEN obj[p] ELSE done
      BY <1>4 DEF RestatAndRelease, TypeOK
    <2>5. Consistent(obj'[p], disk, clock)
      BY <1>4, <2>3, <2>4 DEF RestatAndRelease, HookInv
    <2>6. memo'[p].held \in {memo[p].held, done, Fresh}
      BY <1>4 DEF RestatAndRelease, OwnObject, TypeOK
    <2>7. Consistent(memo'[p].held, disk, clock)
      BY <2>3, <2>6, FreshConsistent DEF HookInv
    <2> QED
      BY <2>4, <2>5, <2>7 DEF HookInv, Preparing
  <1> QED
    BY <1>1, <1>2, <1>3, <1>4

\* The write: the new file carries a higher version and the joined counts, and
\* everything the other hooks hold is older.
LEMMA RenameCas ==
  ASSUME TypeOK, LockInv, CasInv, NEW p \in Proc, Rename(p), hazards' = {}
  PROVE  /\ disk'.ver > disk.ver
         /\ \A f \in File : disk'.edits[f] = MaxOf(disk.edits[f], obj[p].edits[f])
         /\ FileInv'
         /\ \A q \in Proc : HookInv(q)'
  <1>1. /\ hazards = {} /\ clock' = clock + 1 /\ disk'.id = disk.id + 1
        /\ disk'.ver = Work(p).ver /\ disk'.edits = Work(p).edits /\ disk'.mtime = clock'
        /\ writes' = disk'.id /\ saved' = Join(saved, obj[p].edits) /\ FileInv
        /\ \A q \in Proc : HookInv(q)
    BY DEF Rename, CasInv, FileInv
  <1>2. pc[p] = "rename" /\ Prepared(Work(p), obj[p], disk, clock)
    BY <1>1 DEF Rename, HookInv, Preparing
  <1>3. disk'.ver > disk.ver
    BY <1>1, <1>2 DEF Prepared
  <1>4. \A f \in File : disk'.edits[f] = MaxOf(obj[p].edits[f], disk.edits[f])
    BY <1>1, <1>2 DEF Prepared
  <1>5. \A f \in File : /\ disk.edits[f] \in Nat /\ obj[p].edits[f] \in Nat /\ saved[f] \in Nat
    BY DEF TypeOK, Disk, Cache, Edits
  <1>6. /\ disk.ver \in Nat /\ disk'.ver \in Nat /\ disk.id \in Nat /\ clock \in Nat
    BY <1>1, WorkType DEF TypeOK, Disk, Cache
  <1>7. FileInv'
    <2>1. \A f \in File : saved'[f] <= disk'.edits[f]
      BY <1>1, <1>4, <1>5 DEF Join, MaxOf, FileInv
    <2>2. disk'.id # 0 /\ disk'.ver > 0 /\ clock' > 0
      BY <1>1, <1>3, <1>6
    <2> QED
      BY <1>1, <2>1, <2>2 DEF FileInv, Exists
  <1>8. \A o \in Cache : Consistent(o, disk, clock) => Consistent(o, disk', clock')
    <2> SUFFICES ASSUME NEW o \in Cache, Consistent(o, disk, clock)
                 PROVE  Consistent(o, disk', clock')
      OBVIOUS
    <2>0. o.base \in Nat /\ o.ver \in Nat /\ o.stamp[1] \in Nat
      BY DEF Cache, Stamp
    <2>1. o.base < disk'.id /\ o.stamp[1] < clock'
      BY <1>1, <1>6, <2>0 DEF Consistent, Stamped
    <2>2. o.ver < disk'.ver
      BY <1>3, <1>6, <2>0 DEF Consistent
    <2> QED
      BY <1>1, <1>6, <2>0, <2>1, <2>2 DEF Consistent, Stamped
  <1>9. \A q \in Proc : Consistent(memo'[q].held, disk', clock')
    BY <1>1, <1>8 DEF HookInv, Rename, TypeOK, Memo
  <1>10. ASSUME NEW q \in Proc, q # p PROVE HookInv(q)'
    <2>1. pc'[q] = pc[q] /\ ~InCritical(q)
      BY <1>1, <1>2, <1>10 DEF LockInv, InCritical, CriticalPc, Rename, TypeOK
    <2>2. q \notin merging /\ merging' = merging /\ obj'[q] = obj[q]
      BY <1>1, <1>10, <2>1 DEF HookInv, InCritical, CriticalPc, Rename, TypeOK
    <2>3. Consistent(obj'[q], disk', clock')
      BY <1>1, <1>8, <2>1, <2>2 DEF HookInv, Preparing, InCritical, CriticalPc, TypeOK
    <2> QED
      BY <1>9, <2>1, <2>2, <2>3 DEF HookInv, Preparing, InCritical, CriticalPc
  <1>11. HookInv(p)'
    <2>1. pc'[p] = "restat" /\ merging' = merging
      BY DEF Rename, TypeOK
    <2>2. Work(p)' = [Work(p) EXCEPT !.base = writes + 1] /\ Work(p) \in Cache
      BY WorkType DEF Rename, TypeOK, Work
    <2>3. Work(p)'.base = disk'.id /\ Work(p)'.ver = disk'.ver /\ Work(p)'.edits = disk'.edits
          /\ Work(p)'.stamp = Work(p).stamp
      BY <1>1, <2>2 DEF Cache, FileInv
    <2>4. Stamped(Work(p)', disk', clock')
      BY <1>1, <1>2, <2>2, <2>3 DEF Prepared, Stamped, TypeOK, Cache, Stamp
    <2>5. \A f \in File : disk'.edits[f] <= Work(p)'.edits[f]
      BY <1>4, <1>5, <2>3 DEF MaxOf
    <2>6. Consistent(Work(p)', disk', clock')
      BY <1>1, <2>3, <2>4, <2>5 DEF Consistent, TypeOK, Disk
    <2>7. p \in merging => obj'[p] = obj[p] /\ Consistent(obj[p], disk, clock)
      BY <1>1 DEF Rename, HookInv, TypeOK
    <2>8. p \notin merging => obj'[p] = Work(p)'
      BY <2>1 DEF Work
    <2>9. Consistent(obj'[p], disk', clock')
      BY <1>8, <2>6, <2>7, <2>8 DEF TypeOK
    <2> QED
      BY <1>9, <2>1, <2>3, <2>6, <2>9 DEF HookInv, Preparing
  <1> QED
    BY <1>3, <1>4, <1>5, <1>7, <1>10, <1>11 DEF MaxOf

\* A process that ends or is killed forgets; a fresh cache fits every file.
LEMMA ForgetsCas ==
  ASSUME TypeOK, FileInv, NEW p \in Proc, HookInv(p), Exit(p) \/ Crash(p)
  PROVE  HookInv(p)'
  <1>1. /\ pc'[p] \in {"done", "dead"} /\ p \notin merging'
        /\ obj'[p] = Fresh /\ memo'[p].held = Fresh /\ disk' = disk /\ clock' = clock
    BY DEF Exit, Crash, Forgets, NoMemo, TypeOK
  <1> QED
    BY <1>1, FreshConsistent DEF HookInv, Preparing

\* Other hooks' memory is touched by no step but their own.
LEMMA OthersKept ==
  ASSUME TypeOK, NEW p \in Proc, NEW q \in Proc, q # p, HookInv(q), ~Rename(p),
         LoadStep(p) \/ SaveStep(p) \/ Mutate(p) \/ Fault(p) \/ Exit(p)
  PROVE  HookInv(q)'
  <1>1. disk' = disk /\ clock' = clock
    BY DEF LoadStep, LoadOpen, LoadRead, LoadGivesUp, LoadStamp, SaveStep,
           Acquire, JudgeStale, EvictLock, LockTimesOut, Examine, WriteTmp,
           TmpSwept, WriteFails, RestatAndRelease, ReleaseAfterFailure,
           Mutate, RecordCompact, MarkFileEdited, SaveBegins, Fault,
           LockOpenFails, DiskError, Crash, Exit
  <1>2. CASE LoadStep(p)
    <2>1. pc'[q] = pc[q] /\ obj'[q] = obj[q] /\ memo'[q] = memo[q] /\ UNCHANGED <<merged, merging>>
      BY <1>2 DEF TypeOK, LoadStep, LoadOpen, LoadRead, LoadGivesUp, LoadStamp
    <2> QED
      BY <1>1, <2>1, Frame
  <1>3. CASE SaveStep(p)
    <2>1. pc'[q] = pc[q] /\ obj'[q] = obj[q] /\ memo'[q] = memo[q]
          /\ merged'[q] = merged[q] /\ (q \in merging' <=> q \in merging)
      BY <1>3
      DEF TypeOK, SaveStep, Acquire, JudgeStale, EvictLock, LockTimesOut,
          AttemptOver, Examine, WriteTmp, TmpSwept, WriteFails,
          RestatAndRelease, ReleaseAfterFailure, memory
    <2> QED
      BY <1>1, <2>1, Frame
  <1>4. CASE Mutate(p) \/ Fault(p) \/ Exit(p)
    <2>1. pc'[q] = pc[q] /\ obj'[q] = obj[q] /\ memo'[q] = memo[q]
          /\ merged'[q] = merged[q] /\ (q \in merging' <=> q \in merging)
      BY <1>4
      DEF TypeOK, Mutate, RecordCompact, MarkFileEdited, SaveBegins, Fault,
          LockOpenFails, AttemptOver, DiskError, WriteFails, Crash, Exit,
          Forgets, memory
    <2> QED
      BY <1>1, <2>1, Frame
  <1> QED
    BY <1>2, <1>3, <1>4

LEMMA NextCasInv == TypeOK /\ LockInv /\ CasInv /\ [Next]_vars => CasInv'
  <1> SUFFICES ASSUME TypeOK, LockInv, CasInv, [Next]_vars, hazards' = {}
               PROVE  FileInv' /\ \A q \in Proc : HookInv(q)'
    BY DEF CasInv
  <1>1. FileInv /\ \A q \in Proc : HookInv(q)
    BY HazardsGrow DEF CasInv
  <1>2. CASE \E p \in Proc : Rename(p)
    BY <1>2, RenameCas
  <1>3. ASSUME NEW p \in Proc, ~Rename(p),
               LoadStep(p) \/ SaveStep(p) \/ Mutate(p) \/ Fault(p) \/ Exit(p)
        PROVE  FileInv' /\ \A q \in Proc : HookInv(q)'
    <2>1. UNCHANGED <<disk, clock, writes, saved>>
      BY <1>3
      DEF LoadStep, LoadOpen, LoadRead, LoadGivesUp, LoadStamp, SaveStep,
          Acquire, JudgeStale, EvictLock, LockTimesOut, Examine, WriteTmp,
          TmpSwept, WriteFails, RestatAndRelease, ReleaseAfterFailure,
          Mutate, RecordCompact, MarkFileEdited, SaveBegins, Fault,
          LockOpenFails, DiskError, Crash, Exit, history
    <2>2. HookInv(p)'
      <3>1. ~DiskError(p)
        BY DEF DiskError, WriteFails
      <3> QED
        BY <1>1, <1>3, <3>1, LoadCas, SaveCas, ExamineCas, TimeOutCas, MutateCas,
           ForgetsCas
        DEF SaveStep, Fault
    <2> QED
      BY <1>1, <1>3, <2>1, <2>2, FileKept, OthersKept
  <1>4. CASE LockAges \/ UNCHANGED vars
    <2>1. UNCHANGED <<disk, clock, writes, saved, pc, obj, merged, memo, merging>>
      BY <1>4 DEF LockAges, vars, memory, history
    <2> QED
      BY <1>1, <2>1, FileKept, Frame
  <1>5. ~Reset
    BY DEF Reset
  <1> QED
    BY <1>2, <1>3, <1>4, <1>5 DEF Next, Terminating

LEMMA InitCasInv == Init => CasInv
  <1> SUFFICES ASSUME Init PROVE FileInv /\ \A p \in Proc : HookInv(p)
    BY DEF CasInv
  <1>1. FileInv
    BY DEF Init, FileInv, NoFile, NoEdits, Exists
  <1>2. Consistent(Fresh, disk, clock)
    BY <1>1, FreshConsistent, InitTypeOK
  <1> QED
    BY <1>1, <1>2 DEF Init, HookInv, Preparing, NoMemo

\* The invariants together.
THEOREM Invariants == Spec => [](TypeOK /\ LockInv /\ CasInv)
  <1>1. Init => LockInv
    BY DEF Init, LockInv, InCritical, CriticalPc
  <1> QED
    BY <1>1, InitTypeOK, InitCasInv, NextTypeOK, NextLockInv, NextCasInv, PTL DEF Spec

\* Until a hazard, no edit a hook has saved is missing from the file.
THEOREM SavedEditsKept == Spec => []NoLostEdit
  <1>1. TypeOK /\ CasInv => NoLostEdit
    <2> SUFFICES ASSUME TypeOK, CasInv, hazards = {}, NEW f \in File
                 PROVE  ~(disk.edits[f] < saved[f])
      BY DEF NoLostEdit, LostEdit
    <2>1. disk.edits[f] \in Nat /\ saved[f] \in Nat
      BY DEF TypeOK, Disk, Edits
    <2>2. saved[f] <= disk.edits[f]
      BY DEF CasInv, FileInv
    <2> QED
      BY <2>1, <2>2
  <1> QED
    BY <1>1, Invariants, PTL

\* Until a hazard, every write of the file raises its version.
THEOREM VersionsGrow == Spec => VersionsAdvance
  <1>1. TypeOK /\ LockInv /\ CasInv /\ [Next]_vars
          => [hazards' = {} /\ disk' # disk => disk'.ver > disk.ver]_vars
    <2> SUFFICES ASSUME TypeOK, LockInv, CasInv, Next, hazards' = {}, disk' # disk
                 PROVE  disk'.ver > disk.ver
      OBVIOUS
    <2>1. \E p \in Proc : Rename(p)
      BY DEF Next, LoadStep, LoadOpen, LoadRead, LoadGivesUp, LoadStamp, SaveStep,
             Acquire, JudgeStale, EvictLock, LockTimesOut, Examine, WriteTmp,
             TmpSwept, WriteFails, RestatAndRelease, ReleaseAfterFailure,
             Mutate, RecordCompact, MarkFileEdited, SaveBegins, Fault,
             LockOpenFails, DiskError, Crash, Exit, LockAges, Reset, Terminating,
             vars
    <2> QED
      BY <2>1, RenameCas
  <1> QED
    BY <1>1, Invariants, PTL DEF Spec, VersionsAdvance

-----------------------------------------------------------------------------
(* The refinement: save() as one atomic join.                              *)

LEMMA FreshBelow == TypeOK => \A f \in File : Fresh.edits[f] = 0 /\ disk.edits[f] \in Nat
  BY DEF TypeOK, Disk, Edits, Fresh, NoEdits

\* The file is there to stay, and the counts in it never shrink.
LEMMA StoreGrows ==
  ASSUME TypeOK, LockInv, CasInv, [Next]_vars, hazards' = {}
  PROVE  /\ Exists => Exists'
         /\ \A f \in File : disk.edits[f] <= disk'.edits[f]
  <1>1. CASE \E p \in Proc : Rename(p)
    <2> PICK p \in Proc : Rename(p)
      BY <1>1
    <2>1. \A f \in File : disk'.edits[f] = MaxOf(disk.edits[f], obj[p].edits[f])
      BY RenameCas
    <2>2. disk'.id # 0
      BY DEF Rename, TypeOK
    <2>3. \A f \in File : disk.edits[f] \in Nat /\ obj[p].edits[f] \in Nat
      BY DEF TypeOK, Disk, Cache, Edits
    <2> QED
      BY <2>1, <2>2, <2>3 DEF MaxOf, Exists
  <1>2. CASE ~\E p \in Proc : Rename(p)
    <2>1. disk' = disk
      BY <1>2
      DEF Next, LoadStep, LoadOpen, LoadRead, LoadGivesUp, LoadStamp, SaveStep,
          Acquire, JudgeStale, EvictLock, LockTimesOut, Examine, WriteTmp,
          TmpSwept, WriteFails, RestatAndRelease, ReleaseAfterFailure,
          Mutate, RecordCompact, MarkFileEdited, SaveBegins, Fault,
          LockOpenFails, DiskError, Crash, Exit, LockAges, Reset, Terminating,
          vars
    <2>2. \A f \in File : disk.edits[f] \in Nat
      BY DEF TypeOK, Disk, Edits
    <2> QED
      BY <2>1, <2>2 DEF Exists
  <1> QED
    BY <1>1, <1>2

\* A step of hook q other than those of load(), the end of save() and its death
\* leaves its memo alone.
LEMMA MemoKept ==
  ASSUME TypeOK, NEW q \in Proc, [Next]_vars,
         ~LoadStep(q), ~RestatAndRelease(q), ~Exit(q), ~Crash(q)
  PROVE  /\ memo'[q] = memo[q]
         /\ \/ pc'[q] = pc[q]
            \/ pc[q] # "stamp" /\ pc'[q] \notin {"read", "stamp"}
  <1>1. ASSUME NEW p \in Proc, p # q,
               LoadStep(p) \/ SaveStep(p) \/ Mutate(p) \/ Fault(p) \/ Exit(p)
        PROVE  memo'[q] = memo[q] /\ pc'[q] = pc[q]
    BY <1>1
    DEF TypeOK, LoadStep, LoadOpen, LoadRead, LoadGivesUp, LoadStamp, SaveStep,
        Acquire, JudgeStale, EvictLock, LockTimesOut, AttemptOver, Examine,
        WriteTmp, TmpSwept, WriteFails, Rename, RestatAndRelease,
        ReleaseAfterFailure, Mutate, RecordCompact, MarkFileEdited, SaveBegins,
        Fault, LockOpenFails, DiskError, Crash, Exit, Forgets, memory
  <1>2. CASE SaveStep(q) \/ Mutate(q) \/ Fault(q)
    BY <1>2
    DEF TypeOK, SaveStep, Acquire, JudgeStale, EvictLock, LockTimesOut,
        AttemptOver, Examine, WriteTmp, TmpSwept, WriteFails, Rename,
        ReleaseAfterFailure, Mutate, RecordCompact, MarkFileEdited, SaveBegins,
        Fault, LockOpenFails, DiskError, memory
  <1>3. CASE LockAges \/ Reset \/ UNCHANGED vars
    <2>1. memo' = memo /\ pc' = pc
      BY <1>3 DEF LockAges, Reset, vars, memory
    <2> QED
      BY <2>1
  <1>4. CASE \E p \in Proc : LoadStep(p) \/ SaveStep(p) \/ Mutate(p) \/ Fault(p) \/ Exit(p)
    <2> PICK p \in Proc : LoadStep(p) \/ SaveStep(p) \/ Mutate(p) \/ Fault(p) \/ Exit(p)
      BY <1>4
    <2> QED
      BY <1>1, <1>2
  <1> QED
    BY <1>3, <1>4 DEF Next, Terminating

LEMMA NextViewInv == TypeOK /\ LockInv /\ CasInv /\ ViewInv /\ [Next]_vars => ViewInv'
  <1> SUFFICES ASSUME TypeOK, LockInv, CasInv, ViewInv, [Next]_vars, hazards' = {},
                      NEW q \in Proc
               PROVE  MemoInv(q)'
    BY DEF ViewInv
  <1>1. /\ hazards = {} /\ MemoInv(q) /\ (Exists => Exists')
        /\ \A f \in File : disk.edits[f] <= disk'.edits[f]
    BY HazardsGrow, StoreGrows DEF ViewInv
  <1>2. \A f \in File : /\ memo[q].held.edits[f] \in Nat
                        /\ disk.edits[f] \in Nat /\ disk'.edits[f] \in Nat
    <2>1. TypeOK'
      BY NextTypeOK
    <2> QED
      BY <2>1 DEF TypeOK, Memo, Cache, Disk, Edits
  <1>3. CASE ~LoadStep(q) /\ ~RestatAndRelease(q) /\ ~Exit(q) /\ ~Crash(q)
    BY <1>1, <1>2, <1>3, MemoKept DEF MemoInv
  <1>4. CASE LoadOpen(q)
    <2>1. memo'[q] \in {memo[q], OwnObject, Detached(q)} /\ pc'[q] \in {"ready", "read"}
          /\ pc[q] # "stamp" /\ disk' = disk
      BY <1>4 DEF LoadOpen, TypeOK
    <2>2. pc'[q] = "read" \/ memo'[q] = OwnObject \/ Exists' \/ memo'[q] = Detached(q)
      BY <1>4 DEF LoadOpen, TypeOK, Exists
    <2>3. ~Exists => memo'[q] = memo[q] /\ pc'[q] = "ready"
      BY <1>1, <1>4 DEF LoadOpen, Detached, MemoInv, TypeOK
    <2>4. Exists => memo'[q] \in {memo[q], OwnObject}
      BY <1>4 DEF LoadOpen, TypeOK
    <2>5. OwnObject.alias
      BY DEF OwnObject
    <2> QED
      BY <1>1, <1>2, <2>1, <2>3, <2>4, <2>5 DEF MemoInv, Exists
  <1>5. CASE LoadRead(q)
    <2>1. pc'[q] = "stamp" /\ Exists'
      BY <1>5 DEF LoadRead, TypeOK, Exists
    <2> QED
      BY <2>1 DEF MemoInv
  <1>6. CASE LoadGivesUp(q)
    BY <1>1, <1>6 DEF LoadGivesUp, MemoInv
  <1>7. CASE LoadStamp(q)
    <2>1. pc[q] = "stamp" /\ memo'[q].alias
      BY <1>7 DEF LoadStamp, TypeOK, OwnObject
    <2> QED
      BY <1>1, <2>1 DEF MemoInv
  <1>8. CASE Exit(q) \/ Crash(q)
    <2>1. pc'[q] \in {"done", "dead"} /\ memo'[q] = NoMemo /\ disk' = disk
      BY <1>8 DEF Exit, Crash, Forgets, TypeOK
    <2>2. memo'[q].held = Fresh /\ ~memo'[q].alias
      BY <2>1 DEF NoMemo
    <2> QED
      BY <1>2, <2>1, <2>2, FreshBelow DEF MemoInv
  <1>9. CASE RestatAndRelease(q)
    <2> DEFINE done == [Work(q) EXCEPT !.stamp = IF Exists THEN StampOf(disk) ELSE @]
    <2>1. HookInv(q) /\ pc[q] = "restat" /\ pc'[q] = "ready" /\ disk' = disk
      BY <1>1, <1>9 DEF CasInv, RestatAndRelease, TypeOK
    <2>2. done.edits = disk.edits
      BY <2>1, WorkType DEF HookInv, Cache
    <2>3. \/ memo'[q] = memo[q]
          \/ Exists /\ memo'[q] = OwnObject
          \/ memo'[q] = [mtime |-> disk.mtime, alias |-> FALSE, held |-> done]
      BY <1>9 DEF RestatAndRelease, TypeOK
    <2>4. CASE memo'[q] = memo[q]
      BY <1>1, <2>1, <2>4 DEF MemoInv
    <2>5. CASE Exists /\ memo'[q] = OwnObject
      BY <1>1, <2>1, <2>5 DEF MemoInv, OwnObject
    <2>6. CASE memo'[q] = [mtime |-> disk.mtime, alias |-> FALSE, held |-> done]
      <3>1. ~memo'[q].alias /\ memo'[q].held = done
        BY <2>6
      <3> QED
        BY <1>2, <2>1, <2>2, <3>1 DEF MemoInv
    <2> QED
      BY <2>3, <2>4, <2>5, <2>6
  <1> QED
    BY <1>3, <1>4, <1>5, <1>6, <1>7, <1>8, <1>9 DEF LoadStep

\* Steps that change neither the file nor what any hook's cache counts.
LEMMA QuietSteps ==
  ASSUME TypeOK, CasInv, NEW p \in Proc, hazards' = {}, hazards = {},
         \/ LoadStamp(p) \/ RecordCompact(p) \/ LockOpenFails(p) \/ DiskError(p)
         \/ (SaveStep(p) /\ ~Rename(p))
  PROVE  disk' = disk /\ \A q \in Proc : obj'[q].edits = obj[q].edits
  <1>1. disk' = disk
    BY DEF LoadStamp, RecordCompact, SaveBegins, SaveStep,
           Acquire, JudgeStale, EvictLock, LockTimesOut, Examine, WriteTmp,
           TmpSwept, WriteFails, RestatAndRelease, ReleaseAfterFailure,
           LockOpenFails, DiskError, history
  <1>2. CASE Examine(p)
    <2> DEFINE rereads == ~SkipsCas(p) /\ Exists
               merges == rereads /\ disk.ver > Work(p).ver
               onto == IF merges THEN Merge(Work(p), disk) ELSE Work(p)
               next == [onto EXCEPT !.ver = Bumped(onto, rereads)]
    <2>1. p \notin merging
      BY <1>2 DEF CasInv, HookInv, Examine
    <2>2. CASE merges
      BY <1>2, <2>2 DEF Examine
    <2>3. CASE ~merges
      <3>1. onto = obj[p]
        BY <2>1, <2>3 DEF Work
      <3>2. next.edits = obj[p].edits
        BY <3>1 DEF TypeOK, Cache
      <3>3. obj' = [obj EXCEPT ![p] = next]
        BY <1>2, <2>1, <2>3 DEF Examine
      <3> QED
        BY <1>1, <3>2, <3>3 DEF TypeOK
    <2> QED
      BY <1>1, <2>2, <2>3
  <1>3. CASE LockTimesOut(p) \/ LockOpenFails(p) \/ ReleaseAfterFailure(p)
    <2>1. PICK u : obj' = [obj EXCEPT ![p] = [obj[p] EXCEPT !.unavailable = u]]
      BY <1>3 DEF TypeOK, LockTimesOut, LockOpenFails, ReleaseAfterFailure, AttemptOver
    <2> QED
      BY <1>1, <2>1 DEF TypeOK, Cache
  <1>4. CASE RestatAndRelease(p) \/ LoadStamp(p)
    <2>1. PICK t : obj' \in {obj, [obj EXCEPT ![p] = [obj[p] EXCEPT !.stamp = t]]}
      BY <1>4 DEF TypeOK, RestatAndRelease, LoadStamp, Work
    <2>2. obj \in [Proc -> Cache]
      BY DEF TypeOK
    <2>3. \A q \in Proc : obj'[q].edits = obj[q].edits
      BY <2>1, <2>2 DEF Cache
    <2> QED
      BY <1>1, <2>3
  <1>5. CASE RecordCompact(p)
    <2>1. obj' = [obj EXCEPT ![p] = [obj[p] EXCEPT !.compact = TRUE]]
      BY <1>5 DEF TypeOK, RecordCompact
    <2> QED
      BY <1>1, <2>1 DEF TypeOK, Cache
  <1>6. CASE Acquire(p) \/ JudgeStale(p) \/ EvictLock(p) \/ WriteTmp(p) \/ TmpSwept(p) \/ DiskError(p)
    <2>1. obj' = obj
      BY <1>6 DEF Acquire, JudgeStale, EvictLock, WriteTmp, TmpSwept, DiskError,
                  WriteFails, memory
    <2> QED
      BY <1>1, <2>1
  <1> QED
    BY <1>1, <1>2, <1>3, <1>4, <1>5, <1>6 DEF SaveStep

\* Each step of the store is a step of the log, or changes nothing of it.
LEMMA NextLog ==
  TypeOK /\ LockInv /\ CasInv /\ ViewInv /\ [Next]_vars => [Log!LogNext]_(Log!logVars)
  <1> DEFINE View == [q \in Proc |-> obj[q].edits]
  <1> SUFFICES ASSUME TypeOK, LockInv, CasInv, ViewInv, [Next]_vars
               PROVE  [Log!LogNext]_(Log!logVars)
    OBVIOUS
  <1>1. CASE hazards' # {}
    BY <1>1 DEF Log!LogNext
  <1>2. CASE hazards' = {}
    <2>1. hazards = {} /\ FileInv /\ (hazards = {}) = TRUE /\ (hazards' = {}) = TRUE
      BY <1>2, HazardsGrow DEF CasInv
    <2>2. ASSUME disk' = disk, \A q \in Proc : obj'[q].edits = obj[q].edits
          PROVE  UNCHANGED Log!logVars
      BY <1>2, <2>1, <2>2 DEF Log!logVars
    <2>3. ASSUME NEW p \in Proc, disk' = disk, \A q \in Proc \ {p} : obj'[q] = obj[q],
                 \A f \in File : obj'[p].edits[f] <= disk.edits[f]
          PROVE  Log!Learn(p)
      BY <2>3 DEF Log!Learn, Log!Below
    <2>4. ASSUME NEW p \in Proc, LoadStep(p)
          PROVE  Log!Learn(p) \/ UNCHANGED Log!logVars
      <3>1. CASE LoadOpen(p)
        <4>1. disk' = disk /\ \A q \in Proc \ {p} : obj'[q] = obj[q]
          BY <3>1 DEF LoadOpen, TypeOK
        <4>2. \/ obj' = obj
              \/ obj'[p] = Fresh
              \/ ~memo[p].alias /\ pc[p] # "stamp" /\ obj'[p] = memo[p].held
          BY <3>1 DEF LoadOpen, TypeOK
        <4>3. obj' = obj \/ \A f \in File : obj'[p].edits[f] <= disk.edits[f]
          BY <2>1, <4>2, FreshBelow DEF ViewInv, MemoInv
        <4> QED
          BY <2>2, <2>3, <4>1, <4>3
      <3>2. CASE LoadRead(p)
        <4>1. /\ disk' = disk /\ \A q \in Proc \ {p} : obj'[q] = obj[q]
              /\ obj'[p].edits = disk.edits
          BY <3>2 DEF LoadRead, TypeOK, Fresh
        <4> QED
          BY <2>3, <4>1, FreshBelow
      <3>3. CASE LoadGivesUp(p)
        <4>1. /\ disk' = disk /\ \A q \in Proc \ {p} : obj'[q] = obj[q]
              /\ obj'[p].edits = Fresh.edits
          BY <3>3 DEF LoadGivesUp, TypeOK, Fresh
        <4> QED
          BY <2>3, <4>1, FreshBelow
      <3>4. CASE LoadStamp(p)
        BY <1>2, <2>1, <2>2, <3>4, QuietSteps
      <3> QED
        BY <2>4, <3>1, <3>2, <3>3, <3>4 DEF LoadStep
    <2>5. ASSUME NEW p \in Proc, SaveStep(p)
          PROVE  Log!Commit(p) \/ UNCHANGED Log!logVars
      <3>1. CASE Rename(p)
        <4>1. \A f \in File : disk'.edits[f] = MaxOf(disk.edits[f], obj[p].edits[f])
          BY <1>2, <3>1, RenameCas
        <4>2. disk'.edits \in Edits
          BY NextTypeOK DEF TypeOK, Disk
        <4>3. disk'.edits = [f \in File |-> Log!Most(disk.edits[f], obj[p].edits[f])]
          BY <4>1, <4>2 DEF Edits, MaxOf, Log!Most
        <4>4. \A q \in Proc : obj'[q].edits = obj[q].edits
          <5>1. obj' \in {obj, [obj EXCEPT ![p] = [obj[p] EXCEPT !.base = writes + 1]]}
            BY <3>1 DEF Rename, TypeOK
          <5> QED
            BY <5>1 DEF TypeOK, Cache
        <4>5. \A f \in File : View[p][f] = obj[p].edits[f]
          OBVIOUS
        <4> QED
          BY <4>3, <4>4, <4>5 DEF Log!Commit
      <3>2. CASE ~Rename(p)
        BY <1>2, <2>1, <2>2, <2>5, <3>2, QuietSteps
      <3> QED
        BY <3>1, <3>2
    <2>6. ASSUME NEW p \in Proc, Mutate(p)
          PROVE  (\E f \in File : Log!Edit(p, f)) \/ UNCHANGED Log!logVars
      <3>1. CASE RecordCompact(p)
        BY <1>2, <2>1, <2>2, <3>1, QuietSteps
      <3>2. ASSUME NEW f \in File, MarkFileEdited(p, f) PROVE Log!Edit(p, f)
        <4>1. disk' = disk
          BY <3>2 DEF MarkFileEdited, SaveBegins
        <4>2. obj' = [obj EXCEPT ![p] =
                        [obj[p] EXCEPT !.edits = [obj[p].edits EXCEPT ![f] = @ + 1]]]
          BY <3>2 DEF MarkFileEdited, TypeOK
        <4>3. \A q \in Proc : obj'[q].edits = IF q = p THEN [obj[p].edits EXCEPT ![f] = @ + 1]
                                              ELSE obj[q].edits
          BY <4>2 DEF TypeOK, Cache
        <4>4. View' = [View EXCEPT ![p] = [View[p] EXCEPT ![f] = View[p][f] + 1]]
          BY <4>3
        <4> QED
          BY <4>1, <4>4 DEF Log!Edit
      <3> QED
        BY <2>6, <3>1, <3>2 DEF Mutate
    <2>7. ASSUME NEW p \in Proc, Fault(p) \/ Exit(p)
          PROVE  Log!Learn(p) \/ UNCHANGED Log!logVars
      <3>1. CASE Exit(p) \/ Crash(p)
        <4>1. /\ disk' = disk /\ \A q \in Proc \ {p} : obj'[q] = obj[q]
              /\ obj'[p] = Fresh
          BY <3>1 DEF Exit, Crash, Forgets, TypeOK
        <4> QED
          BY <2>3, <4>1, FreshBelow
      <3>2. CASE ~Exit(p) /\ ~Crash(p)
        BY <1>2, <2>1, <2>2, <2>7, <3>2, QuietSteps DEF Fault
      <3> QED
        BY <3>1, <3>2
    <2>8. CASE LockAges \/ UNCHANGED vars
      BY <2>2, <2>8 DEF LockAges, vars, memory
    <2>9. ~Reset
      BY <1>2 DEF Reset
    <2>10. ASSUME NEW p \in Proc,
                  \/ Log!Learn(p) \/ Log!Commit(p) \/ \E f \in File : Log!Edit(p, f)
           PROVE  Log!LogNext
      BY <2>1, <2>10 DEF Log!LogNext
    <2> QED
      BY <2>4, <2>5, <2>6, <2>7, <2>8, <2>9, <2>10 DEF Next, Terminating
  <1> QED
    BY <1>1, <1>2

\* Until a hazard, save() is one atomic join of the hook's counts into the file.
THEOREM SavesAreAtomic == Spec => AtomicSaves
  <1>1. Init => Log!LogInit
    <2> SUFFICES ASSUME Init PROVE Log!LogInit
      OBVIOUS
    <2>1. disk.edits = Log!Zero
      BY DEF Init, NoFile, NoEdits, Log!Zero
    <2>2. [p \in Proc |-> obj[p].edits] = [p \in Proc |-> Log!Zero]
      BY DEF Init, Fresh, NoEdits, Log!Zero
    <2> QED
      BY <2>1, <2>2 DEF Init, Log!LogInit
  <1>2. Init => ViewInv
    <2> SUFFICES ASSUME Init, NEW p \in Proc PROVE MemoInv(p)
      BY DEF ViewInv
    <2>1. pc[p] = "start" /\ ~memo[p].alias /\ memo[p].held = Fresh
      BY DEF Init, NoMemo
    <2> QED
      BY <2>1, InitTypeOK, FreshBelow DEF MemoInv
  <1> QED
    BY <1>1, <1>2, Invariants, NextViewInv, NextLog, PTL
    DEF Spec, AtomicSaves, Log!LogSpec

-----------------------------------------------------------------------------
(* A busy lock.                                                            *)

NothingFailed == hazards \cap {"failedWrite", "reset"} = {}
Usable(p) == ~obj[p].unavailable /\ ~merged[p].unavailable /\ ~memo[p].held.unavailable

\* Without a failed write and without a reset no save has a failure to report, no
\* load misses the file it saw, and no object in memory is unavailable.
KeptInv == NothingFailed =>
  failed = {} /\ \A p \in Proc : Usable(p) /\ (pc[p] = "read" => Exists)

LEMMA FailuresStay == [Next]_vars /\ NothingFailed' => NothingFailed
  BY DEF Next, LoadStep, LoadOpen, LoadRead, LoadGivesUp, LoadStamp, SaveStep,
         Acquire, JudgeStale, EvictLock, LockTimesOut, Examine, WriteTmp,
         TmpSwept, WriteFails, Rename, RestatAndRelease, ReleaseAfterFailure,
         Mutate, RecordCompact, MarkFileEdited, SaveBegins, Fault,
         LockOpenFails, DiskError, Crash, Exit, LockAges, Reset, Terminating,
         vars, history, NothingFailed

\* The other hooks keep their objects, and the file does not vanish.
LEMMA OthersUsable ==
  ASSUME TypeOK, NEW p \in Proc, NEW q \in Proc, q # p,
         Usable(q), pc[q] = "read" => Exists, Exists => Exists',
         pc'[q] = pc[q], obj'[q] = obj[q], merged'[q] = merged[q], memo'[q] = memo[q]
  PROVE  Usable(q)' /\ (pc'[q] = "read" => Exists')
  BY DEF Usable

LEMMA LoadKeepsUsable ==
  ASSUME TypeOK, NEW p \in Proc, Usable(p), pc[p] = "read" => Exists, LoadStep(p)
  PROVE  Usable(p)' /\ (pc'[p] = "read" => Exists')
<1>0. /\ disk' = disk /\ merged' = merged
      /\ pc \in [Proc -> Pc] /\ obj \in [Proc -> Cache] /\ memo \in [Proc -> Memo]
  BY DEF LoadStep, LoadOpen, LoadRead, LoadGivesUp, LoadStamp, TypeOK
<1>1. ~Fresh.unavailable /\ ~OwnObject.held.unavailable /\ ~Detached(p).held.unavailable
  BY <1>0 DEF Fresh, OwnObject, Detached, Usable, Memo
<1>2. CASE LoadOpen(p)
  BY <1>0, <1>1, <1>2 DEF LoadOpen, Usable, Exists
<1>3. CASE LoadRead(p)
  BY <1>0, <1>1, <1>3 DEF LoadRead, Usable, Fresh
<1>4. CASE LoadGivesUp(p)
  BY <1>4 DEF LoadGivesUp
<1>5. CASE LoadStamp(p)
  <2>1. obj'[p].unavailable = obj[p].unavailable /\ memo'[p] = OwnObject /\ pc'[p] = "ready"
    BY <1>0, <1>5 DEF LoadStamp, Cache
  <2> QED BY <1>0, <1>1, <2>1 DEF Usable
<1> QED BY <1>2, <1>3, <1>4, <1>5 DEF LoadStep

\* Another attempt, or the end of save(), blames the cache only for a failed write.
LEMMA AttemptKeepsUsable ==
  ASSUME TypeOK, NEW p \in Proc, Usable(p), failed = {}, AttemptOver(p),
         UNCHANGED <<merged, memo>>
  PROVE  Usable(p)' /\ pc'[p] # "read"
<1>1. pc'[p] # "read"
  BY DEF AttemptOver, TypeOK
<1>2. ~obj'[p].unavailable
  <2> DEFINE u == obj[p].unavailable \/ (attempt[p] >= 2 /\ p \in failed /\ p \notin merging)
  <2>1. ~u
    BY DEF Usable
  <2>2. obj' = [obj EXCEPT ![p] = [obj[p] EXCEPT !.unavailable = u]]
    BY DEF TypeOK, AttemptOver
  <2> HIDE DEF u
  <2>3. obj'[p].unavailable = u
    BY <2>2 DEF TypeOK, Cache
  <2> QED BY <2>1, <2>3
<1> QED BY <1>1, <1>2 DEF Usable

LEMMA SaveKeepsUsable ==
  ASSUME TypeOK, NEW p \in Proc, Usable(p), failed = {}, NothingFailed', SaveStep(p)
  PROVE  Usable(p)' /\ pc'[p] # "read" /\ failed' = {}
<1>0. /\ pc \in [Proc -> Pc] /\ obj \in [Proc -> Cache] /\ merged \in [Proc -> Cache]
      /\ memo \in [Proc -> Memo] /\ Work(p) \in Cache
  BY WorkType DEF TypeOK
<1>1. ~Work(p).unavailable
  BY DEF Work, Usable
<1>2. CASE Acquire(p) \/ JudgeStale(p) \/ EvictLock(p) \/ WriteTmp(p)
  BY <1>0, <1>2 DEF Acquire, JudgeStale, EvictLock, WriteTmp, memory, Usable
<1>3. CASE LockTimesOut(p) \/ ReleaseAfterFailure(p)
  BY <1>3, AttemptKeepsUsable DEF LockTimesOut, ReleaseAfterFailure
<1>4. CASE TmpSwept(p)
  BY <1>4 DEF TmpSwept, WriteFails, NothingFailed
<1>5. CASE Examine(p)
  <2> DEFINE rereads == ~SkipsCas(p) /\ Exists
             merges == rereads /\ disk.ver > Work(p).ver
             onto == IF merges THEN Merge(Work(p), disk) ELSE Work(p)
             next == [onto EXCEPT !.ver = Bumped(onto, rereads)]
  <2>1. ~Merge(Work(p), disk).unavailable /\ Merge(Work(p), disk) \in Cache
    BY <1>0, FreshType, JoinType DEF TypeOK, Merge, Fresh, Cache, Disk
  <2>2. ~onto.unavailable /\ onto \in Cache
    BY <1>0, <1>1, <2>1
  <2>3. ~next.unavailable
    BY <2>2 DEF Cache
  <2>4. \/ merged' = [merged EXCEPT ![p] = next] /\ obj' = obj
        \/ obj' = [obj EXCEPT ![p] = next] /\ merged' = merged
    BY <1>5 DEF Examine
  <2> HIDE DEF next
  <2>5. ~obj'[p].unavailable /\ ~merged'[p].unavailable
    BY <1>0, <2>3, <2>4 DEF Usable
  <2> QED BY <1>0, <1>5, <2>5 DEF Examine, Usable
<1>6. CASE Rename(p)
  <2>1. \/ obj' = obj /\ merged' = [merged EXCEPT ![p] = [merged[p] EXCEPT !.base = writes + 1]]
        \/ merged' = merged /\ obj' = [obj EXCEPT ![p] = [obj[p] EXCEPT !.base = writes + 1]]
    BY <1>0, <1>6 DEF Rename
  <2>2. ~obj'[p].unavailable /\ ~merged'[p].unavailable
    BY <1>0, <2>1 DEF Usable, Cache
  <2> QED BY <1>0, <1>6, <2>2 DEF Rename, Usable
<1>7. CASE RestatAndRelease(p)
  <2> DEFINE done == [Work(p) EXCEPT !.stamp = IF Exists THEN StampOf(disk) ELSE @]
  <2>1. ~done.unavailable
    BY <1>0, <1>1 DEF Cache
  <2>2. obj' = obj \/ obj' = [obj EXCEPT ![p] = done]
    BY <1>7 DEF RestatAndRelease
  <2>3. \/ memo' = memo
        \/ memo' = [memo EXCEPT ![p] = [mtime |-> disk.mtime, alias |-> FALSE, held |-> done]]
        \/ memo' = [memo EXCEPT ![p] = OwnObject]
    BY <1>7 DEF RestatAndRelease
  <2> HIDE DEF done
  <2>4. ~obj'[p].unavailable /\ ~memo'[p].held.unavailable
    BY <1>0, <2>1, <2>2, <2>3 DEF Usable, OwnObject, Fresh
  <2>5. merged'[p] = Fresh /\ pc'[p] = "ready" /\ failed' = {}
    BY <1>0, <1>7 DEF RestatAndRelease
  <2> QED BY <2>4, <2>5 DEF Usable, Fresh
<1> QED BY <1>2, <1>3, <1>4, <1>5, <1>6, <1>7 DEF SaveStep

LEMMA RestKeepsUsable ==
  ASSUME TypeOK, NEW p \in Proc, Usable(p), failed = {}, NothingFailed',
         Mutate(p) \/ Fault(p) \/ Exit(p)
  PROVE  Usable(p)' /\ pc'[p] # "read" /\ failed' = {} /\ disk' = disk
<1>0. /\ pc \in [Proc -> Pc] /\ obj \in [Proc -> Cache] /\ merged \in [Proc -> Cache]
      /\ memo \in [Proc -> Memo]
  BY DEF TypeOK
<1>1. CASE RecordCompact(p)
  <2>1. obj'[p].unavailable = obj[p].unavailable
    BY <1>0, <1>1 DEF RecordCompact, Cache
  <2> QED BY <1>0, <1>1, <2>1 DEF RecordCompact, SaveBegins, Usable
<1>2. ASSUME NEW f \in File, MarkFileEdited(p, f)
      PROVE  Usable(p)' /\ pc'[p] # "read" /\ failed' = {} /\ disk' = disk
  <2>1. obj' = [obj EXCEPT ![p] =
                  [obj[p] EXCEPT !.edits = [obj[p].edits EXCEPT ![f] = @ + 1]]]
    BY <1>0, <1>2 DEF MarkFileEdited
  <2>2. obj'[p].unavailable = obj[p].unavailable
    BY <1>0, <2>1 DEF Cache
  <2> QED BY <1>0, <1>2, <2>2 DEF MarkFileEdited, SaveBegins, Usable
<1>3. CASE LockOpenFails(p)
  BY <1>3, AttemptKeepsUsable DEF LockOpenFails
<1>4. CASE DiskError(p)
  BY <1>4 DEF DiskError, WriteFails, NothingFailed
<1>5. CASE Crash(p) \/ Exit(p)
  <2>1. obj'[p] = Fresh /\ merged'[p] = Fresh /\ memo'[p] = NoMemo /\ pc'[p] \in {"dead", "done"}
    BY <1>0, <1>5 DEF Crash, Exit, Forgets
  <2> QED BY <1>5, <2>1 DEF Crash, Exit, Forgets, Usable, NoMemo, Fresh
<1> QED BY <1>1, <1>2, <1>3, <1>4, <1>5 DEF Mutate, Fault

\* A hook's step touches its own memory only.
LEMMA OwnMemory ==
  ASSUME TypeOK, NEW p \in Proc, NEW q \in Proc, q # p,
         LoadStep(p) \/ SaveStep(p) \/ Mutate(p) \/ Fault(p) \/ Exit(p)
  PROVE  pc'[q] = pc[q] /\ obj'[q] = obj[q] /\ merged'[q] = merged[q] /\ memo'[q] = memo[q]
<1> USE DEF TypeOK
<1>1. CASE LoadStep(p)
  BY <1>1 DEF LoadStep, LoadOpen, LoadRead, LoadGivesUp, LoadStamp
<1>2. CASE SaveStep(p)
  <2>1. CASE Acquire(p) \/ JudgeStale(p) \/ EvictLock(p) \/ WriteTmp(p) \/ TmpSwept(p)
    BY <2>1 DEF Acquire, JudgeStale, EvictLock, WriteTmp, TmpSwept, WriteFails, memory
  <2>2. CASE LockTimesOut(p) \/ ReleaseAfterFailure(p)
    BY <2>2 DEF LockTimesOut, ReleaseAfterFailure, AttemptOver
  <2>3. CASE Examine(p)
    BY <2>3 DEF Examine
  <2>4. CASE Rename(p)
    BY <2>4 DEF Rename
  <2>5. CASE RestatAndRelease(p)
    BY <2>5 DEF RestatAndRelease
  <2> QED BY <1>2, <2>1, <2>2, <2>3, <2>4, <2>5 DEF SaveStep
<1>3. CASE Mutate(p)
  BY <1>3 DEF Mutate, RecordCompact, MarkFileEdited, SaveBegins
<1>4. CASE Fault(p) \/ Exit(p)
  BY <1>4 DEF Fault, LockOpenFails, DiskError, WriteFails, Crash, Exit, Forgets, AttemptOver,
              memory
<1> QED BY <1>1, <1>2, <1>3, <1>4

\* However long a lock is busy, and whoever dies holding it, no cache is marked
\* unavailable before a write has failed or a reset has unlinked the file
\* (session.ts, save).
THEOREM CachesKept == Spec => []BusyLockKeepsCache
<1>1. Init => KeptInv
  BY DEF Init, KeptInv, Usable, NoMemo, Fresh
<1>2. TypeOK /\ KeptInv /\ [Next]_vars => KeptInv'
  <2> SUFFICES ASSUME TypeOK, KeptInv, [Next]_vars, NothingFailed'
               PROVE  failed' = {} /\ \A q \in Proc : Usable(q)' /\ (pc'[q] = "read" => Exists')
    BY DEF KeptInv
  <2>0. failed = {} /\ \A q \in Proc : Usable(q) /\ (pc[q] = "read" => Exists)
    BY FailuresStay DEF KeptInv
  <2>1. ASSUME NEW p \in Proc, LoadStep(p)
        PROVE  failed' = {} /\ \A q \in Proc : Usable(q)' /\ (pc'[q] = "read" => Exists')
    <3>1. failed' = {} /\ (Exists => Exists')
      BY <2>0, <2>1 DEF LoadStep, LoadOpen, LoadRead, LoadGivesUp, LoadStamp, Exists
    <3> QED BY <2>0, <2>1, <3>1, LoadKeepsUsable, OwnMemory, OthersUsable
  <2>2. ASSUME NEW p \in Proc, SaveStep(p)
        PROVE  failed' = {} /\ \A q \in Proc : Usable(q)' /\ (pc'[q] = "read" => Exists')
    <3>1. Exists => Exists'
      <4>1. CASE Rename(p)
        BY <4>1 DEF Rename, Exists, TypeOK
      <4>2. CASE ~Rename(p)
        BY <2>2, <4>2 DEF SaveStep, Acquire, JudgeStale, EvictLock, LockTimesOut, Examine,
           WriteTmp, TmpSwept, WriteFails, RestatAndRelease, ReleaseAfterFailure, Exists
      <4> QED BY <4>1, <4>2
    <3>2. failed' = {} /\ Usable(p)' /\ pc'[p] # "read"
      BY <2>0, <2>2, SaveKeepsUsable
    <3>3. ASSUME NEW q \in Proc, q # p PROVE Usable(q)' /\ (pc'[q] = "read" => Exists')
      BY <2>0, <2>2, <3>1, <3>3, OwnMemory, OthersUsable
    <3> QED BY <3>2, <3>3
  <2>3. ASSUME NEW p \in Proc, Mutate(p) \/ Fault(p) \/ Exit(p)
        PROVE  failed' = {} /\ \A q \in Proc : Usable(q)' /\ (pc'[q] = "read" => Exists')
    <3>1. failed' = {} /\ Usable(p)' /\ pc'[p] # "read" /\ disk' = disk
      BY <2>0, <2>3, RestKeepsUsable
    <3>2. Exists => Exists'
      BY <3>1 DEF Exists
    <3>3. ASSUME NEW q \in Proc, q # p PROVE Usable(q)' /\ (pc'[q] = "read" => Exists')
      BY <2>0, <2>3, <3>2, <3>3, OwnMemory, OthersUsable
    <3> QED BY <3>1, <3>3
  <2>4. CASE Reset
    BY <2>4 DEF Reset, NothingFailed
  <2>5. CASE LockAges \/ UNCHANGED vars
    BY <2>0, <2>5 DEF LockAges, vars, memory, Usable, Exists
  <2> QED BY <2>1, <2>2, <2>3, <2>4, <2>5 DEF Next, Terminating
<1>3. KeptInv => BusyLockKeepsCache
  BY DEF KeptInv, BusyLockKeepsCache, NothingFailed, Usable
<1> QED BY <1>1, <1>2, <1>3, InitTypeOK, NextTypeOK, PTL DEF Spec

-----------------------------------------------------------------------------
(* The lockfile.                                                           *)

Owners == {p \in Proc : InCritical(p)}

\* What a step may do to the lockfile and to who acts as its owner: create it where
\* there is none for one process, remove it, or leave it alone; nobody else enters.
LEMMA LockMoves ==
  ASSUME TypeOK, [Next]_vars
  PROVE  \/ lock' \in {lock, {}} /\ Owners' \subseteq Owners
         \/ \E p \in Proc : lock = {} /\ lock' = {p} /\ Owners' = Owners \cup {p}
<1> USE DEF Owners, InCritical, CriticalPc
<1>0. pc \in [Proc -> Pc]
  BY DEF TypeOK
<1>1. ASSUME NEW p \in Proc, LoadStep(p) \/ Mutate(p) \/ Exit(p) \/ Fault(p)
      PROVE  lock' = lock /\ Owners' \subseteq Owners
  <2>1. lock' = lock
    BY <1>1 DEF LoadStep, LoadOpen, LoadRead, LoadGivesUp, LoadStamp, Mutate,
           RecordCompact, MarkFileEdited, SaveBegins, Exit, Fault,
           LockOpenFails, DiskError, WriteFails, Crash
  <2>2. CASE DiskError(p)
    BY <1>0, <2>1, <2>2 DEF DiskError, WriteFails
  <2>3. CASE ~DiskError(p)
    <3>1. pc' = [pc EXCEPT ![p] = pc'[p]] /\ pc'[p] \notin CriticalPc
      BY <1>0, <1>1, <2>3
      DEF LoadStep, LoadOpen, LoadRead, LoadGivesUp, LoadStamp, Mutate, RecordCompact,
          MarkFileEdited, SaveBegins, Exit, Fault, AttemptOver, LockOpenFails, Crash
    <3> QED BY <1>0, <2>1, <3>1
  <2> QED BY <2>2, <2>3
<1>2. ASSUME NEW p \in Proc, SaveStep(p), ~Acquire(p)
      PROVE  lock' \in {lock, {}} /\ Owners' \subseteq Owners
  <2>1. CASE JudgeStale(p) BY <1>0, <2>1 DEF JudgeStale
  <2>2. CASE EvictLock(p) BY <1>0, <2>2 DEF EvictLock
  <2>3. CASE LockTimesOut(p) BY <1>0, <2>3 DEF LockTimesOut, AttemptOver
  <2>4. CASE Examine(p) BY <1>0, <2>4 DEF Examine
  <2>5. CASE WriteTmp(p) BY <1>0, <2>5 DEF WriteTmp
  <2>6. CASE TmpSwept(p) BY <1>0, <2>6 DEF TmpSwept, WriteFails
  <2>7. CASE Rename(p) BY <1>0, <2>7 DEF Rename
  <2>8. CASE RestatAndRelease(p) BY <1>0, <2>8 DEF RestatAndRelease
  <2>9. CASE ReleaseAfterFailure(p) BY <1>0, <2>9 DEF ReleaseAfterFailure, AttemptOver
  <2> QED BY <1>2, <2>1, <2>2, <2>3, <2>4, <2>5, <2>6, <2>7, <2>8, <2>9 DEF SaveStep
<1>3. ASSUME NEW p \in Proc, Acquire(p)
      PROVE  lock = {} /\ lock' = {p} /\ Owners' = Owners \cup {p}
  BY <1>0, <1>3 DEF Acquire
<1>4. CASE LockAges \/ Reset \/ UNCHANGED vars
  BY <1>4 DEF LockAges, Reset, vars
<1> QED BY <1>1, <1>2, <1>3, <1>4 DEF Next, Terminating

\* Once a live owner's lockfile is unlinked, that stays known.
LEMMA TrustedBefore == [Next]_vars /\ "liveEvict" \notin hazards' => "liveEvict" \notin hazards
  BY DEF Next, LoadStep, LoadOpen, LoadRead, LoadGivesUp, LoadStamp, SaveStep,
         Acquire, JudgeStale, EvictLock, LockTimesOut, Examine, WriteTmp,
         TmpSwept, WriteFails, Rename, RestatAndRelease, ReleaseAfterFailure,
         Mutate, RecordCompact, MarkFileEdited, SaveBegins, Fault,
         LockOpenFails, DiskError, Crash, Exit, LockAges, Reset, Terminating,
         vars, history

\* A step that leaves trust in the lockfile is a step of OwnedLock or none.
LEMMA NextLock ==
  ASSUME TypeOK, LockInv, LockInv', [Next]_vars
  PROVE  [Lock!Next]_<<lock, Owners, "liveEvict" \notin hazards>>
<1>1. CASE "liveEvict" \in hazards'
  BY <1>1 DEF Lock!Next
<1>2. CASE "liveEvict" \notin hazards'
  <2>0. "liveEvict" \notin hazards
    BY <1>2, TrustedBefore
  <2>1. /\ \A p \in Owners : lock = {p}
        /\ \A p \in Owners' : lock' = {p}
    BY <1>2, <2>0 DEF LockInv, Owners
  <2>2. \A p \in Owners : Owners = {p} /\ p \in Proc
    BY <2>1 DEF Owners
  <2>3. CASE lock' \in {lock, {}} /\ Owners' \subseteq Owners
    <3>1. CASE Owners' = Owners /\ lock' = lock
      BY <1>2, <2>0, <3>1
    <3>2. CASE Owners = {} /\ lock' # lock
      <4>1. Owners' = {} /\ lock' = {}
        BY <2>3, <3>2
      <4>2. Lock!Recover
        BY <3>2, <4>1 DEF Lock!Recover, Owners
      <4> QED BY <1>2, <2>0, <4>2 DEF Lock!Next
    <3>3. CASE Owners # {} /\ ~(Owners' = Owners /\ lock' = lock)
      <4>1. PICK p \in Owners : Owners = {p} /\ p \in Proc /\ lock = {p}
        BY <2>1, <2>2, <3>3
      <4>2. Owners' = {}
        BY <2>1, <2>3, <3>3, <4>1
      <4>3. Lock!Leave(p)
        BY <2>3, <4>1, <4>2 DEF Lock!Leave, Owners
      <4> QED BY <1>2, <2>0, <4>1, <4>3 DEF Lock!Next
    <3> QED BY <2>3, <3>1, <3>2, <3>3
  <2>4. CASE \E p \in Proc : lock = {} /\ lock' = {p} /\ Owners' = Owners \cup {p}
    <3>1. PICK p \in Proc : lock = {} /\ lock' = {p} /\ Owners' = Owners \cup {p}
      BY <2>4
    <3>2. Owners = {} /\ Owners' = {p}
      BY <2>1, <3>1
    <3>3. Lock!Acquire(p)
      BY <3>1, <3>2 DEF Lock!Acquire, Owners
    <3> QED BY <1>2, <2>0, <3>3 DEF Lock!Next
  <2> QED BY <2>3, <2>4, LockMoves
<1> QED BY <1>1, <1>2

\* The lockfile of a session implements OwnedLock: it is created only where there is
\* none and removed only by its owner or when nobody acts on it, until a live
\* owner's is unlinked (session.ts, _acquire_session_lock).
THEOREM LockImplemented == Spec => LockIsOwned
<1>1. Init => Lock!Init
  BY DEF Init, Lock!Init, InCritical, CriticalPc
<1>2. TypeOK /\ LockInv /\ LockInv' /\ [Next]_vars
        => [Lock!Next]_(Lock!lockVars)
  BY NextLock DEF Owners, Lock!lockVars
<1> QED BY <1>1, <1>2, Invariants, PTL DEF Spec, LockIsOwned, Lock!Spec
=============================================================================
