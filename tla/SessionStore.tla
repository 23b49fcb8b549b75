---------------------------- MODULE SessionStore ----------------------------
(***************************************************************************)
(* The session cache of one session id: a JSON file shared by the hook     *)
(* processes of that session (session.ts).  Every hook process loads it    *)
(* without a lock, mutates its copy and saves it under an O_EXCL lockfile, *)
(* re-reading the file and merging when another process got there first.   *)
(*                                                                         *)
(* Data: a cache is abstracted to its version counter, edited_files (a     *)
(* count per file, merged by maximum) and last_compact_ts (set or not).    *)
(***************************************************************************)
EXTENDS Naturals

CONSTANTS
  Proc,        \* the hook processes of the session
  File,        \* the files they record edits of
  MaxEdits,    \* bound: the edit count of one file
  MaxOps,      \* bound: mutations one hook process performs
  MaxFails,    \* bound: file system errors over a behaviour
  MaxCrashes,  \* bound: processes killed over a behaviour
  MaxStalls,   \* bound: locks that outlive _LOCK_TIMEOUT_SECS
  MaxResets    \* bound: reset_session calls

ASSUME BoundsAreNat ==
  /\ MaxEdits \in Nat /\ MaxOps \in Nat /\ MaxFails \in Nat
  /\ MaxCrashes \in Nat /\ MaxStalls \in Nat /\ MaxResets \in Nat

VARIABLES
  disk,      \* the session file; id 0 is "no file"
  clock,     \* mtime of the last write
  lock,      \* owner of the lockfile: {} or {p}
  aged,      \* the lockfile is older than _LOCK_TIMEOUT_SECS
  blank,     \* the lockfile has no pid in it
  tmp,       \* processes whose <file>.<pid>....tmp exists
  pc,        \* where each process is in load() / save()
  obj,       \* the SessionCache object the hook holds
  merged,    \* the object save() works on after a merge
  merging,   \* processes whose save() works on `merged`
  memo,      \* _proc_load_cache entry of the session
  lastSaved, \* _LAST_SAVED_VERSION of the session
  attempt,   \* save()'s attempt counter
  failed,    \* processes whose save() has a lastExc
  ops, fails, crashes, stalls, resets,   \* counters of the bounds
  writes, saved, compacted, hazards      \* history, see below

memory == <<obj, merged, merging, memo, lastSaved>>
bounds == <<ops, fails, crashes, stalls, resets>>
history == <<writes, saved, compacted, hazards>>
vars == <<disk, clock, lock, aged, blank, tmp, pc, memory, attempt, failed,
          bounds, history>>

(***************************************************************************)
(* History variables.  writes numbers the renames onto the session file;   *)
(* saved is, per file, the highest edit count a hook has saved (its save() *)
(* wrote the file) since the last reset; compacted says a hook has saved a *)
(* cache with last_compact_ts set; hazards collects what happened that the *)
(* compare-and-swap may not survive:                                       *)
(*   "liveEvict"   a lockfile was unlinked while its owner was alive       *)
(*   "tornLoad"    load() took the fingerprint of a newer file than it read*)
(*   "sameTick"    two writes got the same mtime                           *)
(*   "failedWrite" an atomicWriteText inside save() threw                  *)
(*   "reset"       the file was deleted by reset_session                   *)
(***************************************************************************)
Hazard == {"liveEvict", "tornLoad", "sameTick", "failedWrite", "reset"}

SavePc == {"acquire", "evict", "examine", "write", "rename", "restat", "release"}
CriticalPc == {"examine", "write", "rename", "restat", "release"}
Pc == {"start", "read", "stamp", "ready", "done", "dead"} \cup SavePc

MaxOf(a, b) == IF a >= b THEN a ELSE b
Edits == [File -> Nat]
NoEdits == [f \in File |-> 0]
Join(e, d) == [f \in File |-> MaxOf(e[f], d[f])]

\* (mtime, size): the size of the JSON grows with the files it lists.
NoStamp == <<0, {}>>
Stamp == Nat \X SUBSET File
StampOf(d) == <<d.mtime, {f \in File : d.edits[f] > 0}>>

Cache == [ver : Nat, edits : Edits, compact : BOOLEAN, stamp : Stamp,
          unavailable : BOOLEAN, base : Nat]
Fresh == [ver |-> 0, edits |-> NoEdits, compact |-> FALSE, stamp |-> NoStamp,
          unavailable |-> FALSE, base |-> 0]
Disk == [id : Nat, ver : Nat, edits : Edits, compact : BOOLEAN, mtime : Nat]
NoFile == [id |-> 0, ver |-> 0, edits |-> NoEdits, compact |-> FALSE, mtime |-> 0]
Memo == [mtime : Nat, alias : BOOLEAN, held : Cache]
NoMemo == [mtime |-> 0, alias |-> FALSE, held |-> Fresh]
Exists == disk.id # 0

Work(p) == IF p \in merging THEN merged[p] ELSE obj[p]

Init ==
  /\ disk = NoFile /\ clock = 0
  /\ lock = {} /\ aged = FALSE /\ blank = FALSE /\ tmp = {}
  /\ pc = [p \in Proc |-> "start"]
  /\ obj = [p \in Proc |-> Fresh] /\ merged = [p \in Proc |-> Fresh]
  /\ merging = {}
  /\ memo = [p \in Proc |-> NoMemo]
  /\ lastSaved = [p \in Proc |-> 0] /\ attempt = [p \in Proc |-> 0]
  /\ failed = {}
  /\ ops = [p \in Proc |-> 0]
  /\ fails = 0 /\ crashes = 0 /\ stalls = 0 /\ resets = 0
  /\ writes = 0 /\ saved = NoEdits /\ compacted = FALSE /\ hazards = {}

-----------------------------------------------------------------------------
(* load(): three file system calls that other processes interleave with.   *)

\* The memo keeps the object the hook is about to let go of.
Detached(p) == IF memo[p].alias
               THEN [memo[p] EXCEPT !.alias = FALSE, !.held = obj[p]]
               ELSE memo[p]

OwnObject == [mtime |-> disk.mtime, alias |-> TRUE, held |-> Fresh]

\* Sweep every tmp file, then: memo hit on an equal mtime, else a fresh cache
\* when there is no file, else go on to read it.
LoadOpen(p) ==
  /\ pc[p] \in {"start", "ready"}
  /\ tmp' = {}
  /\ \/ /\ Exists /\ memo[p].mtime = disk.mtime
        /\ obj' = IF memo[p].alias THEN obj ELSE [obj EXCEPT ![p] = memo[p].held]
        /\ memo' = [memo EXCEPT ![p] = OwnObject]
        /\ pc' = [pc EXCEPT ![p] = "ready"]
     \/ /\ ~Exists
        /\ obj' = [obj EXCEPT ![p] = Fresh]
        /\ memo' = [memo EXCEPT ![p] = Detached(p)]
        /\ pc' = [pc EXCEPT ![p] = "ready"]
     \/ /\ Exists /\ memo[p].mtime # disk.mtime
        /\ pc' = [pc EXCEPT ![p] = "read"]
        /\ UNCHANGED <<obj, memo>>
  /\ UNCHANGED <<disk, clock, lock, aged, blank, merged, merging, lastSaved, attempt,
                 failed, bounds, history>>

LoadRead(p) ==
  /\ pc[p] = "read" /\ Exists
  /\ obj' = [obj EXCEPT ![p] =
               [Fresh EXCEPT !.ver = disk.ver, !.edits = disk.edits,
                             !.compact = disk.compact, !.base = disk.id]]
  /\ memo' = [memo EXCEPT ![p] = Detached(p)]
  /\ pc' = [pc EXCEPT ![p] = "stamp"]
  /\ UNCHANGED <<disk, clock, lock, aged, blank, tmp, merged, merging, lastSaved,
                 attempt, failed, bounds, history>>

\* The file vanished between the existence check and the three reads.
LoadGivesUp(p) ==
  /\ pc[p] = "read" /\ ~Exists
  /\ obj' = [obj EXCEPT ![p] = [Fresh EXCEPT !.unavailable = TRUE]]
  /\ memo' = [memo EXCEPT ![p] = Detached(p)]
  /\ pc' = [pc EXCEPT ![p] = "ready"]
  /\ UNCHANGED <<disk, clock, lock, aged, blank, tmp, merged, merging, lastSaved,
                 attempt, failed, bounds, history>>

\* The fingerprint is taken by a stat AFTER the read: it may be a later file's.
\* (If the file is gone the code memoizes the earlier mtime; no file with that
\* mtime can come back, so the model drops the entry.)
LoadStamp(p) ==
  /\ pc[p] = "stamp"
  /\ obj' = [obj EXCEPT ![p].stamp = IF Exists THEN StampOf(disk) ELSE NoStamp]
  /\ memo' = [memo EXCEPT ![p] = OwnObject]
  /\ hazards' = IF Exists /\ disk.id # obj[p].base
                THEN hazards \cup {"tornLoad"} ELSE hazards
  /\ pc' = [pc EXCEPT ![p] = "ready"]
  /\ UNCHANGED <<disk, clock, lock, aged, blank, tmp, merged, merging, lastSaved,
                 attempt, failed, bounds, writes, saved, compacted>>

-----------------------------------------------------------------------------
(* Mutations; each ends in save().                                         *)

SaveBegins(p) ==
  /\ pc' = [pc EXCEPT ![p] = "acquire"]
  /\ attempt' = [attempt EXCEPT ![p] = 0]
  /\ failed' = failed \ {p}
  /\ ops' = [ops EXCEPT ![p] = @ + 1]
  /\ UNCHANGED <<disk, clock, lock, aged, blank, tmp, merged, merging, memo, lastSaved,
                 fails, crashes, stalls, resets, history>>

MarkFileEdited(p, f) ==
  /\ pc[p] = "ready" /\ ops[p] < MaxOps
  /\ ~obj[p].unavailable /\ obj[p].edits[f] < MaxEdits
  /\ obj' = [obj EXCEPT ![p].edits[f] = @ + 1]
  /\ SaveBegins(p)

RecordCompact(p) ==
  /\ pc[p] = "ready" /\ ops[p] < MaxOps
  /\ ~obj[p].unavailable
  /\ obj' = [obj EXCEPT ![p].compact = TRUE]
  /\ SaveBegins(p)

-----------------------------------------------------------------------------
(* _acquire_session_lock and _evictIfStale.                                *)

Alive(p) == pc[p] # "dead"
\* A lockfile without a pid is judged by its age alone.
LockIsStale == aged \/ (~blank /\ \E q \in lock : ~Alive(q))

\* Mutant: the lockfile is opened without O_EXCL.
AcquireNonExclusive(p) ==
  /\ pc[p] = "acquire"
  /\ lock' = {p} /\ aged' = FALSE /\ blank' \in BOOLEAN
  /\ pc' = [pc EXCEPT ![p] = "examine"]
  /\ UNCHANGED <<disk, clock, tmp, memory, attempt, failed, bounds, history>>

\* The pid follows the exclusive open, unless that write fails or the process is killed
\* before it; it matters only once the owner is dead, and is foreseen here.
Acquire(p) ==
  /\ pc[p] = "acquire" /\ lock = {}
  /\ lock' = {p} /\ aged' = FALSE /\ blank' \in BOOLEAN
  /\ pc' = [pc EXCEPT ![p] = "examine"]
  /\ UNCHANGED <<disk, clock, tmp, memory, attempt, failed, bounds, history>>

\* The lockfile is read and judged; the unlink comes later, by path.
JudgeStale(p) ==
  /\ pc[p] = "acquire" /\ lock # {} /\ LockIsStale
  /\ pc' = [pc EXCEPT ![p] = "evict"]
  /\ UNCHANGED <<disk, clock, lock, aged, blank, tmp, memory, attempt, failed, bounds,
                 history>>

\* Mutant: the unlink fails, and the waiter believes it worked.
EvictLockInVain(p) ==
  /\ pc[p] = "evict"
  /\ pc' = [pc EXCEPT ![p] = "acquire"]
  /\ UNCHANGED <<disk, clock, lock, aged, blank, tmp, memory, attempt, failed, bounds,
                 history>>

EvictLock(p) ==
  /\ pc[p] = "evict"
  /\ lock' = {} /\ blank' = FALSE
  /\ hazards' = IF \E q \in lock : Alive(q)
                THEN hazards \cup {"liveEvict"} ELSE hazards
  /\ pc' = [pc EXCEPT ![p] = "acquire"]
  /\ UNCHANGED <<disk, clock, aged, tmp, memory, attempt, failed, bounds,
                 writes, saved, compacted>>

\* Mutant: a busy lock marks the cache unavailable.
AttemptOverBlames(p) ==
  /\ pc' = [pc EXCEPT ![p] = IF attempt[p] < 2 THEN "acquire" ELSE "ready"]
  /\ attempt' = [attempt EXCEPT ![p] = IF attempt[p] < 2 THEN @ + 1 ELSE 0]
  /\ obj' = [obj EXCEPT ![p].unavailable =
               @ \/ (attempt[p] >= 2 /\ p \notin merging)]
  /\ merging' = IF attempt[p] < 2 THEN merging ELSE merging \ {p}

\* One attempt of save() is over without a write; after the third, save()
\* returns, marking the cache it works on unavailable if a write had failed.
AttemptOver(p) ==
  /\ pc' = [pc EXCEPT ![p] = IF attempt[p] < 2 THEN "acquire" ELSE "ready"]
  /\ attempt' = [attempt EXCEPT ![p] = IF attempt[p] < 2 THEN @ + 1 ELSE 0]
  /\ obj' = [obj EXCEPT ![p].unavailable =
               @ \/ (attempt[p] >= 2 /\ p \in failed /\ p \notin merging)]
  /\ merging' = IF attempt[p] < 2 THEN merging ELSE merging \ {p}

\* Mutant: a waiter that gives up removes the lockfile.
LockTimesOutUnlinks(p) ==
  /\ pc[p] = "acquire" /\ lock # {} /\ ~LockIsStale
  /\ AttemptOver(p)
  /\ lock' = {} /\ blank' = FALSE
  /\ UNCHANGED <<disk, clock, aged, tmp, merged, memo, lastSaved, failed,
                 bounds, history>>

\* The lock is held and not stale until the deadline.
LockTimesOut(p) ==
  /\ pc[p] = "acquire" /\ lock # {} /\ ~LockIsStale
  /\ AttemptOver(p)
  /\ UNCHANGED <<disk, clock, lock, aged, blank, tmp, merged, memo, lastSaved, failed,
                 bounds, history>>

\* open(2) of the lockfile fails with something other than EEXIST.
LockOpenFails(p) ==
  /\ pc[p] = "acquire" /\ fails < MaxFails
  /\ fails' = fails + 1
  /\ AttemptOver(p)
  /\ UNCHANGED <<disk, clock, lock, aged, blank, tmp, merged, memo, lastSaved, failed,
                 ops, crashes, stalls, resets, history>>

-----------------------------------------------------------------------------
(* The critical section of save().                                         *)

\* Mutants: the local edits are not re-applied; the fingerprint's mtime is not
\* compared.
MergeDropsLocal(local, d) ==
  [Fresh EXCEPT !.ver = d.ver, !.edits = d.edits, !.compact = d.compact,
                !.base = d.id]
SkipsCasBySize(p) ==
  /\ ~(lastSaved[p] > Work(p).ver)
  /\ Work(p).stamp # NoStamp
  /\ Exists /\ StampOf(disk)[2] = Work(p).stamp[2]

\* _merge_session_caches: the remote object, with the local counts joined in;
\* last_compact_ts is not among the fields it merges.
Merge(local, d) ==
  [Fresh EXCEPT !.ver = d.ver, !.edits = Join(local.edits, d.edits),
                !.compact = d.compact, !.base = d.id]

\* The fast path: nobody can have advanced the file.
SkipsCas(p) ==
  /\ ~(lastSaved[p] > Work(p).ver)
  /\ Work(p).stamp # NoStamp
  /\ Exists /\ StampOf(disk) = Work(p).stamp

\* Mutants, for the checks of the properties below.
NotBumped(o, rereads) == MaxOf(IF rereads THEN disk.ver ELSE 0, o.ver)

Bumped(o, rereads) == MaxOf(IF rereads THEN disk.ver ELSE 0, o.ver) + 1

\* Re-read unless the fast path applies, merge a newer version, bump.
Examine(p) ==
  LET rereads == ~SkipsCas(p) /\ Exists
      merges == rereads /\ disk.ver > Work(p).ver
      onto == IF merges THEN Merge(Work(p), disk) ELSE Work(p)
      next == [onto EXCEPT !.ver = Bumped(onto, rereads)]
  IN /\ pc[p] = "examine"
     /\ pc' = [pc EXCEPT ![p] = "write"]
     /\ IF merges \/ p \in merging
        THEN /\ merged' = [merged EXCEPT ![p] = next]
             /\ merging' = merging \cup {p}
             /\ obj' = obj
        ELSE /\ obj' = [obj EXCEPT ![p] = next]
             /\ UNCHANGED <<merged, merging>>
     /\ UNCHANGED <<disk, clock, lock, aged, blank, tmp, memo, lastSaved, attempt,
                    failed, bounds, history>>

WriteTmp(p) ==
  /\ pc[p] = "write"
  /\ tmp' = tmp \cup {p}
  /\ pc' = [pc EXCEPT ![p] = "rename"]
  /\ UNCHANGED <<disk, clock, lock, aged, blank, memory, attempt, failed, bounds,
                 history>>

WriteFails(p) ==
  /\ failed' = failed \cup {p}
  /\ hazards' = hazards \cup {"failedWrite"}
  /\ pc' = [pc EXCEPT ![p] = "release"]
  /\ UNCHANGED <<disk, clock, lock, aged, blank, tmp, memory, attempt, ops, crashes,
                 stalls, resets, writes, saved, compacted>>

\* The disk is full, or the rename is refused.
DiskError(p) ==
  /\ pc[p] = "write" /\ fails < MaxFails
  /\ fails' = fails + 1
  /\ WriteFails(p)

\* Another process's load() swept the tmp file.
TmpSwept(p) ==
  /\ pc[p] = "rename" /\ p \notin tmp
  /\ fails' = fails
  /\ WriteFails(p)

Rename(p) ==
  /\ pc[p] = "rename" /\ p \in tmp
  /\ \E t \in {clock, clock + 1} :
       /\ t > 0
       /\ clock' = t
       /\ hazards' = IF t = clock THEN hazards \cup {"sameTick"} ELSE hazards
       /\ disk' = [id |-> writes + 1, ver |-> Work(p).ver,
                   edits |-> Work(p).edits, compact |-> Work(p).compact,
                   mtime |-> t]
  /\ writes' = writes + 1
  /\ tmp' = tmp \ {p}
  /\ lastSaved' = [lastSaved EXCEPT ![p] = Work(p).ver]
  /\ IF p \in merging
     THEN merged' = [merged EXCEPT ![p].base = writes + 1] /\ obj' = obj
     ELSE obj' = [obj EXCEPT ![p].base = writes + 1] /\ merged' = merged
  /\ saved' = Join(saved, obj[p].edits)
  /\ compacted' = (compacted \/ obj[p].compact)
  /\ pc' = [pc EXCEPT ![p] = "restat"]
  /\ UNCHANGED <<lock, aged, blank, merging, memo, attempt, failed, bounds>>

\* Record the new fingerprint (if the file is still there), refresh the memo
\* if it has an entry, unlink the lockfile whoever owns it, return.
RestatAndRelease(p) ==
  LET done == [Work(p) EXCEPT !.stamp = IF Exists THEN StampOf(disk) ELSE @]
  IN /\ pc[p] = "restat"
     /\ obj' = IF p \in merging THEN obj ELSE [obj EXCEPT ![p] = done]
     /\ memo' = IF Exists /\ memo[p].mtime # 0
                THEN [memo EXCEPT ![p] =
                        IF p \in merging
                        THEN [mtime |-> disk.mtime, alias |-> FALSE, held |-> done]
                        ELSE OwnObject]
                ELSE memo
     /\ lock' = {} /\ blank' = FALSE
     /\ merging' = merging \ {p} /\ merged' = [merged EXCEPT ![p] = Fresh]
     /\ pc' = [pc EXCEPT ![p] = "ready"]
     /\ attempt' = [attempt EXCEPT ![p] = 0] /\ failed' = failed \ {p}
     /\ UNCHANGED <<disk, clock, aged, tmp, lastSaved, bounds, history>>

ReleaseAfterFailure(p) ==
  /\ pc[p] = "release"
  /\ lock' = {} /\ blank' = FALSE
  /\ AttemptOver(p)
  /\ UNCHANGED <<disk, clock, aged, tmp, merged, memo, lastSaved, failed,
                 bounds, history>>

-----------------------------------------------------------------------------
(* The rest of the world.                                                  *)

\* What a process knew goes with it.
Forgets(p) ==
  /\ obj' = [obj EXCEPT ![p] = Fresh] /\ merged' = [merged EXCEPT ![p] = Fresh]
  /\ merging' = merging \ {p} /\ failed' = failed \ {p}
  /\ memo' = [memo EXCEPT ![p] = NoMemo]
  /\ lastSaved' = [lastSaved EXCEPT ![p] = 0]
  /\ attempt' = [attempt EXCEPT ![p] = 0]

Exit(p) ==
  /\ pc[p] = "ready"
  /\ pc' = [pc EXCEPT ![p] = "done"]
  /\ Forgets(p)
  /\ UNCHANGED <<disk, clock, lock, aged, blank, tmp, bounds, history>>

Crash(p) ==
  /\ pc[p] \notin {"start", "done", "dead"} /\ crashes < MaxCrashes
  /\ crashes' = crashes + 1
  /\ pc' = [pc EXCEPT ![p] = "dead"]
  /\ Forgets(p)
  /\ UNCHANGED <<disk, clock, lock, aged, blank, tmp, ops, fails, stalls, resets, history>>

\* A process holds the lock for longer than _LOCK_TIMEOUT_SECS.
LockAges ==
  /\ lock # {} /\ ~aged /\ stalls < MaxStalls
  /\ aged' = TRUE /\ stalls' = stalls + 1
  /\ UNCHANGED <<disk, clock, lock, blank, tmp, pc, memory, attempt, failed, ops,
                 fails, crashes, resets, history>>

\* reset_session, from a SessionStart hook: unlink, with no lock.
Reset ==
  /\ Exists /\ resets < MaxResets
  /\ disk' = NoFile /\ resets' = resets + 1
  /\ saved' = NoEdits /\ compacted' = FALSE
  /\ hazards' = hazards \cup {"reset"}
  /\ UNCHANGED <<clock, lock, aged, blank, tmp, pc, memory, attempt, failed, ops,
                 fails, crashes, stalls, writes>>

AllEnded == \A p \in Proc : pc[p] \in {"done", "dead"}
Terminating == AllEnded /\ UNCHANGED vars

LoadStep(p) == LoadOpen(p) \/ LoadRead(p) \/ LoadGivesUp(p) \/ LoadStamp(p)
SaveStep(p) ==
  \/ Acquire(p) \/ JudgeStale(p) \/ EvictLock(p) \/ LockTimesOut(p)
  \/ Examine(p) \/ WriteTmp(p) \/ TmpSwept(p) \/ Rename(p)
  \/ RestatAndRelease(p) \/ ReleaseAfterFailure(p)
Mutate(p) == RecordCompact(p) \/ \E f \in File : MarkFileEdited(p, f)
Fault(p) == LockOpenFails(p) \/ DiskError(p) \/ Crash(p)

Next ==
  \/ \E p \in Proc : LoadStep(p) \/ SaveStep(p) \/ Mutate(p) \/ Fault(p) \/ Exit(p)
  \/ LockAges \/ Reset \/ Terminating

Spec == Init /\ [][Next]_vars

\* A hook process the system does not kill keeps running.
FairSpec == Spec /\ \A p \in Proc : WF_vars(SaveStep(p))

-----------------------------------------------------------------------------
TypeOK ==
  /\ disk \in Disk /\ clock \in Nat
  /\ lock \in SUBSET Proc /\ (\A p, q \in lock : p = q) /\ aged \in BOOLEAN /\ blank \in BOOLEAN
  /\ tmp \in SUBSET Proc /\ pc \in [Proc -> Pc]
  /\ obj \in [Proc -> Cache] /\ merged \in [Proc -> Cache]
  /\ merging \in SUBSET Proc /\ memo \in [Proc -> Memo]
  /\ lastSaved \in [Proc -> Nat] /\ attempt \in [Proc -> 0..2]
  /\ failed \in SUBSET Proc /\ ops \in [Proc -> 0..MaxOps]
  /\ fails \in 0..MaxFails /\ crashes \in 0..MaxCrashes
  /\ stalls \in 0..MaxStalls /\ resets \in 0..MaxResets
  /\ writes \in Nat /\ saved \in Edits /\ compacted \in BOOLEAN
  /\ hazards \in SUBSET Hazard

InCritical(p) == pc[p] \in CriticalPc
LostEdit == \E f \in File : disk.edits[f] < saved[f]

\* Unless a lockfile was unlinked under a live owner, at most one process is in
\* save()'s critical section, whatever crashes, time-outs and evictions of dead
\* owners' locks happened (session.ts, _acquire_session_lock).
MutualExclusion ==
  "liveEvict" \notin hazards =>
    \A p, q \in Proc : InCritical(p) /\ InCritical(q) => p = q

\* Without one of the five hazards, an edit a save() has put on disk is never
\* overwritten by the save() of another process (session.ts, save).
NoLostEdit == hazards = {} => ~LostEdit

\* Without a hazard every write of the session file carries a higher version
\* than the one it replaces: the counter the CAS compares is strictly monotone.
VersionsAdvance == [][hazards' = {} /\ disk' # disk => disk'.ver > disk.ver]_vars

\* A busy lock alone never marks a cache unavailable: it takes a write that
\* failed, or a file that vanished under load().
BusyLockKeepsCache ==
  (\E p \in Proc : obj[p].unavailable) => hazards \cap {"failedWrite", "reset"} # {}

\* Every save() returns (or its process dies), also when the lock's owner was
\* killed in the critical section.
SaveReturns == \A p \in Proc : pc[p] \in SavePc ~> pc[p] \notin SavePc

\* As far as the lockfile goes, save() is an OwnedLock: a file found stale is
\* removed only when nobody acts on it, and no waiter that gives up, crash or
\* failing call lets a second hook in (session.ts, _acquire_session_lock).
Lock == INSTANCE OwnedLock WITH Process <- Proc, file <- lock,
                                inside <- {p \in Proc : InCritical(p)},
                                trusted <- "liveEvict" \notin hazards
LockIsOwned == Lock!Spec

\* Until a hazard, save() is atomic: whatever the interleaving of loads, lock
\* attempts, merges and crashes, the file changes only by a hook joining the
\* counts it holds into it (session.ts, save and _merge_session_caches).
Log == INSTANCE SessionLog WITH store <- disk.edits,
                                view <- [p \in Proc |-> obj[p].edits],
                                trusted <- hazards = {}
AtomicSaves == Log!LogSpec

-----------------------------------------------------------------------------
(* Why NoLostEdit holds: the inductive invariant of the hazard-free states.  *)

LockInv == "liveEvict" \notin hazards => \A p \in Proc : InCritical(p) => lock = {p}

\* A fingerprint names file d, last written at c, only for an object made of it.
Stamped(o, d, c) == o.stamp[1] <= c /\ (d.id # 0 /\ o.stamp[1] = c => o.base = d.id)

\* An object made of the file on disk has its version and at least its counts;
\* one made of an earlier file has a lower version.
Consistent(o, d, c) ==
  /\ o.base <= d.id
  /\ o.base = d.id => o.ver = d.ver /\ \A f \in File : d.edits[f] <= o.edits[f]
  /\ o.base < d.id => o.ver < d.ver
  /\ Stamped(o, d, c)

\* What save() is about to write, w, joins the hook's counts and the file's.
Prepared(w, o, d, c) ==
  /\ w.ver > d.ver
  /\ \A f \in File : w.edits[f] = MaxOf(o.edits[f], d.edits[f])
  /\ Stamped(w, d, c)

FileInv ==
  /\ disk.id = writes
  /\ \A f \in File : saved[f] <= disk.edits[f]
  /\ IF Exists THEN disk.ver > 0 /\ clock > 0 /\ disk.mtime = clock
               ELSE disk.ver = 0 /\ \A f \in File : disk.edits[f] = 0

Preparing(p) == pc[p] \in {"write", "rename"}

HookInv(p) ==
  /\ pc[p] # "release"
  /\ p \in merging => pc[p] \in {"write", "rename", "restat"}
  /\ p \in merging \/ ~Preparing(p) => Consistent(obj[p], disk, clock)
  /\ Preparing(p) => Prepared(Work(p), obj[p], disk, clock)
  /\ pc[p] = "restat" => /\ Consistent(Work(p), disk, clock)
                        /\ Work(p).base = disk.id /\ Work(p).edits = disk.edits
  /\ Consistent(memo[p].held, disk, clock)

\* What the memo holds, when it is not the hook's own object, is on disk.
MemoInv(p) ==
  /\ pc[p] \in {"read", "stamp"} \/ memo[p].alias => Exists
  /\ memo[p].alias \/ pc[p] = "stamp"
       \/ \A f \in File : memo[p].held.edits[f] <= disk.edits[f]

ViewInv == hazards = {} => \A p \in Proc : MemoInv(p)

CasInv == hazards = {} => FileInv /\ \A p \in Proc : HookInv(p)

-----------------------------------------------------------------------------
(* What comments of save() say, without the hazards taken out.             *)

\* "The version-counter CAS is the actual correctness mechanism; the lock just
\* bounds concurrent re-reads": losing the lock alone would lose no edit.
CasSurvivesEviction == hazards \subseteq {"liveEvict"} => ~LostEdit

\* "Fast path is sound only when no other writer advanced the on-disk version":
\* a load() concurrent with a write would lose no edit.
FastPathIsSound == hazards \subseteq {"tornLoad"} => ~LostEdit

\* "Merge if another process wrote a newer version since we loaded": a retry
\* after a failed write would lose no edit.
RetryMerges == hazards \subseteq {"failedWrite"} => ~LostEdit

\* "_merge_session_caches re-applies our mutations on top": a compaction that
\* a save() has recorded stays recorded.
MergeKeepsCompact == hazards = {} /\ compacted => disk.compact
=============================================================================
