----------------------------- MODULE DirtyQueue -----------------------------
(***************************************************************************)
(* The queue of edited files between the hook processes and the worker     *)
(* daemon (worker.ts): a hook appends a line to queue/dirty.txt, the       *)
(* daemon renames the file to dirty.txt.draining, reads it, unlinks it and *)
(* starts an index run for every project named in it, without waiting for  *)
(* the run to end, or even to look at the tree.                            *)
(*                                                                         *)
(* Data: an edit raises the version of its project; a line is the project  *)
(* it names; a file is the set of projects its lines name and its length.  *)
(* The queue's directory maps the two names to inodes: a hook that opened  *)
(* dirty.txt before the rename appends to the renamed file.                *)
(***************************************************************************)
EXTENDS Naturals, FiniteSets

CONSTANTS
  Hook,       \* processes that append: post-edit hooks
  Worker,     \* daemons that drain: one, or two when the claim was broken
  Proj,       \* projects
  Oversized,  \* those of more than PERIODIC_REINDEX_MAX_FILES files
  Inode,      \* files the queue's directory may hold
  Resident,   \* run_daemon was given a stop event: its loop goes on after a tick
  Cap,        \* DIRTY_QUEUE_MAX_BYTES, in lines
  MaxEdits,   \* bound: edits of one project
  MaxFaults   \* bound: errors, kills and memory-pressure readings

ASSUME ResidentIsBoolean == Resident \in BOOLEAN
ASSUME BoundsAreNat == Cap \in Nat \ {0} /\ MaxEdits \in Nat /\ MaxFaults \in Nat
ASSUME HooksAreFinite == IsFiniteSet(Hook)
ASSUME OversizedAreProjects == Oversized \subseteq Proj

VARIABLES
  version,    \* edits of the project's files so far
  indexed,    \* the version its index holds
  known,      \* projects registered in global.db
  queue,      \* inode of dirty.txt, {} when there is none
  draining,   \* inode of dirty.txt.draining
  names,      \* per inode, the projects its lines name
  size,       \* per inode, its length
  hpc, hproj, fd,     \* a hook: where it is, the project it edited, its open file
  wpc, lines, \* a worker: where it is, rawLines,
  awaiting,   \* the projects whose index run it started and that wait for a module
  runs,       \* and index runs under way: the project and the version walked
  faults,     \* counter of the bound
  hazards     \* history: what happened that may lose an entry

files == <<queue, draining, names, size>>
hooks == <<hpc, hproj, fd>>
started == <<awaiting, runs>>
workers == <<wpc, lines, started>>
vars == <<version, indexed, known, files, hooks, workers, faults, hazards>>

(***************************************************************************)
(* hazards:                                                                *)
(*   "cap"         the byte cap dropped an entry                           *)
(*   "appendFailed" the append threw                                       *)
(*   "hookKilled"  a hook was killed between the edit and its append       *)
(*   "lateAppend"  a hook appended to a file that is no longer dirty.txt   *)
(*   "overlap"     a worker began a drain while another was in one         *)
(*   "quarantine"  an unreadable .draining file was set aside              *)
(*   "pressure"    entries were drained under memory pressure              *)
(*   "killed"      a worker was killed with entries that are in no file    *)
(*   "exited"      a worker left with index runs under way                 *)
(*   "rejected"    an index run's promise was rejected                     *)
(*   "staleWalk"   a run wrote the index after a run that walked later     *)
(***************************************************************************)
Hazard == {"cap", "appendFailed", "hookKilled", "lateAppend", "overlap",
           "quarantine", "pressure", "killed", "exited", "rejected",
           "staleWalk"}

HookPc == {"idle", "stat", "open", "append"}
\* "idle" before a tick; in drain_dirty_queue one value per file system call that
\* comes next; "leaving" after the only tick of a daemon without a stop event.
WorkerPc == {"idle", "forget", "claim", "read", "clear", "process", "leaving", "down"}
Draining(w) == wpc[w] \notin {"idle", "leaving", "down"}

Named(f) == UNION {names[i] : i \in f}
Free(i) == i \notin queue \cup draining /\ \A h \in Hook : i \notin fd[h]

Init ==
  /\ version = [p \in Proj |-> 0] /\ indexed = [p \in Proj |-> 0] /\ known = {}
  /\ queue = {} /\ draining = {}
  /\ names = [i \in Inode |-> {}] /\ size = [i \in Inode |-> 0]
  /\ hpc = [h \in Hook |-> "idle"] /\ hproj = [h \in Hook |-> {}]
  /\ fd = [h \in Hook |-> {}]
  /\ wpc = [w \in Worker |-> "idle"] /\ lines = [w \in Worker |-> {}]
  /\ awaiting = [w \in Worker |-> {}] /\ runs = [w \in Worker |-> {}]
  /\ faults = 0 /\ hazards = {}

-----------------------------------------------------------------------------
(* The post-edit hook: enqueue_dirty.                                      *)

Edit(h, p) ==
  /\ hpc[h] = "idle" /\ version[p] < MaxEdits
  /\ version' = [version EXCEPT ![p] = @ + 1]
  /\ hpc' = [hpc EXCEPT ![h] = "stat"]
  /\ hproj' = [hproj EXCEPT ![h] = {p}]
  /\ UNCHANGED <<indexed, known, files, fd, workers, faults, hazards>>

Returns(h) ==
  /\ hpc' = [hpc EXCEPT ![h] = "idle"] /\ hproj' = [hproj EXCEPT ![h] = {}]
  /\ fd' = [fd EXCEPT ![h] = {}]

\* Mutant: > for >=.
AtCapLate == \E i \in queue : size[i] > Cap

AtCap == \E i \in queue : size[i] >= Cap

CheckCap(h) ==
  /\ hpc[h] = "stat"
  /\ IF AtCap
     THEN Returns(h) /\ hazards' = hazards \cup {"cap"}
     ELSE hpc' = [hpc EXCEPT ![h] = "open"] /\ UNCHANGED <<hproj, fd, hazards>>
  /\ UNCHANGED <<version, indexed, known, files, workers, faults>>

\* The size cannot be read: the append goes on.
StatFails(h) ==
  /\ hpc[h] = "stat" /\ faults < MaxFaults
  /\ faults' = faults + 1
  /\ hpc' = [hpc EXCEPT ![h] = "open"]
  /\ UNCHANGED <<version, indexed, known, files, hproj, fd, workers, hazards>>

\* appendFileSync opens dirty.txt, creating it when there is none, ...
Open(h) ==
  /\ hpc[h] = "open"
  /\ \/ /\ queue # {}
        /\ fd' = [fd EXCEPT ![h] = queue]
        /\ UNCHANGED files
     \/ /\ queue = {}
        /\ \E i \in Inode :
             /\ Free(i)
             /\ queue' = {i} /\ fd' = [fd EXCEPT ![h] = {i}]
             /\ names' = [names EXCEPT ![i] = {}] /\ size' = [size EXCEPT ![i] = 0]
        /\ UNCHANGED draining
  /\ hpc' = [hpc EXCEPT ![h] = "append"]
  /\ UNCHANGED <<version, indexed, known, hproj, workers, faults, hazards>>

\* ... and appends to the file it opened, whatever its name is by now.
AppendLine(h) ==
  /\ hpc[h] = "append"
  /\ names' = [i \in Inode |-> IF i \in fd[h] THEN names[i] \cup hproj[h] ELSE names[i]]
  /\ size' = [i \in Inode |-> IF i \in fd[h] THEN size[i] + 1 ELSE size[i]]
  /\ hazards' = IF fd[h] = queue THEN hazards ELSE hazards \cup {"lateAppend"}
  /\ Returns(h)
  /\ UNCHANGED <<version, indexed, known, queue, draining, workers, faults>>

AppendFails(h) ==
  /\ hpc[h] \in {"open", "append"} /\ faults < MaxFaults
  /\ faults' = faults + 1 /\ hazards' = hazards \cup {"appendFailed"}
  /\ Returns(h)
  /\ UNCHANGED <<version, indexed, known, files, workers>>

HookKilled(h) ==
  /\ hpc[h] # "idle" /\ faults < MaxFaults
  /\ faults' = faults + 1 /\ hazards' = hazards \cup {"hookKilled"}
  /\ Returns(h)
  /\ UNCHANGED <<version, indexed, known, files, workers>>

-----------------------------------------------------------------------------
(* The worker: drain_dirty_queue, one action per file system call.         *)

Goto(w, at) == wpc' = [wpc EXCEPT ![w] = at]
TickOver(w) == Goto(w, IF Resident THEN "idle" ELSE "leaving")

\* Mutant: a drain begins with dirty.txt.
RecoverSkipped(w) ==
  /\ wpc[w] = "idle"
  /\ Goto(w, "claim")
  /\ UNCHANGED <<version, indexed, known, files, hooks, lines, started, faults, hazards>>

\* Read what a worker that died left in .draining.
Recover(w) ==
  /\ wpc[w] = "idle"
  /\ IF draining = {}
     THEN Goto(w, "claim") /\ UNCHANGED lines
     ELSE Goto(w, "forget") /\ lines' = [lines EXCEPT ![w] = Named(draining)]
  /\ hazards' = IF \E v \in Worker : v # w /\ Draining(v)
                THEN hazards \cup {"overlap"} ELSE hazards
  /\ UNCHANGED <<version, indexed, known, files, hooks, started, faults>>

\* It cannot be read: renamed to .corrupt-<ts>.
Quarantine(w) ==
  /\ wpc[w] = "idle" /\ draining # {} /\ faults < MaxFaults
  /\ faults' = faults + 1 /\ hazards' = hazards \cup {"quarantine"}
  /\ draining' = {}
  /\ Goto(w, "claim")
  /\ UNCHANGED <<version, indexed, known, queue, names, size, hooks, lines, started>>

\* Unlink it.  When it is gone the drain gives up, and what it read with it.
Forget(w) ==
  /\ wpc[w] = "forget"
  /\ IF draining = {}
     THEN TickOver(w) /\ lines' = [lines EXCEPT ![w] = {}]
     ELSE Goto(w, "claim") /\ UNCHANGED lines
  /\ draining' = {}
  /\ UNCHANGED <<version, indexed, known, queue, names, size, hooks, started,
                 faults, hazards>>

\* The unlink and the rename to .corrupt both fail: the drain gives up.
ForgetFails(w) ==
  /\ wpc[w] = "forget" /\ faults < MaxFaults
  /\ faults' = faults + 1
  /\ TickOver(w) /\ lines' = [lines EXCEPT ![w] = {}]
  /\ UNCHANGED <<version, indexed, known, files, hooks, started, hazards>>

\* Rename dirty.txt to .draining, over whatever has that name.
Claim(w) ==
  /\ wpc[w] = "claim"
  /\ IF queue = {}
     THEN Goto(w, "process") /\ UNCHANGED <<queue, draining>>
     ELSE Goto(w, "read") /\ draining' = queue /\ queue' = {}
  /\ UNCHANGED <<version, indexed, known, names, size, hooks, lines, started,
                 faults, hazards>>

\* All five attempts to rename fail: this drain is deferred.
Defer(w) ==
  /\ wpc[w] = "claim" /\ queue # {} /\ faults < MaxFaults
  /\ faults' = faults + 1
  /\ Goto(w, "process")
  /\ UNCHANGED <<version, indexed, known, files, hooks, lines, started, hazards>>

ReadClaimed(w) ==
  /\ wpc[w] = "read"
  /\ IF draining = {}
     THEN Goto(w, "process") /\ UNCHANGED lines
     ELSE Goto(w, "clear") /\ lines' = [lines EXCEPT ![w] = @ \cup Named(draining)]
  /\ UNCHANGED <<version, indexed, known, files, hooks, started, faults, hazards>>

\* The read or the unlink fails: .draining stays for the next drain.
LeaveClaimed(w) ==
  /\ wpc[w] \in {"read", "clear"} /\ faults < MaxFaults
  /\ faults' = faults + 1
  /\ Goto(w, "process")
  /\ UNCHANGED <<version, indexed, known, files, hooks, lines, started, hazards>>

Clear(w) ==
  /\ wpc[w] = "clear"
  /\ draining' = {}
  /\ Goto(w, "process")
  /\ UNCHANGED <<version, indexed, known, queue, names, size, hooks, lines,
                 started, faults, hazards>>

-----------------------------------------------------------------------------
(* The worker: _process_dirty_entries and the index runs it leaves running.*)

\* index_project waits for a module first, ...
Start(w, ps) == awaiting' = [awaiting EXCEPT ![w] = @ \cup ps] /\ UNCHANGED runs

\* ... then, when the daemon sleeps, registers its project and walks its tree.
Walk(w, p) ==
  /\ wpc[w] \in {"idle", "leaving"} /\ p \in awaiting[w]
  /\ awaiting' = [awaiting EXCEPT ![w] = @ \ {p}]
  /\ runs' = [runs EXCEPT ![w] = @ \cup {<<p, version[p]>>}]
  /\ known' = known \cup {p}
  /\ UNCHANGED <<version, indexed, files, hooks, wpc, lines, faults, hazards>>

\* Mutant: entries of projects that are not registered are dropped.
ProcessKnownOnly(w) ==
  /\ wpc[w] = "process"
  /\ Start(w, lines[w] \cap known)
  /\ TickOver(w) /\ lines' = [lines EXCEPT ![w] = {}]
  /\ UNCHANGED <<version, indexed, known, files, hooks, faults, hazards>>

Process(w) ==
  /\ wpc[w] = "process"
  /\ Start(w, lines[w])
  /\ TickOver(w) /\ lines' = [lines EXCEPT ![w] = {}]
  /\ UNCHANGED <<version, indexed, known, files, hooks, faults, hazards>>

\* _is_under_memory_pressure: nothing is indexed, the entries are gone.
ProcessUnderPressure(w) ==
  /\ wpc[w] = "process" /\ lines[w] # {} /\ faults < MaxFaults
  /\ faults' = faults + 1 /\ hazards' = hazards \cup {"pressure"}
  /\ TickOver(w) /\ lines' = [lines EXCEPT ![w] = {}]
  /\ UNCHANGED <<version, indexed, known, files, hooks, started>>

\* What a periodic cycle re-indexes: a project whose file count, known since its
\* first run ended, is too large is skipped for good.
Eligible == {p \in known : p \in Oversized => indexed[p] = 0}

\* Mutant: the timer is looked at only after a drain that found entries.
ReindexAfterDrain(w, ps) ==
  /\ wpc[w] = "process" /\ lines[w] # {} /\ ps \subseteq Eligible
  /\ Start(w, ps)
  /\ UNCHANGED <<version, indexed, known, files, hooks, wpc, lines, faults, hazards>>

\* _reindex_active_projects.  Of the eligible projects a cycle leaves out those not
\* seen for days and those that back off; under memory pressure, or when the
\* projects cannot be read, it leaves out all.
ReindexActive(w, ps) ==
  /\ wpc[w] = "idle" /\ Resident /\ ps \subseteq Eligible
  /\ Start(w, ps)
  /\ UNCHANGED <<version, indexed, known, files, hooks, wpc, lines, faults, hazards>>

\* A run writes what it finds of the files its walk listed: all that was there
\* when it walked, and of what came later anything from nothing to all.  It
\* prunes what it did not list.  It goes on while the daemon sleeps.
IndexDone(w, p, walked) ==
  /\ wpc[w] \in {"idle", "leaving"} /\ <<p, walked>> \in runs[w]
  /\ \E v \in walked..version[p] : indexed' = [indexed EXCEPT ![p] = v]
  /\ runs' = [runs EXCEPT ![w] = @ \ {<<p, walked>>}]
  /\ hazards' = IF walked < indexed[p] THEN hazards \cup {"staleWalk"} ELSE hazards
  /\ UNCHANGED <<version, known, files, hooks, wpc, lines, awaiting, faults>>

Indexing(w) == awaiting[w] # {} \/ runs[w] # {}

\* What a worker knew goes with it.
Dies(w) ==
  /\ Goto(w, "down")
  /\ lines' = [lines EXCEPT ![w] = {}]
  /\ awaiting' = [awaiting EXCEPT ![w] = {}] /\ runs' = [runs EXCEPT ![w] = {}]

\* A run throws (no writer lock within 30 s, a database error): nobody handles
\* the rejected promise, and Node ends the process.
IndexRejects(w) ==
  /\ wpc[w] \in {"idle", "leaving"} /\ Indexing(w) /\ faults < MaxFaults
  /\ faults' = faults + 1 /\ hazards' = hazards \cup {"rejected"}
  /\ Dies(w)
  /\ UNCHANGED <<version, indexed, known, files, hooks>>

InNoFile(w) == Indexing(w) \/ ~(lines[w] \subseteq Named(draining))

WorkerKilled(w) ==
  /\ wpc[w] # "down" /\ faults < MaxFaults
  /\ faults' = faults + 1
  /\ hazards' = IF InNoFile(w) THEN hazards \cup {"killed"} ELSE hazards
  /\ Dies(w)
  /\ UNCHANGED <<version, indexed, known, files, hooks>>

\* The sleep of a daemon without a stop event is over, or nothing else kept its
\* process: it leaves, whatever is under way.
Leave(w) ==
  /\ wpc[w] = "leaving"
  /\ hazards' = IF InNoFile(w) THEN hazards \cup {"exited"} ELSE hazards
  /\ Dies(w)
  /\ UNCHANGED <<version, indexed, known, files, hooks, faults>>

Restart(w) ==
  /\ wpc[w] = "down"
  /\ Goto(w, "idle")
  /\ UNCHANGED <<version, indexed, known, files, hooks, lines, started, faults, hazards>>

-----------------------------------------------------------------------------
HookStep(h) == CheckCap(h) \/ Open(h) \/ AppendLine(h)
HookFault(h) == StatFails(h) \/ AppendFails(h) \/ HookKilled(h)
DrainStep(w) ==
  \/ Recover(w) \/ Forget(w) \/ Claim(w) \/ ReadClaimed(w) \/ Clear(w) \/ Process(w)
  \/ Leave(w)
DrainFault(w) ==
  \/ Quarantine(w) \/ ForgetFails(w) \/ Defer(w) \/ LeaveClaimed(w)
  \/ ProcessUnderPressure(w) \/ IndexRejects(w) \/ WorkerKilled(w)

Next ==
  \/ \E h \in Hook : HookStep(h) \/ HookFault(h) \/ \E p \in Proj : Edit(h, p)
  \/ \E w \in Worker :
       \/ DrainStep(w) \/ DrainFault(w) \/ Restart(w)
       \/ \E ps \in SUBSET Eligible : ReindexActive(w, ps)
       \/ \E p \in Proj : Walk(w, p)
       \/ \E p \in Proj : \E v \in 1..MaxEdits : IndexDone(w, p, v)

Spec == Init /\ [][Next]_vars

\* A started hook goes on, the daemon's loop turns and gives its index runs time to
\* walk and to end, and a dead daemon is started again by the next hook.  Again and
\* again a periodic cycle, every ten minutes, leaves out no eligible project: the
\* memory pressure, the failed queries and the backoff of a project come to an end,
\* and it stays active, as every run renews last_seen.
FairSpec ==
  /\ Spec
  /\ \A h \in Hook : WF_vars(HookStep(h))
  /\ \A w \in Worker :
       /\ WF_vars(DrainStep(w)) /\ WF_vars(Restart(w))
       /\ SF_vars(ReindexActive(w, Eligible))
       /\ \A p \in Proj : /\ SF_vars(Walk(w, p))
                          /\ SF_vars(\E v \in 1..MaxEdits : IndexDone(w, p, v))

-----------------------------------------------------------------------------
TypeOK ==
  /\ version \in [Proj -> Nat] /\ indexed \in [Proj -> Nat] /\ known \in SUBSET Proj
  /\ queue \in SUBSET Inode /\ draining \in SUBSET Inode
  /\ \A i, j \in queue : i = j
  /\ \A i, j \in draining : i = j
  /\ names \in [Inode -> SUBSET Proj] /\ size \in [Inode -> Nat]
  /\ hpc \in [Hook -> HookPc] /\ hproj \in [Hook -> SUBSET Proj]
  /\ fd \in [Hook -> SUBSET Inode]
  /\ wpc \in [Worker -> WorkerPc] /\ lines \in [Worker -> SUBSET Proj]
  /\ awaiting \in [Worker -> SUBSET Proj] /\ runs \in [Worker -> SUBSET (Proj \X Nat)]
  /\ faults \in 0..MaxFaults /\ hazards \in SUBSET Hazard

\* Somebody still has to act on the last edit of p: a hook that has not appended
\* it, a line in a file or in a worker's memory, a run that walks after it.
Pending(p) ==
  \/ \E h \in Hook : p \in hproj[h]
  \/ p \in Named(queue \cup draining)
  \/ \E w \in Worker : p \in lines[w] \cup awaiting[w] \/ <<p, version[p]>> \in runs[w]

UpToDate(p) == indexed[p] = version[p]
NothingLost == \A p \in Proj : UpToDate(p) \/ Pending(p)

\* Without a hazard no edit is forgotten, whatever the interleaving of appends
\* and drains, the failed renames, reads and unlinks, and the death of a worker
\* whose entries are all in a file (worker.ts, drain_dirty_queue).
NoSilentLoss == hazards = {} => NothingLost

\* dirty.txt outgrows its cap by at most one line per hook, those that read its size
\* before the others appended, and one per fault, as a size that cannot be read
\* stops nobody (worker.ts, enqueue_dirty).
PastCap == {h \in Hook : hpc[h] \in {"open", "append"}}
QueueBounded ==
  \A i \in queue : size[i] + Cardinality(PastCap) < Cap + Cardinality(Hook) + faults

\* Every edit reaches the index, unless a hazard loses its entry
\* (hooks_edit.ts _enqueue_for_reindex to worker.ts _process_dirty_entries).
EditsAreIndexed == \A p \in Proj : ~UpToDate(p) ~> UpToDate(p) \/ hazards # {}

\* Whatever was lost, the periodic reindex of a daemon whose loop goes on brings the
\* index of a registered project up to date, unless the project has too many files
\* (_reindex_active_projects).
IndexHeals == \A p \in Proj \ Oversized : p \in known /\ ~UpToDate(p) ~> UpToDate(p)

-----------------------------------------------------------------------------
(* Why NoSilentLoss holds: the inductive invariant of hazard-free drains.  *)

\* The two names stand for two files; one drain at a time; outside it a worker holds no lines
\* and an idle hook no edit; an append has a file; .draining is free
\* when dirty.txt is about to take its name; and what is about to be unlinked
\* has been read.
DrainInv == hazards = {} =>
  /\ queue \cap draining = {}
  /\ \A h \in Hook : /\ hpc[h] = "idle" => hproj[h] = {}
                     /\ hpc[h] = "append" => fd[h] # {}
  /\ \A v, w \in Worker : Draining(v) /\ Draining(w) => v = w
  /\ \A w \in Worker :
       /\ ~Draining(w) => lines[w] = {}
       /\ wpc[w] = "claim" => draining = {}
       /\ wpc[w] = "forget" => lines[w] = Named(draining)
       /\ wpc[w] = "clear" => Named(draining) \subseteq lines[w]

-----------------------------------------------------------------------------
(* What comments of the code say, without the hazard taken out.            *)

\* "Atomically claim and return all queued entries": an append that races the
\* rename is not lost.
DrainTakesAll == hazards \subseteq {"lateAppend"} => NothingLost

\* "Renames dirty.txt to a private `.draining` file": two workers that drain at
\* once lose nothing.
DrainingIsPrivate == hazards \subseteq {"overlap"} => NothingLost

\* "memory pressure: skipping dirty-queue indexing (%d entries deferred)".
PressureDefers == hazards \subseteq {"pressure"} => NothingLost

\* "Production always supplies a stop event ... so the long-lived daemon is
\* unaffected": a daemon goes down only when it is killed or a run takes it down.
DaemonStays ==
  [][\A w \in Worker : wpc[w] # "down" /\ wpc'[w] = "down" => faults' > faults]_vars

\* "Incrementally re-index every recently-active project": those of many files too.
ReindexesEvery == \A p \in Proj : p \in known /\ ~UpToDate(p) ~> UpToDate(p)

\* "Re-index files that were marked dirty": a failed run is recorded and its
\* project tried again; it does not take the daemon and its other entries along.
FailureIsContained == hazards \subseteq {"rejected"} => NothingLost
=============================================================================
