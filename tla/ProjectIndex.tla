---------------------------- MODULE ProjectIndex ----------------------------
(***************************************************************************)
(* One project's symbol index: the writer lock (db.ts, projectWriterLock), *)
(* index runs over the whole project (parser.ts, index_project), the       *)
(* watcher that indexes single files (cli_index.ts, _watch_project), and   *)
(* the editor that changes files meanwhile.                                *)
(*                                                                         *)
(* Data: a file is the number of its content's version, its mtime, 0 when  *)
(* it does not exist, and the last mtime it had; a row is the version and  *)
(* the mtime it was written from.  The symbols and the SHA of a file are a *)
(* function of its version.  A process that dies comes back as a new       *)
(* process with the same name.                                             *)
(***************************************************************************)
EXTENDS Naturals, FiniteSets

CONSTANTS
  File,       \* files of the project
  Run,        \* processes that call index_project
  Watcher,    \* processes that call _watch_project
  NoFile,     \* no file
  Events,     \* which of Event happen
  MaxEdits,   \* bound: versions and mtimes of a file
  MaxFaults   \* bound: deaths and failed index runs

(***************************************************************************)
(* "sameTick"  an edit leaves the mtime as it was                          *)
(* "longHold"  a live process holds the lock for more than ten minutes     *)
(***************************************************************************)
Event == {"sameTick", "longHold"}

ASSUME BoundsAreNat == MaxEdits \in Nat \ {0} /\ MaxFaults \in Nat
ASSUME EventsAreKnown == Events \subseteq Event
ASSUME NoFileIsNone == NoFile \notin File
ASSUME RunsAreNotWatchers == Run \cap Watcher = {}

Process == Run \cup Watcher

VARIABLES
  disk,     \* [mtime, version, tick] of each file
  rows,     \* [mtime, version] of each row of the files table, 0 for no row
  global,   \* version of each file in symbols_global, 0 for none
  lock,     \* owner of the lock file: {} or {p}
  blank,    \* the lock file has no content yet
  orphan,   \* ... its owner is seen to be dead
  old,      \* ... it is older than ten minutes
  pc,
  walk,     \* files each run found before it waited for the lock
  full,     \* the runs that are not incremental
  known,    \* rows each incremental run loaded, NoRows in a full run
  todo,     \* files it has yet to visit
  cur,      \* [file, pre, version] it is reading
  faults,   \* counter of the bound
  hazards   \* history

store == <<rows, global>>
lockVars == <<lock, blank, orphan, old>>
local == <<walk, full, known, todo, cur>>
vars == <<disk, store, lockVars, pc, local, faults, hazards>>

(***************************************************************************)
(* hazards:                                                                *)
(*   "sameTick"  an edit left the mtime as it was                          *)
(*   "noPre"     a file was missing when it was first looked at and was    *)
(*               read afterwards                                           *)
(*   "evicted"   the lock file of a live process was unlinked              *)
(*   "broken"    an index run failed or died while it held the lock        *)
(*   "watched"   the watcher wrote a row                                   *)
(***************************************************************************)
Hazard == {"sameTick", "noPre", "evicted", "broken", "watched"}

\* The process holds the lock, as far as it knows.
Held == {"stamp", "load", "visit", "read", "check", "prune", "clear", "copy", "put",
         "release"}
Pc == Held \cup {"idle", "look", "take", "confirm", "wait", "evict", "again"}
InLock(p) == pc[p] \in Held

NoRow == [mtime |-> 0, version |-> 0]
NoRows == [f \in File |-> NoRow]
Exists(f) == disk[f].mtime # 0
NoCur == [file |-> NoFile, pre |-> 0, version |-> 0]

Goto(p, at) == pc' = [pc EXCEPT ![p] = at]

\* The call is over, and its variables with it.
Leave(p) ==
  /\ Goto(p, "idle")
  /\ walk' = [walk EXCEPT ![p] = {}] /\ todo' = [todo EXCEPT ![p] = {}]
  /\ full' = full \ {p} /\ known' = [known EXCEPT ![p] = NoRows]
  /\ cur' = [cur EXCEPT ![p] = NoCur]

Init ==
  /\ disk \in [File -> {[mtime |-> n, version |-> n, tick |-> n] : n \in {0, 1}}]
  /\ rows = NoRows /\ global = [f \in File |-> 0]
  /\ lock = {} /\ blank = FALSE /\ orphan = FALSE /\ old = FALSE
  /\ pc = [p \in Process |-> "idle"]
  /\ full = {} /\ walk = [p \in Process |-> {}] /\ todo = [p \in Process |-> {}]
  /\ known = [p \in Process |-> NoRows] /\ cur = [p \in Process |-> NoCur]
  /\ faults = 0 /\ hazards = {}

-----------------------------------------------------------------------------
(* The project's files.                                                    *)

\* A new content and a new mtime; a touch or an old content put back, with a new
\* mtime; or a new content within the same tick of the clock.
Edit(f) ==
  LET d == disk[f] IN
  \/ /\ d.tick < MaxEdits
     /\ \E v \in {d.version, d.version + 1} \ {0, MaxEdits + 1} :
          disk' = [disk EXCEPT ![f] = [mtime |-> d.tick + 1, version |-> v,
                                       tick |-> d.tick + 1]]
     /\ UNCHANGED <<store, lockVars, pc, local, faults, hazards>>
  \/ /\ "sameTick" \in Events /\ Exists(f) /\ d.version < MaxEdits
     /\ disk' = [disk EXCEPT ![f].version = d.version + 1]
     /\ hazards' = hazards \cup {"sameTick"}
     /\ UNCHANGED <<store, lockVars, pc, local, faults>>

Delete(f) ==
  /\ Exists(f)
  /\ disk' = [disk EXCEPT ![f].mtime = 0]
  /\ UNCHANGED <<store, lockVars, pc, local, faults, hazards>>

-----------------------------------------------------------------------------
(* projectWriterLock.                                                      *)

\* Mutant: a blank lock is never stale.
StaleIfStamped == ~blank /\ (old \/ orphan)

IsStale == IF blank THEN old ELSE old \/ orphan

UnlinkLock == lock' = {} /\ blank' = FALSE /\ orphan' = FALSE /\ old' = FALSE

\* Mutant: without O_EXCL.
CreateShared(p) ==
  /\ lock' = {p} /\ blank' = TRUE /\ orphan' = FALSE /\ old' = FALSE
  /\ Goto(p, "stamp")

\* Mutant: the lock file of two owners.
CreateJoined(p) ==
  /\ lock' = lock \cup {p} /\ blank' = TRUE /\ orphan' = FALSE /\ old' = FALSE
  /\ Goto(p, "stamp")

CreateLock(p) ==
  /\ lock = {}
  /\ lock' = {p} /\ blank' = TRUE /\ orphan' = FALSE /\ old' = FALSE
  /\ Goto(p, "stamp")

TryAcquire(p) ==
  /\ pc[p] = "wait"
  /\ \/ CreateLock(p)
     \/ lock # {} /\ IsStale /\ Goto(p, "evict") /\ UNCHANGED lockVars
  /\ UNCHANGED <<disk, store, local, faults, hazards>>

\* The stale lock is unlinked by name, whoever has it by now.
EvictLock(p) ==
  /\ pc[p] = "evict"
  /\ UnlinkLock
  /\ hazards' = IF \E q \in lock : InLock(q) THEN hazards \cup {"evicted"} ELSE hazards
  /\ Goto(p, "again")
  /\ UNCHANGED <<disk, store, local, faults>>

RetryAcquire(p) ==
  /\ pc[p] = "again"
  /\ \/ CreateLock(p)
     \/ lock # {} /\ Goto(p, "wait") /\ UNCHANGED lockVars
  /\ UNCHANGED <<disk, store, local, faults, hazards>>

\* The owner's pid and the time go to the file it created.
StampLock(p) ==
  /\ pc[p] = "stamp"
  /\ blank' = IF lock = {p} THEN FALSE ELSE blank
  /\ Goto(p, IF p \in Run THEN "load" ELSE "put")
  /\ UNCHANGED <<disk, store, lock, orphan, old, local, faults, hazards>>

\* The last try within the time limit met a lock that is not stale: the whole call
\* throws.
GiveUp(p) ==
  /\ pc[p] = "wait" /\ lock # {} /\ ~IsStale
  /\ Leave(p)
  /\ UNCHANGED <<disk, store, lockVars, faults, hazards>>

Release(p) ==
  /\ pc[p] = "release"
  /\ UnlinkLock
  /\ hazards' = IF \E q \in lock \ {p} : InLock(q) THEN hazards \cup {"evicted"} ELSE hazards
  /\ Leave(p)
  /\ UNCHANGED <<disk, store, faults>>

LockAges ==
  /\ lock # {} /\ ~old
  /\ "longHold" \in Events \/ ~ \E p \in lock : InLock(p)
  /\ old' = TRUE
  /\ UNCHANGED <<disk, store, lock, blank, orphan, pc, local, faults, hazards>>

-----------------------------------------------------------------------------
(* index_project.                                                          *)

\* The files are listed before the lock is asked for.
Walk(r) ==
  /\ pc[r] = "idle"
  /\ walk' = [walk EXCEPT ![r] = {f \in File : Exists(f)}]
  /\ Goto(r, "wait")
  /\ full' \in {full \cup {r}, full \ {r}}
  /\ UNCHANGED <<disk, store, lockVars, known, todo, cur, faults, hazards>>

\* An incremental run loads the rows, a full run ignores them.
Load(r) ==
  /\ pc[r] = "load"
  /\ known' = [known EXCEPT ![r] = IF r \in full THEN NoRows ELSE rows]
  /\ todo' = [todo EXCEPT ![r] = walk[r]]
  /\ Goto(r, "visit")
  /\ UNCHANGED <<disk, store, lockVars, walk, full, cur, faults, hazards>>

\* The next file: skip it when its row has its mtime, else look at it.
Visit(r) ==
  /\ pc[r] = "visit"
  /\ \E f \in todo[r] :
       /\ todo' = [todo EXCEPT ![r] = @ \ {f}]
       /\ IF known[r][f] # NoRow /\ known[r][f].mtime = disk[f].mtime
          THEN UNCHANGED <<pc, cur>>
          ELSE /\ cur' = [cur EXCEPT ![r] = [file |-> f, pre |-> disk[f].mtime, version |-> 0]]
               /\ Goto(r, "read")
  /\ UNCHANGED <<disk, store, lockVars, walk, full, known, faults, hazards>>

VisitedAll(r) ==
  /\ pc[r] = "visit" /\ todo[r] = {}
  /\ Goto(r, "prune")
  /\ UNCHANGED <<disk, store, lockVars, local, faults, hazards>>

\* _index_file_sync: the content, and nothing when the file is gone.
TakeContent(p, next) ==
  /\ Exists(cur[p].file)
  /\ cur' = [cur EXCEPT ![p] = [@ EXCEPT !.version = disk[cur[p].file].version]]
  /\ hazards' = IF cur[p].pre = 0 THEN hazards \cup {"noPre"} ELSE hazards
  /\ Goto(p, next)

Read(r) ==
  /\ pc[r] = "read"
  /\ \/ TakeContent(r, "check")
     \/ /\ ~Exists(cur[r].file)
        /\ cur' = [cur EXCEPT ![r] = NoCur]
        /\ Goto(r, "visit") /\ UNCHANGED hazards
  /\ UNCHANGED <<disk, store, lockVars, walk, full, known, todo, faults>>

\* Mutant: the mtime after the reading is not compared.
NeverMoved(p) == Exists(cur[p].file)

\* The mtime is still the one seen before the content was read.
Unmoved(p) ==
  LET f == cur[p].file IN Exists(f) /\ cur[p].pre \in {0, disk[f].mtime}

Fresh(p) == [mtime |-> disk[cur[p].file].mtime, version |-> cur[p].version]

\* The second look at the mtime, and the row, unless the content is the known one.
Check(r) ==
  /\ pc[r] = "check"
  /\ LET f == cur[r].file IN
     IF Unmoved(r) /\ known[r][f].version # cur[r].version
     THEN rows' = [rows EXCEPT ![f] = Fresh(r)]
     ELSE UNCHANGED rows
  /\ cur' = [cur EXCEPT ![r] = NoCur]
  /\ Goto(r, "visit")
  /\ UNCHANGED <<disk, global, lockVars, walk, full, known, todo, faults, hazards>>

\* Rows of files that were not in the walk; an incremental run looks only at the
\* rows it loaded.
Prune(r) ==
  /\ pc[r] = "prune"
  /\ LET listed == {f \in File : r \in full \/ known[r][f] # NoRow} IN
     rows' = [f \in File |-> IF f \in listed \ walk[r] THEN NoRow ELSE rows[f]]
  /\ Goto(r, "clear")
  /\ UNCHANGED <<disk, global, lockVars, local, faults, hazards>>

\* symbols_global: delete the project's rows, then copy them from its own table.
ClearGlobal(r) ==
  /\ pc[r] = "clear"
  /\ global' = [f \in File |-> 0]
  /\ Goto(r, "copy")
  /\ UNCHANGED <<disk, rows, lockVars, local, faults, hazards>>

\* Mutant: the global snapshot is of the rows the run loaded.
CopyLoaded(r) ==
  /\ pc[r] = "copy"
  /\ global' = [f \in File |-> known[r][f].version]
  /\ Goto(r, "release")
  /\ UNCHANGED <<disk, rows, lockVars, local, faults, hazards>>

CopyGlobal(r) ==
  /\ pc[r] = "copy"
  /\ global' = [f \in File |-> rows[f].version]
  /\ Goto(r, "release")
  /\ UNCHANGED <<disk, rows, lockVars, local, faults, hazards>>
\* An error inside: the lock is released on the way out.
Fail(r) ==
  /\ pc[r] \in {"load", "visit", "prune", "clear", "copy"} /\ faults < MaxFaults
  /\ faults' = faults + 1 /\ hazards' = hazards \cup {"broken"}
  /\ Goto(r, "release")
  /\ UNCHANGED <<disk, store, lockVars, local>>

-----------------------------------------------------------------------------
(* _watch_project: index one changed file, then ask for the lock.          *)

Look(w) ==
  /\ pc[w] = "idle"
  /\ \E f \in File :
       /\ Exists(f)
       /\ cur' = [cur EXCEPT ![w] = [file |-> f, pre |-> disk[f].mtime, version |-> 0]]
  /\ Goto(w, "take")
  /\ UNCHANGED <<disk, store, lockVars, walk, full, known, todo, faults, hazards>>

Take(w) ==
  /\ pc[w] = "take"
  /\ \/ TakeContent(w, "confirm") /\ UNCHANGED <<walk, full, known, todo>>
     \/ ~Exists(cur[w].file) /\ Leave(w) /\ UNCHANGED hazards
  /\ UNCHANGED <<disk, store, lockVars, faults>>

Confirm(w) ==
  /\ pc[w] = "confirm"
  /\ IF Unmoved(w)
     THEN /\ cur' = [cur EXCEPT ![w] = [@ EXCEPT !.pre = disk[cur[w].file].mtime]]
          /\ Goto(w, "wait")
          /\ UNCHANGED <<walk, full, known, todo>>
     ELSE Leave(w)
  /\ UNCHANGED <<disk, store, lockVars, faults, hazards>>

\* write_file_index, with what was read before the lock was asked for.
Put(w) ==
  /\ pc[w] = "put"
  /\ rows' = [rows EXCEPT ![cur[w].file] = [mtime |-> cur[w].pre, version |-> cur[w].version]]
  /\ hazards' = hazards \cup {"watched"}
  /\ Goto(w, "release")
  /\ UNCHANGED <<disk, global, lockVars, local, faults>>

-----------------------------------------------------------------------------
\* The process is gone; its pid is seen to be dead, or names another program.
Die(p) ==
  /\ pc[p] # "idle" /\ faults < MaxFaults
  /\ faults' = faults + 1
  /\ IF lock = {p} THEN orphan' \in BOOLEAN ELSE UNCHANGED orphan
  /\ hazards' = IF InLock(p) THEN hazards \cup {"broken"} ELSE hazards
  /\ Leave(p)
  /\ UNCHANGED <<disk, store, lock, blank, old>>

LockStep(p) ==
  \/ TryAcquire(p) \/ EvictLock(p) \/ RetryAcquire(p) \/ StampLock(p)
  \/ GiveUp(p) \/ Release(p)
RunStep(r) ==
  \/ Walk(r) \/ Load(r) \/ Visit(r) \/ VisitedAll(r) \/ Read(r) \/ Check(r)
  \/ Prune(r) \/ ClearGlobal(r) \/ CopyGlobal(r)
WatchStep(w) == Look(w) \/ Take(w) \/ Confirm(w) \/ Put(w)

Next ==
  \/ \E f \in File : Edit(f) \/ Delete(f)
  \/ \E p \in Process : LockStep(p) \/ Die(p)
  \/ \E r \in Run : RunStep(r) \/ Fail(r)
  \/ \E w \in Watcher : WatchStep(w)
  \/ LockAges

Spec == Init /\ [][Next]_vars

\* Index runs keep coming, everybody who has begun goes on, time passes.
FairSpec ==
  /\ Spec
  /\ \A r \in Run : WF_vars(LockStep(r) \/ RunStep(r))
  /\ \A w \in Watcher : WF_vars(LockStep(w) \/ Take(w) \/ Confirm(w) \/ Put(w))
  /\ WF_vars(LockAges)

-----------------------------------------------------------------------------
Reading(p) ==
  \/ pc[p] \in {"read", "check", "take", "confirm"}
  \/ p \in Watcher /\ pc[p] \in {"wait", "evict", "again", "stamp", "put"}

Row == [mtime : 0..MaxEdits, version : 0..MaxEdits]
OnDisk == [mtime : 0..MaxEdits, version : 0..MaxEdits, tick : 0..MaxEdits]

TypeOK ==
  /\ disk \in [File -> OnDisk] /\ rows \in [File -> Row] /\ global \in [File -> 0..MaxEdits]
  /\ lock \in SUBSET Process /\ \A p, q \in lock : p = q
  /\ blank \in BOOLEAN /\ orphan \in BOOLEAN /\ old \in BOOLEAN
  /\ pc \in [Process -> Pc]
  /\ walk \in [Process -> SUBSET File] /\ todo \in [Process -> SUBSET File]
  /\ full \in SUBSET Run /\ known \in [Process -> [File -> Row]]
  /\ cur \in [Process -> [file : File \cup {NoFile}, pre : 0..MaxEdits, version : 0..MaxEdits]]
  /\ \A p \in Process : Reading(p) => cur[p].file \in File
  /\ faults \in 0..MaxFaults /\ hazards \in SUBSET Hazard

\* At most one process writes the index, through deaths, time limits and stale
\* locks, until the lock of a live one is unlinked (db.ts, projectWriterLock).
OneWriter ==
  "evicted" \notin hazards => \A p, q \in Process : InLock(p) /\ InLock(q) => p = q

\* The writer lock is an OwnedLock: its file is removed only by its owner or when
\* nobody acts on it, whatever dies, waits, gives up or judges it stale (db.ts,
\* projectWriterLock).
Lock == INSTANCE OwnedLock WITH file <- lock,
                                inside <- {p \in Process : InLock(p)},
                                trusted <- "evicted" \notin hazards
LockIsOwned == Lock!Spec

\* A row that the mtime check of an incremental run takes for current was made from
\* the content the file has now: no edit while a file is read, no old reading
\* written late and no second writer makes the index wrong for good (parser.ts,
\* _index_file_sync and index_project).
RowsAreTrue ==
  {"sameTick", "noPre"} \cap hazards = {} =>
    \A f \in File :
      rows[f] # NoRow /\ rows[f].mtime = disk[f].mtime => rows[f].version = disk[f].version

\* Between runs the global snapshot has the rows of the project's own table
\* (parser.ts, index_project).
GlobalIsCurrent ==
  {"evicted", "broken", "watched"} \cap hazards = {} /\ (\A p \in Process : ~InLock(p)) =>
    \A f \in File : global[f] = rows[f].version

\* Once the files rest the table comes to agree with them, and stays so, unless
\* a change was hidden in the tick of the one before (parser.ts, index_project).
Agrees(f) == rows[f].version = IF Exists(f) THEN disk[f].version ELSE 0
IndexConverges ==
  <>[]((\A f \in File : Agrees(f)) \/ {"noPre", "sameTick"} \cap hazards # {})

-----------------------------------------------------------------------------
(* What comments of the code say.                                          *)

\* "Creation is the mutex": two processes never both write.
CreationIsMutex == \A p, q \in Process : InLock(p) /\ InLock(q) => p = q

\* "Prune index entries for files that no longer exist on disk".
PrunesOnlyMissing ==
  [][\A r \in Run, f \in File :
       pc[r] = "prune" /\ pc'[r] = "clear" /\ rows'[f] # rows[f] => ~Exists(f)]_vars

\* "SHA check guards against same-mtime content changes": a file that is skipped
\* has the content of its row.
SkipsOnlyUnchanged ==
  [][\A r \in Run, f \in File :
       f \in todo[r] \ todo'[r] /\ pc'[r] = "visit" =>
         known[r][f].version = disk[f].version]_vars

-----------------------------------------------------------------------------
(* Why they hold.                                                          *)

\* The lock file names whoever is in the lock.
LockInv == "evicted" \notin hazards => \A p \in Process : InLock(p) => lock = {p}

Clean == {"sameTick", "noPre"} \cap hazards = {}

\* A version seen at an mtime is the file's last one unless the file has a later mtime.
SeenAt(mtime, version, f) ==
  /\ 0 < mtime /\ mtime <= disk[f].tick
  /\ mtime = disk[f].tick => version = disk[f].version

\* Without edits in one tick this is so of every row, ...
FilesTrue ==
  \A f \in File :
    /\ disk[f].mtime \in {0, disk[f].tick}
    /\ rows[f] # NoRow => SeenAt(rows[f].mtime, rows[f].version, f)

\* ... and of every reading, with the mtime from before it.
ReadTrue(p) ==
  Reading(p) =>
    IF pc[p] \in {"read", "take"} THEN cur[p].pre <= disk[cur[p].file].tick
    ELSE SeenAt(cur[p].pre, cur[p].version, cur[p].file)

ReadInv == Clean => FilesTrue /\ \A p \in Process : ReadTrue(p)
=============================================================================
