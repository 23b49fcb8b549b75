------------------------------- MODULE DbOpen -------------------------------
(***************************************************************************)
(* The opening of one SQLite file by several processes (db.ts, openGlobal  *)
(* and openProject): connect, fall back to a read-only connection, check   *)
(* the integrity once per process, set a corrupt file aside and create a   *)
(* fresh one, bring the schema up to date, run the caller's body, close.   *)
(*                                                                         *)
(* Data: files are numbered in the order of their creation; a connection   *)
(* keeps its file when the file is renamed.  A file is its health, whether *)
(* it has its tables, which of the columns that were added later they      *)
(* have, and whether it carries the row with the schema's version.  Each   *)
(* statement commits by itself and is one step.                            *)
(***************************************************************************)
EXTENDS Naturals, FiniteSets

CONSTANTS
  Proc,        \* hooks, commands and the daemon
  MaxFiles,    \* bound: files created under the name
  MaxDamage,   \* bound: files damaged
  MaxFaults    \* bound: kills, failing renames, raised checks, locked databases

ASSUME BoundsAreNat == MaxFiles \in Nat \ {0} /\ MaxDamage \in Nat /\ MaxFaults \in Nat

VARIABLES
  kind,       \* the database: "global" or "project"
  made,       \* files created so far
  path,       \* the file that has the database's name, or None
  health, tables, cols, version,     \* per file
  pc, conn, ro,                      \* per process: where it is, the file of its
                                     \* connection, or None
  again,      \* it is in its second _connect of _openWithRebuild
  repairing,  \* it is in the _openWithRebuild of _repairIfCorrupt
  checked, migrated, epoch,          \* its _INTEGRITY_CHECKED, _SCHEMA_MIGRATED,
                                     \* _STATS_EPOCH_MIGRATED
  damage, faults,                    \* counters of the bounds
  finds, exempt, crowded, hazards    \* history

files == <<made, path, health, tables, cols, version>>
open == <<pc, conn, ro, again, repairing>>
caches == <<checked, migrated, epoch>>
bounds == <<damage, faults>>
history == <<finds, exempt, crowded, hazards>>
vars == <<kind, files, open, caches, bounds, history>>

(***************************************************************************)
(* finds     per file, how often it was found corrupt                      *)
(* exempt    processes that will not look at the file of the name: it was  *)
(*           damaged after their check or while they replaced it, or they  *)
(*           checked the one before                                        *)
(* crowded   openings that met another opening, or damage                  *)
(* hazards: "renameFailed"  a corrupt file could not be set aside          *)
(*          "unchecked"     integrity_check raised: taken for healthy      *)
(*          "locked"        the write-ahead log or a read was refused      *)
(***************************************************************************)
Hazard == {"renameFailed", "unchecked", "locked"}

File == 1..MaxFiles
None == 0
Kind == {"global", "project"}
\* "pages": only integrity_check finds it; "header": no statement reads the file.
Health == {"unused", "ok", "pages", "header"}
Column == {"line_count", "last_access_epoch"}
Late == IF kind = "global" THEN {"last_access_epoch"} ELSE Column

SchemaPc == {"tables", "lookLines", "addLines", "lookEpoch", "addEpoch", "version", "insert"}
Pc == {"idle", "connect", "fallback", "check", "rename", "body", "bare", "failed"} \cup SchemaPc
\* "body": the caller's body runs; "bare": it runs after a statement of the schema was
\* refused and the rest left out.
Running == {"body", "bare"}
Opening(p) == pc[p] # "idle"
Healthy(f) == health[f] = "ok"
HasNoHeader(f) == f # None /\ health[f] = "header"
UpToDate(f) == tables[f] /\ Late \subseteq cols[f] /\ version[f]
Connected(p) == pc[p] \in SchemaPc \cup Running \cup {"check"}

Init ==
  /\ kind \in Kind
  /\ \E old \in BOOLEAN, missing \in SUBSET Late :
       /\ made = IF old THEN 1 ELSE 0
       /\ path = IF old THEN 1 ELSE None
       /\ health = [f \in File |-> IF old /\ f = 1 THEN "ok" ELSE "unused"]
       /\ tables = [f \in File |-> old /\ f = 1]
       /\ cols = [f \in File |-> IF old /\ f = 1 THEN Late \ missing ELSE {}]
       /\ version = [f \in File |-> old /\ f = 1]
  /\ pc = [p \in Proc |-> "idle"] /\ conn = [p \in Proc |-> None]
  /\ ro = [p \in Proc |-> FALSE] /\ again = [p \in Proc |-> FALSE]
  /\ repairing = [p \in Proc |-> FALSE]
  /\ checked = [p \in Proc |-> FALSE] /\ migrated = [p \in Proc |-> FALSE]
  /\ epoch = [p \in Proc |-> FALSE]
  /\ damage = 0 /\ faults = 0
  /\ finds = [f \in File |-> 0] /\ exempt = {} /\ crowded = [p \in Proc |-> FALSE]
  /\ hazards = {}

-----------------------------------------------------------------------------
(* Connecting.                                                             *)

Goto(p, to) == pc' = [pc EXCEPT ![p] = to]

Begin(p) ==
  /\ pc[p] = "idle"
  /\ Goto(p, "connect")
  /\ crowded' = [q \in Proc |-> IF q = p THEN \E r \in Proc \ {p} : Opening(r)
                                ELSE crowded[q] \/ Opening(q)]
  /\ UNCHANGED <<kind, files, conn, ro, again, repairing, caches, bounds, finds, exempt,
                 hazards>>

\* A connection: _repairIfCorrupt comes next, unless this is the connection it asked for.
Opened(p, f, readonly) ==
  /\ conn' = [conn EXCEPT ![p] = f] /\ ro' = [ro EXCEPT ![p] = readonly]
  /\ again' = [again EXCEPT ![p] = FALSE] /\ repairing' = [repairing EXCEPT ![p] = FALSE]
  /\ checked' = [checked EXCEPT ![p] = @ \/ repairing[p]]
  /\ Goto(p, IF repairing[p] THEN "tables" ELSE "check")

\* The error reaches the caller, the connection is closed.
Fail(p) ==
  /\ Goto(p, "failed")
  /\ conn' = [conn EXCEPT ![p] = None] /\ ro' = [ro EXCEPT ![p] = FALSE]
  /\ again' = [again EXCEPT ![p] = FALSE] /\ repairing' = [repairing EXCEPT ![p] = FALSE]

\* new Database and journal_mode = WAL: create the file, or open the one that is there.
Create(p) ==
  /\ pc[p] = "connect" /\ path = None /\ made < MaxFiles
  /\ made' = made + 1 /\ path' = made + 1
  /\ health' = [health EXCEPT ![made + 1] = "ok"]
  /\ Opened(p, made + 1, FALSE)
  /\ UNCHANGED <<kind, tables, cols, version, migrated, epoch, bounds, history>>

Connect(p) ==
  /\ pc[p] = "connect"
  /\ path # None
  /\ IF HasNoHeader(path)
     THEN Goto(p, "fallback") /\ UNCHANGED <<conn, ro, again, repairing, checked>>
     ELSE Opened(p, path, FALSE)
  /\ UNCHANGED <<kind, files, migrated, epoch, bounds, history>>

\* The pragma threw: open read-only, by name again, and read.
Fallback(p) ==
  /\ pc[p] = "fallback"
  /\ \/ path = None /\ Fail(p) /\ UNCHANGED <<checked, finds>>
     \/ path # None /\ ~HasNoHeader(path) /\ Opened(p, path, TRUE) /\ UNCHANGED finds
     \/ HasNoHeader(path) /\ again[p] /\ Fail(p) /\ UNCHANGED <<checked, finds>>
     \/ /\ HasNoHeader(path) /\ ~again[p]
        /\ Goto(p, "rename") /\ again' = [again EXCEPT ![p] = TRUE]
        /\ finds' = [finds EXCEPT ![path] = @ + 1]
        /\ UNCHANGED <<conn, ro, repairing, checked>>
  /\ UNCHANGED <<kind, files, migrated, epoch, bounds, exempt, crowded, hazards>>

\* Mutant: the verdict is remembered before it is acted on.
CheckTrusts(p) ==
  /\ pc[p] = "check"
  /\ Goto(p, "tables") /\ checked' = [checked EXCEPT ![p] = TRUE]
  /\ UNCHANGED <<kind, files, conn, ro, again, repairing, migrated, epoch, bounds, history>>

\* _repairIfCorrupt: once per process; a corrupt file's connection is closed first.
\* A check that raises is no evidence: a file without a header passes.
Check(p) ==
  /\ pc[p] = "check"
  /\ IF checked[p] \/ health[conn[p]] # "pages"
     THEN /\ Goto(p, "tables") /\ checked' = [checked EXCEPT ![p] = TRUE]
          /\ hazards' = IF ~checked[p] /\ HasNoHeader(conn[p])
                        THEN hazards \cup {"unchecked"} ELSE hazards
          /\ exempt' = IF conn[p] = path THEN exempt ELSE exempt \cup {p}
          /\ UNCHANGED <<conn, ro, again, repairing, finds>>
     ELSE /\ Goto(p, "rename") /\ finds' = [finds EXCEPT ![conn[p]] = @ + 1]
          /\ conn' = [conn EXCEPT ![p] = None] /\ ro' = [ro EXCEPT ![p] = FALSE]
          /\ repairing' = [repairing EXCEPT ![p] = TRUE]
          /\ UNCHANGED <<again, checked, exempt, hazards>>
  /\ UNCHANGED <<kind, files, migrated, epoch, bounds, crowded>>

\* _rebuild: whatever file has the name by now is set aside.  When none has, the
\* look at it (or the rename, right after) says so and the caches stay.
Rename(p) ==
  /\ pc[p] = "rename"
  /\ path' = None
  /\ IF path = None THEN UNCHANGED <<checked, migrated, exempt>>
     ELSE /\ checked' = [checked EXCEPT ![p] = FALSE]
          /\ migrated' = [migrated EXCEPT ![p] = FALSE]
          /\ exempt' = exempt \ {p}
  /\ Goto(p, "connect")
  /\ UNCHANGED <<kind, made, health, tables, cols, version, conn, ro, again, repairing,
                 epoch, bounds, finds, crowded, hazards>>

-----------------------------------------------------------------------------
(* The schema.                                                             *)

\* Mutant: a name whose schema is known needs no tables.
TablesOnce(p) ==
  /\ pc[p] = "tables"
  /\ LET f == conn[p] known == migrated[p] \/ epoch[p] IN
     /\ tables' = [tables EXCEPT ![f] = @ \/ ~known]
     /\ cols' = [cols EXCEPT ![f] = IF tables[f] \/ known THEN @ ELSE Late]
  /\ Goto(p, IF kind = "project" /\ ~migrated[p] THEN "lookLines" ELSE "version")
  /\ UNCHANGED <<kind, made, path, health, version, conn, ro, again, repairing, caches,
                 bounds, history>>

\* CREATE TABLE IF NOT EXISTS, with all columns; then, for a project, the columns that
\* an older file may lack, once per process and name, and the version; for global.db
\* the version first.  A read-only connection that would have to write goes on to
\* the body without.
Tables(p) ==
  /\ pc[p] = "tables"
  /\ IF ro[p] /\ ~tables[conn[p]]
     THEN Goto(p, "bare") /\ UNCHANGED <<tables, cols>>
     ELSE /\ tables' = [tables EXCEPT ![conn[p]] = TRUE]
          /\ cols' = [cols EXCEPT ![conn[p]] = IF tables[conn[p]] THEN @ ELSE Late]
          /\ Goto(p, IF kind = "project" /\ ~migrated[p] THEN "lookLines" ELSE "version")
  /\ UNCHANGED <<kind, made, path, health, version, conn, ro, again, repairing, caches,
                 bounds, history>>

\* The column is there: remember it under the database's name.
HasLines(p) ==
  /\ migrated' = [migrated EXCEPT ![p] = epoch[p]]
  /\ Goto(p, IF epoch[p] THEN "version" ELSE "lookEpoch")
  /\ UNCHANGED epoch

HasEpoch(p) ==
  /\ epoch' = [epoch EXCEPT ![p] = TRUE]
  /\ migrated' = [migrated EXCEPT ![p] = @ \/ kind = "project"]
  /\ Goto(p, IF kind = "project" THEN "version" ELSE "body")

\* Mutant: the column is added without a look.
AddBlindly(p) ==
  /\ \/ pc[p] = "lookLines" /\ Goto(p, "addLines")
     \/ pc[p] = "lookEpoch" /\ Goto(p, "addEpoch")
  /\ UNCHANGED <<kind, files, conn, ro, again, repairing, caches, bounds, history>>

LookAtColumn(p) ==
  /\ \/ /\ pc[p] = "lookLines"
        /\ IF "line_count" \in cols[conn[p]] THEN HasLines(p)
           ELSE Goto(p, "addLines") /\ UNCHANGED <<migrated, epoch>>
     \/ /\ pc[p] = "lookEpoch"
        /\ IF "last_access_epoch" \in cols[conn[p]] THEN HasEpoch(p)
           ELSE Goto(p, "addEpoch") /\ UNCHANGED <<migrated, epoch>>
  /\ UNCHANGED <<kind, files, conn, ro, again, repairing, checked, bounds, history>>

Adds(p) == IF pc[p] = "addLines" THEN "line_count" ELSE "last_access_epoch"

\* ALTER TABLE ADD COLUMN throws when another process has added it meanwhile.
AddColumn(p) ==
  /\ pc[p] \in {"addLines", "addEpoch"}
  /\ \/ ro[p] /\ Goto(p, "bare") /\ UNCHANGED <<cols, conn, ro, again, repairing, migrated, epoch>>
     \/ ~ro[p] /\ Adds(p) \in cols[conn[p]] /\ Fail(p) /\ UNCHANGED <<cols, migrated, epoch>>
     \/ /\ ~ro[p] /\ Adds(p) \notin cols[conn[p]]
        /\ cols' = [cols EXCEPT ![conn[p]] = @ \cup {Adds(p)}]
        /\ IF pc[p] = "addLines" THEN HasLines(p) ELSE HasEpoch(p)
        /\ UNCHANGED <<conn, ro, again, repairing>>
  /\ UNCHANGED <<kind, made, path, health, tables, version, checked, bounds, history>>

AfterVersion(p) == Goto(p, IF epoch[p] THEN "body" ELSE "lookEpoch")

\* The version row: INSERT OR REPLACE for a project; for global.db a look, and a
\* plain INSERT, which throws when another process was faster.
Version(p) ==
  /\ pc[p] = "version"
  /\ IF kind = "project"
     THEN /\ Goto(p, IF ro[p] THEN "bare" ELSE "body")
          /\ version' = [version EXCEPT ![conn[p]] = @ \/ ~ro[p]]
     ELSE /\ IF version[conn[p]] THEN AfterVersion(p) ELSE Goto(p, "insert")
          /\ UNCHANGED version
  /\ UNCHANGED <<kind, made, path, health, tables, cols, conn, ro, again, repairing, caches,
                 bounds, history>>

Insert(p) ==
  /\ pc[p] = "insert"
  /\ \/ ro[p] /\ Goto(p, "bare") /\ UNCHANGED <<version, conn, ro, again, repairing>>
     \/ ~ro[p] /\ version[conn[p]] /\ Fail(p) /\ UNCHANGED version
     \/ /\ ~ro[p] /\ ~version[conn[p]]
        /\ version' = [version EXCEPT ![conn[p]] = TRUE] /\ AfterVersion(p)
        /\ UNCHANGED <<conn, ro, again, repairing>>
  /\ UNCHANGED <<kind, made, path, health, tables, cols, caches, bounds, history>>

\* The body ran, or the error was passed on, and the connection is closed.
Close(p) ==
  /\ pc[p] \in Running \cup {"failed"}
  /\ Goto(p, "idle")
  /\ conn' = [conn EXCEPT ![p] = None] /\ ro' = [ro EXCEPT ![p] = FALSE]
  /\ crowded' = [crowded EXCEPT ![p] = FALSE]
  /\ UNCHANGED <<kind, files, again, repairing, caches, bounds, finds, exempt, hazards>>

-----------------------------------------------------------------------------
(* What may go wrong.                                                      *)

\* The process is over; the next one of its place starts with empty caches.
Gone(p) ==
  /\ Goto(p, "idle")
  /\ conn' = [conn EXCEPT ![p] = None] /\ ro' = [ro EXCEPT ![p] = FALSE]
  /\ again' = [again EXCEPT ![p] = FALSE] /\ repairing' = [repairing EXCEPT ![p] = FALSE]
  /\ checked' = [checked EXCEPT ![p] = FALSE] /\ migrated' = [migrated EXCEPT ![p] = FALSE]
  /\ epoch' = [epoch EXCEPT ![p] = FALSE]
  /\ exempt' = exempt \ {p} /\ crowded' = [crowded EXCEPT ![p] = FALSE]
  /\ UNCHANGED <<kind, files, damage, finds, hazards>>

Exit(p) == pc[p] = "idle" /\ Gone(p) /\ UNCHANGED faults
Killed(p) == Opening(p) /\ faults < MaxFaults /\ Gone(p) /\ faults' = faults + 1

Fault(hazard) ==
  /\ faults < MaxFaults /\ faults' = faults + 1
  /\ hazards' = hazards \cup {hazard}
  /\ UNCHANGED <<kind, files, damage, finds, exempt, crowded>>

RenameFails(p) ==
  /\ pc[p] = "rename" /\ path # None
  /\ Goto(p, "connect")
  /\ Fault("renameFailed")
  /\ UNCHANGED <<conn, ro, again, repairing, caches>>

\* integrity_check raised: no evidence of corruption.
CheckRaises(p) ==
  /\ pc[p] = "check" /\ ~checked[p] /\ ~HasNoHeader(conn[p])
  /\ Goto(p, "tables") /\ checked' = [checked EXCEPT ![p] = TRUE]
  /\ Fault("unchecked")
  /\ UNCHANGED <<conn, ro, again, repairing, migrated, epoch>>

\* WAL refused: the read-only connection is tried.
WalRefused(p) ==
  /\ pc[p] = "connect" /\ path # None
  /\ Goto(p, "fallback")
  /\ Fault("locked")
  /\ UNCHANGED <<conn, ro, again, repairing, caches>>

\* Mutant: any error of a connection counts as corruption.
RefusalIsCorruption(p) ==
  /\ pc[p] = "fallback" /\ path # None /\ ~again[p]
  /\ Goto(p, "rename") /\ again' = [again EXCEPT ![p] = TRUE]
  /\ Fault("locked")
  /\ UNCHANGED <<conn, ro, repairing, caches>>

\* That is refused too: _openWithRetry tries again, or has for the third time.
\* Neither the second connect nor the repair is retried.
ReadRefused(p) ==
  /\ pc[p] = "fallback" /\ path # None
  /\ \/ Fail(p)
     \/ ~again[p] /\ ~repairing[p] /\ Goto(p, "connect") /\ UNCHANGED <<conn, ro, again, repairing>>
  /\ Fault("locked")
  /\ UNCHANGED caches

\* A statement of the schema meets a lock, or an I/O error: the rest of the schema is
\* left out, on a writable connection as well, and the body runs.
SchemaSkipped(p) ==
  /\ pc[p] \in SchemaPc
  /\ Goto(p, "bare")
  /\ Fault("locked")
  /\ UNCHANGED <<conn, ro, again, repairing, caches>>

\* A statement on a damaged file may throw.
StatementThrows(p) ==
  /\ pc[p] \in SchemaPc /\ ~Healthy(conn[p])
  /\ Fail(p)
  /\ UNCHANGED <<kind, files, caches, bounds, history>>

\* The file is damaged where it lies.
Damaged ==
  /\ damage < MaxDamage /\ damage' = damage + 1
  /\ path # None /\ Healthy(path)
  /\ \E h \in {"pages", "header"} : health' = [health EXCEPT ![path] = h]
  /\ exempt' = exempt \cup {p \in Proc : checked[p] \/ repairing[p]}
  /\ crowded' = [p \in Proc |-> crowded[p] \/ Opening(p)]
  /\ UNCHANGED <<kind, made, path, tables, cols, version, open, caches, faults, finds,
                 hazards>>

OpenStep(p) ==
  \/ Create(p) \/ Connect(p) \/ Fallback(p) \/ Check(p) \/ Rename(p)
  \/ Tables(p) \/ LookAtColumn(p) \/ AddColumn(p) \/ Version(p) \/ Insert(p) \/ Close(p)
FaultStep(p) ==
  \/ Killed(p) \/ RenameFails(p) \/ CheckRaises(p) \/ WalRefused(p) \/ ReadRefused(p)
  \/ SchemaSkipped(p) \/ StatementThrows(p)

Next == Damaged \/ \E p \in Proc : Begin(p) \/ OpenStep(p) \/ Exit(p) \/ FaultStep(p)

Spec == Init /\ [][Next]_vars

\* An opening goes on, a command or hook ends at last, and others come.
FairSpec ==
  Spec /\ \A p \in Proc : WF_vars(Begin(p) \/ OpenStep(p)) /\ SF_vars(Exit(p))

-----------------------------------------------------------------------------
TypeOK ==
  /\ kind \in Kind /\ made \in 0..MaxFiles
  /\ path \in File \cup {None}
  /\ health \in [File -> Health] /\ tables \in [File -> BOOLEAN]
  /\ cols \in [File -> SUBSET Column] /\ version \in [File -> BOOLEAN]
  /\ pc \in [Proc -> Pc] /\ conn \in [Proc -> File \cup {None}]
  /\ \A p \in Proc : Connected(p) <=> conn[p] # None
  /\ ro \in [Proc -> BOOLEAN] /\ again \in [Proc -> BOOLEAN]
  /\ repairing \in [Proc -> BOOLEAN]
  /\ checked \in [Proc -> BOOLEAN] /\ migrated \in [Proc -> BOOLEAN]
  /\ epoch \in [Proc -> BOOLEAN]
  /\ damage \in 0..MaxDamage /\ faults \in 0..MaxFaults
  /\ finds \in [File -> Nat] /\ exempt \in SUBSET Proc
  /\ crowded \in [Proc -> BOOLEAN] /\ hazards \in SUBSET Hazard

\* A body that no refused statement sent ahead finds the whole schema in its file,
\* though what the process remembers of the schema goes by the name and other processes
\* may have replaced the file since, and whatever schemas the others have left half
\* done (db.ts, _ensureProjectSchema and _ensureGlobalSchema).
BodyHasSchema ==
  \A p \in Proc : pc[p] = "body" => UpToDate(conn[p])

\* "DDL is skipped silently because the schema was already created by a prior writable
\* open."
SkippedHasTables ==
  \A p \in Proc : pc[p] = "bare" /\ ro[p] => tables[conn[p]]

\* Nobody works on a file that was corrupt when he opened it, unless it was
\* damaged after his one check or he checked its predecessor, or the check
\* raised, or the file could not be renamed (db.ts, _repairIfCorrupt).
DamageIsCaught ==
  hazards \cap {"renameFailed", "unchecked"} = {} =>
    \A p \in Proc \ exempt : pc[p] \in SchemaPc \cup Running => Healthy(conn[p])

\* A healthy file is set aside only when two processes found the same file corrupt
\* (db.ts, _rebuild).
Aside == {f \in 1..made : f # path}
LoneFinderKeepsHealthy ==
  (\A f \in File : finds[f] <= 1) => \A f \in Aside : ~Healthy(f)

\* Whatever killed processes left behind, an opening that meets no other succeeds
\* (db.ts, _openWithRetry to _ensureProjectSchema).
LoneOpeningSucceeds ==
  hazards = {} => \A p \in Proc : pc[p] = "failed" => crowded[p] \/ p \in exempt

\* A damaged file is replaced at last, as long as processes come that have not
\* checked it yet (db.ts, _openWithRebuild and _repairIfCorrupt).
DamageIsRepaired == path # None /\ ~Healthy(path) ~> path # None /\ Healthy(path)

-----------------------------------------------------------------------------
(* Why they hold: the inductive invariants.                                *)

\* The file of the name is the one created last, connections are to created files.
FileInv ==
  /\ path # None => path = made
  /\ \A p \in Proc : conn[p] <= made
  /\ \A f \in File : (f > made => ~tables[f]) /\ (health[f] = "unused" => f > made)

\* A second connect or a repair is under way from the find to the new connection.
PendingInv ==
  \A p \in Proc : again[p] \/ repairing[p] => pc[p] \in {"rename", "connect", "fallback"}

\* Only the first file can lack a column that its tables came without: what a
\* process knows of its own file is true of every later one as well.
Knows(p, f) ==
  f # None /\ tables[f] =>
    /\ epoch[p] => "last_access_epoch" \in cols[f]
    /\ migrated[p] => Late \subseteq cols[f]
Progress(p, f) ==
  /\ pc[p] \in SchemaPc \ {"tables"} => tables[f]
  /\ pc[p] \in {"lookLines", "addLines"} => kind = "project"
  /\ pc[p] = "insert" => kind = "global"
  /\ pc[p] \in {"lookEpoch", "addEpoch"} =>
       IF kind = "project" THEN "line_count" \in cols[f] ELSE version[f]
  /\ pc[p] = "version" /\ kind = "project" => Late \subseteq cols[f]
  /\ pc[p] = "body" => UpToDate(f)
OnlyFirstIsOld == \A f \in File : tables[f] /\ ~(Late \subseteq cols[f]) => f = 1
SchemaInv ==
  OnlyFirstIsOld /\ \A p \in Proc : Knows(p, path) /\ Knows(p, conn[p]) /\ Progress(p, conn[p])

\* A verdict that is remembered is true of the file of the name, until it is damaged.
Trusts(p) == checked[p] \/ (repairing[p] /\ pc[p] \in {"connect", "fallback"})
Caught(p) ==
  /\ Trusts(p) /\ path # None => Healthy(path)
  /\ pc[p] \in SchemaPc \cup Running => checked[p] /\ Healthy(conn[p])
  /\ pc[p] = "check" /\ checked[p] => Healthy(conn[p])
CaughtInv ==
  hazards \cap {"renameFailed", "unchecked"} = {} => \A p \in Proc \ exempt : Caught(p)

\* As long as no file is found twice, who is about to rename found the file that
\* has the name, and nobody else is about to.
FoundInv ==
  (\A f \in File : finds[f] <= 1) =>
    /\ \A f \in Aside : ~Healthy(f) /\ finds[f] = 1
    /\ \A p \in Proc : pc[p] = "rename" => path # None /\ ~Healthy(path) /\ finds[path] = 1
    /\ \A p, q \in Proc : pc[p] = "rename" /\ pc[q] = "rename" => p = q

\* Nobody takes away what a lone opening has just seen.
Smooth(p) ==
  /\ pc[p] # "failed"
  /\ pc[p] = "fallback" => HasNoHeader(path) /\ ~again[p]
  /\ pc[p] = "connect" /\ again[p] => path = None
  /\ pc[p] \in {"addLines", "addEpoch"} => Adds(p) \notin cols[conn[p]]
  /\ pc[p] = "insert" => ~version[conn[p]]
LoneInv ==
  \A p \in Proc : Opening(p) /\ ~crowded[p] =>
    /\ \A q \in Proc \ {p} : ~Opening(q)
    /\ hazards = {} /\ p \notin exempt => Smooth(p)
=============================================================================
