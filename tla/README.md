# token-goat: formal model

token-goat is a set of hook programs that a coding assistant starts around every
tool call (`src/src/token_goat/hooks_cli.ts`), a background worker daemon that keeps a
symbol index of each project up to date (`worker_daemon.ts`, `worker.ts`), and a
command line (`cli.ts`). A hook is one short-lived process. Several of them run at
once: the assistant issues tool calls in parallel, runs sub-agents in one session, and
kills a hook that takes too long. They, the daemon and the command line share no
memory and no server. They meet in files below one data directory: JSON files replaced
by rename, lockfiles created with `O_EXCL`, pid and heartbeat files, a line-oriented
queue, and SQLite databases. What can go wrong there is what this project is about.

All line numbers below are of files in `src/src/token_goat/`.

## 1. The system

### 1.1 Inventory

| component | source | state it keeps | operations | modelled in |
|---|---|---|---|---|
| session cache | `session.ts`, `paths.ts` | `sessions/<id>.json`, its `.lock`, `<file>.<pid>...tmp` files; per process `_proc_load_cache`, `_LAST_SAVED_VERSION` | `load`, `mark_*`/`record_*`, `save`, `reset_session` | `SessionStore`, `SessionLog`, `OwnedLock` |
| dirty queue and drain | `worker.ts`, `hooks_edit.ts` | `queue/dirty.txt`, `.draining`, `.corrupt-<ts>`; in the daemon the raw lines and the index runs under way | `enqueue_dirty`, `drain_dirty_queue`, `_process_dirty_entries`, `_reindex_active_projects` | `DirtyQueue` |
| worker life cycle | `worker.ts`, `worker_daemon.ts` | `worker.claim`, `worker.pid`, `worker.heartbeat` | `ensure_running`, `_try_claim_worker_slot`, `run_daemon`, `kill_duplicate_daemon` | `WorkerLifecycle`, `OwnedLock` |
| project index | `parser.ts`, `db.ts`, `cli_index.ts` | per project a SQLite file, a row per source file, and the copy in `symbols_global`; the writer lockfile | `index_project`, `write_file_index`, `_watch_project`, `projectWriterLock` | `ProjectIndex`, `OwnedLock` |
| skill cache | `skill_cache.ts`, `cache_common.ts`, `hooks_skill.ts` | per entry `<id>.txt`, `<id>.gz`, `<id>.json` in one directory; per session the id it has loaded | `store_output`, `load_output`, `find_cross_session_entry`, `evict_cache_dir`, `invalidate_for_path` | `SkillCache` |
| read hooks | `hooks_read.ts`, `hooks_edit.ts`, `session.ts` | fields of the session cache: ranges, fingerprints, hints given, content hashes | the Read branch of `pre_read`, `post_read`, `post_edit`'s mark | `ReadGuard`, `LineCover`, `ReadLog`, `LineRanges` |
| database opening | `db.ts` | `.db`, `.db.bad-<ts>`, tables, late columns, `schema_version`; per process `_INTEGRITY_CHECKED`, `_SCHEMA_MIGRATED`, `_STATS_EPOCH_MIGRATED` | `openGlobal`, `openProject` and all they call | `DbOpen` |
| shell, web and MCP caches | `bash_cache.ts`, `web_cache.ts`, `mcp_cache.ts` | as the skill cache, of plain files | store, recall, dedup lookup, sweep | their eviction, in `SkillCache` |
| snapshots | `snapshots.ts` | per session and file a `.bin` and its kind sidecar | store, load, diff, clean up | planned |
| image cache lock, spawn markers | `worker.ts` | `image_cache` files, an eviction lock, `locks/<hash>.indexing` | evict, spawn, reap | planned |
| watchdog, nudge throttle | `worker_daemon.ts`, `hooks_edit.ts` | restart counters in memory, `last_worker_restart` sentinel | restart, back off, nudge | planned |
| hook dispatch | `hooks_cli.ts`, `hooks_common.ts` | compact-skip sentinel | dispatch, watchdog, skip | sentinel planned |
| other hook decisions and hints | `hooks_read.ts`, `hints.ts`, `hooks_fetch.ts`, `hooks_session.ts`, `read_replacement.ts` | none of their own | decide on one payload | no |
| compaction and resume | `compact.ts`, `resume.ts`, `baseline.ts` | none of their own | build a text under a budget | no |
| project memory | `project_memory.ts` | one small file per project | set, unset, clear | hazard listed |
| extractors, compression, search, fetch, statistics, installer, command line | `languages/`, `bash_compress/`, `repomap.ts`, `webfetch.ts`, `stats.ts`, `install.ts`, `cli_*.ts` and others | none, or append-only | pure functions of their input, or I/O of one process | no |

`PROJECT.json` lists each with its files and the reason.

### 1.2 How the parts interact

    editor/assistant --edits--> source files
          |
          v
    post-edit hook --mark_file_edited--> session cache <--load/save-- every other hook
          |  \
          |   '--ensure_running--> claim / pid / heartbeat <--owns-- worker daemon
          |                                                              |
          '--append--> dirty.txt --rename, read, unlink--> daemon memory-'
                                                              |
                                         index run (not awaited) --writer lock--> project index
                                                              ^
    token-goat index / index --watch ------------------------'

    pre_read  --load, deny once--> session cache <--ranges, hashes, edits-- post_read, post_edit
    post_skill --store, sweep, evict--> skill files <--purge on an edit-- worker daemon
                                             ^-- load_output -- token-goat skill-*

    every hook, command and the daemon --open, check, set aside, migrate--> global.db, <hash>.db

Three of these arrows are unlocked: a hook's `load`, the append to `dirty.txt`, and
every probe of the pid and heartbeat files. Three others are guarded by an `O_EXCL`
file that is judged stale by age or by its owner's pid and then unlinked *by name*; the
unlink may hit a newer owner's file, and each of the three modules shows what follows. What
the three promise until then is one module, `OwnedLock`.

### 1.3 What is hard, and what makes each part correct

* **Session cache.** Lost updates between parallel hooks: a read without a lock, a
  compare-and-swap on a version counter, a merge, and a fast path that skips the
  re-read when (mtime, size) are unchanged. Correct when no recorded edit is lost, when
  the version only grows, and when every `save` ends.
* **Dirty queue.** A producer that opens a file by name races a consumer that renames
  it; a consumer that unlinks before it has acted. Correct when every edit is in a file,
  in somebody's memory, or in the index, and reaches the index in the end; what is lost all
  the same a periodic cycle repairs, in every project that is not too large for it.
* **Worker life cycle.** Starters, leavers and reapers all act on three files by name.
  Correct when one daemon owns the slot, when the pid file names it, and when a healthy
  daemon comes back after any failure.
* **Project index.** Files change while they are read; the row carries an mtime that
  later runs trust. Correct when a row whose mtime matches is right, when one process
  writes, when the global copy follows, and when everything converges once edits stop.
* **Read hooks.** A Read is denied on the word of a cache: files change under the call,
  entries of parallel calls are merged whole, ranges are widened to keep them few.
  Correct when what is denied is in the session's context as the file is now, when a
  denial is given once so that an agent that insists gets through, and when an edit is
  known until the file is read again.
* **Skill cache.** One entry is three files, and nobody locks: hooks that store also sweep
  and evict what others are storing, the worker purges, commands read. Correct when no
  reader gets the empty stub for the body, when the directory keeps its cap and gives up
  no more than it must, and when an edited skill is not served from the cache, as far as
  the edit reaches the worker and the sidecar names the edited file.
* **Database opening.** Every process opens the same files, and each of them may find one
  corrupt and rename *whatever has its name by then*. What a process knows of a file (checked,
  migrated) it remembers under the name, not the file. Schema statements commit one by one,
  so a killed process leaves half a schema. Correct when no healthy file is set aside, no
  body runs without its schema or on a file known to be corrupt, a damaged file is replaced
  in the end, and an opening that nobody disturbs succeeds. (A statement of the schema that
  meets a lock or an I/O error is skipped with the rest; that one body runs without.)

`PROJECT.json` "hazards" names each danger at the line where it bites, with the
properties that would show it going wrong.

## 2. The modules

| module | what it is |
|---|---|
| `SessionLog` | the promise of the session cache: one shared store of edit counts, each save an atomic join |
| `SessionStore` | the session file, its lockfile, `load` and `save` call by call; implements `SessionLog` until a hazard |
| `OwnedLock` | the promise of a lock file: created only where there is none, removed only by its owner or after nobody acts on it, until a live owner's is unlinked; `SessionStore`, `WorkerLifecycle` and `ProjectIndex` implement it |
| `DirtyQueue` | hooks that append, daemons that drain, index runs nobody waits for |
| `WorkerLifecycle` | the claim, pid and heartbeat files; daemons and nudging hooks |
| `ProjectIndex` | the writer lock, whole-project runs, the single-file watcher, and the editor |
| `LineCover` | what the recorded ranges of one file mean, as a set of lines |
| `ReadLog` | the promise of `mark_file_read`, a state machine over that set |
| `LineRanges` | the lists of `[first, last]` pairs of the code; implements `ReadLog` |
| `ReadGuard` | `pre_read`, the Read tool, `post_read`, `post_edit` and their merges; uses `LineCover` |
| `SkillCache` | hooks that store, sweep and evict skill bodies, the worker that purges, readers |
| `DbOpen` | processes that open, check, set aside, migrate, use and close one database file |
| `MC...` | a module with named model values and symmetry, for TLC (`LineRanges` needs none) |
| `...Proofs` | theorems and their proofs |

Each module has the same plan. A process is at one of a few program points, `pc`; **one
action is what a process does between two points where another process can
interleave**, that is one file system call together with the computation around it. A
file is what its readers can tell apart. A process that is killed loses what was in
memory, and only that. Errors of file calls, kills and time-outs are actions with a
bound. `PROJECT.json` "map" gives for every definition the lines it translates.

**Hazards in a variable.** Most of the invariants hold *until* one of a few named things
happens: the live owner's lockfile was unlinked, a fingerprint was taken from a newer
file, two writes fell in one clock tick. The history variable `hazards` collects these
names and is never read by an action. A property `hazards = {} => P` then says exactly
what the code guarantees, and a property `hazards \subseteq {h} => P` takes one hazard
back in and shows that P is lost by that alone. Since `hazards` only grows, a run may
cut behaviours at the first one (`NoHazardYet`) without losing a counterexample.

### 2.1 SessionStore

| state | code |
|---|---|
| `disk` | the JSON file: `ver` is `version`, `edits` is `edited_files`, `compact` whether `last_compact_ts` is set, `mtime`; `id` numbers the writes (ghost) |
| `lock`, `aged`, `blank` | owner of `<file>.lock`; older than `_LOCK_TIMEOUT_SECS`; no pid in it |
| `tmp` | processes whose tmp file of `atomicWriteCore` exists |
| `obj`, `merged`, `merging` | the hook's `SessionCache`; the other object `save` goes on with after a merge |
| `memo`, `lastSaved` | `_proc_load_cache`, `_LAST_SAVED_VERSION`; `alias` says the memo is the hook's own object |
| `attempt`, `failed` | locals of `save` |

`LoadOpen`, `LoadRead`, `LoadStamp` are the three file calls of `load` (sweep and stat,
read, stat again). `MarkFileEdited` and `RecordCompact` change the object and call
`save`, which is `Acquire` / `JudgeStale` / `EvictLock` / `LockTimesOut`, then `Examine`
(fast path or re-read, merge, bump), `WriteTmp`, `Rename`, `RestatAndRelease`, with
`DiskError` and `TmpSwept` as ways to fail and `AttemptOver` for the retry. Whether the
pid will get into a lockfile is chosen when it is created, since only the death of its
owner lets others see the difference: a dead owner's lock is stale at once by its pid, a
blank one by its age only. Only two of
the merged fields are kept: one that is joined and one that `_merge_session_caches`
forgets. They stand for the two kinds of field there are.

### 2.2 DirtyQueue

Names map to inodes: `queue` and `draining` hold the inode that `dirty.txt` and
`dirty.txt.draining` name, `names` and `size` what an inode contains, `fd` the inode a
hook has open. `CheckCap`, `Open`, `AppendLine` are the stat, the open and the write of
`enqueue_dirty`; `Recover`, `Forget`, `Claim`, `ReadClaimed`, `Clear`, `Process` the file
calls of one drain, with a failing variant of each; `StatFails` lets an append go on
past a size that cannot be read. `Start` begins index runs for the projects of the lines.
`index_project` waits for a module first (`parser.ts` 1483), so that it registers the
project and walks its tree only when the daemon's tick is over (`awaiting`, then `Walk`);
`IndexDone` ends the run at any later time with anything between what its walk saw and
what the project is by then. A periodic cycle (`ReindexActive`) starts runs for any of the
`Eligible` projects: those that are registered and, once a run has counted their files, not
`Oversized` (`worker.ts` 2453-2463 skips those for good). `Resident` says whether the daemon
was given a stop event: as `cli_lifecycle.ts` starts it, it was not, and its loop ends
after one tick (`Leave`).

### 2.3 WorkerLifecycle

A file is the daemon whose pid it holds, the heartbeat is one of four age classes. A
hook's `ensure_running` is `CheckAlive`, `Reap`, `Busy`, `ClearStale`, `ClearStaleBeat`,
`UnlinkStale`, `Spawn`; a daemon's life is `OpenClaim` (with `EvictClaim`, `RetryClaim`),
`PopulateClaim`, `ClearOld`, `ClearOldBeat`, `WritePid`, `VerifyPid`, `FirstBeat`, `Beat`,
`LoopEnds`, `ExitClears`, `ExitClearsBeat`, `ExitReleases`. The operating system kills
(`Killed`, `Crashes`) and gives a dead pid to another program (`PidReused`). Node cannot
read the other program's command line, so probes see only that the pid exists.

`_clear_pid` (`worker.ts` 840-852) is two unlinks by name, of the pid file (`ClearPid`) and
of the heartbeat (`ClearHeartbeat`), and every caller takes them in two steps: a leaving
daemon that is paused in between removes the heartbeat, and then the claim, of a successor
that started meanwhile. A daemon that is gone, and that no file names any more, is born
again (`Born`), so spawning has no end; `Crowded`, the one bound there is, says that every
daemon of the model lives or is named by a file.

### 2.4 ProjectIndex

A file is a version, an mtime (0: absent) and the last mtime it ever had; a row the
version and mtime it was written from. A run lists the files (`Walk`), takes the writer
lock (`TryAcquire`, `EvictLock`, `RetryAcquire`, `StampLock`, `GiveUp`), loads the rows,
visits each file (`Visit`, `Read`, `Check`), prunes, refreshes the global copy
(`ClearGlobal`, `CopyGlobal`) and releases. The watcher reads first and locks afterwards
(`Look`, `Take`, `Confirm`, `Put`). `Edit` covers new content, a touch, old content put
back, and new content within one clock tick; a dead process comes back under the same
name.

### 2.5 ReadGuard, LineRanges

| state | code |
|---|---|
| `text`, `mtime` | the files, and what `_stat_file_fingerprint` sees of them |
| `store` | the session cache on disk: per file the `FileEntry` (`last_read_ts`, edited, fingerprint, ranges, `read_count`), snapshot shas, `hints_seen`, `content_hashes` |
| `copy`, `stale` | the `SessionCache` object of each hook; whose object is older than the file, so that `save` merges |
| `pc`, `call` | how far a tool call is, and the file and window it names |
| `held`, `told`, `noted` | ghosts: the lines in the session's contexts, the denials given, the edits saved |

A tool call is `Ask`, then `PreReadDedup`, `PreReadDenies` or `PreReadPasses` (one load, one
answer), `Flush` when a denial was marked, else `Tool`, then `PostReadLoads`,
`PostReadMarks`, `PostReadHashes`, `PostReadSnapshots` with a save each. `Edit`,
`PostEditLoads`, `PostEditMarks` are an edit; `Outside` is another program. `Saved` is one
`save`: a merge if somebody else saved since the load, else the object itself. It is one
step because `SessionStore` shows that a save is one, until a hazard. A line of text is a
number no other line has, so that a copy of a file has its lines and a changed line is a
new one; fingerprints are write counts, which a program that restores the time stamp
repeats.

In `ReadGuard` the ranges of an entry are a set of lines (`LineCover`). `LineRanges`
keeps them as the code does (`MergeRanges`, `Marked`), with the open end written as
first + 99,999, the whole file as `[[0, 0]]` and the bounding range that replaces a list
that is too long, and `MarksAreRecorded` says that it implements `ReadLog`. It also has
the reading side: `CoveredTo`, `CoveredToEnd`, `UncoveredSubranges`, `Advice`. A `sort`
is a choice among the permutations that are in order (`Sorted`), and a loop is a
recursive function of how many passes it has made (`Joined`, `Cut`, `CutAll`), so that
both can be reasoned about. A file has at most 99,999 lines (`Bounds`); the code stores
longer windows too (line numbers up to 100,000,000), and there an open end may lie
inside the file.

### 2.6 SkillCache

| state | code |
|---|---|
| `txt`, `gz`, `json` | the three files of an entry; `txt` tells the empty stub from the text, `json` whether the sidecar's `source_path` is the skill's file ("named") or empty or another file ("bare") |
| `old` | entries older than the sweep's age |
| `loaded` | the output id each session recorded for the skill |
| `source`, `dirty` | what the skill's file contains; whether the worker has yet to drain an edit of it ("queued") or never will ("missed") |
| `pc`, `who`, `own`, `todo`, `weigh`, `victim` | a hook: its step, session, the id it stores, what its eviction listed, still counts, and has in hand |
| `purge`, `stage` | the worker in `invalidate_for_path` |
| `reading` | a reader between its look for the compressed body and for the text |

One action is one file call. `post_skill` is `Load`, `SweepText`/`SweepSidecar` (by
age), `Probe`/`Check` (another session's entry of the same body), `WriteText` or
`WriteGz`/`WriteStub`, the eviction (`EvictLists`, `JudgeOrphan`, `UnlinkOrphan`,
`EvictText`, `EvictSidecar`, `EvictGz`), `WriteSidecar`, `Record`. Loops over a listing
may end at any time where the code lets an unlink fail silently; `ListingFails` is a
directory or an entry that the eviction cannot look at. The worker's purge is
`PurgeLists`, `PurgeLooks`, `PurgeText`, `PurgeGz`, `PurgeSidecar`, with `PurgeFails`
and `PurgeMisses`, and reaches only what the code lets it reach: edits that a hook saw,
of a file inside a project whose path has `.claude/skills` in it (`EditQueued`; any
other is `EditMissed`, and `EntryLost` is an entry the queue lost), and entries whose
sidecar is "named". A reader is `ReadGz`, then `ReadText`; `GzUnreadable` is a
compressed body that is there and cannot be read or decompressed, after which
`load_output` falls back to the stub. Bodies have one size and the cap is a number of
them; the oldest entry is any, since clocks are not modelled.
### 2.7 DbOpen

| state | code |
|---|---|
| `made`, `path` | files created under the name so far, numbered; the one that has the name now |
| `health`, `tables`, `cols`, `version` | per file: what a read and `integrity_check` find, whether the tables exist, which of the columns added in later versions they have, the `schema_version` row |
| `conn`, `ro` | a process's connection, which stays with its file when that is renamed, and whether it is the read-only fallback |
| `again`, `repairing` | it is in the second `_connect` of `_openWithRebuild`, or in the one `_repairIfCorrupt` asks for |
| `checked`, `migrated`, `epoch` | `_INTEGRITY_CHECKED`, `_SCHEMA_MIGRATED`, `_STATS_EPOCH_MIGRATED`, which go by the name |
| `finds`, `exempt`, `crowded` | ghosts: finds per file, processes excused from a verdict, openings that met another |

An opening is `Begin`, `Create` or `Connect` (`WalRefused` and `Fallback` when the
pragma throws, `ReadRefused` when that does too), `Check`, `Rename` when the file is
found corrupt, then `Tables`, `LookAtColumn`, `AddColumn`, `Version`, `Insert`, each one
committed statement, the body, and `Close`. A statement that a read-only connection
cannot make, or that meets a lock or an I/O error on any connection (`SchemaSkipped`),
is swallowed (`_isReadonlyOrTransient`, `db.ts` 638-650), the rest of the schema is left
out, and the body runs at the program point "bare" instead of "body". A file is damaged
in its pages, which only `integrity_check` sees, or in its header, which no statement
survives. `Exit` and `Killed` put a fresh process in the old one's place.

## 3. What the runs check

Bounds are in the `.cfg` files. They were chosen by what the interesting case needs: two
parties to interleave, three where a starter meets both a running and a dying one; two
files or projects where a step treats several; one edit more than what makes a stale
reading possible; and one fault, or two where a second fault can hit the recovery from
the first. Names are interchangeable, so `SYMMETRY` is used in the safety runs; no run
that checks liveness uses it. Deadlock is checked in the first four modules and in
`DbOpen`; `SessionStore` has a `Terminating` step for the one place where the bounds let
nobody go on. In `ReadGuard`, `LineRanges` and `SkillCache` everything is optional (a
call, an edit, a fault) and counted by a bound, and nobody waits for anybody, so their
runs do end and deadlock is not looked for.

### 3.1 Runs that pass

| run | question | bounds |
|---|---|---|
| `session_faults` | With a crash, a failing file call and a reset: does the lock exclude unless a live owner is evicted (`MutualExclusion`), is it an `OwnedLock` until then (`LockIsOwned`), does a lock that is merely busy never mark a cache unavailable (`BusyLockKeepsCache`), and does every `save` return (`SaveReturns`)? | 2 hooks with 1 mutation each, 1 file, one of each of these faults |
| `session_cas` | Until a hazard: no lost edit (`NoLostEdit`), strictly growing versions (`VersionsAdvance`), and does `save` implement the atomic join of `SessionLog` (`AtomicSaves`)? | 2 hooks with 2 mutations each, 2 files, 1 crash, 1 lock that outlives its limit, 1 failing call, 1 reset |
| `queue_faults` | Is no edit forgotten (`NoSilentLoss`) and the queue bounded (`QueueBounded`)? | 2 hooks, 2 projects with 2 edits each, 1 daemon that leaves after each tick, 2 faults, cap of 1 line |
| `queue_live` | Does every edit reach the index unless a hazard takes its entry (`EditsAreIndexed`), and does the periodic reindex repair whatever was lost, in a project that is not oversized (`IndexHeals`)? | 2 hooks, 2 projects with 1 edit each, one of them oversized, 1 daemon that stays, 1 fault |
| `worker_faults` | One daemon in the slot (`OneInSlot`), whose claim file is an `OwnedLock` (`SlotIsLock`), named by the pid file (`PidIsOwner`), and no starter judged by its predecessor's heartbeat (`StartersSpared`)? | 3 daemons alive or named by a file at once, any number of them after each other, 2 hooks, 2 kills, 2 recycled pids; logins, stalls, `--kill-duplicate` |
| `worker_live` | Does a healthy daemon come back again and again (`WorkerReturns`)? | 2 daemons at once, any number after each other, 1 hook that keeps coming, 2 kills, 1 recycled pid |
| `index_faults` | One writer (`OneWriter`), whose lock file is an `OwnedLock` (`LockIsOwned`), and rows that say the truth about their mtime (`RowsAreTrue`), through edits, deletions, touches and a death or failure anywhere, also with a blank lockfile; is the global copy the project's own table whenever nobody is in the lock (`GlobalIsCurrent`), and do rows and files agree once edits stop (`IndexConverges`)? | 1 run that comes again and again, 1 watcher, 1 file, 2 mtimes, 1 fault |
| `read_faults` | Is what pre_read denies in the session's context (`DenyIsTrue`), is a denial remembered (`DenialsAreRemembered`), is an edit known until the next read (`EditsAreNoted`), and do the lists keep their caps whoever merges (`CapsHold`)? | 2 calls at once, 2 files that start as copies, 2 lines, windows of the first line and of all, 2 reads, 1 change, 1 fault; `hints_seen` holds 2, one other hint |
| `line_ranges` | Do the lists mean the set that `ReadLog` records (`MarksAreRecorded`), stay sorted with gaps (`Normal`), answer every window as the set does (`AnswersAgree`), and is the advice on a partial overlap complete and without repetition (`AdviceCompletes`)? | 7 lines, all ranges of them and all open ends, lists of 2 ranges, 5 calls, whole file at the 5th |
| `skills_faults` | Does no reader get the stub for the body (`LoadIsWhole`), is the cap kept (`CapHolds`) and nothing evicted below it (`EvictsOnlyOverCap`), and does no entry whose sidecar names the skill's file have a body of before an edit once the worker has purged it (`StaleIsPurged`)? | 2 hooks that store, 2 sessions, one plain and one compressed body, an entry from before, 1 reader, cap of 2 bodies, 2 stores, and at most two of an edit, an entry that ages and a fault (`TwoDisturbances`) |
| `db_faults` | Does a body that no refused statement sent ahead have its schema (`BodyHasSchema`), is a damaged file caught (`DamageIsCaught`) and replaced (`DamageIsRepaired`), is no healthy file set aside for one find (`LoneFinderKeepsHealthy`), and does an opening nobody crosses succeed (`LoneOpeningSucceeds`)? | 2 processes that open and end again and again, both kinds of database, no file, a current one or one that lacks late columns, 1 damage, 1 fault |

`read_faults` follows a behaviour up to its first hazard other than "crossed"
(`UntilHazard`): `hazards` only grows, and a property that is conditioned on a hazard's
absence is not about what comes after it. "crossed" is left in because it conditions one
property only. In the same way `worker_faults` follows a behaviour until a live daemon's
claim is unlinked (`UntilSlotLost`), the condition of all its properties, and
`skills_faults` until a reader was misled (`NobodyMisled`), which no action reads.

Why the bounds are enough. The session lock has one file and processes meet pairwise on
it; two hooks reach every pair of program points, and the theorems below remove the
bound for the safety part. In the queue a hook creates a file only when `dirty.txt` is
missing and it has none open, so three inodes never run out with two hooks; two projects
keep one edit's entry from making up for another's. Three daemons let a starter meet
both a dying and a running one; for `WorkerReturns` a leaving one and its successor are
enough, since each can be followed by any number of others. An oversized project's first
run is never skipped, so that the guard on its later ones bites in `ReindexesEvery` (two
edits); in `queue_live` it is what fairness is *not* assumed of. A file with two mtimes
gives a reader an old, a current and a future reading. `index_faults` has edits within
one tick but no live process that holds the lock for over ten minutes (`longHold`): the
lock of a live process is unlinked there when two waiters judge the same stale one, and
the theorems cover both. Two calls meet pairwise on the session cache, and one change of
a file can fall before, inside and after either of them; a copy of the file is what a
content twin needs; two lines make a window partly covered. Seven lines and lists of two
give every way two ranges touch, overlap or leave a gap, and a third range that
overflows the list. With a cap of two bodies and an entry from before, the second store
evicts while the first may still be writing, probing or evicting. Two processes meet
pairwise on the database; with one damage and one fault the bound of three files is
never reached (a first file, one rebuilt, and a second one rebuilt by a second finder).

`TypeOK` is an invariant of the run of `ReadGuard`; that of the other modules is left to
the proofs.

Each property of a passing run has a mutant in `PROJECT.json`: a definition in the
module that changes one mapped operator the way a slip in the code would, under which
the same run must fail.

### 3.2 Where the code and its comments disagree

The run `read_full` checks what the denial's own text says, "a second identical request
passes through automatically" (`SecondRequestPasses`). `hints_seen` is sorted by count
and cut at its cap, so in a full table the fingerprint of the denial just given is the one
that goes, and the second request is denied again, and so on. `PROJECT.json` "findings"
has the lines.

The modules state more such sentences, with their quotations, among or after the
properties. They are violated as well, each by the hazard it leaves in, when they are named
in a copy of the module's `_faults` configuration:

| property | what happens |
|---|---|
| `SessionStore!FastPathIsSound` | `load` reads, another hook writes, `load` stats: old content with the new fingerprint, and the fast path of the next `save` overwrites the other hook's edits. |
| `DirtyQueue!FailureIsContained` | A rejected index run is an unhandled rejection: instead of being counted as a failure it ends the daemon and everything in its memory. |
| `DirtyQueue!ReindexesEvery` (in a copy of the `_live` configuration with 1 hook and `MaxEdits = 2`) | The periodic cycle skips a project of too many files; an edit whose entry was lost never reaches its index. |
| `WorkerLifecycle!ExactlyOneWorker` | A hook unlinks the claim of a daemon that is starting; two run. |
| `ProjectIndex!PrunesOnlyMissing` | The listing is older than the lock: a full run deletes the row of a file that was created and indexed meanwhile. |
| `SkillCache!LoadNeverEmpty` | The companion sweep sees a compressed body whose stub is about to be written, and unlinks it: the entry is a stub with no body, and `load_output` returns the empty text. So it does, with no other process about, when a compressed body cannot be read. |
| `SkillCache!StaleNeverServed` | The purge passes over an entry whose sidecar has an empty `source_path`, as that of a skill a project keeps: its old body is still found (`skill_cache.ts` 1241-1246). |
| `DbOpen!SkippedHasTables` | A process has created the file and not yet its tables; another's write-ahead log is refused, it opens read-only, skips the schema, and its body finds no tables (`db.ts` 790). |
| `SessionStore!CasSurvivesEviction` (with `MaxStalls = 1`) | A hook is suspended for more than five seconds inside the lock; it and the one that evicted it both pass the version check, both write, one edit is lost. The CAS alone is not "the actual correctness mechanism" (`session.ts` 3418). |
| `SessionStore!RetryMerges` | A failed write has bumped the version already; on the retry the version another hook wrote in between looks like its own. The failure is a disk error or another hook's `load`, which sweeps every tmp file. |
| `SessionStore!MergeKeepsCompact` | The merge starts from the remote object and forgets `last_compact_ts`. |
| `DirtyQueue!DrainTakesAll` | A line appended through a file opened before the rename is unlinked unread. |
| `DirtyQueue!PressureDefers` | "deferred" entries are in no file any more. |
| `DirtyQueue!DrainingIsPrivate` (2 workers) | Two daemons use one "private" name; the second rename replaces what the first has claimed. |
| `DirtyQueue!DaemonStays` | The daemon as the command line starts it leaves after one tick. |
| `WorkerLifecycle!ClaimIsAtomic` | Two starters judge the same dead claim; the slower unlinks the faster one's new claim. |
| `WorkerLifecycle!WorkerComesUp` (in a copy of the `_live` configuration) | A dead daemon's pid is recycled before the first heartbeat: no hook starts a worker. |
| `WorkerLifecycle!ReapsOnlyWorkers` | A stranger with a recycled pid is killed as a hung worker. |
| `WorkerLifecycle!LoserLeavesWinner` | The daemon that lost the race clears the winner's files. |
| `ProjectIndex!CreationIsMutex` | Two waiters judge the same stale lock; the second unlinks the first one's. |
| `ProjectIndex!SkipsOnlyUnchanged` | A content change that keeps its mtime is skipped before the SHA is looked at. |

### 3.3 Fairness

Only what the operating system and Node's event loop give is assumed.

* `SessionStore!FairSpec`: weak fairness of a hook's own next step inside `save`. A hook
  that is not killed runs to its end. No fairness of mutations, faults or of time.
* `DirtyQueue!FairSpec`: weak fairness of a started hook and of the daemon's next call;
  a dead daemon is started again, since every edit nudges (`Restart`: after a crash this
  takes a later edit, outside the nudges' throttle). Strong fairness of an index run's
  `Walk` and end, and of `ReindexActive` with all `Eligible` projects: they are promises or
  timers that become runnable between ticks again and again while the daemon's loop turns.
  For the cycle this says more than that it comes every ten minutes: that again and again
  one leaves no eligible project out, so the memory pressure (`worker.ts` 2424), failed
  queries (2439) and a project's back-off (2465) come to an end, and `last_seen`, which
  every run renews, keeps the project active. Nothing is assumed of an oversized project,
  which the code skips for good. The run has `Resident = TRUE`.
* `WorkerLifecycle!FairSpec`: hooks keep coming, started daemons go on, the heartbeat
  ages. Nothing forces a daemon to run its loop (`Beat`): it may hang at any time, which
  is what reaping is for. `WorkerReturns` has three exceptions. Live daemons may be
  disturbed for ever (`Disturbance`): a hook or a leaving daemon removes the claim or the pid
  file of a live one, or kills it as it starts, or it cannot fill its claim. The pid file
  may name, for ever, a process without a heartbeat of its own (`Unjudged`): a recycled pid,
  or a daemon whose heartbeat another removed with the second unlink of `_clear_pid` and that
  hangs before its next beat, for which `ensure_running` answers "busy" (`worker.ts`
  2310, 2369). And all daemons of the model may be in use (`Crowded`, the bound).
* `ProjectIndex!FairSpec`: weak fairness of each process's next step, so that index runs
  come again and again, and of the lock's ageing. A run that waits may still give up
  every time it meets a live lock; convergence follows because whoever holds it ends.
  Only the watcher's start is not fair: nobody has to watch.
* `DbOpen!FairSpec`: weak fairness of an opening's next step and of the next opening;
  strong fairness of `Exit`: between two openings a process may end, and a hook or command
  does after a few. Without it a process that has checked the file before it was damaged
  might be the only one for ever, and its check runs once. No fairness of faults.

## 4. What is proved

The `...Proofs` modules prove the safety properties for every set of processes, files
and projects and every bound; TLAPS checks each proof from nothing. The assumptions are
the named ones of the modules: bounds are naturals, events are known ones, runs are not
watchers, the hooks that append to the queue are finitely many. `SessionStore` alone
assumes nothing of the number of files or hooks.

| theorem | states | argument |
|---|---|---|
| `SessionStoreProofs!TypeCorrect` | `[]TypeOK` | one lemma per action |
| `SessionStoreProofs!Exclusion` | `[]MutualExclusion` | `LockInv`: whoever is in the critical section is the lockfile's owner. `MutualExclusion` alone is not inductive, as it does not say whose the lockfile is |
| `SessionStoreProofs!SavedEditsKept`, `VersionsGrow` | `[]NoLostEdit`, `VersionsAdvance` | `CasInv`: an object made of the current file has its version and at least its counts, one made of an older file a lower version (`Consistent`); a fingerprint equal to the file's can only be held by an object made of it (`Stamped`); what is about to be written joins both (`Prepared`). The last needs `LockInv`: nobody else writes between the check and the rename |
| `SessionStoreProofs!SavesAreAtomic` | `AtomicSaves` | every step maps to a `Learn`, `Edit` or `Commit` of `SessionLog`, or to none, under `CasInv` and `ViewInv` |
| `SessionStoreProofs!CachesKept` | `[]BusyLockKeepsCache` | `KeptInv`: while no write failed and nothing was reset, nobody has a failure to report, whoever is about to read the file finds it, and no object, kept merge or memo is unavailable |
| `SessionStoreProofs!LockImplemented` | `LockIsOwned` | every step creates the lockfile for one process, removes it, or leaves it alone, and nobody else enters (`LockMoves`, for every step); with `LockInv` on both sides each of these is an `Acquire`, `Leave` or `Recover` of `OwnedLock`, or none. The contract says more than `MutualExclusion`: that no step takes the file from under a live owner |
| `DirtyQueueProofs!TypeCorrect`, `DrainsAreSafe`, `NothingForgotten` | `[]TypeOK`, `[]DrainInv`, `[]NoSilentLoss` | `DrainInv`: one drain at a time, the two names are two files, nothing is unlinked that has not been read, a worker outside a drain holds no lines. From it each step hands an edit on: hook to file, file to memory, memory to run |
| `DirtyQueueProofs!QueueStaysBounded` | `[]QueueBounded` | the property is inductive: it counts the hooks that are past the look at the size, each of which will add at most one line, and the looks that failed (finite cardinalities) |
| `WorkerLifecycleProofs!TypeCorrect`, `SlotIsOwned`, `OneDaemonInSlot`, `PidNamesOwner`, `NoStarterReaped` | `[]TypeOK`, `[]SlotInv` and its three consequences | `SlotInv`: while no live claim was unlinked, whoever is in the slot is the claim file's owner, a live daemon in the pid file is in the slot, and there is no heartbeat before the first own one |
| `WorkerLifecycleProofs!SlotImplemented` | `SlotIsLock` | as `LockImplemented`, from `SlotInv` |
| `ProjectIndexProofs!TypeCorrect`, `LockFileNamesOwner`, `OneProcessWrites` | `[]TypeOK`, `[]LockInv`, `[]OneWriter` | as for the session lock |
| `ProjectIndexProofs!LockImplemented` | `LockIsOwned` | as for the session lock |
| `ProjectIndexProofs!ReadingsAreTrue`, `RowsStayTrue` | `[]ReadInv`, `[]RowsAreTrue` | `ReadInv`: a version that was read between two equal looks at the mtime is the file's version at that mtime or the file has moved on (`SeenAt`); it survives being carried in a watcher's memory while others write, which is why it speaks of readings as well as rows, and it does not need the lock |
| `ProjectIndexProofs!GlobalFollows` | `[]GlobalIsCurrent` | `GlobalInv`: as long as no run failed half-way and no watcher wrote, the snapshot equals the rows or some run has still to copy them |
| `ReadGuardProofs!TypeCorrect`, `CapsKept` | `[]TypeOK`, `[]CapsHold` | `CapInv`: the caps hold for the store and for every hook's object, since a save may write either |
| `ReadGuardProofs!DenialsKept` | `[]DenialsAreRemembered` | `DenialInv`: unless a save fails or the table is full, what was told is in the store, a denial not yet flushed is in its hook's object, and an object that is not behind has all that the store has |
| `ReadGuardProofs!EditsNoted` | `[]EditsAreNoted` | `EditInv`: objects are in step with the store or behind it, and behind means that no entry was read later than the store's, so that the merge takes the marked one |
| `ReadGuardProofs!DenialsTrue` | `[]DenyIsTrue` | `PastInv` dates what is remembered: no fingerprint or line of a cache is newer than its file. `TruthInv`, until a hazard: every cache is honest (an entry whose fingerprint matches, unless its sha shows otherwise, covers only lines that are held; remembered content is held), and so is what a call under way is about to record. A single cache is not enough: the merge of two honest ones must be honest |
| `LineRangesProofs!ListInvariant`, `NormalAlways` | `[]ListInv`, `[]Normal` | `ListInv` says *when* the list is the whole file: from the threshold on. Without that a list could stop being normal and come back. One mark is `MergeAdds`: sorting a normal list with one more range leaves a place for it, and each pass of the loop keeps what is joined so far normal |
| `LineRangesProofs!ListsImplementSets` | `MarksAreRecorded` | every mark maps to a `MarkLines` of `ReadLog` and a symbol read to `MarkSymbol`. The cap needs that the ranges of a normal list are the maximal runs of its lines (`RunsAreRanges`, finite cardinalities), and that the bounding range is their span |
| `LineRangesProofs!AnswersAlwaysAgree` | `[]AnswersAgree` | of a normal list one range answers for a window: after the first range that has its beginning a line is missing (`OneRangeAnswers`) |
| `LineRangesProofs!AdviceAlwaysCompletes` | `[]AdviceCompletes` | `CutAllLeaves`: the two loops of `_uncovered_subranges` leave, in ascending order, the lines of the window that no range has; `FollowedKeepsLines`: no mark loses a line, so that the list covers the window after the last of the reads |
| `SkillCacheProofs!TypeCorrect`, `StoreHolds` | `[]TypeOK`, `[]StoreInv` | `StoreInv`: a stub has its body unless somebody who is allowed to is taking it apart (`StubHasBody`), a reader's miss is one (`MissIsTrue`), after a purge what is old and named is listed (`StaleIsListed`), what an uncrossed eviction counts is on disk (`CountIsTrue`), and either the cap holds or an eviction that has everything on its list and in its total is under way (`InCap`) |
| `SkillCacheProofs!LoadsAreWhole`, `StoreFitsCap`, `StaleEntriesGo`, `EvictionsHaveCause` | `[]LoadIsWhole`, `[]CapHolds`, `[]StaleIsPurged`, `EvictsOnlyOverCap` | consequences of `StoreInv`, the first until a compressed body that is there cannot be read, the third for entries whose sidecar names the skill's file and for edits the worker gets to see; the last with finite cardinalities |
| `DbOpenProofs!TypeCorrect` | `[]TypeOK` | one lemma per group of actions |
| `DbOpenProofs!HealthyFilesKept` | `[]LoneFinderKeepsHealthy` | `FoundInv`: as long as no file was found twice, whoever is about to rename found the file that has the name, and nobody else is about to; a file out of the way has its find already |
| `DbOpenProofs!BodiesHaveTheirSchema` | `[]BodyHasSchema` | `SchemaInv`: only the first file can have tables without the late columns, so what a process learned of its own file is true of every later one; and how far a process is in the schema is what its file has (`Progress`). It says nothing of a body at "bare", and its induction shows that what such a process left undone no other takes for done |
| `DbOpenProofs!DamagedFilesAreCaught` | `[]DamageIsCaught` | `CaughtInv`: a remembered verdict is true of the file that has the name, of a repair's new connection as well |
| `DbOpenProofs!LoneOpeningsSucceed` | `[]LoneOpeningSucceeds` | `LoneInv`, from `CaughtInv` and `PendingInv`: nobody takes away what a lone opening has just seen |

Each proof has one lemma or step per action. TLC checked each of these invariants on a
small instance before it was proved.

Only model-checked: liveness (`SaveReturns`, `EditsAreIndexed`, `IndexHeals`,
`WorkerReturns`, `IndexConverges`, `DamageIsRepaired`), which the installed provers do not
reach under fairness. Every other property of a passing run is stated by a theorem.

Loops over lists are proved about without an induction rule, since a rule takes a
predicate as its parameter and the provers cannot supply one. `LeastNat` (from the
library's theorem on well-founded orders) gives each set of numbers a least member, so
that a claim about every pass of a loop has a least counterexample or none; and
`LoopHasResults` shows that the recursive function which is the loop exists, whose
equation can then be used pass by pass.

## 5. What is not modelled

* **In the modelled parts.** In `SessionStore` the size trim, the per-field caps, the
  other recorders (each is a change of the object followed by the same `save`), corrupt
  and old-schema files. In `DirtyQueue` malformed lines, the invalidation of cached
  skills and the failure back-off, which the real parser never reaches because it always
  returns a promise. In `WorkerLifecycle` the restart budget of the in-process watchdog
  and the hooks' 30 s throttle; a nudge may come at any time instead. `Reap` takes the look
  at the pid and the heartbeat, SIGTERM, the wait and SIGKILL (`worker.ts` 2304-2348) as one
  step: a daemon that ends by itself during the wait, and a pid that changes hands in it, are
  left out. In `ProjectIndex`
  the extractors, the large-file pre-scan, the result cache, the watcher's own memory of
  mtimes, and the projects row of the registry. In `ReadGuard` the branches of `pre_read`
  for other tools (shell, search, listing), hints that deny nothing, diffs against the
  snapshot (only its sha is kept), symbol reads, eviction of whole file entries, and files
  below the size from which a reread is denied. In `LineRanges` requests with `limit` 0. In
  `SkillCache` the compacted bodies, the lookup by the tail of an id and its order by
  name, the cap on the number of files, the time between the sweep's look at an age and
  its unlink, and that between an eviction's listing and its look at each entry. In
  `DbOpen` the read-only openers and `withTimeout`, which do not look at the schema, the
  embeddings table, errors of a schema statement on a healthy file that are none
  of a lock, an I/O error and a duplicate, the WAL's own files, a second quarantine within the
  same second (the name ends in the second, and a rename replaces), and a file that is
  created but refused as a WAL.
* **Seen, not modelled.** Snapshots make room before the write and without a lock
  (`snapshots.ts` 381). The image cache's lock is judged and unlinked by name
  (`worker.ts` 1906), and the spawn marker is looked at before the spawn and written after
  it (`worker.ts` 2221). `set_entry` loads, changes and saves without a lock
  (`project_memory.ts` 168). The watcher takes over new mtimes of files whose index
  failed (`cli_index.ts` 582). The clean-up of a compressed body whose stub fails to be
  written is not reached (`cache_common.ts` 845: the write throws where null is awaited).
* **Pure functions of text.** The output compressors, language extractors, renderers
  and parsers keep no state and their laws are about characters. `bash_compress/` and
  `languages/` are a third of the code.
* **One process's I/O.** Fetchers, image codecs, the installer, the command line.
* **SQLite.** A committed statement is one step; its own recovery is taken as given.
* **Time.** Ages are classes that may be entered at any time, so every schedule of the
  clock is covered; only clocks that run backwards are not.

## 6. Plan

What would come next, in order.

1. **Snapshots**: stores under a per-session cap and a directory that may be removed
   under a writer; composed with `ReadGuard`, whose shas they are.
2. **Markers**: the image cache's eviction lock and the index spawn markers. The
   eviction lock is to implement `OwnedLock` too.
3. **Watchdog**: restart budget, back-off and the hooks' throttle, composed with
   `WorkerLifecycle`.
4. **CompactSkip**: the sentinel against `SessionStore`'s `save`.
5. **Algorithms**: `adaptive_poll_interval`, the failure back-off, the session caps and the
   size trim, each against a reference definition.
6. The shell, web and MCP caches on the store of `SkillCache`, and a composition of
   `DirtyQueue` with `ProjectIndex`: an index run as the real one in place of `IndexDone`.
