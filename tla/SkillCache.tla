----------------------------- MODULE SkillCache -----------------------------
(***************************************************************************)
(* The store of skill bodies (skill_cache.ts on cache_common.ts).  An      *)
(* entry is up to three files: <id>.txt, the body or, when the body is     *)
(* compressed, an empty stub; <id>.gz, the compressed body; <id>.json, the *)
(* sidecar.  There is no lock: every hook that stores a body also sweeps   *)
(* and evicts what it finds, the worker purges the entries of an edited    *)
(* skill, commands read.  Each step of this module is one file call; a     *)
(* write is a rename, hence atomic.                                        *)
(*                                                                         *)
(* One skill; an id is the session that stored first and the body (its     *)
(* sha).  Bodies have one size, the cap is a number of them, and which     *)
(* entry is the oldest is left open.                                       *)
(***************************************************************************)
EXTENDS Naturals, FiniteSets

CONSTANTS
  Session, Body,
  Big,         \* the bodies above compress_min_bytes
  Hook,        \* processes running post_skill
  Reader,      \* processes running load_output
  First,       \* the body the skill's file has at the start
  Before,      \* the entries that earlier loads have left
  NoId, NoSession,
  MaxBytes,    \* DEFAULT_MAX_TOTAL_BYTES, in bodies
  MaxStores,   \* bound: skill loads
  MaxEdits,    \* bound: edits of the skill's file
  MaxAges,     \* bound: entries that pass orphan_age_secs
  MaxFaults    \* bound: failing writes and unlinks, killed processes

Id == Session \X Body
Worker == "worker"

ASSUME Parameters ==
  /\ IsFiniteSet(Session) /\ IsFiniteSet(Body) /\ Worker \notin Hook
  /\ Big \subseteq Body /\ First \in Body /\ NoId \notin Id /\ NoSession \notin Session
  /\ MaxBytes \in Nat \ {0}
  /\ Before \subseteq Session \X {First} /\ Cardinality(Before) <= MaxBytes
  /\ MaxStores \in Nat /\ MaxEdits \in Nat /\ MaxAges \in Nat /\ MaxFaults \in Nat

VARIABLES
  txt,      \* <id>.txt: "none", "stub" or "text"
  gz,       \* whether <id>.gz is there
  json,     \* <id>.json: "none", or a sidecar that is "named" when its source_path is
            \* the skill's file and "bare" when it is empty or another file
  old,      \* entries whose .txt is past orphan_age_secs
  loaded,   \* the id each session recorded for the skill
  source,   \* the body the skill's file has now
  dirty,    \* "queued": the worker has still to see an edit; "missed": it never
            \* will see the last one; "clean": neither
  pc,       \* where each hook is
  who, own, \* its session, and the id it stores
  todo,     \* entries its eviction has listed and not yet tried
  weigh,    \* those that still count towards its total
  victim,   \* the entry a hook or the worker is taking apart
  purge,    \* the worker: entries listed and not yet looked at
  stage,    \* the worker: the file it unlinks next
  reading,  \* the id whose .gz a reader has not found
  misled,   \* history: readers that got the stub for the body
  stores, edits, ages, faults,   \* counters of the bounds
  hazards   \* history, see below

disk == <<txt, gz, json, old>>
hookv == <<pc, who, own, todo, weigh>>
worker == <<purge, stage, dirty>>
readers == <<reading, misled>>
bounds == <<stores, edits, ages, faults>>
vars == <<disk, loaded, source, hookv, victim, worker, readers, bounds, hazards>>

(***************************************************************************)
(* What an unlocked store is exposed to:                                   *)
(*   "swept"     a sweep judged a .gz by its missing .txt while a hook was *)
(*               between the writes of the two                             *)
(*   "reborn"    an entry was taken apart while a hook stored it again     *)
(*   "late"      a stub was written after a reader had looked for the .gz  *)
(*   "crowded"   an entry went while an eviction counted it                *)
(*   "overtaken" a hook wrote a body after the worker had listed the       *)
(*               entries of the edited skill                               *)
(*   "skipped"   an unlink of a hook or a look at an entry failed and it   *)
(*               went on, or it gave up over its stub or its eviction      *)
(*   "stuck"     an unlink or a read of the worker failed, and it went on  *)
(*   "unread"    a .gz that is there could not be read or decompressed     *)
(*   "crash"     a process was killed half way                             *)
(***************************************************************************)
Hazard == {"swept", "reborn", "late", "crowded", "overtaken", "skipped", "stuck",
           "unread", "crash"}
Flag(h, cond) == IF cond THEN {h} ELSE {}

Evicting == {"orphans", "orphanGz", "orphanJson", "oldest", "evictJson", "evictGz"}
Pc == {"idle", "sweep", "sweepJson", "probe", "check", "write", "stub", "evict",
       "sidecar", "record"} \cup Evicting
Present(id) == txt[id] # "none"
HasSidecar(id) == json[id] # "none"

\* Mutant: the compressed body does not count.
SizesOfText == {id \in Id : txt[id] = "text"}

\* What evict_cache_dir adds up: the .txt files and their .gz companions.
Counted == {id \in Id : txt[id] = "text" \/ (txt[id] = "stub" /\ gz[id])}

Stored(id) == IF id[2] \in Big THEN "stub" ELSE "text"
Init ==
  /\ txt = [id \in Id |-> IF id \in Before THEN Stored(id) ELSE "none"]
  /\ gz = [id \in Id |-> id \in Before /\ id[2] \in Big]
  /\ json = [id \in Id |-> IF id \in Before THEN "named" ELSE "none"]
  /\ old = {}
  /\ loaded = [s \in Session |-> IF <<s, First>> \in Before THEN <<s, First>> ELSE NoId]
  /\ source = First /\ dirty = "clean"
  /\ pc = [h \in Hook |-> "idle"]
  /\ who = [h \in Hook |-> NoSession] /\ own = [h \in Hook |-> NoId]
  /\ todo = [h \in Hook |-> {}] /\ weigh = [h \in Hook |-> {}]
  /\ victim = [p \in Hook \cup {Worker} |-> NoId]
  /\ purge = {} /\ stage = "idle"
  /\ reading = [r \in Reader |-> NoId] /\ misled = {}
  /\ stores = 0 /\ edits = 0 /\ ages = 0 /\ faults = 0
  /\ hazards = {}

Goes(h, from, to) ==
  /\ pc[h] = from /\ pc' = [pc EXCEPT ![h] = to]
  /\ UNCHANGED <<who, own, todo, weigh>>
Ends(h) ==
  /\ pc' = [pc EXCEPT ![h] = "idle"]
  /\ who' = [who EXCEPT ![h] = NoSession] /\ own' = [own EXCEPT ![h] = NoId]
  /\ todo' = [todo EXCEPT ![h] = {}] /\ weigh' = [weigh EXCEPT ![h] = {}]
Fault == faults < MaxFaults /\ faults' = faults + 1
Sets(p, id) == victim' = [victim EXCEPT ![p] = id]

\* Between its .gz and its .txt.
HalfWritten(id) == \E k \in Hook : pc[k] = "stub" /\ own[k] = id
\* Hooks other than h whose eviction counts id.
CountingOn(id, h) == {k \in Hook \ {h} : id \in weigh[k]}
UnlinkTxt(id) ==
  /\ txt' = [txt EXCEPT ![id] = "none"]
  /\ old' = old \ {id}
Crowded(id, h) == Flag("crowded", CountingOn(id, h) # {})
UnlinkGz(id) == gz' = [gz EXCEPT ![id] = FALSE]
UnlinkJson(id) == json' = [json EXCEPT ![id] = "none"]

-----------------------------------------------------------------------------
(* store_output: the sweep by age, the probe, the write.                   *)

\* post_skill; a session that has loaded this body already stores nothing.
Load(h) ==
  /\ pc[h] = "idle" /\ pc' = [pc EXCEPT ![h] = "sweep"]
  /\ stores < MaxStores /\ stores' = stores + 1
  /\ \E s \in Session :
       /\ loaded[s] # NoId => loaded[s][2] # source
       /\ who' = [who EXCEPT ![h] = s]
       /\ own' = [own EXCEPT ![h] = <<s, source>>]
  /\ UNCHANGED <<disk, loaded, source, todo, weigh, victim, worker, readers,
                 edits, ages, faults, hazards>>

\* _sweep_skill_orphans: the text goes and then the sidecar; the compressed
\* body stays for the companion sweep.  An unlink may fail, so the sweep may
\* end any time.
SweepText(h) ==
  /\ Goes(h, "sweep", "sweepJson")
  /\ \E id \in old :
       UnlinkTxt(id) /\ Sets(h, id) /\ hazards' = hazards \cup Crowded(id, h)
  /\ UNCHANGED <<gz, json, loaded, source, worker, readers, bounds>>

SweepSidecar(h) ==
  /\ Goes(h, "sweepJson", "sweep")
  /\ UnlinkJson(victim[h]) /\ Sets(h, NoId)
  /\ UNCHANGED <<txt, gz, old, loaded, source, worker, readers, bounds, hazards>>

SweepEnds(h) ==
  /\ Goes(h, "sweep", "probe")
  /\ UNCHANGED <<disk, loaded, source, victim, worker, readers, bounds, hazards>>

\* find_cross_session_entry: a listed entry whose sidecar names this body ...
Twins(h) == {id \in Id : id[2] = own[h][2] /\ Present(id) /\ HasSidecar(id)}
Probe(h) ==
  /\ Goes(h, "probe", "check")
  /\ \E id \in Twins(h) : Sets(h, id)
  /\ UNCHANGED <<disk, loaded, source, worker, readers, bounds, hazards>>

\* ... and whose body is still there is taken over.
Check(h) ==
  /\ pc[h] = "check"
  /\ IF Present(victim[h]) \/ gz[victim[h]]
     THEN /\ own' = [own EXCEPT ![h] = victim[h]]
          /\ pc' = [pc EXCEPT ![h] = "sidecar"]
     ELSE pc' = [pc EXCEPT ![h] = "probe"] /\ UNCHANGED own
  /\ Sets(h, NoId)
  /\ UNCHANGED <<disk, loaded, source, who, todo, weigh, worker, readers, bounds,
                 hazards>>

ProbeMisses(h) ==
  /\ Goes(h, "probe", "write")
  /\ Twins(h) = {}
  /\ UNCHANGED <<disk, loaded, source, victim, worker, readers, bounds, hazards>>

\* Somebody is about to unlink the .gz, having dealt with the .txt before.
TakenApart(id) ==
  \/ \E k \in Hook : victim[k] = id /\ pc[k] \in {"evictJson", "evictGz"}
  \/ victim[Worker] = id /\ stage \in {"txt", "gz"}
Judged(id) == \E k \in Hook : victim[k] = id /\ pc[k] = "orphanGz"
Awaited(id) == \E r \in Reader : reading[r] = id

\* A hook whose body is no longer the file's writes after the worker's listing.
Overtaken(h) == Flag("overtaken", dirty = "clean" /\ own[h][2] # source)

WriteText(h) ==
  /\ Goes(h, "write", "evict")
  /\ own[h][2] \notin Big
  /\ txt' = [txt EXCEPT ![own[h]] = "text"]
  /\ old' = old \ {own[h]}
  /\ hazards' = hazards \cup Overtaken(h)
  /\ UNCHANGED <<gz, json, loaded, source, victim, worker, readers, bounds>>

\* store_blob_gz: the compressed body first, ...
WriteGz(h) ==
  /\ Goes(h, "write", "stub")
  /\ own[h][2] \in Big
  /\ gz' = [gz EXCEPT ![own[h]] = TRUE]
  /\ hazards' = hazards \cup Flag("reborn", TakenApart(own[h]))
                        \cup Flag("swept", Judged(own[h]))
  /\ UNCHANGED <<txt, json, old, loaded, source, victim, worker, readers, bounds>>

\* ... then the stub that makes it an entry.
WriteStub(h) ==
  /\ Goes(h, "stub", "evict")
  /\ txt' = [txt EXCEPT ![own[h]] = "stub"]
  /\ old' = old \ {own[h]}
  /\ hazards' = hazards \cup Overtaken(h) \cup Flag("late", Awaited(own[h]))
  /\ UNCHANGED <<gz, json, loaded, source, victim, worker, readers, bounds>>

\* An OSError ends the store.  When it is the stub that fails the compressed
\* body stays: store_blob throws, so the clean-up in store_blob_gz, which
\* waits for it to return null, is not reached.
WriteFails(h) ==
  /\ pc[h] \in {"write", "stub"} /\ Ends(h)
  /\ Fault
  /\ hazards' = hazards \cup Flag("skipped", pc[h] = "stub")
  /\ UNCHANGED <<disk, loaded, source, victim, worker, readers, stores, edits, ages>>

-----------------------------------------------------------------------------
(* evict_cache_dir, after every write and with the own id protected.       *)

EvictLists(h) ==
  /\ pc[h] = "evict" /\ pc' = [pc EXCEPT ![h] = "orphans"]
  /\ todo' = [todo EXCEPT ![h] = {id \in Id : Present(id)}]
  /\ weigh' = [weigh EXCEPT ![h] = Counted]
  /\ UNCHANGED <<disk, loaded, source, who, own, victim, worker, readers,
                 bounds, hazards>>

\* An entry, or the compressed body of one, that cannot be looked at does not count;
\* when the directory cannot be read nothing is evicted.
ListingFails(h) ==
  /\ pc[h] = "evict"
  /\ \/ pc' = [pc EXCEPT ![h] = "sidecar"] /\ UNCHANGED <<todo, weigh>>
     \/ /\ pc' = [pc EXCEPT ![h] = "orphans"]
        /\ \E id \in Id :
             /\ Present(id)
             /\ todo' = [todo EXCEPT ![h] = {i \in Id : Present(i)} \ {id}]
             /\ weigh' = [weigh EXCEPT ![h] = Counted \ {id}]
  /\ Fault
  /\ hazards' = hazards \cup {"skipped"}
  /\ UNCHANGED <<disk, loaded, source, who, own, victim, worker, readers,
                 stores, edits, ages>>

\* The companion sweep looks for the text of a .gz or .json, and unlinks.
\* It may end any time, as an unlink may fail and its listing is older.
JudgeOrphan(h) ==
  /\ \E id \in Id :
       /\ ~Present(id) /\ Sets(h, id)
       /\ \/ gz[id] /\ Goes(h, "orphans", "orphanGz")
          \/ HasSidecar(id) /\ Goes(h, "orphans", "orphanJson")
       /\ hazards' = hazards \cup Flag("swept", gz[id] /\ HalfWritten(id))
  /\ UNCHANGED <<disk, loaded, source, worker, readers, bounds>>

UnlinkOrphan(h) ==
  /\ \/ Goes(h, "orphanGz", "orphans") /\ UnlinkGz(victim[h]) /\ UNCHANGED json
     \/ Goes(h, "orphanJson", "orphans") /\ UnlinkJson(victim[h]) /\ UNCHANGED gz
  /\ Sets(h, NoId)
  /\ UNCHANGED <<txt, old, loaded, source, worker, readers, bounds, hazards>>

OrphansEnd(h) ==
  /\ Goes(h, "orphans", "oldest")
  /\ UNCHANGED <<disk, loaded, source, victim, worker, readers, bounds, hazards>>

OverCap(h) == Cardinality(weigh[h]) > MaxBytes
Evictable(h) == todo[h] \ {own[h]}

\* Mutant: the total is not taken down.
Weighs(w, id) == w
\* Its own unlink takes an entry out of the total.
Without(w, id) == w \ {id}

EvictText(h) ==
  /\ pc[h] = "oldest" /\ OverCap(h)
  /\ \E id \in Evictable(h) :
       /\ todo' = [todo EXCEPT ![h] = @ \ {id}]
       /\ \/ /\ Present(id)
             /\ UnlinkTxt(id) /\ Sets(h, id)
             /\ hazards' = hazards \cup Crowded(id, h)
                                   \cup Flag("reborn", HalfWritten(id))
             /\ weigh' = [weigh EXCEPT ![h] = Without(@, id)]
             /\ pc' = [pc EXCEPT ![h] = "evictJson"]
          \/ ~Present(id) /\ UNCHANGED <<txt, old, victim, weigh, pc, hazards>>
  /\ UNCHANGED <<gz, json, loaded, source, who, own, worker, readers, bounds>>

EvictSidecar(h) ==
  /\ Goes(h, "evictJson", "evictGz")
  /\ UnlinkJson(victim[h])
  /\ UNCHANGED <<txt, gz, old, loaded, source, victim, worker, readers, bounds, hazards>>

EvictGz(h) ==
  /\ Goes(h, "evictGz", "oldest")
  /\ UnlinkGz(victim[h]) /\ Sets(h, NoId)
  /\ UNCHANGED <<txt, json, old, loaded, source, worker, readers, bounds, hazards>>

\* A failing unlink is skipped: the entry stays in the total, a sidecar or a
\* compressed body stays for the next companion sweep.
UnlinkFails(h) ==
  /\ \/ Goes(h, "sweepJson", "sweep") /\ Sets(h, NoId)
     \/ Goes(h, "evictJson", "evictGz") /\ UNCHANGED victim
     \/ Goes(h, "evictGz", "oldest") /\ Sets(h, NoId)
     \/ /\ pc[h] = "oldest" /\ OverCap(h)
        /\ \E id \in Evictable(h) : todo' = [todo EXCEPT ![h] = @ \ {id}]
        /\ UNCHANGED <<pc, who, own, weigh, victim>>
  /\ Fault
  /\ hazards' = hazards \cup {"skipped"}
  /\ UNCHANGED <<disk, loaded, source, worker, readers, stores, edits, ages>>

EvictEnds(h) ==
  /\ pc[h] = "oldest" /\ pc' = [pc EXCEPT ![h] = "sidecar"]
  /\ ~OverCap(h) \/ Evictable(h) = {}
  /\ todo' = [todo EXCEPT ![h] = {}] /\ weigh' = [weigh EXCEPT ![h] = {}]
  /\ UNCHANGED <<disk, loaded, source, who, own, victim, worker, readers,
                 bounds, hazards>>

\* The source_path is a file of the skill's name below the home directory, else that
\* of the entry taken over.  For a skill that a project keeps it is empty, or the
\* file of another skill with the same name.
SourcePath == {"named", "bare"}

\* post_skill: the sidecar (a failing write is logged), then the session.
WriteSidecar(h) ==
  /\ Goes(h, "sidecar", "record")
  /\ \/ /\ \E path \in SourcePath : json' = [json EXCEPT ![own[h]] = path]
        /\ hazards' = hazards \cup Overtaken(h)
        /\ UNCHANGED faults
     \/ Fault /\ UNCHANGED <<json, hazards>>
  /\ UNCHANGED <<txt, gz, old, loaded, source, victim, worker, readers, stores, edits,
                 ages>>

Record(h) ==
  /\ pc[h] = "record" /\ Ends(h)
  /\ loaded' = [loaded EXCEPT ![who[h]] = own[h]]
  /\ UNCHANGED <<disk, source, victim, worker, readers, bounds, hazards>>

-----------------------------------------------------------------------------
(* The worker: invalidate_for_path, when it drains the edit.               *)

Changes ==
  /\ edits < MaxEdits /\ edits' = edits + 1
  /\ \E b \in Body \ {source} : source' = b
  /\ UNCHANGED <<disk, loaded, hookv, victim, purge, stage, readers, stores, ages,
                 faults, hazards>>

\* A hook sees the edit, the file is inside a project, and its path below the
\* project's root has .claude/skills in it.
EditQueued == Changes /\ dirty' = "queued"

\* Any other edit.  The purge for an edit that waits in the queue covers it.
EditMissed == Changes /\ dirty' = IF dirty = "queued" THEN "queued" ELSE "missed"

\* The queue loses the entry (DirtyQueue says when).
EntryLost ==
  /\ dirty = "queued" /\ dirty' = "missed" /\ Fault
  /\ UNCHANGED <<disk, loaded, source, hookv, victim, purge, stage, readers, stores,
                 edits, ages, hazards>>

PurgeLists ==
  /\ stage = "idle" /\ dirty = "queued"
  /\ stage' = "look" /\ dirty' = "clean"
  /\ purge' = {id \in Id : Present(id)}
  /\ UNCHANGED <<disk, loaded, source, hookv, victim, readers, bounds, hazards>>

\* Mutant: only the entries of the sessions that have the skill loaded.
OfSessions(id) == json[id] = "named" /\ \E s \in Session : loaded[s] = id
\* The sidecar names the edited file.
NamesSource(id) == json[id] = "named"

PurgeLooks ==
  /\ stage = "look"
  /\ \E id \in purge :
       /\ purge' = purge \ {id}
       /\ \/ /\ NamesSource(id) /\ Sets(Worker, id) /\ stage' = "txt"
             /\ hazards' = hazards \cup Flag("reborn", HalfWritten(id))
          \/ ~NamesSource(id) /\ UNCHANGED <<victim, stage, hazards>>
  /\ UNCHANGED <<disk, loaded, source, hookv, dirty, readers, bounds>>

\* Mutant: the text is forgotten.
PurgeTextForgotten ==
  /\ stage = "txt" /\ stage' = "gz"
  /\ UNCHANGED <<disk, loaded, source, hookv, victim, purge, dirty, readers, bounds,
                 hazards>>

PurgeText ==
  /\ stage = "txt" /\ stage' = "gz"
  /\ UnlinkTxt(victim[Worker])
  /\ hazards' = hazards \cup Crowded(victim[Worker], Worker)
  /\ UNCHANGED <<gz, json, loaded, source, hookv, victim, purge, dirty, readers, bounds>>

PurgeGz ==
  /\ stage = "gz" /\ stage' = "json"
  /\ UnlinkGz(victim[Worker])
  /\ UNCHANGED <<txt, json, old, loaded, source, hookv, victim, purge, dirty, readers,
                 bounds, hazards>>

PurgeSidecar ==
  /\ stage = "json" /\ stage' = "look"
  /\ UnlinkJson(victim[Worker]) /\ Sets(Worker, NoId)
  /\ UNCHANGED <<txt, gz, old, loaded, source, hookv, purge, dirty, readers, bounds,
                 hazards>>

\* Each unlink has its own handler: a failing one does not stop the others.
PurgeFails ==
  /\ \/ stage = "txt" /\ stage' = "gz" /\ UNCHANGED victim
     \/ stage = "gz" /\ stage' = "json" /\ UNCHANGED victim
     \/ stage = "json" /\ stage' = "look" /\ Sets(Worker, NoId)
  /\ Fault
  /\ hazards' = hazards \cup {"stuck"}
  /\ UNCHANGED <<disk, loaded, source, hookv, purge, dirty, readers, stores, edits, ages>>

\* Entries or sidecars that cannot be read are passed over.
PurgeMisses ==
  /\ stage = "look" /\ Fault
  /\ \E ids \in SUBSET purge : ids # purge /\ purge' = ids
  /\ hazards' = hazards \cup {"stuck"}
  /\ UNCHANGED <<disk, loaded, source, hookv, victim, stage, dirty, readers, stores,
                 edits, ages>>

PurgeEnds ==
  /\ stage = "look" /\ purge = {} /\ stage' = "idle"
  /\ UNCHANGED <<disk, loaded, source, hookv, victim, purge, dirty, readers, bounds,
                 hazards>>

-----------------------------------------------------------------------------
(* load_output: the compressed body, else the text.                        *)

Known(id) == HasSidecar(id) \/ \E s \in Session : loaded[s] = id

\* Where the .gz is there the command has the body; a body that is not
\* compressed is read whole or not at all.  Neither is followed.
ReadGz(r) ==
  /\ reading[r] = NoId
  /\ \E id \in Session \X Big :
       Known(id) /\ ~gz[id] /\ reading' = [reading EXCEPT ![r] = id]
  /\ UNCHANGED <<disk, loaded, source, hookv, victim, worker, misled, bounds, hazards>>

\* A .gz that is there but cannot be read or decompressed counts as missing.
GzUnreadable(r) ==
  /\ reading[r] = NoId /\ Fault
  /\ \E id \in Session \X Big :
       Known(id) /\ gz[id] /\ reading' = [reading EXCEPT ![r] = id]
  /\ hazards' = hazards \cup {"unread"}
  /\ UNCHANGED <<disk, loaded, source, hookv, victim, worker, misled, stores, edits, ages>>

ReadText(r) ==
  /\ reading[r] # NoId
  /\ misled' = IF txt[reading[r]] = "stub" THEN misled \cup {r} ELSE misled
  /\ reading' = [reading EXCEPT ![r] = NoId]
  /\ UNCHANGED <<disk, loaded, source, hookv, victim, worker, bounds, hazards>>

-----------------------------------------------------------------------------
Age ==
  /\ ages < MaxAges /\ ages' = ages + 1
  /\ \E id \in Id : Present(id) /\ old' = old \cup {id}
  /\ UNCHANGED <<txt, gz, json, loaded, source, hookv, victim, worker, readers, stores,
                 edits, faults, hazards>>

\* A hook is killed or times out, the worker is killed.
Killed(h) ==
  /\ pc[h] # "idle" /\ Ends(h) /\ Sets(h, NoId)
  /\ Fault
  /\ hazards' = hazards \cup {"crash"}
  /\ UNCHANGED <<disk, loaded, source, worker, readers, stores, edits, ages>>

WorkerKilled ==
  /\ stage # "idle" /\ Fault
  /\ stage' = "idle" /\ purge' = {} /\ Sets(Worker, NoId)
  /\ hazards' = hazards \cup {"crash"}
  /\ UNCHANGED <<disk, loaded, source, hookv, dirty, readers, stores, edits, ages>>

Store(h) ==
  \/ Load(h) \/ SweepText(h) \/ SweepSidecar(h) \/ SweepEnds(h)
  \/ Probe(h) \/ Check(h) \/ ProbeMisses(h)
  \/ WriteText(h) \/ WriteGz(h) \/ WriteStub(h) \/ WriteFails(h)
  \/ WriteSidecar(h) \/ Record(h)
Evict(h) ==
  \/ EvictLists(h) \/ ListingFails(h) \/ JudgeOrphan(h) \/ UnlinkOrphan(h) \/ OrphansEnd(h)
  \/ EvictText(h) \/ EvictSidecar(h) \/ EvictGz(h) \/ UnlinkFails(h) \/ EvictEnds(h)
Purge ==
  \/ PurgeLists \/ PurgeLooks \/ PurgeText \/ PurgeGz \/ PurgeSidecar \/ PurgeFails
  \/ PurgeMisses \/ PurgeEnds

Next ==
  \/ \E h \in Hook : Store(h) \/ Evict(h) \/ Killed(h)
  \/ \E r \in Reader : ReadGz(r) \/ GzUnreadable(r) \/ ReadText(r)
  \/ Purge \/ EditQueued \/ EditMissed \/ EntryLost \/ Age \/ WorkerKilled

Spec == Init /\ [][Next]_vars

-----------------------------------------------------------------------------
\* Every variable keeps its type.
TypeOK ==
  /\ txt \in [Id -> {"none", "stub", "text"}]
  /\ gz \in [Id -> BOOLEAN] /\ json \in [Id -> {"none", "bare", "named"}]
  /\ old \subseteq {id \in Id : Present(id)}
  /\ loaded \in [Session -> Id \cup {NoId}]
  /\ source \in Body /\ dirty \in {"clean", "queued", "missed"}
  /\ pc \in [Hook -> Pc] /\ who \in [Hook -> Session \cup {NoSession}]
  /\ own \in [Hook -> Id \cup {NoId}]
  /\ \A h \in Hook : pc[h] # "idle" => who[h] \in Session /\ own[h] \in Id
  /\ todo \in [Hook -> SUBSET Id] /\ weigh \in [Hook -> SUBSET Id]
  /\ \A h \in Hook : pc[h] \notin Evicting => todo[h] = {}
  /\ victim \in [Hook \cup {Worker} -> Id \cup {NoId}]
  /\ \A h \in Hook :
       pc[h] \in {"sweepJson", "check", "orphanGz", "orphanJson", "evictJson", "evictGz"}
         => victim[h] \in Id
  /\ purge \subseteq Id /\ stage \in {"idle", "look", "txt", "gz", "json"}
  /\ stage \in {"txt", "gz", "json"} => victim[Worker] \in Id
  /\ reading \in [Reader -> Id \cup {NoId}]
  /\ misled \subseteq Reader
  /\ stores \in 0..MaxStores /\ edits \in 0..MaxEdits
  /\ ages \in 0..MaxAges /\ faults \in 0..MaxFaults
  /\ hazards \subseteq Hazard

\* load_output returns the body or null, never the empty stub in its place,
\* until two processes take the same entry in hand or a file that is there
\* cannot be read or unlinked.
LoadIsWhole ==
  hazards \cap {"swept", "reborn", "late", "stuck", "unread"} = {} => misled = {}

\* "Callers see plain text regardless of how the body was stored."
LoadNeverEmpty == misled = {}

\* The bodies that are on disk as entries.
Kept == {id \in Id : Present(id) /\ (txt[id] = "text" \/ gz[id])}

\* Whenever no hook is between its write and the end of its eviction the
\* store is within its cap, whoever evicted at the same time.
CapHolds ==
  (\A h \in Hook : pc[h] \notin {"stub", "evict"} \cup Evicting) /\ hazards \cap {"skipped", "crash"} = {}
    => Cardinality(Kept) <= MaxBytes

\* An eviction that no other process crosses stops at the cap: it takes an
\* entry only while the bodies on disk exceed it.
EvictsOnlyOverCap ==
  [][\A h \in Hook :
       pc[h] = "oldest" /\ pc'[h] = "evictJson"
       /\ hazards \cap {"crowded", "swept", "reborn", "stuck"} = {}
         => Cardinality(Kept) > MaxBytes]_vars

\* Once the worker has dealt with an edit, and no later edit has passed it by, no
\* entry whose sidecar names the skill's file has a body the skill no longer has.
StaleIsPurged ==
  dirty = "clean" /\ stage = "idle" /\ hazards \cap {"overtaken", "stuck", "crash"} = {} =>
    \A id \in Id : Present(id) /\ json[id] = "named" => id[2] = source

\* "Ensures that the stale cached body is not served to the agent after the skill
\* has been edited on disk", once the worker has dealt with the edit: whatever file
\* the sidecar names.
StaleNeverServed ==
  dirty = "clean" /\ stage = "idle" /\ hazards = {} =>
    \A id \in Id : Present(id) /\ HasSidecar(id) => id[2] = source
=============================================================================
