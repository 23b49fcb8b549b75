-------------------------- MODULE SkillCacheProofs --------------------------
(***************************************************************************)
(* The store of skill bodies for every set of sessions, bodies, hooks and  *)
(* readers, and every bound.                                               *)
(***************************************************************************)
EXTENDS SkillCache, FiniteSetTheorems, TLAPS

\* TypeOK in parts: files, hooks, the victims in hand, and all else.
FilesOK ==
  /\ txt \in [Id -> {"none", "stub", "text"}]
  /\ gz \in [Id -> BOOLEAN] /\ json \in [Id -> {"none", "bare", "named"}]
  /\ old \subseteq {id \in Id : Present(id)}

HooksOK ==
  /\ pc \in [Hook -> Pc] /\ who \in [Hook -> Session \cup {NoSession}]
  /\ own \in [Hook -> Id \cup {NoId}]
  /\ \A h \in Hook : pc[h] # "idle" => who[h] \in Session /\ own[h] \in Id
  /\ todo \in [Hook -> SUBSET Id] /\ weigh \in [Hook -> SUBSET Id]
  /\ \A h \in Hook : pc[h] \notin Evicting => todo[h] = {}

VictimsOK ==
  /\ victim \in [Hook \cup {Worker} -> Id \cup {NoId}]
  /\ \A h \in Hook :
       pc[h] \in {"sweepJson", "check", "orphanGz", "orphanJson", "evictJson", "evictGz"}
         => victim[h] \in Id
  /\ stage \in {"txt", "gz", "json"} => victim[Worker] \in Id

RestOK ==
  /\ loaded \in [Session -> Id \cup {NoId}]
  /\ source \in Body /\ dirty \in {"clean", "queued", "missed"}
  /\ purge \subseteq Id /\ stage \in {"idle", "look", "txt", "gz", "json"}
  /\ reading \in [Reader -> Id \cup {NoId}]
  /\ misled \subseteq Reader
  /\ stores \in 0..MaxStores /\ edits \in 0..MaxEdits
  /\ ages \in 0..MaxAges /\ faults \in 0..MaxFaults
  /\ hazards \subseteq Hazard

\* The steps of neither a store, an eviction nor a purge.
Rest ==
  \/ \E h \in Hook : Killed(h)
  \/ \E r \in Reader : ReadGz(r) \/ GzUnreadable(r) \/ ReadText(r)
  \/ EditQueued \/ EditMissed \/ EntryLost \/ Age \/ WorkerKilled

LEMMA TypeParts == TypeOK <=> FilesOK /\ HooksOK /\ VictimsOK /\ RestOK
BY DEF TypeOK, FilesOK, HooksOK, VictimsOK, RestOK

LEMMA TypePartsNext == (FilesOK /\ HooksOK /\ VictimsOK /\ RestOK)' => TypeOK'
BY DEF TypeOK, FilesOK, HooksOK, VictimsOK, RestOK

LEMMA InitialTypes == Init => TypeOK
<1> SUFFICES ASSUME Init PROVE TypeOK
  OBVIOUS
<1> USE Parameters
<1>1. /\ txt \in [Id -> {"none", "stub", "text"}]
      /\ gz \in [Id -> BOOLEAN] /\ json \in [Id -> {"none", "bare", "named"}]
      /\ old \subseteq {id \in Id : Present(id)}
  BY DEF Init, Stored
<1>2. loaded \in [Session -> Id \cup {NoId}]
  BY DEF Init, Id
<1>3. \A h \in Hook : pc[h] = "idle"
  BY DEF Init
<1>4. victim \in [Hook \cup {Worker} -> Id \cup {NoId}]
  BY DEF Init
<1>5. /\ pc \in [Hook -> Pc] /\ who \in [Hook -> Session \cup {NoSession}]
      /\ own \in [Hook -> Id \cup {NoId}]
      /\ todo \in [Hook -> SUBSET Id] /\ weigh \in [Hook -> SUBSET Id]
      /\ reading \in [Reader -> Id \cup {NoId}]
  BY DEF Init, Pc
<1>6. \A h \in Hook : todo[h] = {}
  BY DEF Init
<1>7. /\ source \in Body /\ dirty \in {"clean", "queued", "missed"} /\ purge \subseteq Id /\ stage = "idle"
      /\ misled \subseteq Reader /\ hazards \subseteq Hazard
      /\ stores \in 0..MaxStores /\ edits \in 0..MaxEdits
      /\ ages \in 0..MaxAges /\ faults \in 0..MaxFaults
  <2>1. /\ source = First /\ dirty = "clean" /\ purge = {} /\ stage = "idle" /\ misled = {}
        /\ hazards = {} /\ stores = 0 /\ edits = 0 /\ ages = 0 /\ faults = 0
    BY DEF Init
  <2>2. purge \subseteq Id /\ misled \subseteq Reader /\ hazards \subseteq Hazard
    BY <2>1
  <2>3. stores \in 0..MaxStores /\ edits \in 0..MaxEdits /\ ages \in 0..MaxAges
    BY <2>1
  <2>4. source \in Body /\ faults \in 0..MaxFaults
    BY <2>1
  <2> QED BY <2>1, <2>2, <2>3, <2>4
<1> QED BY <1>1, <1>2, <1>3, <1>4, <1>5, <1>6, <1>7 DEF TypeOK

LEMMA LoadKeepsTypes ==
  ASSUME TypeOK, NEW h \in Hook, Load(h)
  PROVE  TypeOK'
BY Parameters DEF Load, TypeOK, Present, Id, Pc, disk, readers, worker, Evicting

LEMMA SweepKeepsTypes ==
  ASSUME TypeOK, NEW h \in Hook, SweepText(h) \/ SweepSidecar(h) \/ SweepEnds(h)
  PROVE  TypeOK'
<1> USE Parameters DEF Goes, Sets, Pc, Evicting, disk, readers, worker, bounds, Present
<1>1. CASE SweepText(h)
  BY <1>1 DEF SweepText, TypeOK, UnlinkTxt, Crowded, Flag, Hazard
<1>2. CASE SweepSidecar(h)
  BY <1>2 DEF SweepSidecar, TypeOK, UnlinkJson
<1>3. CASE SweepEnds(h)
  BY <1>3 DEF SweepEnds, TypeOK
<1> QED BY <1>1, <1>2, <1>3

LEMMA ProbeKeepsTypes ==
  ASSUME TypeOK, NEW h \in Hook, Probe(h) \/ Check(h) \/ ProbeMisses(h)
  PROVE  TypeOK'
<1> USE Parameters DEF Goes, Sets, Pc, Evicting, disk, readers, worker, bounds, Present
<1>1. CASE Probe(h)
  BY <1>1 DEF Probe, Twins, TypeOK
<1>2. CASE Check(h)
  BY <1>2 DEF Check, TypeOK
<1>3. CASE ProbeMisses(h)
  BY <1>3 DEF ProbeMisses, TypeOK
<1> QED BY <1>1, <1>2, <1>3

LEMMA WriteKeepsTypes ==
  ASSUME TypeOK, NEW h \in Hook,
         WriteText(h) \/ WriteGz(h) \/ WriteStub(h) \/ WriteFails(h) \/ WriteSidecar(h) \/ Record(h)
  PROVE  TypeOK'
<1> USE Parameters
    DEF Goes, Ends, Sets, Fault, Flag, Overtaken, Pc, Evicting, Hazard, disk, readers, worker,
        bounds, hookv, Present
<1>1. CASE WriteText(h)
  BY <1>1 DEF WriteText, TypeOK
<1>2. CASE WriteGz(h)
  BY <1>2 DEF WriteGz, TypeOK
<1>3. CASE WriteStub(h)
  BY <1>3 DEF WriteStub, TypeOK
<1>4. CASE WriteFails(h)
  BY <1>4 DEF WriteFails, TypeOK
<1>5. CASE WriteSidecar(h)
  <2>1. CASE (\E path \in SourcePath : json' = [json EXCEPT ![own[h]] = path]) /\ UNCHANGED faults
    <3>1. FilesOK'
      BY <1>5, <2>1 DEF WriteSidecar, SourcePath, FilesOK, TypeOK
    <3>2. HooksOK'
      BY <1>5, <2>1 DEF WriteSidecar, HooksOK, TypeOK
    <3>3. VictimsOK'
      BY <1>5, <2>1 DEF WriteSidecar, VictimsOK, TypeOK
    <3>4. RestOK'
      BY <1>5, <2>1 DEF WriteSidecar, RestOK, TypeOK
    <3> QED BY <3>1, <3>2, <3>3, <3>4, TypePartsNext
  <2>2. CASE UNCHANGED <<json, hazards>> /\ Fault
    BY <1>5, <2>2 DEF WriteSidecar, TypeOK
  <2> QED BY <1>5, <2>1, <2>2 DEF WriteSidecar
<1>6. CASE Record(h)
  BY <1>6 DEF Record, TypeOK
<1> QED BY <1>1, <1>2, <1>3, <1>4, <1>5, <1>6

LEMMA EvictKeepsTypes ==
  ASSUME TypeOK, NEW h \in Hook, Evict(h)
  PROVE  TypeOK'
<1> USE Parameters
    DEF Goes, Sets, Fault, Flag, Pc, Evicting, Hazard, disk, readers, worker, bounds, Present
<1>1. CASE EvictLists(h)
  BY <1>1 DEF EvictLists, Counted, TypeOK
<1>2. CASE JudgeOrphan(h)
  BY <1>2 DEF JudgeOrphan, TypeOK
<1>3. CASE UnlinkOrphan(h)
  <2>1. CASE pc[h] = "orphanGz"
    <3>1. FilesOK'
      BY <1>3, <2>1 DEF UnlinkOrphan, UnlinkGz, FilesOK, TypeOK
    <3>2. HooksOK'
      BY <1>3, <2>1 DEF UnlinkOrphan, UnlinkGz, HooksOK, TypeOK
    <3>3. VictimsOK'
      BY <1>3, <2>1 DEF UnlinkOrphan, UnlinkGz, VictimsOK, TypeOK
    <3>4. RestOK'
      BY <1>3, <2>1 DEF UnlinkOrphan, UnlinkGz, RestOK, TypeOK
    <3> QED BY <3>1, <3>2, <3>3, <3>4, TypePartsNext
  <2>2. CASE pc[h] = "orphanJson"
    <3>1. FilesOK'
      BY <1>3, <2>2 DEF UnlinkOrphan, UnlinkJson, FilesOK, TypeOK
    <3>2. HooksOK'
      BY <1>3, <2>2 DEF UnlinkOrphan, UnlinkJson, HooksOK, TypeOK
    <3>3. VictimsOK'
      BY <1>3, <2>2 DEF UnlinkOrphan, UnlinkJson, VictimsOK, TypeOK
    <3>4. RestOK'
      BY <1>3, <2>2 DEF UnlinkOrphan, UnlinkJson, RestOK, TypeOK
    <3> QED BY <3>1, <3>2, <3>3, <3>4, TypePartsNext
  <2> QED BY <1>3, <2>1, <2>2 DEF UnlinkOrphan
<1>4. CASE OrphansEnd(h)
  BY <1>4 DEF OrphansEnd, TypeOK
<1>5. CASE EvictText(h)
  <2>1. PICK id \in Evictable(h) :
          /\ todo' = [todo EXCEPT ![h] = @ \ {id}]
          /\ \/ /\ Present(id) /\ UnlinkTxt(id) /\ Sets(h, id)
                /\ hazards' = hazards \cup Crowded(id, h)
                                      \cup Flag("reborn", HalfWritten(id))
                /\ weigh' = [weigh EXCEPT ![h] = Without(@, id)]
                /\ pc' = [pc EXCEPT ![h] = "evictJson"]
             \/ ~Present(id) /\ UNCHANGED <<txt, old, victim, weigh, pc, hazards>>
    BY <1>5 DEF EvictText
  <2>2. id \in Id
    BY DEF Evictable, TypeOK
  <2>3. CASE UNCHANGED <<txt, old, victim, weigh, pc, hazards>>
    BY <1>5, <2>1, <2>2, <2>3 DEF EvictText, TypeOK
  <2>4. CASE pc' = [pc EXCEPT ![h] = "evictJson"] /\ UnlinkTxt(id) /\ Sets(h, id)
    <3>1. FilesOK'
      BY <1>5, <2>1, <2>2, <2>4 DEF EvictText, Without, UnlinkTxt, Crowded, FilesOK, TypeOK
    <3>2. HooksOK'
      BY <1>5, <2>1, <2>2, <2>4 DEF EvictText, Without, UnlinkTxt, Crowded, HooksOK, TypeOK
    <3>3. VictimsOK'
      BY <1>5, <2>1, <2>2, <2>4 DEF EvictText, Without, UnlinkTxt, Crowded, VictimsOK, TypeOK
    <3>4. RestOK'
      BY <1>5, <2>1, <2>2, <2>4 DEF EvictText, Without, UnlinkTxt, Crowded, RestOK, TypeOK
    <3> QED BY <3>1, <3>2, <3>3, <3>4, TypePartsNext
  <2> QED BY <2>1, <2>3, <2>4
<1>6. CASE EvictSidecar(h)
  BY <1>6 DEF EvictSidecar, UnlinkJson, TypeOK
<1>7. CASE EvictGz(h)
  BY <1>7 DEF EvictGz, UnlinkGz, TypeOK
<1>8. CASE UnlinkFails(h)
  BY <1>8 DEF UnlinkFails, Evictable, TypeOK
<1>9. CASE EvictEnds(h)
  BY <1>9 DEF EvictEnds, TypeOK
<1>10. CASE ListingFails(h)
  BY <1>10 DEF ListingFails, Counted, TypeOK
<1> QED BY <1>1, <1>2, <1>3, <1>4, <1>5, <1>6, <1>7, <1>8, <1>9, <1>10 DEF Evict

LEMMA PurgeKeepsTypes ==
  ASSUME TypeOK, Purge
  PROVE  TypeOK'
<1> USE Parameters
    DEF Sets, Fault, Flag, Hazard, disk, hookv, readers, worker, bounds, Present
<1>1. CASE PurgeLists
  BY <1>1 DEF PurgeLists, TypeOK
<1>2. CASE PurgeLooks
  <2>1. CASE UNCHANGED <<victim, stage, hazards>>
    BY <1>2, <2>1 DEF PurgeLooks, TypeOK
  <2>2. CASE stage' = "txt" /\ \E id \in purge : Sets(Worker, id)
    <3>1. FilesOK'
      BY <1>2, <2>2 DEF PurgeLooks, FilesOK, TypeOK
    <3>2. HooksOK'
      BY <1>2, <2>2 DEF PurgeLooks, HooksOK, TypeOK
    <3>3. VictimsOK'
      BY <1>2, <2>2 DEF PurgeLooks, VictimsOK, TypeOK
    <3>4. RestOK'
      BY <1>2, <2>2 DEF PurgeLooks, RestOK, TypeOK
    <3> QED BY <3>1, <3>2, <3>3, <3>4, TypePartsNext
  <2> QED BY <1>2, <2>1, <2>2 DEF PurgeLooks
<1>3. CASE PurgeText
  BY <1>3 DEF PurgeText, UnlinkTxt, Crowded, TypeOK
<1>4. CASE PurgeGz
  BY <1>4 DEF PurgeGz, UnlinkGz, TypeOK
<1>5. CASE PurgeSidecar
  BY <1>5 DEF PurgeSidecar, UnlinkJson, TypeOK
<1>6. CASE PurgeFails
  BY <1>6 DEF PurgeFails, TypeOK
<1>7. CASE PurgeEnds
  BY <1>7 DEF PurgeEnds, TypeOK
<1>8. CASE PurgeMisses
  BY <1>8 DEF PurgeMisses, TypeOK
<1> QED BY <1>1, <1>2, <1>3, <1>4, <1>5, <1>6, <1>7, <1>8 DEF Purge

LEMMA RestKeepsTypes ==
  ASSUME TypeOK, Rest
  PROVE  TypeOK'
<1> USE Parameters
    DEF Sets, Fault, Hazard, disk, hookv, readers, worker, bounds, Present
<1>1. ASSUME NEW h \in Hook, Killed(h) PROVE TypeOK'
  BY <1>1 DEF Killed, Ends, Pc, Evicting, TypeOK
<1>2. ASSUME NEW r \in Reader, ReadGz(r) PROVE TypeOK'
  BY <1>2 DEF ReadGz, Id, TypeOK
<1>3. ASSUME NEW r \in Reader, ReadText(r) PROVE TypeOK'
  BY <1>3 DEF ReadText, TypeOK
<1>4. CASE EditQueued \/ EditMissed \/ EntryLost
  <2>1. dirty' \in {"clean", "queued", "missed"}
    BY <1>4 DEF EditQueued, EditMissed, EntryLost, TypeOK
  <2>2. source' \in Body /\ edits' \in 0..MaxEdits /\ faults' \in 0..MaxFaults
    BY <1>4 DEF EditQueued, EditMissed, EntryLost, Changes, TypeOK
  <2>3. UNCHANGED <<disk, loaded, hookv, victim, purge, stage, readers, stores, ages, hazards>>
    BY <1>4 DEF EditQueued, EditMissed, EntryLost, Changes
  <2> QED BY <2>1, <2>2, <2>3 DEF TypeOK
<1>5. CASE Age
  BY <1>5 DEF Age, TypeOK
<1>6. CASE WorkerKilled
  BY <1>6 DEF WorkerKilled, TypeOK
<1>7. ASSUME NEW r \in Reader, GzUnreadable(r) PROVE TypeOK'
  BY <1>7 DEF GzUnreadable, Id, TypeOK
<1> QED BY <1>1, <1>2, <1>3, <1>4, <1>5, <1>6, <1>7 DEF Rest

LEMMA NextKeepsTypes == TypeOK /\ [Next]_vars => TypeOK'
<1> SUFFICES ASSUME TypeOK, [Next]_vars PROVE TypeOK'
  OBVIOUS
<1>1. CASE UNCHANGED vars
  BY <1>1 DEF TypeOK, Present, vars, disk, hookv, readers, worker, bounds
<1>2. CASE \E h \in Hook : Store(h)
  BY <1>2, LoadKeepsTypes, SweepKeepsTypes, ProbeKeepsTypes, WriteKeepsTypes DEF Store
<1> QED BY <1>1, <1>2, EvictKeepsTypes, PurgeKeepsTypes, RestKeepsTypes DEF Next, Rest

\* Type correctness (skill_cache.ts): for any number of processes.
THEOREM TypeCorrect == Spec => []TypeOK
<1> QED BY InitialTypes, NextKeepsTypes, PTL DEF Spec
-----------------------------------------------------------------------------
(* What the three properties rest on.                                      *)

\* A stub has its body, and nobody is about to take it: whoever unlinks a .gz
\* has seen the text gone, and no hook is half way through storing it again.
StubHasBody ==
  hazards \cap {"swept", "reborn", "stuck"} = {} =>
    /\ \A id \in Id : txt[id] = "stub" => gz[id]
    /\ \A k \in Hook :
         pc[k] \in {"evictJson", "evictGz", "orphanGz"} => txt[victim[k]] # "stub"
    /\ stage = "gz" => txt[victim[Worker]] # "stub"
    /\ \A k \in Hook :
         pc[k] = "stub" => gz[own[k]] /\ ~TakenApart(own[k]) /\ ~Judged(own[k])

\* Where a reader missed the .gz there is no stub either.
MissIsTrue ==
  hazards \cap {"swept", "reborn", "late", "stuck", "unread"} = {} =>
    /\ misled = {}
    /\ \A r \in Reader : reading[r] # NoId => txt[reading[r]] # "stub"

\* A body that the skill no longer has is still to be looked at by the worker.
StaleIsListed ==
  dirty = "clean" /\ hazards \cap {"overtaken", "stuck", "crash"} = {} =>
    \A id \in Id :
      Present(id) /\ json[id] = "named" /\ id[2] # source =>
        \/ stage # "idle" /\ id \in purge
        \/ stage = "txt" /\ victim[Worker] = id

\* What an eviction counts is there.
CountIsTrue ==
  hazards \cap {"crowded", "swept", "reborn", "stuck"} = {} =>
    \A h \in Hook :
      /\ \A id \in weigh[h] : Present(id)
      /\ pc[h] \notin Evicting => weigh[h] = {}

LEMMA StoreKeepsStubs ==
  ASSUME TypeOK, StubHasBody, NEW h \in Hook, Store(h)
  PROVE  StubHasBody'
<1> USE Parameters
    DEF Goes, Sets, Fault, Flag, disk, hookv, readers, worker, bounds, TakenApart, Judged
<1>1. CASE Load(h)
  BY <1>1 DEF Load, TypeOK, StubHasBody
<1>2. CASE SweepText(h)
  BY <1>2 DEF SweepText, UnlinkTxt, Crowded, TypeOK, StubHasBody
<1>3. CASE SweepSidecar(h)
  BY <1>3 DEF SweepSidecar, TypeOK, StubHasBody
<1>4. CASE SweepEnds(h)
  BY <1>4 DEF SweepEnds, TypeOK, StubHasBody
<1>5. CASE Probe(h)
  BY <1>5 DEF Probe, Twins, TypeOK, StubHasBody
<1>6. CASE Check(h)
  BY <1>6 DEF Check, TypeOK, StubHasBody
<1>7. CASE ProbeMisses(h)
  BY <1>7 DEF ProbeMisses, TypeOK, StubHasBody
<1>8. CASE WriteText(h)
  BY <1>8 DEF WriteText, Overtaken, TypeOK, StubHasBody
<1>9. CASE WriteGz(h)
  <2> SUFFICES ASSUME hazards' \cap {"swept", "reborn", "stuck"} = {}
               PROVE  StubHasBody'
    BY DEF StubHasBody
  <2>1. hazards \cap {"swept", "reborn", "stuck"} = {} /\ ~TakenApart(own[h]) /\ ~Judged(own[h])
    BY <1>9 DEF WriteGz
  <2>2. /\ pc' = [pc EXCEPT ![h] = "stub"] /\ gz' = [gz EXCEPT ![own[h]] = TRUE]
        /\ UNCHANGED <<txt, own, victim, stage>> /\ own[h] \in Id
    BY <1>9 DEF WriteGz, TypeOK
  <2>3. \A id : TakenApart(id)' => TakenApart(id)
    BY <2>2 DEF TypeOK
  <2>4. \A id : Judged(id)' => Judged(id)
    BY <2>2 DEF TypeOK
  <2>5. \A k \in Hook : pc'[k] = "stub" => gz'[own[k]] /\ ~TakenApart(own[k]) /\ ~Judged(own[k])
    BY <2>1, <2>2 DEF TypeOK, StubHasBody
  <2>6. \A k \in Hook : pc'[k] \in {"evictJson", "evictGz", "orphanGz"} => txt[victim[k]] # "stub"
    BY <2>1, <2>2 DEF TypeOK, StubHasBody
  <2>7. /\ \A id \in Id : txt[id] = "stub" => gz'[id]
        /\ stage = "gz" => txt[victim[Worker]] # "stub"
    BY <2>1, <2>2 DEF TypeOK, StubHasBody
  <2> HIDE DEF TakenApart, Judged
  <2> QED BY <2>2, <2>3, <2>4, <2>5, <2>6, <2>7 DEF StubHasBody
<1>10. CASE WriteStub(h)
  BY <1>10 DEF WriteStub, Overtaken, TypeOK, StubHasBody
<1>11. CASE WriteFails(h)
  BY <1>11 DEF WriteFails, Ends, TypeOK, StubHasBody
<1>12. CASE WriteSidecar(h)
  BY <1>12 DEF WriteSidecar, Overtaken, TypeOK, StubHasBody
<1>13. CASE Record(h)
  BY <1>13 DEF Record, Ends, TypeOK, StubHasBody
<1> QED BY <1>1, <1>2, <1>3, <1>4, <1>5, <1>6, <1>7, <1>8, <1>9, <1>10, <1>11, <1>12, <1>13 DEF Store

LEMMA EvictKeepsStubs ==
  ASSUME TypeOK, StubHasBody, NEW h \in Hook, Evict(h)
  PROVE  StubHasBody'
<1> USE Parameters
    DEF Goes, Sets, Fault, Flag, disk, hookv, readers, worker, bounds, TakenApart, Judged
<1>1. CASE EvictLists(h)
  BY <1>1 DEF EvictLists, TypeOK, StubHasBody
<1>2. CASE JudgeOrphan(h)
  <2> SUFFICES ASSUME hazards' \cap {"swept", "reborn", "stuck"} = {}
               PROVE  StubHasBody'
    BY DEF StubHasBody
  <2>1. PICK id \in Id :
          /\ ~Present(id) /\ Sets(h, id)
          /\ \/ gz[id] /\ Goes(h, "orphans", "orphanGz")
             \/ HasSidecar(id) /\ Goes(h, "orphans", "orphanJson")
          /\ hazards' = hazards \cup Flag("swept", gz[id] /\ HalfWritten(id))
    BY <1>2 DEF JudgeOrphan
  <2>2. hazards \cap {"swept", "reborn", "stuck"} = {} /\ ~(gz[id] /\ HalfWritten(id))
    BY <2>1
  <2>3. /\ UNCHANGED <<txt, gz, own, stage>> /\ victim' = [victim EXCEPT ![h] = id]
        /\ pc' = [pc EXCEPT ![h] = "orphanGz"] \/ pc' = [pc EXCEPT ![h] = "orphanJson"]
    BY <1>2, <2>1 DEF JudgeOrphan
  <2>4. \A k \in Hook : pc'[k] = "stub" => pc[k] = "stub" /\ own[k] # id
    BY <2>2, <2>3 DEF TypeOK, StubHasBody, HalfWritten
  <2>5. \A i : TakenApart(i)' => TakenApart(i)
    BY <2>3 DEF TypeOK
  <2>6. \A i : i # id /\ Judged(i)' => Judged(i)
    BY <2>3 DEF TypeOK
  <2>7. \A k \in Hook : pc'[k] \in {"evictJson", "evictGz", "orphanGz"} => txt[victim'[k]] # "stub"
    BY <2>1, <2>2, <2>3 DEF TypeOK, StubHasBody, Present
  <2>8. stage = "gz" => txt[victim'[Worker]] # "stub"
    BY <2>2, <2>3 DEF TypeOK, StubHasBody
  <2> HIDE DEF TakenApart, Judged
  <2> QED BY <2>2, <2>3, <2>4, <2>5, <2>6, <2>7, <2>8 DEF StubHasBody
<1>3. CASE UnlinkOrphan(h)
  BY <1>3 DEF UnlinkOrphan, UnlinkGz, TypeOK, StubHasBody
<1>4. CASE OrphansEnd(h)
  BY <1>4 DEF OrphansEnd, TypeOK, StubHasBody
<1>5. CASE EvictText(h)
  <2> SUFFICES ASSUME hazards' \cap {"swept", "reborn", "stuck"} = {}
               PROVE  StubHasBody'
    BY DEF StubHasBody
  <2>1. PICK id \in Evictable(h) :
          \/ /\ UnlinkTxt(id) /\ Sets(h, id)
             /\ hazards' = hazards \cup Crowded(id, h) \cup Flag("reborn", HalfWritten(id))
             /\ pc' = [pc EXCEPT ![h] = "evictJson"]
          \/ UNCHANGED <<txt, victim, pc, hazards>>
    BY <1>5 DEF EvictText
  <2>2. UNCHANGED <<gz, own, stage>> /\ id \in Id /\ pc[h] = "oldest"
    BY <1>5 DEF EvictText, Evictable, TypeOK
  <2>3. CASE UNCHANGED <<txt, victim, pc, hazards>>
    BY <2>2, <2>3 DEF StubHasBody
  <2>4. CASE /\ UnlinkTxt(id) /\ Sets(h, id) /\ pc' = [pc EXCEPT ![h] = "evictJson"]
             /\ hazards' = hazards \cup Crowded(id, h) \cup Flag("reborn", HalfWritten(id))
    <3>1. hazards \cap {"swept", "reborn", "stuck"} = {} /\ ~HalfWritten(id)
      BY <2>4
    <3>2. \A k \in Hook : pc'[k] = "stub" => pc[k] = "stub" /\ own[k] # id
      BY <2>2, <2>4, <3>1 DEF TypeOK, HalfWritten
    <3>3. \A i : i # id /\ TakenApart(i)' => TakenApart(i)
      BY <2>2, <2>4 DEF TypeOK
    <3>4. \A i : Judged(i)' => Judged(i)
      BY <2>2, <2>4 DEF TypeOK
    <3>5. \A i \in Id : txt'[i] = "stub" => txt[i] = "stub" /\ i # id
      BY <2>2, <2>4 DEF TypeOK, UnlinkTxt
    <3>6. \A k \in Hook : pc'[k] \in {"evictJson", "evictGz", "orphanGz"} => txt'[victim'[k]] # "stub"
      BY <2>2, <2>4, <3>1 DEF TypeOK, StubHasBody, UnlinkTxt
    <3>7. stage = "gz" => txt'[victim'[Worker]] # "stub"
      BY <2>2, <2>4, <3>1 DEF TypeOK, StubHasBody, UnlinkTxt
    <3> HIDE DEF TakenApart, Judged
    <3> QED BY <2>2, <3>1, <3>2, <3>3, <3>4, <3>5, <3>6, <3>7 DEF StubHasBody
  <2> QED BY <2>1, <2>3, <2>4
<1>6. CASE EvictSidecar(h)
  BY <1>6 DEF EvictSidecar, TypeOK, StubHasBody
<1>7. CASE EvictGz(h)
  BY <1>7 DEF EvictGz, UnlinkGz, TypeOK, StubHasBody
<1>8. CASE UnlinkFails(h)
  BY <1>8 DEF UnlinkFails, TypeOK, StubHasBody
<1>9. CASE EvictEnds(h)
  BY <1>9 DEF EvictEnds, TypeOK, StubHasBody
<1>10. CASE ListingFails(h)
  BY <1>10 DEF ListingFails, Counted, TypeOK, StubHasBody
<1> QED BY <1>1, <1>2, <1>3, <1>4, <1>5, <1>6, <1>7, <1>8, <1>9, <1>10 DEF Evict

LEMMA PurgeKeepsStubs ==
  ASSUME TypeOK, StubHasBody, Purge
  PROVE  StubHasBody'
<1> USE Parameters
    DEF Goes, Sets, Fault, Flag, disk, hookv, readers, worker, bounds, TakenApart, Judged
<1>1. CASE PurgeLists
  BY <1>1 DEF PurgeLists, TypeOK, StubHasBody
<1>2. CASE PurgeLooks
  <2> SUFFICES ASSUME hazards' \cap {"swept", "reborn", "stuck"} = {}
               PROVE  StubHasBody'
    BY DEF StubHasBody
  <2>1. PICK id \in purge :
          \/ /\ Sets(Worker, id) /\ stage' = "txt"
             /\ hazards' = hazards \cup Flag("reborn", HalfWritten(id))
          \/ UNCHANGED <<victim, stage, hazards>>
    BY <1>2 DEF PurgeLooks
  <2>2. UNCHANGED <<txt, gz, own, pc>> /\ stage = "look"
    BY <1>2 DEF PurgeLooks
  <2>3. CASE UNCHANGED <<victim, stage, hazards>>
    BY <2>2, <2>3 DEF StubHasBody
  <2>4. CASE /\ Sets(Worker, id) /\ stage' = "txt"
             /\ hazards' = hazards \cup Flag("reborn", HalfWritten(id))
    <3>1. hazards \cap {"swept", "reborn", "stuck"} = {} /\ ~HalfWritten(id)
      BY <2>4
    <3>2. victim' = [victim EXCEPT ![Worker] = id] /\ \A k \in Hook : victim'[k] = victim[k]
      BY <2>4 DEF TypeOK
    <3>3. \A i : i # id /\ TakenApart(i)' => TakenApart(i)
      BY <2>2, <2>4, <3>2 DEF TypeOK
    <3>4. \A i : Judged(i)' => Judged(i)
      BY <2>2, <3>2
    <3>5. \A k \in Hook : pc[k] = "stub" => own[k] # id
      BY <3>1 DEF HalfWritten
    <3> HIDE DEF TakenApart, Judged
    <3> QED BY <2>2, <2>4, <3>1, <3>2, <3>3, <3>4, <3>5 DEF StubHasBody
  <2> QED BY <2>1, <2>3, <2>4
<1>3. CASE PurgeText
  BY <1>3 DEF PurgeText, UnlinkTxt, Crowded, TypeOK, StubHasBody
<1>4. CASE PurgeGz
  BY <1>4 DEF PurgeGz, UnlinkGz, TypeOK, StubHasBody
<1>5. CASE PurgeSidecar
  BY <1>5 DEF PurgeSidecar, TypeOK, StubHasBody
<1>6. CASE PurgeFails
  BY <1>6 DEF PurgeFails, TypeOK, StubHasBody
<1>7. CASE PurgeEnds
  BY <1>7 DEF PurgeEnds, TypeOK, StubHasBody
<1>8. CASE PurgeMisses
  BY <1>8 DEF PurgeMisses, TypeOK, StubHasBody
<1> QED BY <1>1, <1>2, <1>3, <1>4, <1>5, <1>6, <1>7, <1>8 DEF Purge

LEMMA RestKeepsStubs ==
  ASSUME TypeOK, StubHasBody, Rest \/ UNCHANGED vars
  PROVE  StubHasBody'
<1> USE Parameters
    DEF Goes, Sets, Fault, Flag, disk, hookv, readers, worker, bounds, TakenApart, Judged
<1>1. ASSUME NEW h \in Hook, Killed(h) PROVE StubHasBody'
  BY <1>1 DEF Killed, Ends, TypeOK, StubHasBody
<1>2. ASSUME NEW r \in Reader, ReadGz(r) PROVE StubHasBody'
  BY <1>2 DEF ReadGz, Id, TypeOK, StubHasBody
<1>3. ASSUME NEW r \in Reader, ReadText(r) PROVE StubHasBody'
  BY <1>3 DEF ReadText, TypeOK, StubHasBody
<1>4. CASE EditQueued \/ EditMissed \/ EntryLost
  BY <1>4 DEF EditQueued, EditMissed, EntryLost, Changes, TypeOK, StubHasBody
<1>5. CASE Age
  BY <1>5 DEF Age, TypeOK, StubHasBody
<1>6. CASE WorkerKilled
  BY <1>6 DEF WorkerKilled, TypeOK, StubHasBody
<1>7. CASE UNCHANGED vars
  BY <1>7 DEF vars, StubHasBody
<1>8. ASSUME NEW r \in Reader, GzUnreadable(r) PROVE StubHasBody'
  BY <1>8 DEF GzUnreadable, Id, TypeOK, StubHasBody
<1> QED BY <1>1, <1>2, <1>3, <1>4, <1>5, <1>6, <1>7, <1>8 DEF Rest

LEMMA StoreKeepsMisses ==
  ASSUME TypeOK, MissIsTrue, NEW h \in Hook, Store(h)
  PROVE  MissIsTrue'
<1> USE Parameters
    DEF Goes, Sets, Fault, Flag, disk, hookv, readers, worker, bounds
<1>1. CASE Load(h)
  BY <1>1 DEF Load, TypeOK, MissIsTrue, Awaited
<1>2. CASE SweepText(h)
  BY <1>2 DEF SweepText, UnlinkTxt, Crowded, TypeOK, MissIsTrue, Awaited
<1>3. CASE SweepSidecar(h)
  BY <1>3 DEF SweepSidecar, UnlinkJson, TypeOK, MissIsTrue, Awaited
<1>4. CASE SweepEnds(h)
  BY <1>4 DEF SweepEnds, TypeOK, MissIsTrue, Awaited
<1>5. CASE Probe(h)
  BY <1>5 DEF Probe, Twins, TypeOK, MissIsTrue, Awaited
<1>6. CASE Check(h)
  BY <1>6 DEF Check, TypeOK, MissIsTrue, Awaited
<1>7. CASE ProbeMisses(h)
  BY <1>7 DEF ProbeMisses, TypeOK, MissIsTrue, Awaited
<1>8. CASE WriteText(h)
  BY <1>8 DEF WriteText, Overtaken, TypeOK, MissIsTrue, Awaited
<1>9. CASE WriteGz(h)
  BY <1>9 DEF WriteGz, TypeOK, MissIsTrue, Awaited
<1>10. CASE WriteStub(h)
  BY <1>10 DEF WriteStub, Overtaken, TypeOK, MissIsTrue, Awaited
<1>11. CASE WriteFails(h)
  BY <1>11 DEF WriteFails, Ends, TypeOK, MissIsTrue, Awaited
<1>12. CASE WriteSidecar(h)
  BY <1>12 DEF WriteSidecar, Overtaken, TypeOK, MissIsTrue, Awaited
<1>13. CASE Record(h)
  BY <1>13 DEF Record, Ends, TypeOK, MissIsTrue, Awaited
<1> QED BY <1>1, <1>2, <1>3, <1>4, <1>5, <1>6, <1>7, <1>8, <1>9, <1>10, <1>11, <1>12, <1>13 DEF Store

LEMMA EvictKeepsMisses ==
  ASSUME TypeOK, MissIsTrue, NEW h \in Hook, Evict(h)
  PROVE  MissIsTrue'
<1> USE Parameters
    DEF Goes, Sets, Fault, Flag, disk, hookv, readers, worker, bounds
<1>1. CASE EvictLists(h)
  BY <1>1 DEF EvictLists, TypeOK, MissIsTrue, Awaited
<1>2. CASE JudgeOrphan(h)
  BY <1>2 DEF JudgeOrphan, TypeOK, MissIsTrue, Awaited
<1>3. CASE UnlinkOrphan(h)
  BY <1>3 DEF UnlinkOrphan, UnlinkGz, UnlinkJson, TypeOK, MissIsTrue, Awaited
<1>4. CASE OrphansEnd(h)
  BY <1>4 DEF OrphansEnd, TypeOK, MissIsTrue, Awaited
<1>5. CASE EvictText(h)
  BY <1>5 DEF EvictText, Evictable, UnlinkTxt, Crowded, TypeOK, MissIsTrue, Awaited
<1>6. CASE EvictSidecar(h)
  BY <1>6 DEF EvictSidecar, UnlinkJson, TypeOK, MissIsTrue, Awaited
<1>7. CASE EvictGz(h)
  BY <1>7 DEF EvictGz, UnlinkGz, TypeOK, MissIsTrue, Awaited
<1>8. CASE UnlinkFails(h)
  BY <1>8 DEF UnlinkFails, TypeOK, MissIsTrue, Awaited
<1>9. CASE EvictEnds(h)
  BY <1>9 DEF EvictEnds, TypeOK, MissIsTrue, Awaited
<1>10. CASE ListingFails(h)
  BY <1>10 DEF ListingFails, Counted, TypeOK, MissIsTrue, Awaited
<1> QED BY <1>1, <1>2, <1>3, <1>4, <1>5, <1>6, <1>7, <1>8, <1>9, <1>10 DEF Evict

LEMMA PurgeKeepsMisses ==
  ASSUME TypeOK, MissIsTrue, Purge
  PROVE  MissIsTrue'
<1> USE Parameters
    DEF Goes, Sets, Fault, Flag, disk, hookv, readers, worker, bounds
<1>1. CASE PurgeLists
  BY <1>1 DEF PurgeLists, TypeOK, MissIsTrue, Awaited
<1>2. CASE PurgeLooks
  BY <1>2 DEF PurgeLooks, TypeOK, MissIsTrue, Awaited
<1>3. CASE PurgeText
  BY <1>3 DEF PurgeText, UnlinkTxt, Crowded, TypeOK, MissIsTrue, Awaited
<1>4. CASE PurgeGz
  BY <1>4 DEF PurgeGz, UnlinkGz, TypeOK, MissIsTrue, Awaited
<1>5. CASE PurgeSidecar
  BY <1>5 DEF PurgeSidecar, UnlinkJson, TypeOK, MissIsTrue, Awaited
<1>6. CASE PurgeFails
  BY <1>6 DEF PurgeFails, TypeOK, MissIsTrue, Awaited
<1>7. CASE PurgeEnds
  BY <1>7 DEF PurgeEnds, TypeOK, MissIsTrue, Awaited
<1>8. CASE PurgeMisses
  BY <1>8 DEF PurgeMisses, TypeOK, MissIsTrue, Awaited
<1> QED BY <1>1, <1>2, <1>3, <1>4, <1>5, <1>6, <1>7, <1>8 DEF Purge

LEMMA RestKeepsMisses ==
  ASSUME TypeOK, StubHasBody, MissIsTrue, Rest \/ UNCHANGED vars
  PROVE  MissIsTrue'
<1> USE Parameters
    DEF Goes, Sets, Fault, Flag, disk, hookv, readers, worker, bounds
<1>1. ASSUME NEW h \in Hook, Killed(h) PROVE MissIsTrue'
  BY <1>1 DEF Killed, Ends, TypeOK, MissIsTrue, Awaited
<1>2. ASSUME NEW r \in Reader, ReadGz(r) PROVE MissIsTrue'
  <2>1. PICK id \in Id : ~gz[id] /\ reading' = [reading EXCEPT ![r] = id]
    BY <1>2 DEF ReadGz, Id
  <2>2. UNCHANGED <<txt, misled, hazards>>
    BY <1>2 DEF ReadGz
  <2>3. hazards \cap {"swept", "reborn", "late", "stuck", "unread"} = {} => txt[id] # "stub"
    BY <2>1 DEF StubHasBody
  <2> QED BY <2>1, <2>2, <2>3 DEF TypeOK, MissIsTrue
<1>3. ASSUME NEW r \in Reader, ReadText(r) PROVE MissIsTrue'
  BY <1>3 DEF ReadText, TypeOK, MissIsTrue, Awaited
<1>4. CASE EditQueued \/ EditMissed \/ EntryLost
  BY <1>4 DEF EditQueued, EditMissed, EntryLost, Changes, TypeOK, MissIsTrue, Awaited
<1>5. CASE Age
  BY <1>5 DEF Age, TypeOK, MissIsTrue, Awaited
<1>6. CASE WorkerKilled
  BY <1>6 DEF WorkerKilled, TypeOK, MissIsTrue, Awaited
<1>7. CASE UNCHANGED vars
  BY <1>7 DEF vars, MissIsTrue, Awaited
<1>8. ASSUME NEW r \in Reader, GzUnreadable(r) PROVE MissIsTrue'
  BY <1>8 DEF GzUnreadable, Id, TypeOK, MissIsTrue, Awaited
<1> QED BY <1>1, <1>2, <1>3, <1>4, <1>5, <1>6, <1>7, <1>8 DEF Rest

LEMMA StoreKeepsLists ==
  ASSUME TypeOK, StaleIsListed, NEW h \in Hook, Store(h)
  PROVE  StaleIsListed'
<1> USE Parameters
    DEF Goes, Sets, Fault, Flag, disk, hookv, readers, worker, bounds
<1>1. CASE Load(h)
  BY <1>1 DEF Load, TypeOK, StaleIsListed, Present
<1>2. CASE SweepText(h)
  BY <1>2 DEF SweepText, UnlinkTxt, Crowded, TypeOK, StaleIsListed, Present
<1>3. CASE SweepSidecar(h)
  BY <1>3 DEF SweepSidecar, UnlinkJson, TypeOK, StaleIsListed, Present
<1>4. CASE SweepEnds(h)
  BY <1>4 DEF SweepEnds, TypeOK, StaleIsListed, Present
<1>5. CASE Probe(h)
  BY <1>5 DEF Probe, Twins, TypeOK, StaleIsListed, Present
<1>6. CASE Check(h)
  BY <1>6 DEF Check, TypeOK, StaleIsListed, Present
<1>7. CASE ProbeMisses(h)
  BY <1>7 DEF ProbeMisses, TypeOK, StaleIsListed, Present
<1>8. CASE WriteText(h)
  BY <1>8 DEF WriteText, Overtaken, TypeOK, StaleIsListed, Present
<1>9. CASE WriteGz(h)
  BY <1>9 DEF WriteGz, TypeOK, StaleIsListed, Present
<1>10. CASE WriteStub(h)
  BY <1>10 DEF WriteStub, Overtaken, TypeOK, StaleIsListed, Present
<1>11. CASE WriteFails(h)
  BY <1>11 DEF WriteFails, Ends, TypeOK, StaleIsListed, Present
<1>12. CASE WriteSidecar(h)
  <2>1. /\ UNCHANGED <<txt, source, dirty, purge, stage, victim>> /\ hazards \subseteq hazards'
        /\ own[h] \in Id
    BY <1>12 DEF WriteSidecar, TypeOK
  <2>2. CASE json' = json
    BY <2>1, <2>2 DEF StaleIsListed, Present
  <2>3. CASE /\ \E path \in SourcePath : json' = [json EXCEPT ![own[h]] = path]
             /\ hazards' = hazards \cup Overtaken(h)
    BY <2>1, <2>3 DEF Overtaken, TypeOK, StaleIsListed, Present
  <2> QED BY <1>12, <2>2, <2>3 DEF WriteSidecar
<1>13. CASE Record(h)
  BY <1>13 DEF Record, Ends, TypeOK, StaleIsListed, Present
<1> QED BY <1>1, <1>2, <1>3, <1>4, <1>5, <1>6, <1>7, <1>8, <1>9, <1>10, <1>11, <1>12, <1>13 DEF Store

LEMMA EvictKeepsLists ==
  ASSUME TypeOK, StaleIsListed, NEW h \in Hook, Evict(h)
  PROVE  StaleIsListed'
<1> USE Parameters
    DEF Goes, Sets, Fault, Flag, disk, hookv, readers, worker, bounds
<1>1. CASE EvictLists(h)
  BY <1>1 DEF EvictLists, TypeOK, StaleIsListed, Present
<1>2. CASE JudgeOrphan(h)
  BY <1>2 DEF JudgeOrphan, TypeOK, StaleIsListed, Present
<1>3. CASE UnlinkOrphan(h)
  BY <1>3 DEF UnlinkOrphan, UnlinkGz, UnlinkJson, TypeOK, StaleIsListed, Present
<1>4. CASE OrphansEnd(h)
  BY <1>4 DEF OrphansEnd, TypeOK, StaleIsListed, Present
<1>5. CASE EvictText(h)
  BY <1>5 DEF EvictText, Evictable, UnlinkTxt, Crowded, TypeOK, StaleIsListed, Present
<1>6. CASE EvictSidecar(h)
  BY <1>6 DEF EvictSidecar, UnlinkJson, TypeOK, StaleIsListed, Present
<1>7. CASE EvictGz(h)
  BY <1>7 DEF EvictGz, UnlinkGz, TypeOK, StaleIsListed, Present
<1>8. CASE UnlinkFails(h)
  BY <1>8 DEF UnlinkFails, TypeOK, StaleIsListed, Present
<1>9. CASE EvictEnds(h)
  BY <1>9 DEF EvictEnds, TypeOK, StaleIsListed, Present
<1>10. CASE ListingFails(h)
  BY <1>10 DEF ListingFails, Counted, TypeOK, StaleIsListed, Present
<1> QED BY <1>1, <1>2, <1>3, <1>4, <1>5, <1>6, <1>7, <1>8, <1>9, <1>10 DEF Evict

LEMMA PurgeKeepsLists ==
  ASSUME TypeOK, StaleIsListed, Purge
  PROVE  StaleIsListed'
<1> USE Parameters
    DEF Goes, Sets, Fault, Flag, disk, hookv, readers, worker, bounds
<1>1. CASE PurgeLists
  BY <1>1 DEF PurgeLists, TypeOK, StaleIsListed, Present
<1>2. CASE PurgeLooks
  <2>1. PICK id \in purge :
          /\ purge' = purge \ {id}
          /\ \/ Sets(Worker, id) /\ stage' = "txt"
             \/ json[id] # "named" /\ stage' = stage
    BY <1>2 DEF PurgeLooks, NamesSource
  <2>2. /\ UNCHANGED <<txt, json, source, dirty>> /\ stage = "look"
        /\ hazards \subseteq hazards'
    BY <1>2 DEF PurgeLooks
  <2>3. stage' = "txt" => victim'[Worker] = id
    BY <2>1, <2>2 DEF TypeOK
  <2> QED BY <2>1, <2>2, <2>3 DEF TypeOK, StaleIsListed, Present
<1>3. CASE PurgeText
  BY <1>3 DEF PurgeText, UnlinkTxt, Crowded, TypeOK, StaleIsListed, Present
<1>4. CASE PurgeGz
  BY <1>4 DEF PurgeGz, UnlinkGz, TypeOK, StaleIsListed, Present
<1>5. CASE PurgeSidecar
  BY <1>5 DEF PurgeSidecar, UnlinkJson, TypeOK, StaleIsListed, Present
<1>6. CASE PurgeFails
  BY <1>6 DEF PurgeFails, TypeOK, StaleIsListed, Present
<1>7. CASE PurgeEnds
  BY <1>7 DEF PurgeEnds, TypeOK, StaleIsListed, Present
<1>8. CASE PurgeMisses
  BY <1>8 DEF PurgeMisses, TypeOK, StaleIsListed, Present
<1> QED BY <1>1, <1>2, <1>3, <1>4, <1>5, <1>6, <1>7, <1>8 DEF Purge

LEMMA RestKeepsLists ==
  ASSUME TypeOK, StaleIsListed, Rest \/ UNCHANGED vars
  PROVE  StaleIsListed'
<1> USE Parameters
    DEF Goes, Sets, Fault, Flag, disk, hookv, readers, worker, bounds
<1>1. ASSUME NEW h \in Hook, Killed(h) PROVE StaleIsListed'
  BY <1>1 DEF Killed, Ends, TypeOK, StaleIsListed, Present
<1>2. ASSUME NEW r \in Reader, ReadGz(r) PROVE StaleIsListed'
  BY <1>2 DEF ReadGz, Id, TypeOK, StaleIsListed, Present
<1>3. ASSUME NEW r \in Reader, ReadText(r) PROVE StaleIsListed'
  BY <1>3 DEF ReadText, TypeOK, StaleIsListed, Present
<1>4. CASE EditQueued \/ EditMissed \/ EntryLost
  BY <1>4 DEF EditQueued, EditMissed, EntryLost, Changes, TypeOK, StaleIsListed, Present
<1>5. CASE Age
  BY <1>5 DEF Age, TypeOK, StaleIsListed, Present
<1>6. CASE WorkerKilled
  BY <1>6 DEF WorkerKilled, TypeOK, StaleIsListed, Present
<1>7. CASE UNCHANGED vars
  BY <1>7 DEF vars, StaleIsListed, Present
<1>8. ASSUME NEW r \in Reader, GzUnreadable(r) PROVE StaleIsListed'
  BY <1>8 DEF GzUnreadable, Id, TypeOK, StaleIsListed, Present
<1> QED BY <1>1, <1>2, <1>3, <1>4, <1>5, <1>6, <1>7, <1>8 DEF Rest

LEMMA StoreKeepsCounts ==
  ASSUME TypeOK, CountIsTrue, NEW h \in Hook, Store(h)
  PROVE  CountIsTrue'
<1> USE Parameters
    DEF Goes, Sets, Fault, Flag, disk, hookv, readers, worker, bounds
<1>1. CASE Load(h)
  BY <1>1 DEF Load, TypeOK, CountIsTrue, Present, Counted, Evicting, CountingOn, Without
<1>2. CASE SweepText(h)
  <2>1. PICK id \in old : UnlinkTxt(id) /\ hazards' = hazards \cup Crowded(id, h)
    BY <1>2 DEF SweepText
  <2>2. /\ pc[h] = "sweep" /\ pc' = [pc EXCEPT ![h] = "sweepJson"]
        /\ UNCHANGED weigh /\ hazards \subseteq hazards' /\ id \in Id
    BY <1>2, <2>1 DEF SweepText, TypeOK
  <2>3. "crowded" \notin hazards' => \A k \in Hook \ {h} : id \notin weigh[k]
    BY <2>1 DEF Crowded, CountingOn
  <2> QED BY <2>1, <2>2, <2>3 DEF UnlinkTxt, TypeOK, CountIsTrue, Present, Evicting
<1>3. CASE SweepSidecar(h)
  BY <1>3 DEF SweepSidecar, UnlinkJson, TypeOK, CountIsTrue, Present, Counted, Evicting, CountingOn, Without
<1>4. CASE SweepEnds(h)
  BY <1>4 DEF SweepEnds, TypeOK, CountIsTrue, Present, Counted, Evicting, CountingOn, Without
<1>5. CASE Probe(h)
  BY <1>5 DEF Probe, Twins, TypeOK, CountIsTrue, Present, Counted, Evicting, CountingOn, Without
<1>6. CASE Check(h)
  BY <1>6 DEF Check, TypeOK, CountIsTrue, Present, Counted, Evicting, CountingOn, Without
<1>7. CASE ProbeMisses(h)
  BY <1>7 DEF ProbeMisses, TypeOK, CountIsTrue, Present, Counted, Evicting, CountingOn, Without
<1>8. CASE WriteText(h)
  BY <1>8 DEF WriteText, Overtaken, TypeOK, CountIsTrue, Present, Counted, Evicting, CountingOn, Without
<1>9. CASE WriteGz(h)
  BY <1>9 DEF WriteGz, TypeOK, CountIsTrue, Present, Counted, Evicting, CountingOn, Without
<1>10. CASE WriteStub(h)
  BY <1>10 DEF WriteStub, Overtaken, TypeOK, CountIsTrue, Present, Counted, Evicting, CountingOn, Without
<1>11. CASE WriteFails(h)
  BY <1>11 DEF WriteFails, Ends, TypeOK, CountIsTrue, Present, Counted, Evicting, CountingOn, Without
<1>12. CASE WriteSidecar(h)
  BY <1>12 DEF WriteSidecar, Overtaken, TypeOK, CountIsTrue, Present, Counted, Evicting, CountingOn, Without
<1>13. CASE Record(h)
  BY <1>13 DEF Record, Ends, TypeOK, CountIsTrue, Present, Counted, Evicting, CountingOn, Without
<1> QED BY <1>1, <1>2, <1>3, <1>4, <1>5, <1>6, <1>7, <1>8, <1>9, <1>10, <1>11, <1>12, <1>13 DEF Store

LEMMA EvictKeepsCounts ==
  ASSUME TypeOK, CountIsTrue, NEW h \in Hook, Evict(h)
  PROVE  CountIsTrue'
<1> USE Parameters
    DEF Goes, Sets, Fault, Flag, disk, hookv, readers, worker, bounds
<1>1. CASE EvictLists(h)
  BY <1>1 DEF EvictLists, TypeOK, CountIsTrue, Present, Counted, Evicting, CountingOn, Without
<1>2. CASE JudgeOrphan(h)
  BY <1>2 DEF JudgeOrphan, TypeOK, CountIsTrue, Present, Counted, Evicting, CountingOn, Without
<1>3. CASE UnlinkOrphan(h)
  BY <1>3 DEF UnlinkOrphan, UnlinkGz, UnlinkJson, TypeOK, CountIsTrue, Present, Counted, Evicting, CountingOn, Without
<1>4. CASE OrphansEnd(h)
  BY <1>4 DEF OrphansEnd, TypeOK, CountIsTrue, Present, Counted, Evicting, CountingOn, Without
<1>5. CASE EvictText(h)
  <2>1. PICK id \in Evictable(h) :
          \/ /\ UnlinkTxt(id) /\ pc' = [pc EXCEPT ![h] = "evictJson"]
             /\ hazards' = hazards \cup Crowded(id, h) \cup Flag("reborn", HalfWritten(id))
             /\ weigh' = [weigh EXCEPT ![h] = Without(@, id)]
          \/ UNCHANGED <<txt, weigh, pc, hazards>>
    BY <1>5 DEF EvictText
  <2>2. CASE UNCHANGED <<txt, weigh, pc, hazards>>
    BY <2>2 DEF CountIsTrue, Present
  <2>3. CASE /\ UnlinkTxt(id) /\ pc' = [pc EXCEPT ![h] = "evictJson"]
             /\ hazards' = hazards \cup Crowded(id, h) \cup Flag("reborn", HalfWritten(id))
             /\ weigh' = [weigh EXCEPT ![h] = Without(@, id)]
    <3>1. id \in Id /\ hazards \subseteq hazards' /\ txt' = [txt EXCEPT ![id] = "none"]
      BY <2>3 DEF Evictable, TypeOK, UnlinkTxt
    <3>2. "crowded" \notin hazards' => \A k \in Hook \ {h} : id \notin weigh[k]
      BY <2>3 DEF Crowded, CountingOn
    <3>3. \A k \in Hook : weigh'[k] \subseteq weigh[k] /\ (k = h => id \notin weigh'[k])
      BY <2>3 DEF TypeOK, Without
    <3>4. \A k \in Hook : pc'[k] \notin Evicting => pc[k] \notin Evicting
      BY <2>3 DEF TypeOK, Evicting
    <3> QED BY <3>1, <3>2, <3>3, <3>4 DEF TypeOK, CountIsTrue, Present
  <2> QED BY <2>1, <2>2, <2>3
<1>6. CASE EvictSidecar(h)
  BY <1>6 DEF EvictSidecar, UnlinkJson, TypeOK, CountIsTrue, Present, Counted, Evicting, CountingOn, Without
<1>7. CASE EvictGz(h)
  BY <1>7 DEF EvictGz, UnlinkGz, TypeOK, CountIsTrue, Present, Counted, Evicting, CountingOn, Without
<1>8. CASE UnlinkFails(h)
  BY <1>8 DEF UnlinkFails, TypeOK, CountIsTrue, Present, Counted, Evicting, CountingOn, Without
<1>9. CASE EvictEnds(h)
  BY <1>9 DEF EvictEnds, TypeOK, CountIsTrue, Present, Counted, Evicting, CountingOn, Without
<1>10. CASE ListingFails(h)
  BY <1>10 DEF ListingFails, TypeOK, CountIsTrue, Present, Counted, Evicting, CountingOn, Without
<1> QED BY <1>1, <1>2, <1>3, <1>4, <1>5, <1>6, <1>7, <1>8, <1>9, <1>10 DEF Evict

LEMMA PurgeKeepsCounts ==
  ASSUME TypeOK, CountIsTrue, Purge
  PROVE  CountIsTrue'
<1> USE Parameters
    DEF Goes, Sets, Fault, Flag, disk, hookv, readers, worker, bounds
<1>1. CASE PurgeLists
  BY <1>1 DEF PurgeLists, TypeOK, CountIsTrue, Present, Counted, Evicting, CountingOn, Without
<1>2. CASE PurgeLooks
  BY <1>2 DEF PurgeLooks, TypeOK, CountIsTrue, Present, Counted, Evicting, CountingOn, Without
<1>3. CASE PurgeText
  <2> DEFINE id == victim[Worker]
  <2>1. /\ id \in Id /\ UnlinkTxt(id) /\ hazards' = hazards \cup Crowded(id, Worker)
        /\ UNCHANGED <<pc, weigh>>
    BY <1>3 DEF PurgeText, TypeOK
  <2>2. "crowded" \notin hazards' => \A k \in Hook : id \notin weigh[k]
    BY <2>1 DEF Crowded, CountingOn
  <2>3. hazards \subseteq hazards' /\ txt' = [txt EXCEPT ![id] = "none"]
    BY <2>1 DEF UnlinkTxt
  <2> HIDE DEF id
  <2> QED BY <2>1, <2>2, <2>3 DEF TypeOK, CountIsTrue, Present, Evicting
<1>4. CASE PurgeGz
  BY <1>4 DEF PurgeGz, UnlinkGz, TypeOK, CountIsTrue, Present, Counted, Evicting, CountingOn, Without
<1>5. CASE PurgeSidecar
  BY <1>5 DEF PurgeSidecar, UnlinkJson, TypeOK, CountIsTrue, Present, Counted, Evicting, CountingOn, Without
<1>6. CASE PurgeFails
  BY <1>6 DEF PurgeFails, TypeOK, CountIsTrue, Present, Counted, Evicting, CountingOn, Without
<1>7. CASE PurgeEnds
  BY <1>7 DEF PurgeEnds, TypeOK, CountIsTrue, Present, Counted, Evicting, CountingOn, Without
<1>8. CASE PurgeMisses
  BY <1>8 DEF PurgeMisses, TypeOK, CountIsTrue, Present, Counted, Evicting, CountingOn, Without
<1> QED BY <1>1, <1>2, <1>3, <1>4, <1>5, <1>6, <1>7, <1>8 DEF Purge

LEMMA RestKeepsCounts ==
  ASSUME TypeOK, CountIsTrue, Rest \/ UNCHANGED vars
  PROVE  CountIsTrue'
<1> USE Parameters
    DEF Goes, Sets, Fault, Flag, disk, hookv, readers, worker, bounds
<1>1. ASSUME NEW h \in Hook, Killed(h) PROVE CountIsTrue'
  BY <1>1 DEF Killed, Ends, TypeOK, CountIsTrue, Present, Counted, Evicting, CountingOn, Without
<1>2. ASSUME NEW r \in Reader, ReadGz(r) PROVE CountIsTrue'
  BY <1>2 DEF ReadGz, Id, TypeOK, CountIsTrue, Present, Counted, Evicting, CountingOn, Without
<1>3. ASSUME NEW r \in Reader, ReadText(r) PROVE CountIsTrue'
  BY <1>3 DEF ReadText, TypeOK, CountIsTrue, Present, Counted, Evicting, CountingOn, Without
<1>4. CASE EditQueued \/ EditMissed \/ EntryLost
  BY <1>4 DEF EditQueued, EditMissed, EntryLost, Changes, TypeOK, CountIsTrue, Present, Counted, Evicting, CountingOn, Without
<1>5. CASE Age
  BY <1>5 DEF Age, TypeOK, CountIsTrue, Present, Counted, Evicting, CountingOn, Without
<1>6. CASE WorkerKilled
  BY <1>6 DEF WorkerKilled, TypeOK, CountIsTrue, Present, Counted, Evicting, CountingOn, Without
<1>7. CASE UNCHANGED vars
  BY <1>7 DEF vars, CountIsTrue, Present, Counted, Evicting, CountingOn, Without
<1>8. ASSUME NEW r \in Reader, GzUnreadable(r) PROVE CountIsTrue'
  BY <1>8 DEF GzUnreadable, Id, TypeOK, CountIsTrue, Present, Counted, Evicting, CountingOn, Without
<1> QED BY <1>1, <1>2, <1>3, <1>4, <1>5, <1>6, <1>7, <1>8 DEF Rest

-----------------------------------------------------------------------------
(* The cap.  Of the evictions under way the one that listed last knows all *)
(* the bodies: what was written since would have to be listed again.       *)

NoWriter == \A k \in Hook : pc[k] \notin {"stub", "evict"}
Covers(h) == pc[h] \in Evicting /\ Kept \subseteq weigh[h] /\ Kept \subseteq todo[h]
InCap ==
  hazards \cap {"skipped", "crash"} = {} /\ NoWriter =>
    Cardinality(Kept) <= MaxBytes \/ \E h \in Hook : Covers(h)

\* What all steps do but the first and the last of an eviction.
Shrinks == NoWriter /\ Kept' \subseteq Kept /\ \A k \in Hook : Covers(k) => Covers(k)'

LEMMA HazardsStay == [Next]_vars => hazards \subseteq hazards'
<1> SUFFICES ASSUME [Next]_vars PROVE hazards \subseteq hazards'
  OBVIOUS
<1>1. ASSUME NEW h \in Hook, Store(h) PROVE hazards \subseteq hazards'
  BY <1>1 DEF Store, Load, SweepText, SweepSidecar, SweepEnds, Probe, Check, ProbeMisses, WriteText,
     WriteGz, WriteStub, WriteFails, WriteSidecar, Record
<1>2. ASSUME NEW h \in Hook, Evict(h) PROVE hazards \subseteq hazards'
  BY <1>2 DEF Evict, EvictLists, ListingFails, JudgeOrphan, UnlinkOrphan, OrphansEnd, EvictText, EvictSidecar,
     EvictGz, UnlinkFails, EvictEnds
<1>3. Purge => hazards \subseteq hazards'
  BY DEF Purge, PurgeLists, PurgeLooks, PurgeText, PurgeGz, PurgeSidecar, PurgeFails,
     PurgeMisses, PurgeEnds
<1>4. ASSUME NEW h \in Hook, Killed(h) PROVE hazards \subseteq hazards'
  BY <1>4 DEF Killed
<1>5. ASSUME NEW r \in Reader, ReadGz(r) \/ GzUnreadable(r) \/ ReadText(r) PROVE hazards \subseteq hazards'
  BY <1>5 DEF ReadGz, GzUnreadable, ReadText
<1>6. EditQueued \/ EditMissed \/ EntryLost \/ Age \/ WorkerKilled \/ UNCHANGED vars => hazards \subseteq hazards'
  BY DEF EditQueued, EditMissed, EntryLost, Changes, Age, WorkerKilled, vars
<1> QED BY <1>1, <1>2, <1>3, <1>4, <1>5, <1>6 DEF Next, Rest

LEMMA StoreShrinks ==
  ASSUME TypeOK, hazards' \cap {"skipped", "crash"} = {}, NoWriter',
         NEW h \in Hook, Store(h)
  PROVE  Shrinks
<1> USE Parameters
    DEF Goes, Sets, Fault, Flag, disk, hookv, readers, worker, bounds, NoWriter, Covers, Kept, Present, Evicting
<1>1. CASE Load(h)
  BY <1>1 DEF Load, TypeOK, Shrinks
<1>2. CASE SweepText(h)
  BY <1>2 DEF SweepText, UnlinkTxt, Crowded, TypeOK, Shrinks
<1>3. CASE SweepSidecar(h)
  BY <1>3 DEF SweepSidecar, UnlinkJson, TypeOK, Shrinks
<1>4. CASE SweepEnds(h)
  BY <1>4 DEF SweepEnds, TypeOK, Shrinks
<1>5. CASE Probe(h)
  BY <1>5 DEF Probe, Twins, TypeOK, Shrinks
<1>6. CASE Check(h)
  BY <1>6 DEF Check, TypeOK, Shrinks
<1>7. CASE ProbeMisses(h)
  BY <1>7 DEF ProbeMisses, TypeOK, Shrinks
<1>8. CASE WriteText(h)
  BY <1>8 DEF WriteText, Overtaken, TypeOK, Shrinks
<1>9. CASE WriteGz(h)
  BY <1>9 DEF WriteGz, TypeOK, Shrinks
<1>10. CASE WriteStub(h)
  BY <1>10 DEF WriteStub, Overtaken, TypeOK, Shrinks
<1>11. CASE WriteFails(h)
  <2>1. pc[h] = "write" /\ UNCHANGED <<txt, gz>>
    BY <1>11 DEF WriteFails
  <2>2. \A k \in Hook \ {h} :
          pc'[k] = pc[k] /\ todo'[k] = todo[k] /\ weigh'[k] = weigh[k]
    BY <1>11 DEF WriteFails, Ends, TypeOK
  <2>3. Kept' = Kept
    BY <2>1
  <2>4. NoWriter /\ ~Covers(h)
    BY <2>1, <2>2
  <2> QED
    BY <2>2, <2>3, <2>4 DEF Shrinks
<1>12. CASE WriteSidecar(h)
  BY <1>12 DEF WriteSidecar, Overtaken, TypeOK, Shrinks
<1>13. CASE Record(h)
  BY <1>13 DEF Record, Ends, TypeOK, Shrinks
<1> QED BY <1>1, <1>2, <1>3, <1>4, <1>5, <1>6, <1>7, <1>8, <1>9, <1>10, <1>11, <1>12, <1>13 DEF Store

LEMMA EvictShrinks ==
  ASSUME TypeOK, hazards' \cap {"skipped", "crash"} = {}, NoWriter',
         NEW h \in Hook, Evict(h), ~EvictLists(h), ~EvictEnds(h)
  PROVE  Shrinks
<1> USE Parameters
    DEF Goes, Sets, Fault, Flag, disk, hookv, readers, worker, bounds, NoWriter, Covers, Kept, Present, Evicting
<1>1. CASE JudgeOrphan(h)
  BY <1>1 DEF JudgeOrphan, TypeOK, Shrinks
<1>2. CASE UnlinkOrphan(h)
  BY <1>2 DEF UnlinkOrphan, UnlinkGz, UnlinkJson, TypeOK, Shrinks
<1>3. CASE OrphansEnd(h)
  BY <1>3 DEF OrphansEnd, TypeOK, Shrinks
<1>4. CASE EvictText(h)
  BY <1>4 DEF EvictText, Evictable, UnlinkTxt, Without, TypeOK, Shrinks
<1>5. CASE EvictSidecar(h)
  BY <1>5 DEF EvictSidecar, UnlinkJson, TypeOK, Shrinks
<1>6. CASE EvictGz(h)
  BY <1>6 DEF EvictGz, UnlinkGz, TypeOK, Shrinks
<1>7. CASE UnlinkFails(h)
  BY <1>7 DEF UnlinkFails, TypeOK, Shrinks
<1>8. CASE ListingFails(h)
  BY <1>8 DEF ListingFails, Counted, TypeOK, Shrinks
<1> QED BY <1>1, <1>2, <1>3, <1>4, <1>5, <1>6, <1>7, <1>8 DEF Evict

LEMMA PurgeShrinks ==
  ASSUME TypeOK, hazards' \cap {"skipped", "crash"} = {}, NoWriter',
         Purge
  PROVE  Shrinks
<1> USE Parameters
    DEF Goes, Sets, Fault, Flag, disk, hookv, readers, worker, bounds, NoWriter, Covers, Kept, Present, Evicting
<1>1. CASE PurgeLists
  BY <1>1 DEF PurgeLists, TypeOK, Shrinks
<1>2. CASE PurgeLooks
  BY <1>2 DEF PurgeLooks, TypeOK, Shrinks
<1>3. CASE PurgeText
  BY <1>3 DEF PurgeText, UnlinkTxt, Crowded, TypeOK, Shrinks
<1>4. CASE PurgeGz
  BY <1>4 DEF PurgeGz, UnlinkGz, TypeOK, Shrinks
<1>5. CASE PurgeSidecar
  BY <1>5 DEF PurgeSidecar, UnlinkJson, TypeOK, Shrinks
<1>6. CASE PurgeFails
  BY <1>6 DEF PurgeFails, TypeOK, Shrinks
<1>7. CASE PurgeEnds
  BY <1>7 DEF PurgeEnds, TypeOK, Shrinks
<1>8. CASE PurgeMisses
  BY <1>8 DEF PurgeMisses, TypeOK, Shrinks
<1> QED BY <1>1, <1>2, <1>3, <1>4, <1>5, <1>6, <1>7, <1>8 DEF Purge

LEMMA RestShrinks ==
  ASSUME TypeOK, hazards' \cap {"skipped", "crash"} = {}, NoWriter', Rest \/ UNCHANGED vars
  PROVE  Shrinks
<1> USE Parameters
    DEF Goes, Sets, Fault, Flag, disk, hookv, readers, worker, bounds, NoWriter, Covers, Kept, Present, Evicting
<1>1. ASSUME NEW h \in Hook, Killed(h) PROVE Shrinks
  BY <1>1 DEF Killed, Ends, TypeOK, Shrinks
<1>2. ASSUME NEW r \in Reader, ReadGz(r) PROVE Shrinks
  BY <1>2 DEF ReadGz, Id, TypeOK, Shrinks
<1>3. ASSUME NEW r \in Reader, ReadText(r) PROVE Shrinks
  BY <1>3 DEF ReadText, TypeOK, Shrinks
<1>4. CASE EditQueued \/ EditMissed \/ EntryLost
  BY <1>4 DEF EditQueued, EditMissed, EntryLost, Changes, TypeOK, Shrinks
<1>5. CASE Age
  BY <1>5 DEF Age, TypeOK, Shrinks
<1>6. CASE WorkerKilled
  BY <1>6 DEF WorkerKilled, TypeOK, Shrinks
<1>7. CASE UNCHANGED vars
  BY <1>7 DEF vars, Shrinks
<1>8. ASSUME NEW r \in Reader, GzUnreadable(r) PROVE Shrinks
  BY <1>8 DEF GzUnreadable, Id, TypeOK, Shrinks
<1> QED BY <1>1, <1>2, <1>3, <1>4, <1>5, <1>6, <1>7, <1>8 DEF Rest

\* The first: its list has every body.
LEMMA ListingCovers ==
  ASSUME TypeOK, NEW h \in Hook, EvictLists(h)
  PROVE  Covers(h)'
<1>1. /\ Kept' = Kept /\ pc'[h] = "orphans"
      /\ todo'[h] = {id \in Id : Present(id)} /\ weigh'[h] = Counted
  BY DEF EvictLists, TypeOK, Kept, Present, disk
<1>2. Kept \subseteq Counted /\ Kept \subseteq {id \in Id : Present(id)}
  BY DEF Kept, Counted, Present, TypeOK
<1> QED BY <1>1, <1>2 DEF Covers, Evicting

LEMMA IdsAreFinite == \A S \in SUBSET Id : IsFiniteSet(S) /\ Cardinality(S) \in Nat
<1>1. IsFiniteSet(Id)
  BY Parameters, FS_Product DEF Id
<1> QED BY <1>1, FS_Subset, FS_CardinalityType

\* A smaller set has no more elements.
LEMMA FewerIds ==
  ASSUME NEW S \in SUBSET Id, NEW T \in SUBSET S, Cardinality(S) <= MaxBytes
  PROVE  Cardinality(T) <= MaxBytes
<1>1. Cardinality(T) <= Cardinality(S)
  BY IdsAreFinite, FS_Subset
<1>2. Cardinality(T) \in Nat /\ Cardinality(S) \in Nat /\ MaxBytes \in Nat
  BY IdsAreFinite, Parameters
<1> QED BY <1>1, <1>2

\* The last: its total is within the cap, or nothing but its own body is left.
LEMMA EndingFits ==
  ASSUME TypeOK, NEW h \in Hook, EvictEnds(h), Covers(h)
  PROVE  Cardinality(Kept) <= MaxBytes
<1>1. CASE ~OverCap(h)
  <2>1. Cardinality(weigh[h]) \in Nat /\ MaxBytes \in Nat /\ weigh[h] \in SUBSET Id
    BY IdsAreFinite, Parameters DEF TypeOK
  <2>2. Cardinality(weigh[h]) <= MaxBytes
    BY <1>1, <2>1 DEF OverCap
  <2> QED BY <2>1, <2>2, FewerIds DEF Covers
<1>2. CASE Evictable(h) = {}
  <2>1. Kept \subseteq {own[h]} /\ own[h] \in Id
    BY <1>2 DEF EvictEnds, Covers, Evictable, TypeOK
  <2>2. Cardinality({own[h]}) <= MaxBytes
    <3>1. Cardinality({own[h]}) = 1
      BY FS_Singleton
    <3>2. MaxBytes \in Nat \ {0}
      BY Parameters
    <3> QED BY <3>1, <3>2
  <2> QED BY <2>1, <2>2, FewerIds
<1> QED BY <1>1, <1>2 DEF EvictEnds

LEMMA NextKeepsCap == TypeOK /\ InCap /\ [Next]_vars => InCap'
<1> SUFFICES ASSUME TypeOK, InCap, [Next]_vars, hazards' \cap {"skipped", "crash"} = {}, NoWriter'
             PROVE  Cardinality(Kept') <= MaxBytes \/ \E h \in Hook : Covers(h)'
  BY DEF InCap
<1>1. hazards \cap {"skipped", "crash"} = {}
  BY HazardsStay
<1>2. CASE Shrinks
  <2>1. CASE Cardinality(Kept) <= MaxBytes
    BY <1>2, <2>1, FewerIds DEF Shrinks, Kept
  <2>2. CASE \E h \in Hook : Covers(h)
    BY <1>2, <2>2 DEF Shrinks
  <2> QED BY <1>1, <1>2, <2>1, <2>2 DEF InCap, Shrinks
<1>3. ASSUME NEW h \in Hook, EvictLists(h)
      PROVE  \E k \in Hook : Covers(k)'
  BY <1>3, ListingCovers
<1>4. ASSUME NEW h \in Hook, EvictEnds(h)
      PROVE  Cardinality(Kept') <= MaxBytes \/ \E k \in Hook : Covers(k)'
  <2>1. /\ Kept' = Kept /\ NoWriter
        /\ \A k \in Hook \ {h} : Covers(k) => Covers(k)'
    BY <1>4 DEF EvictEnds, TypeOK, Kept, Present, disk, NoWriter, Covers
  <2>2. Covers(h) => Cardinality(Kept) <= MaxBytes
    BY <1>4, EndingFits
  <2> QED BY <1>1, <2>1, <2>2 DEF InCap
<1>5. CASE \E h \in Hook : Store(h)
  BY <1>2, <1>5, StoreShrinks
<1>6. CASE \E h \in Hook : Evict(h)
  BY <1>2, <1>3, <1>4, <1>6, EvictShrinks
<1>7. CASE Purge
  BY <1>2, <1>7, PurgeShrinks
<1>8. CASE Rest \/ UNCHANGED vars
  BY <1>2, <1>8, RestShrinks
<1> QED BY <1>5, <1>6, <1>7, <1>8 DEF Next, Rest
-----------------------------------------------------------------------------
(* The theorems.                                                           *)

\* The inductive invariant.
StoreInv == TypeOK /\ StubHasBody /\ MissIsTrue /\ StaleIsListed /\ CountIsTrue /\ InCap

LEMMA InitialStore == Init => StoreInv
<1> SUFFICES ASSUME Init PROVE StoreInv
  OBVIOUS
<1>1. TypeOK
  BY InitialTypes
<1>2. StubHasBody
  <2>1. \A id \in Id : txt[id] = "stub" => gz[id]
    BY DEF Init, Stored
  <2>2. stage = "idle" /\ \A k \in Hook : pc[k] = "idle"
    BY DEF Init
  <2> QED BY <2>1, <2>2 DEF StubHasBody
<1>3. MissIsTrue /\ CountIsTrue
  BY DEF Init, MissIsTrue, CountIsTrue
<1>4. StaleIsListed
  <2>1. \A id \in Id : json[id] = "named" => id[2] = source
    BY Parameters DEF Init
  <2> QED BY <2>1 DEF StaleIsListed
<1>5. InCap
  <2>1. Kept \subseteq Before /\ Before \subseteq Id
    BY Parameters DEF Init, Kept, Present, Stored, Id
  <2> QED BY <2>1, FewerIds, Parameters DEF InCap
<1> QED BY <1>1, <1>2, <1>3, <1>4, <1>5 DEF StoreInv

LEMMA NextKeepsStore == StoreInv /\ [Next]_vars => StoreInv'
<1> SUFFICES ASSUME StoreInv, [Next]_vars PROVE StoreInv'
  OBVIOUS
<1> USE DEF StoreInv
<1>1. TypeOK' /\ InCap'
  BY NextKeepsTypes, NextKeepsCap
<1>2. CASE \E h \in Hook : Store(h)
  BY <1>1, <1>2, StoreKeepsStubs, StoreKeepsMisses, StoreKeepsLists, StoreKeepsCounts
<1>3. CASE \E h \in Hook : Evict(h)
  BY <1>1, <1>3, EvictKeepsStubs, EvictKeepsMisses, EvictKeepsLists, EvictKeepsCounts
<1>4. CASE Purge
  BY <1>1, <1>4, PurgeKeepsStubs, PurgeKeepsMisses, PurgeKeepsLists, PurgeKeepsCounts
<1>5. CASE Rest \/ UNCHANGED vars
  BY <1>1, <1>5, RestKeepsStubs, RestKeepsMisses, RestKeepsLists, RestKeepsCounts
<1> QED BY <1>2, <1>3, <1>4, <1>5 DEF Next, Rest

THEOREM StoreHolds == Spec => []StoreInv
<1> QED BY InitialStore, NextKeepsStore, PTL DEF Spec

\* load_output never takes the stub for the body (skill_cache.ts), for any
\* number of hooks, readers and bodies, until two processes have the same entry
\* in hand, an unlink of the worker fails or a .gz cannot be read.
THEOREM LoadsAreWhole == Spec => []LoadIsWhole
<1>1. StoreInv => LoadIsWhole
  BY DEF StoreInv, MissIsTrue, LoadIsWhole
<1> QED BY <1>1, StoreHolds, PTL

\* When every eviction has ended the store is within its cap (skill_cache.ts,
\* evict_old_entries), however many hooks wrote and evicted at once, unless an
\* unlink failed or a hook did not get to its eviction.
THEOREM StoreFitsCap == Spec => []CapHolds
<1>1. StoreInv => CapHolds
  BY DEF StoreInv, InCap, NoWriter, Covers, CapHolds
<1> QED BY <1>1, StoreHolds, PTL

\* invalidate_for_path leaves no entry of an edited skill whose sidecar names its
\* file (skill_cache.ts), whatever is stored and evicted while it runs.
THEOREM StaleEntriesGo == Spec => []StaleIsPurged
<1>1. StoreInv => StaleIsPurged
  BY DEF StoreInv, StaleIsListed, StaleIsPurged
<1> QED BY <1>1, StoreHolds, PTL

\* Only EvictText takes an entry.
LEMMA TakesWhenOver ==
  ASSUME TypeOK, Next, NEW h \in Hook, pc[h] = "oldest", pc'[h] = "evictJson"
  PROVE  OverCap(h)
<1> USE DEF Goes, Ends, hookv
<1>1. ASSUME NEW k \in Hook, Store(k) PROVE OverCap(h)
  <2>1. Load(k) \/ SweepText(k) \/ SweepSidecar(k) \/ SweepEnds(k) \/ Probe(k) \/ Check(k)
          => FALSE
    BY DEF TypeOK, Load, SweepText, SweepSidecar, SweepEnds, Probe, Check
  <2>2. ProbeMisses(k) \/ WriteText(k) \/ WriteGz(k) \/ WriteStub(k) \/ WriteFails(k)
          \/ WriteSidecar(k) \/ Record(k) => FALSE
    BY DEF TypeOK, ProbeMisses, WriteText, WriteGz, WriteStub, WriteFails, WriteSidecar, Record
  <2> QED BY <1>1, <2>1, <2>2 DEF Store
<1>2. ASSUME NEW k \in Hook, Evict(k) PROVE OverCap(h)
  <2>1. EvictLists(k) \/ ListingFails(k) \/ JudgeOrphan(k) \/ UnlinkOrphan(k) \/ OrphansEnd(k) => FALSE
    BY DEF TypeOK, EvictLists, ListingFails, JudgeOrphan, UnlinkOrphan, OrphansEnd
  <2>2. EvictSidecar(k) \/ EvictGz(k) \/ UnlinkFails(k) \/ EvictEnds(k) => FALSE
    BY DEF TypeOK, EvictSidecar, EvictGz, UnlinkFails, EvictEnds
  <2>3. EvictText(k) => k = h /\ OverCap(k)
    BY DEF TypeOK, EvictText
  <2> QED BY <1>2, <2>1, <2>2, <2>3 DEF Evict
<1>3. ASSUME NEW k \in Hook, Killed(k) PROVE FALSE
  BY <1>3 DEF TypeOK, Killed
<1>4. Purge => FALSE
  BY DEF Purge, PurgeLists, PurgeLooks, PurgeText, PurgeGz, PurgeSidecar, PurgeFails,
     PurgeMisses, PurgeEnds
<1>5. ASSUME NEW r \in Reader, ReadGz(r) \/ GzUnreadable(r) \/ ReadText(r) PROVE FALSE
  BY <1>5 DEF ReadGz, GzUnreadable, ReadText
<1>6. EditQueued \/ EditMissed \/ EntryLost \/ Age \/ WorkerKilled => FALSE
  BY DEF EditQueued, EditMissed, EntryLost, Changes, Age, WorkerKilled
<1> QED BY <1>1, <1>2, <1>3, <1>4, <1>5, <1>6 DEF Next, Rest

\* evict_cache_dir takes an entry only while the bodies on disk exceed the
\* cap (cache_common.ts), unless another process takes one that it counts.
THEOREM EvictionsHaveCause == Spec => EvictsOnlyOverCap
<1> DEFINE Step == \A h \in Hook :
              pc[h] = "oldest" /\ pc'[h] = "evictJson"
              /\ hazards \cap {"crowded", "swept", "reborn", "stuck"} = {}
                => Cardinality(Kept) > MaxBytes
<1>1. StoreInv /\ [Next]_vars => [Step]_vars
  <2> SUFFICES ASSUME StoreInv, Next, NEW h \in Hook,
                      pc[h] = "oldest", pc'[h] = "evictJson",
                      hazards \cap {"crowded", "swept", "reborn", "stuck"} = {}
               PROVE  Cardinality(Kept) > MaxBytes
    OBVIOUS
  <2>1. OverCap(h)
    BY TakesWhenOver DEF StoreInv
  <2>2. weigh[h] \subseteq Kept
    BY DEF StoreInv, CountIsTrue, StubHasBody, Kept, TypeOK, Present
  <2>3. IsFiniteSet(Kept)
    <3>1. IsFiniteSet(Id)
      BY Parameters, FS_Product DEF Id
    <3> QED BY <3>1, FS_Subset DEF Kept
  <2>4. Cardinality(weigh[h]) <= Cardinality(Kept)
    BY <2>2, <2>3, FS_Subset
  <2>5. Cardinality(weigh[h]) \in Nat /\ Cardinality(Kept) \in Nat /\ MaxBytes \in Nat
    BY <2>2, <2>3, FS_Subset, FS_CardinalityType, Parameters
  <2> QED BY <2>1, <2>4, <2>5 DEF OverCap
<1> QED BY <1>1, StoreHolds, PTL DEF Spec, EvictsOnlyOverCap

=============================================================================
