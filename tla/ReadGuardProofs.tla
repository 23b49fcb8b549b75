--------------------------- MODULE ReadGuardProofs ---------------------------
(***************************************************************************)
(* What pre_read may deny, for every number of callers, files and lines,   *)
(* every set of windows and every cap and bound.                           *)
(***************************************************************************)
EXTENDS ReadGuard, SequenceTheorems, FiniteSetTheorems, TLAPS

AnyHazard == RangeHazard \cup OtherHazard

LEMMA Numbers == MaxLine \in Nat /\ Beyond \in Nat /\ Beyond > 0 /\ \A l \in Whole : l \in Nat
BY Positive DEF MaxLine, Beyond, Whole

LEMMA FreshIsCache == Fresh \in Cache
<1>1. NoEntry \in Entry
  BY DEF NoEntry, Entry
<1>2. NoText \in Seq(Nat)
  BY DEF NoText
<1> QED BY <1>1, <1>2 DEF Fresh, Cache

LEMMA CacheParts ==
  ASSUME NEW K \in Cache
  PROVE  /\ K.files \in [File -> Entry] /\ K.shas \in [File -> Seq(Nat)]
         /\ K.seen \subseteq Denial \cup OtherHint
         /\ K.content \subseteq Seq(Nat) \X File
BY DEF Cache

LEMMA RecordedInWhole ==
  ASSUME NEW cover \in SUBSET Whole, NEW win \in SUBSET Whole, NEW count
  PROVE  Recorded(cover, count, win) \in SUBSET Whole
BY DEF Recorded, Span

LEMMA RememberType ==
  ASSUME NEW S, NEW seen \in SUBSET S, NEW new \in SUBSET S
  PROVE  Remember(seen, new) \in SUBSET S
BY DEF Remember

LEMMA MergeType ==
  ASSUME NEW local \in Cache, NEW remote \in Cache
  PROVE  Merge(local, remote) \in Cache
<1>1. [f \in File |-> Newer(local.files[f], remote.files[f])] \in [File -> Entry]
  BY CacheParts DEF Newer
<1>2. [f \in File |-> IF local.shas[f] # NoText THEN local.shas[f] ELSE remote.shas[f]]
        \in [File -> Seq(Nat)]
  BY CacheParts
<1>3. Remember(remote.seen, local.seen) \subseteq Denial \cup OtherHint
  BY CacheParts DEF Remember
<1>4. remote.content \cup {p \in local.content : \A r \in remote.content : r[1] # p[1]}
        \subseteq Seq(Nat) \X File
  BY CacheParts
<1> QED BY <1>1, <1>2, <1>3, <1>4 DEF Merge, Cache

LEMMA MarksType ==
  ASSUME TypeOK, NEW K \in Cache, NEW f \in File, NEW w \in SUBSET Whole, NEW now \in Nat
  PROVE  /\ MarkFileRead(K, f, w, now) \in Cache
         /\ MarkFileEdited(K, f) \in Cache
         /\ RegisterContent(K, f) \in Cache
         /\ [K EXCEPT !.shas[f] = text[f]] \in Cache
<1> USE CacheParts
<1>1. MarkFileRead(K, f, w, now) \in Cache
  <2>1. K.files[f] \in Entry
    OBVIOUS
  <2>2. [read |-> now, edited |-> FALSE, stamp |-> mtime[f],
         cover |-> Recorded(K.files[f].cover, K.files[f].count, w),
         count |-> K.files[f].count + 1] \in Entry
    BY <2>1, RecordedInWhole DEF Entry, TypeOK
  <2> QED BY <2>2 DEF MarkFileRead, Cache
<1>2. MarkFileEdited(K, f) \in Cache
  <2>1. K.files[f] \in Entry
    OBVIOUS
  <2>2. [K.files[f] EXCEPT !.edited = TRUE] \in Entry
    BY <2>1 DEF Entry
  <2>3. [K EXCEPT !.files[f].edited = TRUE] \in Cache
    BY <2>2 DEF Cache
  <2> QED BY <2>3 DEF MarkFileEdited
<1>3. RegisterContent(K, f) \in Cache
  <2>1. K.content \cup {<<text[f], f>>} \subseteq Seq(Nat) \X File
    BY DEF TypeOK
  <2> QED BY <2>1 DEF RegisterContent, Cache
<1>4. [K EXCEPT !.shas[f] = text[f]] \in Cache
  BY DEF TypeOK, Cache
<1> QED BY <1>1, <1>2, <1>3, <1>4

\* What a save leaves of the types, once the caller's next place is known.
LEMMA SaveKeepsTypes ==
  ASSUME TypeOK, NEW c \in Caller, NEW K \in Cache, NEW h \in SUBSET AnyHazard,
         NEW to \in Pc, pc[c] \in Holding, pc' = [pc EXCEPT ![c] = to],
         Saves(c, K, h)
  PROVE  /\ store' \in Cache /\ copy' \in [Caller -> Cache] /\ stale' \subseteq Caller
         /\ \A d \in Caller : pc'[d] \notin Holding => copy'[d] = Fresh /\ d \notin stale'
         /\ hazards' \subseteq AnyHazard /\ faults' \in 0..MaxFaults
<1>1. pc'[c] = to /\ \A d \in Caller \ {c} : pc'[d] = pc[d]
  BY DEF TypeOK
<1>2. store' \in Cache
  BY MergeType DEF Saves, Saved, SaveFails, TypeOK
<1>3. copy' \in [Caller -> Cache]
  BY FreshIsCache DEF Saves, Saved, SaveFails, Keeps, TypeOK
<1>4. stale' \subseteq Caller
  BY DEF Saves, Saved, SaveFails, Behind, TypeOK
<1>5. ASSUME NEW d \in Caller, pc'[d] \notin Holding
      PROVE  copy'[d] = Fresh /\ d \notin stale'
  <2>1. CASE d = c
    BY <1>1, <1>5, <2>1 DEF Saves, Saved, SaveFails, Keeps, Behind, TypeOK
  <2>2. CASE d # c
    BY <1>1, <1>5, <2>2 DEF Saves, Saved, SaveFails, Keeps, Behind, TypeOK
  <2> QED BY <2>1, <2>2
<1>6. hazards' \subseteq AnyHazard
  BY DEF Saves, Saved, SaveFails, AnyHazard, OtherHazard, TypeOK
<1>7. faults' \in 0..MaxFaults
  BY Positive DEF Saves, Saved, SaveFails, Fault, TypeOK
<1> QED BY <1>2, <1>3, <1>4, <1>5, <1>6, <1>7

\* A caller that moves keeps its call, or ends and drops it.
LEMMA MoveTypes ==
  ASSUME TypeOK, NEW c \in Caller, NEW from \in Pc \ {"idle"}, NEW to \in Pc,
         (Goes(c, from, to) /\ to # "idle") \/ (Ends(c, from) /\ to = "idle")
  PROVE  /\ pc' = [pc EXCEPT ![c] = to]
         /\ pc' \in [Caller -> Pc] /\ call' \in [Caller -> Request \cup {NoCall}]
         /\ \A d \in Caller : pc'[d] = "idle" <=> call'[d] = NoCall
<1>1. NoCall \notin Request
  BY DEF NoCall, Request
<1>2. pc' = [pc EXCEPT ![c] = to]
  BY DEF Goes, Ends, Move
<1>3. pc' \in [Caller -> Pc]
  BY <1>2 DEF TypeOK
<1>4. call' \in [Caller -> Request \cup {NoCall}]
  BY DEF Goes, Ends, TypeOK
<1>5. \A d \in Caller : pc'[d] = "idle" <=> call'[d] = NoCall
  <2>1. CASE Goes(c, from, to) /\ to # "idle"
    BY <1>2, <2>1 DEF Goes, Move, TypeOK
  <2>2. CASE Ends(c, from) /\ to = "idle"
    BY <1>2, <2>2 DEF Ends, TypeOK
  <2> QED BY <2>1, <2>2
<1> QED BY <1>2, <1>3, <1>4, <1>5

LEMMA CallOf ==
  ASSUME TypeOK, NEW c \in Caller, pc[c] # "idle"
  PROVE  call[c] \in Request /\ call[c].file \in File /\ call[c].win \in SUBSET Whole
BY DEF TypeOK, Request

LEMMA InitialTypes == Init => TypeOK
<1> SUFFICES ASSUME Init PROVE TypeOK
  OBVIOUS
<1>1. [l \in 1..Lines |-> l] \in Seq(Nat)
  BY Positive
<1>2. text \in [File -> Seq(Nat)] /\ mtime \in [File -> Nat] /\ quietAt \in [File -> Nat]
  BY <1>1 DEF Init
<1>3. store \in Cache /\ copy \in [Caller -> Cache]
  BY FreshIsCache DEF Init
<1>4. "idle" \notin Holding
  BY DEF Holding
<1> QED BY <1>2, <1>3, <1>4, Positive DEF Init, TypeOK, Pc, NoCall

LEMMA AsksKeepTypes ==
  ASSUME TypeOK, NEW c \in Caller, Ask(c) \/ PreRead(c)
  PROVE  TypeOK'
<1> USE DEF Pc, InFlight, Holding
<1>1. CASE Ask(c)
  <2>1. PICK f \in File, w \in Window : call' = [call EXCEPT ![c] = [file |-> f, win |-> w]]
    BY <1>1 DEF Ask
  <2>2. w \in SUBSET Whole
    BY WindowsAreIntervals, Numbers DEF Whole
  <2>3. [file |-> f, win |-> w] \in Request /\ NoCall \notin Request
    BY <2>2 DEF Request, NoCall
  <2>4. UNCHANGED <<world, store, copy, stale, held, bounds, told, noted, hazards>>
    BY <1>1 DEF Ask
  <2>5. pc' = [pc EXCEPT ![c] = "asks"] /\ pc[c] = "idle"
    BY <1>1 DEF Ask, Move
  <2>6. pc' \in [Caller -> Pc] /\ call' \in [Caller -> Request \cup {NoCall}]
    BY <2>1, <2>3, <2>5 DEF TypeOK
  <2>7. \A d \in Caller : pc'[d] = "idle" <=> call'[d] = NoCall
    BY <2>1, <2>3, <2>5 DEF TypeOK
  <2>8. \A d \in Caller : pc'[d] \notin Holding => copy'[d] = Fresh /\ d \notin stale'
    BY <2>4, <2>5 DEF TypeOK
  <2> QED BY <2>4, <2>6, <2>7, <2>8 DEF TypeOK, world, bounds
<1>2. CASE PreReadDedup(c) \/ PreReadPasses(c)
  <2>1. UNCHANGED <<world, store, copy, stale, held, bounds, told, noted, hazards>>
    BY <1>2 DEF PreReadDedup, PreReadPasses
  <2>2. PICK to \in {"idle", "tool"} :
          (Goes(c, "asks", to) /\ to # "idle") \/ (Ends(c, "asks") /\ to = "idle")
    BY <1>2 DEF PreReadDedup, PreReadPasses
  <2>3. /\ pc' = [pc EXCEPT ![c] = to] /\ pc[c] = "asks"
        /\ pc' \in [Caller -> Pc] /\ call' \in [Caller -> Request \cup {NoCall}]
        /\ \A d \in Caller : pc'[d] = "idle" <=> call'[d] = NoCall
    BY <2>2, MoveTypes DEF Goes, Ends, Move
  <2>4. \A d \in Caller : pc'[d] \notin Holding => copy'[d] = Fresh /\ d \notin stale'
    BY <2>1, <2>3 DEF TypeOK
  <2> QED BY <2>1, <2>3, <2>4 DEF TypeOK, world, bounds
<1>3. CASE PreReadDenies(c)
  <2> DEFINE d == <<call[c].file, call[c].win>>
             K == [store EXCEPT !.seen = Remember(store.seen, {d})]
  <2>1. /\ pc' = [pc EXCEPT ![c] = "flush"] /\ pc[c] = "asks"
        /\ pc' \in [Caller -> Pc] /\ call' \in [Caller -> Request \cup {NoCall}]
        /\ \A e \in Caller : pc'[e] = "idle" <=> call'[e] = NoCall
    BY <1>3, MoveTypes DEF PreReadDenies, Goes, Move
  <2>2. copy' = [copy EXCEPT ![c] = K] /\ UNCHANGED <<world, store, stale, held, bounds, told, noted>>
    BY <1>3 DEF PreReadDenies, Keeps
  <2>3. d \in Denial
    BY <2>1, CallOf DEF Denial
  <2>4. K \in Cache
    <3>1. Remember(store.seen, {d}) \subseteq Denial \cup OtherHint
      BY <2>3, CacheParts DEF Remember, TypeOK
    <3> QED BY <3>1 DEF TypeOK, Cache
  <2>5. copy' \in [Caller -> Cache]
    BY <2>2, <2>4 DEF TypeOK
  <2>6. \A e \in Caller : pc'[e] \notin Holding => copy'[e] = Fresh /\ e \notin stale'
    BY <2>1, <2>2 DEF TypeOK
  <2>7. hazards' \subseteq AnyHazard
    BY <1>3 DEF PreReadDenies, Flag, AnyHazard, OtherHazard, TypeOK
  <2> HIDE DEF d, K
  <2> QED BY <2>1, <2>2, <2>5, <2>6, <2>7 DEF TypeOK, AnyHazard, world, bounds
<1> QED BY <1>1, <1>2, <1>3 DEF PreRead

LEMMA FlushKeepsTypes ==
  ASSUME TypeOK, NEW c \in Caller, Flush(c)
  PROVE  TypeOK'
<1> DEFINE d == <<call[c].file, call[c].win>>
<1>1. PICK h \in SUBSET AnyHazard : Saves(c, copy[c], h)
  BY DEF Flush, Flag, AnyHazard, OtherHazard
<1>2. PICK to \in {"idle", "asks"} :
        (Goes(c, "flush", to) /\ to # "idle") \/ (Ends(c, "flush") /\ to = "idle")
  BY DEF Flush
<1>3. /\ pc' = [pc EXCEPT ![c] = to] /\ pc[c] = "flush" /\ to \in Pc
      /\ pc' \in [Caller -> Pc] /\ call' \in [Caller -> Request \cup {NoCall}]
      /\ \A e \in Caller : pc'[e] = "idle" <=> call'[e] = NoCall
  BY <1>2, MoveTypes DEF Goes, Ends, Move, Pc, InFlight, Holding
<1>4. copy[c] \in Cache /\ pc[c] \in Holding
  BY <1>3 DEF TypeOK, Holding
<1>5. /\ store' \in Cache /\ copy' \in [Caller -> Cache] /\ stale' \subseteq Caller
      /\ \A e \in Caller : pc'[e] \notin Holding => copy'[e] = Fresh /\ e \notin stale'
      /\ hazards' \subseteq AnyHazard /\ faults' \in 0..MaxFaults
  BY <1>1, <1>3, <1>4, SaveKeepsTypes
<1>6. told' \subseteq Denial
  BY <1>3, CallOf DEF Flush, Denial, TypeOK
<1>7. UNCHANGED <<world, held, reads, writes, noted>>
  BY DEF Flush
<1> QED BY <1>3, <1>5, <1>6, <1>7 DEF TypeOK, AnyHazard, world

LEMMA ToolKeepsTypes ==
  ASSUME TypeOK, NEW c \in Caller, Tool(c)
  PROVE  TypeOK'
<1>1. /\ pc' = [pc EXCEPT ![c] = "posts"] /\ pc[c] = "tool"
      /\ pc' \in [Caller -> Pc] /\ call' \in [Caller -> Request \cup {NoCall}]
      /\ \A e \in Caller : pc'[e] = "idle" <=> call'[e] = NoCall
  <2>1. Goes(c, "tool", "posts") /\ {"tool", "posts"} \subseteq Pc \ {"idle"}
    BY DEF Tool, Pc, InFlight
  <2>2. /\ pc' \in [Caller -> Pc] /\ call' \in [Caller -> Request \cup {NoCall}]
        /\ \A e \in Caller : pc'[e] = "idle" <=> call'[e] = NoCall
    BY <2>1, MoveTypes
  <2> QED BY <2>1, <2>2 DEF Goes, Move
<1>2. call[c].file \in File
  BY <1>1, CallOf
<1>3. \A f \in File : \A l \in DOMAIN text[f] : text[f][l] \in Nat
  BY ElementOfSeq, LenProperties DEF TypeOK
<1>4. Returned(call[c].file, call[c].win) \subseteq Nat
  BY <1>2, <1>3 DEF Returned, Showing
<1>5. held' \subseteq Nat /\ hazards' \subseteq AnyHazard
  BY <1>4 DEF Tool, Flag, AnyHazard, RangeHazard, TypeOK
<1>6. UNCHANGED <<world, store, copy, stale, bounds, told, noted>>
  BY DEF Tool
<1>7. \A e \in Caller : pc'[e] \notin Holding => copy'[e] = Fresh /\ e \notin stale'
  BY <1>1, <1>6 DEF TypeOK, Holding
<1> QED BY <1>1, <1>5, <1>6, <1>7 DEF TypeOK, AnyHazard, world, bounds

LEMMA LoadsKeepTypes ==
  ASSUME TypeOK, NEW c \in Caller, PostReadLoads(c) \/ PostEditLoads(c)
  PROVE  TypeOK'
<1>1. PICK from \in {"posts", "edited"}, to \in {"marks", "notes"} : Goes(c, from, to)
  BY DEF PostReadLoads, PostEditLoads
<1>2. /\ pc' = [pc EXCEPT ![c] = to] /\ pc[c] = from /\ to \in Holding
      /\ pc' \in [Caller -> Pc] /\ call' \in [Caller -> Request \cup {NoCall}]
      /\ \A e \in Caller : pc'[e] = "idle" <=> call'[e] = NoCall
  BY <1>1, MoveTypes DEF Goes, Move, Pc, InFlight, Holding
<1>3. /\ copy' = [copy EXCEPT ![c] = store]
      /\ UNCHANGED <<world, store, stale, held, bounds, told, noted, hazards>>
  BY DEF PostReadLoads, PostEditLoads, Loads, Keeps
<1>4. copy' \in [Caller -> Cache]
  BY <1>3 DEF TypeOK
<1>5. \A e \in Caller : pc'[e] \notin Holding => copy'[e] = Fresh /\ e \notin stale'
  BY <1>2, <1>3 DEF TypeOK
<1> QED BY <1>2, <1>3, <1>4, <1>5 DEF TypeOK, world, bounds

\* The caches that the save actions write, and where their callers go.
LEMMA PostReadSaves ==
  ASSUME TypeOK, NEW c \in Caller,
         PostReadMarks(c) \/ PostReadHashes(c) \/ PostReadSnapshots(c)
  PROVE  \E K \in Cache, h \in SUBSET AnyHazard : Saves(c, K, h)
<1>0. pc[c] # "idle"
  BY DEF PostReadMarks, PostReadHashes, PostReadSnapshots, Goes, Ends, Move
<1>1. call[c].file \in File /\ call[c].win \in SUBSET Whole
  BY <1>0, CallOf
<1>2. copy[c] \in Cache /\ reads + 1 \in Nat
  BY DEF TypeOK
<1>3. CASE PostReadMarks(c)
  <2>1. MarkFileRead(copy[c], call[c].file, call[c].win, reads + 1) \in Cache
    BY <1>1, <1>2, MarksType
  <2> QED BY <1>3, <2>1 DEF PostReadMarks, Flag, AnyHazard, RangeHazard
<1>4. CASE PostReadHashes(c)
  <2>1. RegisterContent(copy[c], call[c].file) \in Cache
    BY <1>1, <1>2, MarksType
  <2> QED BY <1>2, <1>4, <2>1 DEF PostReadHashes
<1>5. CASE PostReadSnapshots(c)
  <2>1. [copy[c] EXCEPT !.shas[call[c].file] = text[call[c].file]] \in Cache
    BY <1>1, <1>2, MarksType
  <2> QED BY <1>5, <2>1 DEF PostReadSnapshots
<1> QED BY <1>3, <1>4, <1>5

LEMMA PostReadKeepsTypes ==
  ASSUME TypeOK, NEW c \in Caller,
         PostReadMarks(c) \/ PostReadHashes(c) \/ PostReadSnapshots(c)
  PROVE  TypeOK'
<1>1. PICK K \in Cache, h \in SUBSET AnyHazard : Saves(c, K, h)
  BY PostReadSaves
<1>2. PICK from \in {"marks", "hash", "snap"}, to \in {"hash", "snap", "idle"} :
        (Goes(c, from, to) /\ to # "idle") \/ (Ends(c, from) /\ to = "idle")
  BY DEF PostReadMarks, PostReadHashes, PostReadSnapshots
<1>3. /\ pc' = [pc EXCEPT ![c] = to] /\ pc[c] = from /\ to \in Pc /\ pc[c] \in Holding
      /\ pc' \in [Caller -> Pc] /\ call' \in [Caller -> Request \cup {NoCall}]
      /\ \A e \in Caller : pc'[e] = "idle" <=> call'[e] = NoCall
  BY <1>2, MoveTypes DEF Goes, Ends, Move, Pc, InFlight, Holding
<1>4. /\ store' \in Cache /\ copy' \in [Caller -> Cache] /\ stale' \subseteq Caller
      /\ \A e \in Caller : pc'[e] \notin Holding => copy'[e] = Fresh /\ e \notin stale'
      /\ hazards' \subseteq AnyHazard /\ faults' \in 0..MaxFaults
  BY <1>1, <1>3, SaveKeepsTypes
<1>5. /\ reads' \in Nat /\ noted' \subseteq File
      /\ UNCHANGED <<world, held, writes, told>>
  BY DEF PostReadMarks, PostReadHashes, PostReadSnapshots, TypeOK
<1> QED BY <1>3, <1>4, <1>5 DEF TypeOK, AnyHazard, world

LEMMA FailuresKeepTypes ==
  ASSUME TypeOK, NEW c \in Caller, SnapshotFails(c) \/ LoadFails(c)
  PROVE  TypeOK'
<1>1. PICK from \in {"snap", "asks", "posts", "edited"}, to \in {"tool", "idle"} :
        (Goes(c, from, to) /\ to # "idle") \/ (Ends(c, from) /\ to = "idle")
  BY DEF SnapshotFails, LoadFails
<1>2. /\ pc' = [pc EXCEPT ![c] = to] /\ to \notin Holding
      /\ pc' \in [Caller -> Pc] /\ call' \in [Caller -> Request \cup {NoCall}]
      /\ \A e \in Caller : pc'[e] = "idle" <=> call'[e] = NoCall
  <2>1. from \in Pc \ {"idle"} /\ to \in Pc /\ to \notin Holding
    BY DEF Pc, InFlight, Holding
  <2>2. pc' = [pc EXCEPT ![c] = to]
    BY <1>1 DEF Goes, Ends, Move
  <2>3. /\ pc' \in [Caller -> Pc] /\ call' \in [Caller -> Request \cup {NoCall}]
        /\ \A e \in Caller : pc'[e] = "idle" <=> call'[e] = NoCall
    BY <1>1, <2>1, MoveTypes
  <2> QED BY <2>1, <2>2, <2>3
<1>3. /\ faults' \in 0..MaxFaults
      /\ UNCHANGED <<world, store, held, reads, writes, told, noted, hazards>>
  BY Positive DEF SnapshotFails, LoadFails, Fault, TypeOK
<1>4. /\ copy' \in [Caller -> Cache] /\ stale' \subseteq Caller
      /\ \A e \in Caller : pc'[e] \notin Holding => copy'[e] = Fresh /\ e \notin stale'
  <2>1. CASE SnapshotFails(c)
    <3>1. copy' = [copy EXCEPT ![c] = Fresh] /\ stale' = stale \ {c}
      BY <2>1 DEF SnapshotFails, Keeps
    <3> QED BY <1>2, <3>1, FreshIsCache DEF TypeOK
  <2>2. CASE LoadFails(c)
    <3>1. UNCHANGED <<copy, stale>> /\ pc[c] \in {"asks", "posts", "edited"}
      BY <2>2 DEF LoadFails, Goes, Ends, Move
    <3> QED BY <1>2, <3>1 DEF TypeOK, Holding
  <2> QED BY <2>1, <2>2
<1> QED BY <1>2, <1>3, <1>4 DEF TypeOK, world

LEMMA PostEditSaves ==
  ASSUME TypeOK, NEW c \in Caller, PostEditMarks(c)
  PROVE  \E h \in SUBSET AnyHazard : Saves(c, MarkFileEdited(copy[c], call[c].file), h)
BY DEF PostEditMarks, Saves, Flag, AnyHazard, OtherHazard

LEMMA PostEditKeepsTypes ==
  ASSUME TypeOK, NEW c \in Caller, PostEditMarks(c)
  PROVE  TypeOK'
<1>1. Ends(c, "notes") /\ "notes" \in Pc \ {"idle"} /\ "idle" \in Pc
  BY DEF PostEditMarks, Pc, InFlight, Holding
<1>2. /\ pc' = [pc EXCEPT ![c] = "idle"] /\ pc[c] = "notes" /\ pc[c] \in Holding
      /\ pc' \in [Caller -> Pc] /\ call' \in [Caller -> Request \cup {NoCall}]
      /\ \A e \in Caller : pc'[e] = "idle" <=> call'[e] = NoCall
  <2>1. /\ pc' \in [Caller -> Pc] /\ call' \in [Caller -> Request \cup {NoCall}]
        /\ \A e \in Caller : pc'[e] = "idle" <=> call'[e] = NoCall
    BY <1>1, MoveTypes
  <2> QED BY <1>1, <2>1 DEF Ends, Move, Holding
<1>3. call[c].file \in File /\ copy[c] \in Cache
  BY <1>2, CallOf DEF TypeOK
<1>4. MarkFileEdited(copy[c], call[c].file) \in Cache
  BY <1>3, MarksType, 0 \in Nat, {} \in SUBSET Whole
<1>5. /\ store' \in Cache /\ copy' \in [Caller -> Cache] /\ stale' \subseteq Caller
      /\ \A e \in Caller : pc'[e] \notin Holding => copy'[e] = Fresh /\ e \notin stale'
      /\ hazards' \subseteq AnyHazard /\ faults' \in 0..MaxFaults
  BY <1>1, <1>2, <1>4, PostEditSaves, SaveKeepsTypes
<1>6. noted' \subseteq File
  BY <1>3 DEF PostEditMarks, TypeOK
<1>7. UNCHANGED <<world, held, reads, writes, told>>
  BY DEF PostEditMarks
<1> QED BY <1>2, <1>5, <1>6, <1>7 DEF TypeOK, AnyHazard, world

\* The text that a change leaves.
LEMMA NewText ==
  ASSUME TypeOK, NEW f \in File
  PROVE  /\ New \in Nat
         /\ \A l \in DOMAIN text[f] :
              /\ Replaced(f, l) \in Seq(Nat) /\ Len(Replaced(f, l)) = Len(text[f])
              /\ \A i \in DOMAIN text[f] : Replaced(f, l)[i] = IF i = l THEN New ELSE text[f][i]
         /\ LET t == <<New>> \o text[f]
            IN  /\ t \in Seq(Nat) /\ Len(t) = 1 + Len(text[f])
                /\ \A i \in 1..Len(t) : t[i] = IF i = 1 THEN New ELSE text[f][i - 1]
<1>1. New \in Nat
  BY Positive DEF New, TypeOK
<1>2. text[f] \in Seq(Nat) /\ DOMAIN text[f] = 1..Len(text[f])
  BY LenProperties DEF TypeOK
<1>3. ASSUME NEW l \in DOMAIN text[f]
      PROVE  /\ Replaced(f, l) \in Seq(Nat) /\ Len(Replaced(f, l)) = Len(text[f])
             /\ \A i \in DOMAIN text[f] : Replaced(f, l)[i] = IF i = l THEN New ELSE text[f][i]
  BY <1>1, <1>2, ExceptSeq DEF Replaced
<1>4. <<New>> \in Seq(Nat) /\ Len(<<New>>) = 1 /\ <<New>>[1] = New
  BY <1>1
<1>5. LET t == <<New>> \o text[f]
      IN  /\ t \in Seq(Nat) /\ Len(t) = 1 + Len(text[f])
          /\ \A i \in 1..(1 + Len(text[f])) : t[i] = IF i <= 1 THEN <<New>>[i] ELSE text[f][i - 1]
  BY <1>2, <1>4, ConcatProperties
<1>6. LET t == <<New>> \o text[f]
      IN  \A i \in 1..Len(t) : t[i] = IF i = 1 THEN New ELSE text[f][i - 1]
  BY <1>4, <1>5
<1> QED BY <1>1, <1>3, <1>5, <1>6

LEMMA WritesKeepTypes ==
  ASSUME TypeOK, NEW f \in File, NEW t \in Seq(Nat), NEW m \in Nat, Writes(f, t, m)
  PROVE  /\ text' \in [File -> Seq(Nat)] /\ mtime' \in [File -> Nat]
         /\ quietAt' \in [File -> Nat] /\ writes' \in 0..MaxWrites
BY Positive DEF Writes, TypeOK

LEMMA ChangesKeepTypes ==
  ASSUME TypeOK, Outside \/ \E c \in Caller : Edit(c)
  PROVE  TypeOK'
<1>0. writes + 1 \in Nat
  BY DEF TypeOK
<1>1. ASSUME NEW c \in Caller, Edit(c) PROVE TypeOK'
  <2>1. PICK f \in File :
          /\ Move(c, "idle", "edited") /\ call' = [call EXCEPT ![c] = [file |-> f, win |-> Whole]]
          /\ held' = held \cup {New}
          /\ \/ \E l \in DOMAIN text[f] : Writes(f, Replaced(f, l), writes + 1)
             \/ Writes(f, <<New>> \o text[f], writes + 1)
          /\ UNCHANGED <<store, copy, stale, reads, faults, told, noted>>
    BY <1>1 DEF Edit
  <2>2. PICK t \in Seq(Nat) : Writes(f, t, writes + 1)
    BY <2>1, NewText
  <2>3. /\ text' \in [File -> Seq(Nat)] /\ mtime' \in [File -> Nat]
        /\ quietAt' \in [File -> Nat] /\ writes' \in 0..MaxWrites
    BY <1>0, <2>2, WritesKeepTypes
  <2>4. held' \subseteq Nat
    BY <2>1, NewText DEF TypeOK
  <2>5. hazards' \subseteq AnyHazard
    BY <1>1 DEF Edit, Flag, AnyHazard, RangeHazard, TypeOK
  <2>6. pc' = [pc EXCEPT ![c] = "edited"] /\ "edited" \in Pc /\ pc[c] = "idle"
    BY <2>1 DEF Move, Pc, InFlight
  <2>7. [file |-> f, win |-> Whole] \in Request /\ NoCall \notin Request
    BY DEF Request, NoCall
  <2>8. pc' \in [Caller -> Pc] /\ call' \in [Caller -> Request \cup {NoCall}]
    BY <2>1, <2>6, <2>7 DEF TypeOK
  <2>9. \A e \in Caller : pc'[e] = "idle" <=> call'[e] = NoCall
    BY <2>1, <2>6, <2>7 DEF TypeOK
  <2>10. \A e \in Caller : pc'[e] \notin Holding => copy'[e] = Fresh /\ e \notin stale'
    BY <2>1, <2>6 DEF TypeOK, Holding
  <2> QED BY <2>1, <2>3, <2>4, <2>5, <2>8, <2>9, <2>10 DEF TypeOK, AnyHazard
<1>2. CASE Outside
  <2>1. PICK f \in File : \E m \in {writes + 1, mtime[f]} :
          \E l \in DOMAIN text[f] : Writes(f, Replaced(f, l), m)
    BY <1>2 DEF Outside
  <2>2. PICK m \in {writes + 1, mtime[f]} : \E l \in DOMAIN text[f] : Writes(f, Replaced(f, l), m)
    BY <2>1
  <2>3. PICK t \in Seq(Nat) : Writes(f, t, m) /\ m \in Nat
    BY <1>0, <2>2, NewText DEF TypeOK
  <2>4. /\ text' \in [File -> Seq(Nat)] /\ mtime' \in [File -> Nat]
        /\ quietAt' \in [File -> Nat] /\ writes' \in 0..MaxWrites
    BY <2>3, WritesKeepTypes
  <2>5. hazards' \subseteq AnyHazard
    BY <1>2 DEF Outside, Flag, AnyHazard, RangeHazard, TypeOK
  <2>6. UNCHANGED <<store, copy, stale, pc, call, held, reads, faults, told, noted>>
    BY <1>2 DEF Outside
  <2> QED BY <2>4, <2>5, <2>6 DEF TypeOK, AnyHazard
<1> QED BY <1>1, <1>2

LEMMA SessionKeepsTypes ==
  ASSUME TypeOK, Hints \/ Compact \/ Reset
  PROVE  TypeOK'
<1>1. CASE Hints
  <2>1. store' \in Cache
    <3>1. PICK h \in OtherHint : store' = [store EXCEPT !.seen = Remember(store.seen, {h})]
      BY <1>1 DEF Hints
    <3>2. Remember(store.seen, {h}) \subseteq Denial \cup OtherHint
      BY CacheParts DEF Remember, TypeOK
    <3> QED BY <3>1, <3>2 DEF TypeOK, Cache
  <2> QED BY <1>1, <2>1 DEF Hints, TypeOK, world, bounds
<1>2. CASE Compact
  BY <1>2, Positive DEF Compact, Fault, RangeHazard, TypeOK, world
<1>3. CASE Reset
  BY <1>3, Positive, FreshIsCache DEF Reset, Fault, Flag, RangeHazard, TypeOK, world
<1> QED BY <1>1, <1>2, <1>3

LEMMA StepKeepsTypes == TypeOK /\ [Next]_vars => TypeOK'
<1> SUFFICES ASSUME TypeOK, [Next]_vars PROVE TypeOK'
  OBVIOUS
<1>1. CASE UNCHANGED vars
  BY <1>1 DEF vars, world, bounds, TypeOK
<1>2. CASE Next
  BY <1>2, AsksKeepTypes, FlushKeepsTypes, ToolKeepsTypes, LoadsKeepTypes, PostReadKeepsTypes,
     FailuresKeepTypes, PostEditKeepsTypes, ChangesKeepTypes, SessionKeepsTypes DEF Next, Hook
<1> QED BY <1>1, <1>2

\* Every variable keeps its type, and an object lives as long as its hook
\* (pre_read, post_read, post_edit and what they save).
THEOREM TypeCorrect == Spec => []TypeOK
<1>1. Init => TypeOK
  BY InitialTypes
<1>2. TypeOK /\ [Next]_vars => TypeOK'
  BY StepKeepsTypes
<1> QED BY <1>1, <1>2, PTL DEF Spec

-----------------------------------------------------------------------------
(* The caps: they hold of the objects that hooks will save, too.           *)

SmallCache(K) ==
  Cardinality(K.seen) <= MaxSeen /\ \A f \in File : Runs(K.files[f].cover) <= MaxRanges
Small == SmallCache(store) /\ \A c \in Caller : SmallCache(copy[c])
CapInv == TypeOK /\ Small

LEMMA RunsAreFew ==
  ASSUME NEW S \in SUBSET Whole
  PROVE  Runs(S) \in Nat /\ Runs({}) = 0 /\ Runs(Whole) <= 1 /\ Runs(Span(S)) <= 1
<1> DEFINE Starts(T) == {l \in T : l = 1 \/ l - 1 \notin T}
<1>1. \A T : Runs(T) = Cardinality(Starts(T))
  BY DEF Runs
<1>2. Runs(S) \in Nat
  <2>1. IsFiniteSet(Whole)
    BY Numbers, FS_Interval DEF Whole
  <2>2. Starts(S) \in SUBSET Whole
    OBVIOUS
  <2> QED BY <1>1, <2>1, <2>2, FS_Subset, FS_CardinalityType
<1>3. Runs({}) = 0
  BY <1>1, FS_EmptySet
<1>4. ASSUME NEW T, NEW x, Starts(T) \subseteq {x} PROVE Runs(T) <= 1
  <2>1. IsFiniteSet({x}) /\ Cardinality({x}) = 1
    BY FS_Singleton
  <2>2. Starts(T) \in SUBSET {x}
    BY <1>4
  <2> HIDE DEF Starts
  <2>3. Cardinality(Starts(T)) <= Cardinality({x})
    BY <2>1, <2>2, FS_Subset
  <2> QED BY <1>1, <2>1, <2>3
<1>5. Starts(Whole) \subseteq {1}
  BY Numbers DEF Whole
<1>6. \A l, m \in Starts(Span(S)) : l = m
  BY Numbers DEF Span, Whole
<1>7. \E x : Starts(Span(S)) \subseteq {x}
  <2> HIDE DEF Starts
  <2>1. CASE Starts(Span(S)) = {}
    BY <2>1
  <2>2. CASE \E x : x \in Starts(Span(S))
    BY <1>6, <2>2
  <2> QED BY <2>1, <2>2
<1> HIDE DEF Starts
<1> QED BY <1>2, <1>3, <1>4, <1>5, <1>7

LEMMA RecordedIsShort ==
  ASSUME NEW cover \in SUBSET Whole, NEW win \in SUBSET Whole, NEW count
  PROVE  Runs(Recorded(cover, count, win)) <= MaxRanges
<1>1. MaxRanges \in Nat /\ 1 <= MaxRanges
  BY Positive
<1>2. cover \cup win \in SUBSET Whole
  OBVIOUS
<1>3. Runs(Whole) <= MaxRanges
  <2>1. Runs(Whole) \in Nat /\ Runs(Whole) <= 1
    BY RunsAreFew, Whole \in SUBSET Whole
  <2> QED BY <1>1, <2>1
<1>4. Runs(Span(cover \cup win)) <= MaxRanges
  <2>1. Span(cover \cup win) \in SUBSET Whole
    BY DEF Span
  <2>2. Runs(Span(cover \cup win)) \in Nat /\ Runs(Span(cover \cup win)) <= 1
    BY <1>2, <2>1, RunsAreFew
  <2> QED BY <1>1, <2>2
<1>5. Runs(cover \cup win) \in Nat
  BY <1>2, RunsAreFew
<1> QED BY <1>1, <1>3, <1>4, <1>5 DEF Recorded

LEMMA RememberIsShort ==
  ASSUME NEW seen, NEW new, Cardinality(seen) <= MaxSeen
  PROVE  Cardinality(Remember(seen, new)) <= MaxSeen
BY DEF Remember

LEMMA FreshIsSmall == SmallCache(Fresh)
<1>1. Cardinality(Fresh.seen) <= MaxSeen
  BY FS_EmptySet, Positive DEF Fresh
<1>2. \A f \in File : Runs(Fresh.files[f].cover) <= MaxRanges
  BY RunsAreFew, {} \in SUBSET Whole, Positive DEF Fresh, NoEntry
<1> QED BY <1>1, <1>2 DEF SmallCache

LEMMA MergeIsSmall ==
  ASSUME NEW local \in Cache, NEW remote \in Cache, SmallCache(local), SmallCache(remote)
  PROVE  SmallCache(Merge(local, remote))
<1>1. Cardinality(Merge(local, remote).seen) <= MaxSeen
  BY RememberIsShort DEF Merge, SmallCache
<1>2. ASSUME NEW f \in File PROVE Runs(Merge(local, remote).files[f].cover) <= MaxRanges
  <2>1. Merge(local, remote).files[f] \in {local.files[f], remote.files[f]}
    BY DEF Merge, Newer
  <2> QED BY <2>1 DEF SmallCache
<1> QED BY <1>1, <1>2 DEF SmallCache

LEMMA SaveKeepsCaps ==
  ASSUME CapInv, NEW c \in Caller, NEW K \in Cache, NEW h, SmallCache(K), Saves(c, K, h)
  PROVE  Small'
<1>1. store' \in {store, K, Merge(K, store)}
  BY DEF Saves, Saved, SaveFails
<1>2. SmallCache(Merge(K, store))
  BY MergeIsSmall DEF CapInv, Small, TypeOK
<1>3. SmallCache(store')
  BY <1>1, <1>2 DEF CapInv, Small
<1>4. copy' \in {[copy EXCEPT ![c] = K], [copy EXCEPT ![c] = Fresh]}
  BY DEF Saves, Saved, SaveFails, Keeps
<1>5. \A d \in Caller : copy'[d] \in {copy[d], K, Fresh}
  BY <1>4 DEF CapInv, TypeOK
<1>6. \A d \in Caller : SmallCache(copy'[d])
  BY <1>5, FreshIsSmall DEF CapInv, Small
<1> QED BY <1>3, <1>6 DEF Small, SmallCache

LEMMA MarksAreSmall ==
  ASSUME TypeOK, NEW K \in Cache, SmallCache(K), NEW f \in File, NEW w \in SUBSET Whole, NEW now
  PROVE  /\ SmallCache(MarkFileRead(K, f, w, now))
         /\ SmallCache(MarkFileEdited(K, f))
         /\ SmallCache(RegisterContent(K, f))
         /\ SmallCache([K EXCEPT !.shas[f] = text[f]])
<1> USE CacheParts
<1>1. ASSUME NEW L, L.seen = K.seen,
             \A g \in File : Runs(L.files[g].cover) <= MaxRanges
      PROVE  SmallCache(L)
  BY <1>1 DEF SmallCache
<1>2. SmallCache(MarkFileRead(K, f, w, now))
  <2> DEFINE L == MarkFileRead(K, f, w, now)
  <2>1. L.seen = K.seen
    BY DEF MarkFileRead, Cache
  <2>2. \A g \in File \ {f} : L.files[g] = K.files[g]
    BY DEF MarkFileRead, Cache
  <2>3. L.files[f].cover = Recorded(K.files[f].cover, K.files[f].count, w)
    BY DEF MarkFileRead, Cache
  <2>4. K.files[f].cover \in SUBSET Whole
    BY DEF Entry
  <2>5. Runs(L.files[f].cover) <= MaxRanges
    BY <2>3, <2>4, RecordedIsShort
  <2> HIDE DEF L
  <2>6. SmallCache(L)
    BY <1>1, <2>1, <2>2, <2>5 DEF SmallCache
  <2> QED BY <2>6 DEF L
<1>3. SmallCache(MarkFileEdited(K, f))
  <2> DEFINE L == [K EXCEPT !.files[f].edited = TRUE]
  <2>1. L.seen = K.seen /\ \A g \in File \ {f} : L.files[g] = K.files[g]
    BY DEF Cache
  <2>2. L.files[f].cover = K.files[f].cover
    BY DEF Cache, Entry
  <2> HIDE DEF L
  <2>3. SmallCache(L)
    BY <1>1, <2>1, <2>2 DEF SmallCache
  <2> QED BY <2>3 DEF L, MarkFileEdited
<1>4. SmallCache(RegisterContent(K, f))
  <2>1. RegisterContent(K, f).seen = K.seen /\ RegisterContent(K, f).files = K.files
    BY DEF RegisterContent, Cache
  <2> QED BY <1>1, <2>1 DEF SmallCache
<1>5. SmallCache([K EXCEPT !.shas[f] = text[f]])
  <2> DEFINE L == [K EXCEPT !.shas[f] = text[f]]
  <2>1. L.seen = K.seen /\ L.files = K.files
    BY DEF Cache
  <2> HIDE DEF L
  <2>2. SmallCache(L)
    BY <1>1, <2>1 DEF SmallCache
  <2> QED BY <2>2 DEF L
<1> QED BY <1>2, <1>3, <1>4, <1>5

LEMMA StepKeepsCaps ==
  ASSUME CapInv, [Next]_vars
  PROVE  Small'
<1>0. ASSUME store' = store, NEW c \in Caller, NEW K, SmallCache(K),
             copy' = [copy EXCEPT ![c] = K]
      PROVE  Small'
  <2>1. \A d \in Caller : copy'[d] \in {copy[d], K}
    BY <1>0 DEF CapInv, TypeOK
  <2> QED BY <1>0, <2>1 DEF CapInv, Small, SmallCache
<1>1. CASE UNCHANGED <<store, copy>>
  BY <1>1 DEF CapInv, Small, SmallCache
<1>2. ASSUME NEW c \in Caller, PreReadDenies(c) PROVE Small'
  <2> DEFINE K == [store EXCEPT !.seen = Remember(store.seen, {<<call[c].file, call[c].win>>})]
  <2>1. copy' = [copy EXCEPT ![c] = K] /\ store' = store
    BY <1>2 DEF PreReadDenies, Keeps
  <2>2. K.files = store.files /\ K.seen = Remember(store.seen, {<<call[c].file, call[c].win>>})
    BY DEF CapInv, TypeOK, Cache
  <2>3. SmallCache(K)
    <3> HIDE DEF K
    <3> QED BY <2>2, RememberIsShort DEF CapInv, Small, SmallCache
  <2> HIDE DEF K
  <2> QED BY <1>0, <2>1, <2>3
<1>3. ASSUME NEW c \in Caller, Flush(c) PROVE Small'
  BY <1>3, SaveKeepsCaps DEF Flush, CapInv, Small, TypeOK
<1>4. ASSUME NEW c \in Caller, PostReadLoads(c) \/ PostEditLoads(c) PROVE Small'
  <2>1. store' = store /\ copy' = [copy EXCEPT ![c] = store]
    BY <1>4 DEF PostReadLoads, PostEditLoads, Loads, Keeps
  <2> QED BY <1>0, <2>1 DEF CapInv, Small
<1>5. ASSUME NEW c \in Caller, PostReadMarks(c) \/ PostReadHashes(c) \/ PostReadSnapshots(c)
      PROVE  Small'
  <2>1. pc[c] # "idle"
    BY <1>5 DEF PostReadMarks, PostReadHashes, PostReadSnapshots, Goes, Ends, Move
  <2>2. call[c].file \in File /\ call[c].win \in SUBSET Whole
    BY <2>1, CallOf DEF CapInv
  <2>3. copy[c] \in Cache /\ SmallCache(copy[c]) /\ reads + 1 \in Nat
    BY DEF CapInv, Small, TypeOK
  <2>4. TypeOK
    BY DEF CapInv
  <2>5. CASE PostReadMarks(c)
    <3> DEFINE K == MarkFileRead(copy[c], call[c].file, call[c].win, reads + 1)
    <3>1. K \in Cache /\ SmallCache(K)
      BY <2>2, <2>3, <2>4, MarksType, MarksAreSmall
    <3>2. \E h : Saves(c, K, h)
      BY <2>5 DEF PostReadMarks
    <3> HIDE DEF K
    <3> QED BY <3>1, <3>2, SaveKeepsCaps
  <2>6. CASE PostReadHashes(c)
    <3>1. PICK K \in {RegisterContent(copy[c], call[c].file), copy[c]} : Saves(c, K, {})
      BY <2>6 DEF PostReadHashes
    <3>2. K \in Cache /\ SmallCache(K)
      BY <2>2, <2>3, <2>4, <3>1, MarksType, MarksAreSmall
    <3> QED BY <3>1, <3>2, SaveKeepsCaps
  <2>7. CASE PostReadSnapshots(c)
    <3> DEFINE K == [copy[c] EXCEPT !.shas[call[c].file] = text[call[c].file]]
    <3>1. K \in Cache /\ SmallCache(K)
      BY <2>2, <2>3, <2>4, MarksType, MarksAreSmall
    <3>2. Saves(c, K, {})
      BY <2>7 DEF PostReadSnapshots
    <3> HIDE DEF K
    <3> QED BY <3>1, <3>2, SaveKeepsCaps
  <2> QED BY <1>5, <2>5, <2>6, <2>7
<1>6. ASSUME NEW c \in Caller, SnapshotFails(c) PROVE Small'
  BY <1>0, <1>6, FreshIsSmall DEF SnapshotFails, Keeps
<1>7. ASSUME NEW c \in Caller, PostEditMarks(c) PROVE Small'
  <2>1. pc[c] # "idle" /\ TypeOK
    BY <1>7 DEF PostEditMarks, Ends, Move, CapInv
  <2>2. call[c].file \in File
    BY <2>1, CallOf
  <2>3. copy[c] \in Cache /\ SmallCache(copy[c])
    BY DEF CapInv, Small, TypeOK
  <2> DEFINE K == MarkFileEdited(copy[c], call[c].file)
  <2>4. K \in Cache /\ SmallCache(K)
    BY <2>1, <2>2, <2>3, MarksType, MarksAreSmall, 0 \in Nat, {} \in SUBSET Whole
  <2>5. \E h : Saves(c, K, h)
    BY <1>7, <2>1, PostEditSaves
  <2> HIDE DEF K
  <2> QED BY <2>4, <2>5, SaveKeepsCaps
<1>8. CASE Hints
  <2>1. PICK h \in OtherHint : store' = [store EXCEPT !.seen = Remember(store.seen, {h})]
    BY <1>8 DEF Hints
  <2>2. store'.files = store.files /\ store'.seen = Remember(store.seen, {h})
    BY <2>1 DEF CapInv, TypeOK, Cache
  <2>3. SmallCache(store')
    BY <2>2, RememberIsShort DEF CapInv, Small, SmallCache
  <2> QED BY <1>8, <2>3 DEF Hints, CapInv, Small, SmallCache
<1>9. CASE Reset
  <2>1. store' = Fresh /\ UNCHANGED copy
    BY <1>9 DEF Reset
  <2> QED BY <2>1, FreshIsSmall DEF CapInv, Small, SmallCache
<1>10. ASSUME NEW c \in Caller,
              \/ Ask(c) \/ PreReadDedup(c) \/ PreReadPasses(c) \/ Tool(c)
              \/ LoadFails(c) \/ Edit(c)
       PROVE  UNCHANGED <<store, copy>>
  BY <1>10 DEF Ask, PreReadDedup, PreReadPasses, Tool, LoadFails, Edit
<1>11. Outside \/ Compact \/ UNCHANGED vars => UNCHANGED <<store, copy>>
  BY DEF Outside, Compact, vars
<1> QED BY <1>1, <1>2, <1>3, <1>4, <1>5, <1>6, <1>7, <1>8, <1>9, <1>10, <1>11 DEF Next, Hook, PreRead

\* hints_seen and the ranges of a file keep their caps, also where a save
\* merges two caches that have each reached them (mark_hint_seen,
\* mark_file_read, _merge_session_caches).
THEOREM CapsKept == Spec => []CapsHold
<1>1. Init => CapInv
  BY InitialTypes, FreshIsSmall DEF Init, CapInv, Small
<1>2. CapInv /\ [Next]_vars => CapInv'
  BY StepKeepsTypes, StepKeepsCaps DEF CapInv
<1>3. CapInv => CapsHold
  BY DEF CapInv, Small, SmallCache, CapsHold
<1> QED BY <1>1, <1>2, <1>3, PTL DEF Spec

-----------------------------------------------------------------------------
(* What a hook that saves leaves behind, for it and for the others.        *)

LEMMA HazardsOnlyGrow == [Next]_vars => hazards \subseteq hazards'
<1> SUFFICES ASSUME [Next]_vars PROVE hazards \subseteq hazards'
  OBVIOUS
<1>1. ASSUME NEW c \in Caller, PreRead(c) \/ Ask(c) \/ Tool(c) \/ Edit(c)
      PROVE  hazards \subseteq hazards'
  BY <1>1 DEF PreRead, PreReadDedup, PreReadDenies, PreReadPasses, Ask, Tool, Edit
<1>2. ASSUME NEW c \in Caller,
             \/ Flush(c) \/ PostReadMarks(c) \/ PostReadHashes(c) \/ PostReadSnapshots(c)
             \/ PostEditMarks(c)
      PROVE  hazards \subseteq hazards'
  BY <1>2 DEF Flush, PostReadMarks, PostReadHashes, PostReadSnapshots, PostEditMarks, Saves,
              Saved, SaveFails
<1>3. ASSUME NEW c \in Caller,
             PostReadLoads(c) \/ SnapshotFails(c) \/ PostEditLoads(c) \/ LoadFails(c)
      PROVE  hazards \subseteq hazards'
  BY <1>3 DEF PostReadLoads, SnapshotFails, PostEditLoads, LoadFails
<1>4. Outside \/ Hints \/ Compact \/ Reset \/ UNCHANGED vars => hazards \subseteq hazards'
  BY DEF Outside, Hints, Compact, Reset, vars
<1> QED BY <1>1, <1>2, <1>3, <1>4 DEF Next, Hook

\* The store and the objects once c has saved K and gone to `to`.
Outcome(c, K, to) ==
  /\ store' = IF c \in stale THEN Merge(K, store) ELSE K
  /\ \A d \in Caller \ {c} : pc'[d] = pc[d] /\ copy'[d] = copy[d]
  /\ \A d \in Caller \ {c} : pc'[d] \in Holding => d \in stale'
  /\ pc'[c] = to
  /\ to \in Holding => copy'[c] = K /\ (c \in stale' <=> c \in stale)

LEMMA SaveOutcome ==
  ASSUME TypeOK, NEW c \in Caller, NEW K \in Cache, NEW h, NEW to, pc[c] \in Holding,
         pc' = [pc EXCEPT ![c] = to], Saves(c, K, h), "lost" \notin hazards'
  PROVE  Outcome(c, K, to) /\ h \subseteq hazards'
<1>1. pc'[c] = to /\ \A d \in Caller \ {c} : pc'[d] = pc[d]
  BY DEF TypeOK
<1>2. Saved(c, K, h)
  BY DEF Saves, SaveFails
<1>3. \A d \in Caller \ {c} : copy'[d] = copy[d]
  BY <1>2 DEF Saved, Keeps, TypeOK
<1>4. \A d \in Caller \ {c} : pc'[d] \in Holding => d \in stale'
  BY <1>1, <1>2 DEF Saved, Behind
<1>5. to \in Holding => copy'[c] = K /\ (c \in stale' <=> c \in stale)
  BY <1>1, <1>2 DEF Saved, Keeps, Behind, TypeOK
<1> QED BY <1>1, <1>2, <1>3, <1>4, <1>5 DEF Saved, Outcome

\* The object that a save action writes, as far as the other parts of the
\* cache than its own go.
LEMMA WrittenBy ==
  ASSUME TypeOK, NEW c \in Caller,
         \/ Flush(c) \/ PostReadMarks(c) \/ PostReadHashes(c) \/ PostReadSnapshots(c)
         \/ PostEditMarks(c)
  PROVE  \E K \in Cache, h \in SUBSET AnyHazard, to \in {"idle", "asks", "hash", "snap"} :
           /\ Saves(c, K, h) /\ pc[c] \in Holding /\ pc' = [pc EXCEPT ![c] = to]
           /\ K.seen = copy[c].seen
           /\ PostReadMarks(c) =>
                K = MarkFileRead(copy[c], call[c].file, call[c].win, reads + 1)
           /\ PostEditMarks(c) =>
                /\ K = MarkFileEdited(copy[c], call[c].file)
                /\ c \in stale => "crossed" \in h \/ "lost" \in hazards'
           /\ PostReadHashes(c) =>
                K = IF call[c].win = Whole THEN RegisterContent(copy[c], call[c].file) ELSE copy[c]
           /\ PostReadSnapshots(c) =>
                K = [copy[c] EXCEPT !.shas[call[c].file] = text[call[c].file]]
           /\ Flush(c) => K = copy[c]
           /\ ~PostReadMarks(c) /\ ~PostEditMarks(c) => K.files = copy[c].files
<1>1. pc[c] \in Holding /\ pc[c] # "idle"
  BY DEF Flush, PostReadMarks, PostReadHashes, PostReadSnapshots, PostEditMarks,
         Goes, Ends, Move, Holding
<1>2. call[c].file \in File /\ call[c].win \in SUBSET Whole
  BY <1>1, CallOf
<1>3. copy[c] \in Cache /\ reads + 1 \in Nat
  BY DEF TypeOK
<1> DEFINE f == call[c].file
           w == call[c].win
           Marked == MarkFileRead(copy[c], f, w, reads + 1)
           Noted == MarkFileEdited(copy[c], f)
           Hashed == IF w = Whole THEN RegisterContent(copy[c], f) ELSE copy[c]
           Snapped == [copy[c] EXCEPT !.shas[f] = text[f]]
<1>4. Marked \in Cache /\ Noted \in Cache /\ Hashed \in Cache /\ Snapped \in Cache
  BY <1>2, <1>3, MarksType
<1>5. /\ Marked.seen = copy[c].seen /\ Noted.seen = copy[c].seen
      /\ Hashed.seen = copy[c].seen /\ Snapped.seen = copy[c].seen
      /\ Hashed.files = copy[c].files /\ Snapped.files = copy[c].files
  BY <1>3 DEF MarkFileRead, MarkFileEdited, RegisterContent, Cache
<1>6. CASE Flush(c)
  <2>1. ~PostReadMarks(c) /\ ~PostEditMarks(c) /\ ~PostReadHashes(c) /\ ~PostReadSnapshots(c)
    BY <1>6 DEF Flush, PostReadMarks, PostReadHashes, PostReadSnapshots, PostEditMarks,
                Goes, Ends, Move
  <2>2. PICK h \in SUBSET AnyHazard : Saves(c, copy[c], h)
    BY <1>6 DEF Flush, Flag, AnyHazard, OtherHazard
  <2>3. PICK to \in {"idle", "asks"} : pc' = [pc EXCEPT ![c] = to]
    BY <1>6 DEF Flush, Goes, Ends, Move
  <2> QED BY <1>1, <1>3, <2>1, <2>2, <2>3
<1>7. CASE PostReadMarks(c)
  <2>1. ~Flush(c) /\ ~PostEditMarks(c) /\ ~PostReadHashes(c) /\ ~PostReadSnapshots(c)
    BY <1>7 DEF Flush, PostReadMarks, PostReadHashes, PostReadSnapshots, PostEditMarks,
                Goes, Ends, Move
  <2>2. PICK h \in SUBSET AnyHazard : Saves(c, Marked, h)
    BY <1>7 DEF PostReadMarks, Flag, AnyHazard, RangeHazard
  <2>3. pc' = [pc EXCEPT ![c] = "hash"]
    BY <1>7 DEF PostReadMarks, Goes, Move
  <2> HIDE DEF Marked
  <2>4. Marked = MarkFileRead(copy[c], call[c].file, call[c].win, reads + 1)
    BY DEF Marked
  <2> QED BY <1>1, <1>4, <1>5, <1>7, <2>1, <2>2, <2>3, <2>4
<1>8. CASE PostReadHashes(c)
  <2>1. ~Flush(c) /\ ~PostEditMarks(c) /\ ~PostReadMarks(c) /\ ~PostReadSnapshots(c)
    BY <1>8 DEF Flush, PostReadMarks, PostReadHashes, PostReadSnapshots, PostEditMarks,
                Goes, Ends, Move
  <2>2. Saves(c, Hashed, {}) /\ pc' = [pc EXCEPT ![c] = "snap"]
    BY <1>8 DEF PostReadHashes, Goes, Move
  <2>3. Hashed = IF call[c].win = Whole THEN RegisterContent(copy[c], call[c].file) ELSE copy[c]
    OBVIOUS
  <2> HIDE DEF Hashed
  <2> QED BY <1>1, <1>4, <1>5, <2>1, <2>2, <2>3
<1>9. CASE PostReadSnapshots(c)
  <2>1. ~Flush(c) /\ ~PostEditMarks(c) /\ ~PostReadMarks(c) /\ ~PostReadHashes(c)
    BY <1>9 DEF Flush, PostReadMarks, PostReadHashes, PostReadSnapshots, PostEditMarks,
                Goes, Ends, Move
  <2>2. Saves(c, Snapped, {}) /\ pc' = [pc EXCEPT ![c] = "idle"]
    BY <1>9 DEF PostReadSnapshots, Ends, Move
  <2>3. Snapped = [copy[c] EXCEPT !.shas[call[c].file] = text[call[c].file]]
    OBVIOUS
  <2> HIDE DEF Snapped
  <2> QED BY <1>1, <1>4, <1>5, <2>1, <2>2, <2>3
<1>10. CASE PostEditMarks(c)
  <2>1. ~Flush(c) /\ ~PostReadSnapshots(c) /\ ~PostReadMarks(c) /\ ~PostReadHashes(c)
    BY <1>10 DEF Flush, PostReadMarks, PostReadHashes, PostReadSnapshots, PostEditMarks,
                 Goes, Ends, Move
  <2>2. pc' = [pc EXCEPT ![c] = "idle"]
    BY <1>10 DEF PostEditMarks, Ends, Move
  <2>3. PICK h \in SUBSET AnyHazard :
          Saves(c, Noted, h) /\ (c \in stale => "crossed" \in h \/ "lost" \in hazards')
    BY <1>10 DEF PostEditMarks, Saves, SaveFails, Flag, AnyHazard, OtherHazard
  <2> HIDE DEF Noted
  <2>4. Noted = MarkFileEdited(copy[c], call[c].file)
    BY DEF Noted
  <2> QED BY <1>1, <1>4, <1>5, <1>10, <2>1, <2>2, <2>3, <2>4
<1> QED BY <1>6, <1>7, <1>8, <1>9, <1>10

-----------------------------------------------------------------------------
(* Denials: what a hook will save has the fingerprints that were told.     *)

Forgetful == {"lost", "full", "revived"}
Told == told \subseteq store.seen
InHand == \A c \in Caller : pc[c] = "flush" => <<call[c].file, call[c].win>> \in copy[c].seen
AheadOfStore ==
  \A c \in Caller : pc[c] \in Holding /\ c \notin stale => store.seen \subseteq copy[c].seen
DenialsInHand == hazards \cap Forgetful = {} => Told /\ InHand /\ AheadOfStore
DenialInv == TypeOK /\ DenialsInHand

LEMMA MergeSees ==
  ASSUME NEW local, NEW remote
  PROVE  /\ remote.seen \subseteq Merge(local, remote).seen
         /\ Merge(local, remote).seen = Remember(remote.seen, local.seen)
BY DEF Merge, Remember

LEMMA SavesKeepDenials ==
  ASSUME DenialInv, NEW c \in Caller,
         \/ Flush(c) \/ PostReadMarks(c) \/ PostReadHashes(c) \/ PostReadSnapshots(c)
         \/ PostEditMarks(c),
         hazards' \cap Forgetful = {}, hazards \subseteq hazards'
  PROVE  (Told /\ InHand /\ AheadOfStore)'
<1> TypeOK
  BY DEF DenialInv
<1>1. Told /\ InHand /\ AheadOfStore /\ "lost" \notin hazards'
  BY DEF DenialInv, DenialsInHand, Forgetful
<1>2. PICK K \in Cache, h \in SUBSET AnyHazard, to \in {"idle", "asks", "hash", "snap"} :
        /\ Saves(c, K, h) /\ pc[c] \in Holding /\ pc' = [pc EXCEPT ![c] = to]
        /\ K.seen = copy[c].seen
  BY WrittenBy
<1>3. Outcome(c, K, to)
  BY <1>1, <1>2, SaveOutcome
<1>4. store.seen \subseteq store'.seen
  BY <1>1, <1>2, <1>3, MergeSees DEF AheadOfStore, Outcome
<1>5. told' \subseteq store'.seen
  <2>1. CASE Flush(c)
    <3> DEFINE d == <<call[c].file, call[c].win>>
               s == IF c \in stale THEN Remember(store.seen, copy[c].seen) ELSE copy[c].seen
    <3>1. store'.seen = s
      BY <1>2, <1>3, MergeSees DEF Outcome
    <3>2. Saves(c, copy[c], Flag("full", d \notin s)) /\ told' = told \cup {d}
      BY <2>1 DEF Flush
    <3>3. Flag("full", d \notin s) \subseteq hazards'
      BY <3>2 DEF Saves, Saved, SaveFails
    <3>4. d \in s
      BY <3>3 DEF Flag, Forgetful
    <3> QED BY <1>1, <1>4, <3>1, <3>2, <3>4 DEF Told
  <2>2. CASE ~Flush(c)
    <3>1. told' = told
      BY <2>2 DEF PostReadMarks, PostReadHashes, PostReadSnapshots, PostEditMarks
    <3> QED BY <1>1, <1>4, <3>1 DEF Told
  <2> QED BY <2>1, <2>2
<1>6. InHand'
  <2> SUFFICES ASSUME NEW d \in Caller, pc'[d] = "flush"
               PROVE  <<call'[d].file, call'[d].win>> \in copy'[d].seen
    BY DEF InHand
  <2>1. d # c
    BY <1>2, <1>3 DEF Outcome
  <2>2. pc'[d] = pc[d] /\ copy'[d] = copy[d]
    BY <1>3, <2>1 DEF Outcome
  <2>3. call'[d] = call[d]
    BY <2>1 DEF Flush, PostReadMarks, PostReadHashes, PostReadSnapshots, PostEditMarks,
                Goes, Ends, TypeOK
  <2> QED BY <1>1, <2>2, <2>3 DEF InHand
<1>7. AheadOfStore'
  <2> SUFFICES ASSUME NEW d \in Caller, pc'[d] \in Holding, d \notin stale'
               PROVE  store'.seen \subseteq copy'[d].seen
    BY DEF AheadOfStore
  <2>1. d = c /\ to \in Holding
    BY <1>3 DEF Outcome
  <2> QED BY <1>3, <2>1 DEF Outcome
<1> QED BY <1>5, <1>6, <1>7 DEF Told

LEMMA StepKeepsDenials ==
  ASSUME DenialInv, [Next]_vars
  PROVE  DenialsInHand'
<1> SUFFICES ASSUME hazards' \cap Forgetful = {}
             PROVE  (Told /\ InHand /\ AheadOfStore)'
  BY DEF DenialsInHand, Forgetful
<1>0. TypeOK /\ hazards \subseteq hazards'
  BY HazardsOnlyGrow DEF DenialInv
<1>1. Told /\ InHand /\ AheadOfStore
  BY <1>0 DEF DenialInv, DenialsInHand
<1>2. ASSUME NEW c \in Caller,
             \/ Flush(c) \/ PostReadMarks(c) \/ PostReadHashes(c) \/ PostReadSnapshots(c)
             \/ PostEditMarks(c)
      PROVE  (Told /\ InHand /\ AheadOfStore)'
  BY <1>0, <1>2, SavesKeepDenials
\* A step that leaves the store alone: one caller may get another object.
<1>3. ASSUME UNCHANGED <<store, told, stale>>, NEW c \in Caller,
             \A d \in Caller \ {c} : pc'[d] = pc[d] /\ copy'[d] = copy[d] /\ call'[d] = call[d],
             pc'[c] \in Holding => store.seen \subseteq copy'[c].seen,
             pc'[c] = "flush" => <<call'[c].file, call'[c].win>> \in copy'[c].seen
      PROVE  (Told /\ InHand /\ AheadOfStore)'
  BY <1>1, <1>3 DEF Told, InHand, AheadOfStore
<1>4. ASSUME NEW c \in Caller, PreReadDenies(c)
      PROVE  (Told /\ InHand /\ AheadOfStore)'
  <2> DEFINE d == <<call[c].file, call[c].win>>
             s == Remember(store.seen, {d})
  <2>1. /\ UNCHANGED <<store, told, stale, call>> /\ pc' = [pc EXCEPT ![c] = "flush"]
        /\ copy' = [copy EXCEPT ![c] = [store EXCEPT !.seen = s]]
        /\ hazards' = hazards \cup Flag("full", d \notin s)
    BY <1>4 DEF PreReadDenies, Goes, Move, Keeps
  <2>2. copy'[c].seen = s
    BY <1>0, <2>1 DEF TypeOK, Cache
  <2>3. d \in s
    BY <2>1 DEF Flag, Forgetful
  <2>4. store.seen \subseteq s
    BY DEF Remember
  <2>5. /\ \A e \in Caller \ {c} : pc'[e] = pc[e] /\ copy'[e] = copy[e]
        /\ pc'[c] = "flush"
    BY <1>0, <2>1 DEF TypeOK
  <2> HIDE DEF d, s
  <2>6. <<call'[c].file, call'[c].win>> = d
    BY <2>1 DEF d
  <2> QED BY <1>3, <2>1, <2>2, <2>3, <2>4, <2>5, <2>6
<1>5. ASSUME NEW c \in Caller, PostReadLoads(c) \/ PostEditLoads(c)
      PROVE  (Told /\ InHand /\ AheadOfStore)'
  <2>1. /\ UNCHANGED <<store, told, stale, call>> /\ copy' = [copy EXCEPT ![c] = store]
        /\ \E to \in {"marks", "notes"} : pc' = [pc EXCEPT ![c] = to]
    BY <1>5 DEF PostReadLoads, PostEditLoads, Loads, Keeps, Goes, Move
  <2>2. /\ \A d \in Caller \ {c} : pc'[d] = pc[d] /\ copy'[d] = copy[d]
        /\ copy'[c] = store /\ pc'[c] # "flush"
    BY <1>0, <2>1 DEF TypeOK
  <2> QED BY <1>3, <2>1, <2>2
<1>6. ASSUME NEW c \in Caller,
             \/ Ask(c) \/ PreReadDedup(c) \/ PreReadPasses(c) \/ Tool(c)
             \/ LoadFails(c) \/ Edit(c)
      PROVE  (Told /\ InHand /\ AheadOfStore)'
  <2>1. UNCHANGED <<store, told, stale, copy>>
    BY <1>6 DEF Ask, PreReadDedup, PreReadPasses, Tool, LoadFails, Edit
  <2>2. PICK to \in {"asks", "idle", "tool", "posts", "edited"} : pc' = [pc EXCEPT ![c] = to]
    BY <1>6 DEF Ask, PreReadDedup, PreReadPasses, Tool, LoadFails, Edit, Goes, Ends, Move
  <2>3. \A d \in Caller \ {c} : call'[d] = call[d]
    BY <1>0, <1>6 DEF Ask, PreReadDedup, PreReadPasses, Tool, LoadFails, Edit, Goes, Ends, TypeOK
  <2>4. pc'[c] \notin Holding /\ pc'[c] # "flush" /\ \A d \in Caller \ {c} : pc'[d] = pc[d]
    BY <1>0, <2>2 DEF TypeOK, Holding
  <2> QED BY <1>3, <2>1, <2>3, <2>4
<1>7. ASSUME NEW c \in Caller, SnapshotFails(c)
      PROVE  (Told /\ InHand /\ AheadOfStore)'
  <2>1. /\ UNCHANGED <<store, told>> /\ stale' = stale \ {c} /\ copy' = [copy EXCEPT ![c] = Fresh]
        /\ pc' = [pc EXCEPT ![c] = "idle"] /\ call' = [call EXCEPT ![c] = NoCall]
    BY <1>7 DEF SnapshotFails, Ends, Move, Keeps
  <2>2. /\ \A d \in Caller \ {c} : /\ pc'[d] = pc[d] /\ copy'[d] = copy[d]
                                   /\ call'[d] = call[d] /\ (d \in stale' <=> d \in stale)
        /\ pc'[c] \notin Holding /\ pc'[c] # "flush"
    BY <1>0, <2>1 DEF TypeOK, Holding
  <2> QED BY <1>1, <2>1, <2>2 DEF Told, InHand, AheadOfStore
<1>8. CASE Hints
  <2>1. PICK h \in OtherHint : store' = [store EXCEPT !.seen = Remember(store.seen, {h})]
    BY <1>8 DEF Hints
  <2>2. store.seen \subseteq store'.seen
    BY <1>0, <2>1 DEF Remember, TypeOK, Cache
  <2>3. UNCHANGED <<copy, pc, call, told>> /\ stale' = {c \in Caller : pc[c] \in Holding}
    BY <1>8 DEF Hints
  <2> QED BY <1>1, <2>2, <2>3 DEF Told, InHand, AheadOfStore
<1>9. CASE Reset
  <2>1. Busy = {} /\ pc' = pc /\ told' = {}
    BY <1>9 DEF Reset, Flag, Forgetful
  <2>2. \A c \in Caller : pc[c] \notin Holding /\ pc[c] # "flush"
    BY <2>1 DEF Busy, InFlight, Holding
  <2> QED BY <2>1, <2>2 DEF Told, InHand, AheadOfStore
<1>10. CASE Outside \/ Compact \/ UNCHANGED vars
  <2>1. UNCHANGED <<store, told, stale, copy, pc, call>>
    BY <1>10 DEF Outside, Compact, vars
  <2> QED BY <1>1, <2>1 DEF Told, InHand, AheadOfStore
<1> QED BY <1>2, <1>4, <1>5, <1>6, <1>7, <1>8, <1>9, <1>10 DEF Next, Hook, PreRead

\* A denial is given once: a fingerprint that pre_read told is in hints_seen
\* whoever saved and merged since, unless its own save failed, hints_seen
\* was full, or the session was reset under a running hook.
THEOREM DenialsKept == Spec => []DenialsAreRemembered
<1>1. Init => DenialInv
  <2>1. Init => Told /\ InHand /\ AheadOfStore
    BY DEF Init, Told, InHand, AheadOfStore, Holding
  <2> QED BY <2>1, InitialTypes DEF DenialInv, DenialsInHand
<1>2. DenialInv /\ [Next]_vars => DenialInv'
  BY StepKeepsTypes, StepKeepsDenials DEF DenialInv
<1>3. DenialInv => DenialsAreRemembered
  BY DEF DenialInv, DenialsInHand, DenialsAreRemembered, Told, Forgetful
<1> QED BY <1>1, <1>2, <1>3, PTL DEF Spec

-----------------------------------------------------------------------------
(* Edits: what a hook will save is no newer than what the store says.      *)

Unmarking == {"lost", "crossed", "revived"}
Marked == \A f \in noted : store.files[f].edited
ReadsPast == \A f \in File : store.files[f].read <= reads
InStep == \A c \in Caller : pc[c] \in Holding /\ c \notin stale => copy[c].files = store.files
NotAhead ==
  \A c \in Caller : pc[c] \in Holding =>
    \A f \in File : copy[c].files[f].read <= store.files[f].read
EditsInHand == hazards \cap Unmarking = {} => Marked /\ ReadsPast /\ InStep /\ NotAhead
EditInv == TypeOK /\ EditsInHand

LEMMA ReadEntry ==
  ASSUME TypeOK, NEW K \in Cache, NEW f \in File, NEW w \in SUBSET Whole, NEW now \in Nat
  PROVE  /\ \A g \in File \ {f} : MarkFileRead(K, f, w, now).files[g] = K.files[g]
         /\ MarkFileRead(K, f, w, now).files[f].read = now
<1>1. K.files \in [File -> Entry] /\ K.files[f] \in Entry
  BY CacheParts
<1>2. \A g \in File \ {f} : MarkFileRead(K, f, w, now).files[g] = K.files[g]
  BY <1>1 DEF MarkFileRead, Cache
<1>3. MarkFileRead(K, f, w, now).files[f].read = now
  BY <1>1 DEF MarkFileRead, Cache
<1> QED BY <1>2, <1>3

LEMMA EditedEntry ==
  ASSUME NEW K \in Cache, NEW f \in File
  PROVE  /\ \A g \in File \ {f} : MarkFileEdited(K, f).files[g] = K.files[g]
         /\ MarkFileEdited(K, f).files[f].read = K.files[f].read
         /\ K.files[f].edited => MarkFileEdited(K, f).files[f].edited
<1>1. K.files \in [File -> Entry] /\ K.files[f] \in Entry
  BY CacheParts
<1>2. \A g \in File \ {f} : MarkFileEdited(K, f).files[g] = K.files[g]
  BY <1>1 DEF MarkFileEdited, Cache
<1>3. MarkFileEdited(K, f).files[f].read = K.files[f].read
  BY <1>1 DEF MarkFileEdited, Cache, Entry
<1>4. K.files[f].edited => MarkFileEdited(K, f).files[f].edited
  BY <1>1 DEF MarkFileEdited, Cache, Entry
<1> QED BY <1>2, <1>3, <1>4

\* What a merge leaves of the entries, when the local ones are not ahead.
LEMMA MergedEntries ==
  ASSUME NEW local \in Cache, NEW remote \in Cache, NEW f \in File
  PROVE  LET m == Merge(local, remote).files[f]
         IN  /\ m \in {local.files[f], remote.files[f]}
             /\ m.read >= local.files[f].read /\ m.read >= remote.files[f].read
             /\ local.files[f].read <= remote.files[f].read => m = remote.files[f]
<1>1. Merge(local, remote).files[f] = Newer(local.files[f], remote.files[f])
  BY DEF Merge
<1>2. local.files[f].read \in Nat /\ remote.files[f].read \in Nat
  BY CacheParts DEF Entry
<1> QED BY <1>1, <1>2 DEF Newer

LEMMA SavesKeepEdits ==
  ASSUME EditInv, NEW c \in Caller,
         \/ Flush(c) \/ PostReadMarks(c) \/ PostReadHashes(c) \/ PostReadSnapshots(c)
         \/ PostEditMarks(c),
         hazards' \cap Unmarking = {}, hazards \subseteq hazards'
  PROVE  (Marked /\ ReadsPast /\ InStep /\ NotAhead)'
<1> TypeOK
  BY DEF EditInv
<1> DEFINE f == call[c].file
           w == call[c].win
           L == copy[c].files
           R == store.files
<1>1. Marked /\ ReadsPast /\ InStep /\ NotAhead /\ "lost" \notin hazards'
  BY DEF EditInv, EditsInHand, Unmarking
<1>2. PICK K \in Cache, h \in SUBSET AnyHazard, to \in {"idle", "asks", "hash", "snap"} :
        /\ Saves(c, K, h) /\ pc[c] \in Holding /\ pc' = [pc EXCEPT ![c] = to]
        /\ PostReadMarks(c) => K = MarkFileRead(copy[c], f, w, reads + 1)
        /\ PostEditMarks(c) => /\ K = MarkFileEdited(copy[c], f)
                               /\ c \in stale => "crossed" \in h \/ "lost" \in hazards'
        /\ ~PostReadMarks(c) /\ ~PostEditMarks(c) => K.files = L
  BY WrittenBy
<1>3. Outcome(c, K, to) /\ h \subseteq hazards'
  BY <1>1, <1>2, SaveOutcome
<1>4. /\ f \in File /\ w \in SUBSET Whole /\ reads \in Nat /\ store \in Cache /\ copy[c] \in Cache
      /\ \A g \in File : L[g].read \in Nat /\ R[g].read \in Nat /\ K.files[g].read \in Nat
  <2>1. pc[c] # "idle"
    BY <1>2 DEF Holding
  <2>2. f \in File /\ w \in SUBSET Whole
    BY <2>1, CallOf
  <2>3. copy[c] \in Cache /\ store \in Cache /\ reads \in Nat
    BY DEF TypeOK
  <2> QED BY <2>2, <2>3, CacheParts DEF Entry
<1>5. /\ \A g \in File : L[g].read <= R[g].read
      /\ c \notin stale => L = R
      /\ \A g \in File : R[g].read <= reads
  BY <1>1, <1>2 DEF NotAhead, InStep, ReadsPast
<1>6. /\ \A g \in File \ {f} : K.files[g] = L[g]
      /\ K.files[f].read = IF PostReadMarks(c) THEN reads + 1 ELSE L[f].read
      /\ ~PostReadMarks(c) /\ ~PostEditMarks(c) => K.files[f] = L[f]
  <2>1. PostReadMarks(c) => ~PostEditMarks(c)
    BY DEF PostReadMarks, PostEditMarks, Goes, Ends, Move
  <2>2. CASE PostReadMarks(c)
    BY <1>2, <1>4, <2>1, <2>2, ReadEntry
  <2>3. CASE PostEditMarks(c)
    BY <1>2, <1>4, <2>1, <2>3, EditedEntry
  <2>4. CASE ~PostReadMarks(c) /\ ~PostEditMarks(c)
    BY <1>2, <1>4, <2>4
  <2> QED BY <2>2, <2>3, <2>4
<1>7. reads' = IF PostReadMarks(c) THEN reads + 1 ELSE reads
  <2>1. CASE PostReadMarks(c)
    BY <2>1 DEF PostReadMarks
  <2>2. CASE ~PostReadMarks(c)
    BY <2>2 DEF Flush, PostReadHashes, PostReadSnapshots, PostEditMarks
  <2> QED BY <2>1, <2>2
<1>8. store' = IF c \in stale THEN Merge(K, store) ELSE K
  BY <1>3 DEF Outcome
<1> HIDE DEF f, L, R
\* The store's entries after the save.
<1>9. /\ c \in stale => \A g \in File : /\ store'.files[g] \in {K.files[g], R[g]}
                                        /\ store'.files[g].read >= K.files[g].read
                                        /\ store'.files[g].read >= R[g].read
                                        /\ K.files[g].read <= R[g].read => store'.files[g] = R[g]
      /\ c \notin stale => store' = K
  <2>1. CASE c \in stale
    <3>1. ASSUME NEW g \in File
          PROVE  /\ store'.files[g] \in {K.files[g], R[g]}
                 /\ store'.files[g].read >= K.files[g].read
                 /\ store'.files[g].read >= R[g].read
                 /\ K.files[g].read <= R[g].read => store'.files[g] = R[g]
      <4>1. store' = Merge(K, store)
        BY <1>8, <2>1
      <4> QED BY <1>4, <4>1, MergedEntries DEF R
    <3> QED BY <2>1, <3>1
  <2>2. CASE c \notin stale
    BY <1>8, <2>2
  <2> QED BY <2>1, <2>2
<1>10. \A g \in File : /\ store'.files[g].read >= K.files[g].read
                       /\ store'.files[g].read >= R[g].read
                       /\ store'.files[g].read <= reads'
  <2> SUFFICES ASSUME NEW g \in File
               PROVE  /\ store'.files[g].read >= K.files[g].read
                      /\ store'.files[g].read >= R[g].read
                      /\ store'.files[g].read <= reads'
    OBVIOUS
  <2>1. K.files[g].read <= reads' /\ R[g].read <= reads'
    BY <1>4, <1>5, <1>6, <1>7
  <2>2. CASE c \in stale
    BY <1>4, <1>9, <2>1, <2>2
  <2>3. CASE c \notin stale
    <3>1. K.files[g].read >= R[g].read
      BY <1>4, <1>5, <1>6, <2>3
    <3> QED BY <1>4, <1>9, <2>1, <2>3, <3>1
  <2> QED BY <2>2, <2>3
\* An entry that the save does not mark stays as the store has it.
<1>11. \A g \in File : K.files[g] = L[g] => store'.files[g] = R[g]
  BY <1>4, <1>5, <1>9
<1>12. Marked'
  <2>0. \A g \in noted : g \in File /\ R[g].edited
    BY <1>1 DEF Marked, R, TypeOK
  <2>1. CASE PostReadMarks(c)
    <3>1. noted' = noted \ {f}
      BY <2>1 DEF PostReadMarks, f
    <3> QED BY <1>6, <1>11, <2>0, <3>1 DEF Marked
  <2>2. CASE PostEditMarks(c)
    <3>1. c \notin stale /\ K = MarkFileEdited(copy[c], f)
      BY <1>1, <1>2, <1>3, <2>2 DEF Unmarking
    <3>2. noted' \subseteq noted \cup {g \in {f} : K.files[g].edited}
      BY <2>2, <3>1 DEF PostEditMarks, f
    <3>3. f \in noted => K.files[f].edited
      <4>1. f \in noted => L[f].edited
        BY <1>5, <2>0, <3>1
      <4> QED BY <1>4, <3>1, <4>1, EditedEntry DEF L
    <3> QED BY <1>6, <1>9, <1>11, <2>0, <3>1, <3>2, <3>3 DEF Marked
  <2>3. CASE ~PostReadMarks(c) /\ ~PostEditMarks(c)
    <3>1. noted' = noted
      BY <2>3 DEF Flush, PostReadHashes, PostReadSnapshots
    <3> QED BY <1>6, <1>11, <2>0, <2>3, <3>1 DEF Marked
  <2> QED BY <2>1, <2>2, <2>3
<1>13. ReadsPast'
  BY <1>10 DEF ReadsPast
<1>14. InStep'
  <2> SUFFICES ASSUME NEW d \in Caller, pc'[d] \in Holding, d \notin stale'
               PROVE  copy'[d].files = store'.files
    BY DEF InStep
  <2>1. d = c /\ to \in Holding
    BY <1>3 DEF Outcome
  <2> QED BY <1>3, <1>9, <2>1 DEF Outcome
<1>15. NotAhead'
  <2> SUFFICES ASSUME NEW d \in Caller, pc'[d] \in Holding, NEW g \in File
               PROVE  copy'[d].files[g].read <= store'.files[g].read
    BY DEF NotAhead
  <2>1. store'.files[g].read \in Nat /\ copy[d].files[g].read \in Nat
    <3>1. store' \in Cache /\ copy[d] \in Cache
      BY <1>4, <1>8, MergeType DEF TypeOK
    <3> QED BY <3>1, CacheParts DEF Entry
  <2>2. CASE d = c
    BY <1>3, <1>4, <1>10, <2>1, <2>2 DEF Outcome
  <2>3. CASE d # c
    <3>1. pc'[d] = pc[d] /\ copy'[d] = copy[d]
      BY <1>3, <2>3 DEF Outcome
    <3>2. copy[d].files[g].read <= R[g].read
      BY <1>1, <3>1 DEF NotAhead, R
    <3> QED BY <1>4, <1>10, <2>1, <3>1, <3>2
  <2> QED BY <2>2, <2>3
<1> QED BY <1>12, <1>13, <1>14, <1>15

LEMMA StepKeepsEdits ==
  ASSUME EditInv, [Next]_vars
  PROVE  EditsInHand'
<1> SUFFICES ASSUME hazards' \cap Unmarking = {}
             PROVE  (Marked /\ ReadsPast /\ InStep /\ NotAhead)'
  BY DEF EditsInHand, Unmarking
<1>0. TypeOK /\ hazards \subseteq hazards'
  BY HazardsOnlyGrow DEF EditInv
<1>1. Marked /\ ReadsPast /\ InStep /\ NotAhead
  BY <1>0 DEF EditInv, EditsInHand
<1>2. ASSUME NEW c \in Caller,
             \/ Flush(c) \/ PostReadMarks(c) \/ PostReadHashes(c) \/ PostReadSnapshots(c)
             \/ PostEditMarks(c)
      PROVE  (Marked /\ ReadsPast /\ InStep /\ NotAhead)'
  BY <1>0, <1>2, SavesKeepEdits
\* A step that leaves the entries of the store alone.
<1>3. ASSUME UNCHANGED <<store, noted, stale, reads>>, NEW c \in Caller,
             \A d \in Caller \ {c} : pc'[d] = pc[d] /\ copy'[d] = copy[d],
             pc'[c] \in Holding => copy'[c].files = store.files
      PROVE  (Marked /\ ReadsPast /\ InStep /\ NotAhead)'
  <2>1. \A f \in File : store.files[f].read \in Nat
    BY <1>0, CacheParts DEF TypeOK, Entry
  <2>2. Marked' /\ ReadsPast' /\ InStep'
    BY <1>1, <1>3 DEF Marked, ReadsPast, InStep
  <2>3. NotAhead'
    BY <1>1, <1>3, <2>1 DEF NotAhead
  <2> QED BY <2>2, <2>3
<1>4. ASSUME NEW c \in Caller, PreReadDenies(c)
      PROVE  (Marked /\ ReadsPast /\ InStep /\ NotAhead)'
  <2>1. PICK s : copy' = [copy EXCEPT ![c] = [store EXCEPT !.seen = s]]
    BY <1>4 DEF PreReadDenies, Keeps
  <2>2. UNCHANGED <<store, noted, stale, reads>> /\ pc' = [pc EXCEPT ![c] = "flush"]
    BY <1>4 DEF PreReadDenies, Goes, Move, bounds
  <2>3. copy'[c].files = store.files /\ \A d \in Caller \ {c} : pc'[d] = pc[d] /\ copy'[d] = copy[d]
    BY <1>0, <2>1, <2>2 DEF TypeOK, Cache
  <2> QED BY <1>3, <2>2, <2>3
<1>5. ASSUME NEW c \in Caller, PostReadLoads(c) \/ PostEditLoads(c)
      PROVE  (Marked /\ ReadsPast /\ InStep /\ NotAhead)'
  <2>1. /\ UNCHANGED <<store, noted, stale, reads>> /\ copy' = [copy EXCEPT ![c] = store]
        /\ \E to \in {"marks", "notes"} : pc' = [pc EXCEPT ![c] = to]
    BY <1>5 DEF PostReadLoads, PostEditLoads, Loads, Keeps, Goes, Move, bounds
  <2>2. copy'[c] = store /\ \A d \in Caller \ {c} : pc'[d] = pc[d] /\ copy'[d] = copy[d]
    BY <1>0, <2>1 DEF TypeOK
  <2> QED BY <1>3, <2>1, <2>2
<1>6. ASSUME NEW c \in Caller,
             \/ Ask(c) \/ PreReadDedup(c) \/ PreReadPasses(c) \/ Tool(c)
             \/ LoadFails(c) \/ Edit(c)
      PROVE  (Marked /\ ReadsPast /\ InStep /\ NotAhead)'
  <2>1. UNCHANGED <<store, noted, stale, copy, reads>>
    BY <1>6 DEF Ask, PreReadDedup, PreReadPasses, Tool, LoadFails, Edit, bounds
  <2>2. PICK to \in {"asks", "idle", "tool", "posts", "edited"} : pc' = [pc EXCEPT ![c] = to]
    BY <1>6 DEF Ask, PreReadDedup, PreReadPasses, Tool, LoadFails, Edit, Goes, Ends, Move
  <2>3. pc'[c] \notin Holding /\ \A d \in Caller \ {c} : pc'[d] = pc[d]
    BY <1>0, <2>2 DEF TypeOK, Holding
  <2> QED BY <1>3, <2>1, <2>3
<1>7. ASSUME NEW c \in Caller, SnapshotFails(c)
      PROVE  (Marked /\ ReadsPast /\ InStep /\ NotAhead)'
  <2>1. /\ UNCHANGED <<store, noted, reads>> /\ stale' = stale \ {c}
        /\ copy' = [copy EXCEPT ![c] = Fresh] /\ pc' = [pc EXCEPT ![c] = "idle"]
    BY <1>7 DEF SnapshotFails, Ends, Move, Keeps
  <2>2. /\ \A d \in Caller \ {c} : pc'[d] = pc[d] /\ copy'[d] = copy[d] /\ (d \in stale' <=> d \in stale)
        /\ pc'[c] \notin Holding
    BY <1>0, <2>1 DEF TypeOK, Holding
  <2> QED BY <1>1, <2>1, <2>2 DEF Marked, ReadsPast, InStep, NotAhead
<1>8. CASE Hints
  <2>1. PICK s : store' = [store EXCEPT !.seen = s]
    BY <1>8 DEF Hints
  <2>2. store'.files = store.files
    BY <1>0, <2>1 DEF TypeOK, Cache
  <2>3. UNCHANGED <<copy, pc, noted, reads>> /\ stale' = {c \in Caller : pc[c] \in Holding}
    BY <1>8 DEF Hints, bounds
  <2> QED BY <1>1, <2>2, <2>3 DEF Marked, ReadsPast, InStep, NotAhead
<1>9. CASE Reset
  <2>1. Busy = {} /\ pc' = pc /\ noted' = {} /\ store' = Fresh /\ reads' = reads
    BY <1>9 DEF Reset, Flag, Unmarking
  <2>2. \A c \in Caller : pc[c] \notin Holding
    BY <2>1 DEF Busy, InFlight
  <2>3. ReadsPast'
    BY <1>0, <2>1 DEF ReadsPast, Fresh, NoEntry, TypeOK
  <2> QED BY <2>1, <2>2, <2>3 DEF Marked, InStep, NotAhead
<1>10. CASE Outside \/ Compact \/ UNCHANGED vars
  <2>1. UNCHANGED <<store, noted, stale, copy, pc, reads>>
    BY <1>10 DEF Outside, Compact, vars, bounds
  <2> QED BY <1>1, <2>1 DEF Marked, ReadsPast, InStep, NotAhead
<1> QED BY <1>2, <1>4, <1>5, <1>6, <1>7, <1>8, <1>9, <1>10 DEF Next, Hook, PreRead

\* An edit that post_edit saved stays marked until the file is read again,
\* whatever the hooks that loaded before it save later: a merge takes the
\* entry of the later read, and no object in hand has one.
THEOREM EditsNoted == Spec => []EditsAreNoted
<1>1. Init => EditInv
  <2>1. Init => Marked /\ ReadsPast /\ InStep /\ NotAhead
    BY DEF Init, Marked, ReadsPast, InStep, NotAhead, Holding, Fresh, NoEntry
  <2> QED BY <2>1, InitialTypes DEF EditInv, EditsInHand
<1>2. EditInv /\ [Next]_vars => EditInv'
  BY StepKeepsTypes, StepKeepsEdits DEF EditInv
<1>3. EditInv => EditsAreNoted
  BY DEF EditInv, EditsInHand, EditsAreNoted, Marked, Unmarking
<1> QED BY <1>1, <1>2, <1>3, PTL DEF Spec

-----------------------------------------------------------------------------
(* Numbers, stamps and reads are of the past: what n changes and r reads   *)
(* can have left.                                                          *)

Known(t, n) == \A i \in DOMAIN t : t[i] <= Lines + n
DatedEntry(K, f, r, n) ==
  K.files[f].stamp <= n /\ K.files[f].read <= r /\ Known(K.shas[f], n)
Dated(K, r, n) ==
  (\A f \in File : DatedEntry(K, f, r, n)) /\ \A p \in K.content : Known(p[1], n)
DatedFile(f) ==
  /\ mtime[f] <= writes /\ quietAt[f] <= reads
  /\ Known(text[f], writes) /\ Len(text[f]) \in 1..(Lines + writes)
Past ==
  /\ \A f \in File : DatedFile(f)
  /\ Dated(store, reads, writes) /\ \A c \in Caller : Dated(copy[c], reads, writes)
PastInv == TypeOK /\ Past

LEMMA NumbersOf ==
  ASSUME NEW t \in Seq(Nat)
  PROVE  DOMAIN t = 1..Len(t) /\ Len(t) \in Nat /\ \A i \in DOMAIN t : i \in Nat /\ t[i] \in Nat
BY LenProperties, ElementOfSeq

LEMMA DatesGrow ==
  ASSUME NEW K \in Cache, NEW r \in Nat, NEW n \in Nat, NEW q \in Nat, NEW m \in Nat,
         r <= q, n <= m, Dated(K, r, n)
  PROVE  Dated(K, q, m)
<1>1. ASSUME NEW t \in Seq(Nat), Known(t, n) PROVE Known(t, m)
  BY <1>1, NumbersOf, Positive DEF Known
<1>2. ASSUME NEW f \in File PROVE DatedEntry(K, f, q, m)
  <2>1. K.files[f].stamp \in Nat /\ K.files[f].read \in Nat /\ K.shas[f] \in Seq(Nat)
    BY CacheParts DEF Entry
  <2>2. DatedEntry(K, f, r, n)
    BY DEF Dated
  <2> QED BY <1>1, <2>1, <2>2 DEF DatedEntry
<1>3. \A p \in K.content : Known(p[1], m)
  BY <1>1, CacheParts DEF Dated
<1> QED BY <1>2, <1>3 DEF Dated

LEMMA FreshIsDated ==
  ASSUME NEW r \in Nat, NEW n \in Nat
  PROVE  Dated(Fresh, r, n)
<1>1. Known(NoText, n)
  BY DEF Known, NoText
<1> QED BY <1>1 DEF Dated, DatedEntry, Fresh, NoEntry

LEMMA MergeIsDated ==
  ASSUME NEW local \in Cache, NEW remote \in Cache, NEW r, NEW n,
         Dated(local, r, n), Dated(remote, r, n)
  PROVE  Dated(Merge(local, remote), r, n)
<1> DEFINE M == Merge(local, remote)
<1>1. ASSUME NEW f \in File PROVE DatedEntry(M, f, r, n)
  <2>1. M.files[f] \in {local.files[f], remote.files[f]}
    BY DEF Merge, Newer
  <2>2. M.shas[f] \in {local.shas[f], remote.shas[f]}
    BY DEF Merge
  <2>3. DatedEntry(local, f, r, n) /\ DatedEntry(remote, f, r, n)
    BY DEF Dated
  <2> HIDE DEF M
  <2> QED BY <2>1, <2>2, <2>3 DEF DatedEntry
<1>2. M.content \subseteq local.content \cup remote.content
  BY DEF Merge
<1> HIDE DEF M
<1>3. Dated(M, r, n)
  BY <1>1, <1>2 DEF Dated
<1> QED BY <1>3 DEF M

\* The store and the objects after a save, successful or not.
LEMMA SaveChoices ==
  ASSUME TypeOK, NEW c \in Caller, NEW K \in Cache, NEW h, NEW to, pc[c] \in Holding,
         pc' = [pc EXCEPT ![c] = to], Saves(c, K, h)
  PROVE  /\ store' \in {store, K, Merge(K, store)}
         /\ \A d \in Caller \ {c} : pc'[d] = pc[d] /\ copy'[d] = copy[d]
         /\ pc'[c] = to
         /\ copy'[c] = IF to \in Holding THEN K ELSE Fresh
         /\ hazards' \in {hazards \cup h, hazards \cup h \cup {"lost"}}
<1>1. pc'[c] = to /\ \A d \in Caller \ {c} : pc'[d] = pc[d]
  BY DEF TypeOK
<1>2. store' \in {store, K, Merge(K, store)}
  BY DEF Saves, Saved, SaveFails
<1>3. copy' = [copy EXCEPT ![c] = IF to \in Holding THEN K ELSE Fresh]
  BY <1>1 DEF Saves, Saved, SaveFails, Keeps
<1>4. /\ \A d \in Caller \ {c} : copy'[d] = copy[d]
      /\ copy'[c] = IF to \in Holding THEN K ELSE Fresh
  BY <1>3 DEF TypeOK
<1>5. hazards' \in {hazards \cup h, hazards \cup h \cup {"lost"}}
  BY DEF Saves, Saved, SaveFails
<1> QED BY <1>1, <1>2, <1>4, <1>5

LEMMA MarksAreDated ==
  ASSUME PastInv, NEW K \in Cache, Dated(K, reads, writes), NEW f \in File, NEW w \in SUBSET Whole
  PROVE  /\ Dated(MarkFileRead(K, f, w, reads + 1), reads + 1, writes)
         /\ Dated(MarkFileEdited(K, f), reads, writes)
         /\ Dated(RegisterContent(K, f), reads, writes)
         /\ Dated([K EXCEPT !.shas[f] = text[f]], reads, writes)
<1>0. /\ reads \in Nat /\ writes \in Nat /\ TypeOK
      /\ mtime[f] <= writes /\ Known(text[f], writes)
  BY DEF PastInv, Past, DatedFile, TypeOK
<1>1. Dated(MarkFileRead(K, f, w, reads + 1), reads + 1, writes)
  <2> DEFINE L == MarkFileRead(K, f, w, reads + 1)
  <2>1. Dated(K, reads + 1, writes)
    BY <1>0, DatesGrow
  <2>2. L.shas = K.shas /\ L.content = K.content
    BY DEF MarkFileRead, Cache
  <2>3. \A g \in File \ {f} : L.files[g] = K.files[g]
    BY <1>0, ReadEntry
  <2>4. L.files[f].stamp = mtime[f] /\ L.files[f].read = reads + 1
    BY DEF MarkFileRead, Cache
  <2> HIDE DEF L
  <2>5. \A g \in File : DatedEntry(L, g, reads + 1, writes)
    BY <1>0, <2>1, <2>2, <2>3, <2>4 DEF Dated, DatedEntry
  <2>6. Dated(L, reads + 1, writes)
    BY <2>1, <2>2, <2>5 DEF Dated
  <2> QED BY <2>6 DEF L
<1>2. Dated(MarkFileEdited(K, f), reads, writes)
  <2> DEFINE L == MarkFileEdited(K, f)
  <2>1. L.shas = K.shas /\ L.content = K.content
    BY DEF MarkFileEdited, Cache
  <2>2. \A g \in File : L.files[g].stamp = K.files[g].stamp /\ L.files[g].read = K.files[g].read
    BY CacheParts DEF MarkFileEdited, Cache, Entry
  <2> HIDE DEF L
  <2>3. Dated(L, reads, writes)
    BY <2>1, <2>2 DEF Dated, DatedEntry
  <2> QED BY <2>3 DEF L
<1>3. Dated(RegisterContent(K, f), reads, writes)
  <2> DEFINE L == RegisterContent(K, f)
  <2>1. L.shas = K.shas /\ L.files = K.files /\ L.content \subseteq K.content \cup {<<text[f], f>>}
    BY DEF RegisterContent, Cache
  <2> HIDE DEF L
  <2>2. Dated(L, reads, writes)
    BY <1>0, <2>1 DEF Dated, DatedEntry
  <2> QED BY <2>2 DEF L
<1>4. Dated([K EXCEPT !.shas[f] = text[f]], reads, writes)
  <2> DEFINE L == [K EXCEPT !.shas[f] = text[f]]
  <2>1. L.content = K.content /\ L.files = K.files
    BY DEF Cache
  <2>2. \A g \in File : L.shas[g] = IF g = f THEN text[f] ELSE K.shas[g]
    BY DEF Cache
  <2> HIDE DEF L
  <2>3. Dated(L, reads, writes)
    BY <1>0, <2>1, <2>2 DEF Dated, DatedEntry
  <2> QED BY <2>3 DEF L
<1> QED BY <1>1, <1>2, <1>3, <1>4

\* A change leaves a number that no text had before.
LEMMA ChangeOf ==
  ASSUME PastInv, Outside \/ \E c \in Caller : Edit(c)
  PROVE  \E f \in File, t \in Seq(Nat) :
           /\ Known(t, writes + 1) /\ ~Known(t, writes) /\ Len(t) \in 1..(Lines + writes + 1)
           /\ \E m \in {writes + 1, mtime[f]} : Writes(f, t, m)
<1>0. TypeOK /\ writes \in Nat /\ Lines \in Nat /\ New = Lines + writes + 1
  BY Positive DEF PastInv, TypeOK, New
<1>1. PICK f \in File :
        \E m \in {writes + 1, mtime[f]} :
          \/ \E l \in DOMAIN text[f] : Writes(f, Replaced(f, l), m)
          \/ Writes(f, <<New>> \o text[f], m)
  <2>1. CASE Outside
    BY <2>1 DEF Outside
  <2>2. CASE \E c \in Caller : Edit(c)
    BY <2>2 DEF Edit
  <2> QED BY <2>1, <2>2
<1>2. /\ Known(text[f], writes) /\ Len(text[f]) \in 1..(Lines + writes)
      /\ text[f] \in Seq(Nat)
  BY <1>0 DEF PastInv, Past, DatedFile, TypeOK
<1>3. DOMAIN text[f] = 1..Len(text[f]) /\ \A i \in DOMAIN text[f] : text[f][i] \in Nat /\ i \in Nat
  BY <1>2, NumbersOf
<1>4. ASSUME NEW t \in Seq(Nat), Len(t) \in 1..(Lines + writes + 1),
             \E i \in 1..Len(t) : t[i] = New,
             \A i \in 1..Len(t) : t[i] = New \/ \E j \in DOMAIN text[f] : t[i] = text[f][j]
      PROVE  /\ Known(t, writes + 1) /\ ~Known(t, writes) /\ Len(t) \in 1..(Lines + writes + 1)
  <2>1. DOMAIN t = 1..Len(t)
    BY NumbersOf
  <2>2. Known(t, writes + 1)
    <3> SUFFICES ASSUME NEW i \in 1..Len(t) PROVE t[i] <= Lines + (writes + 1)
      BY <2>1 DEF Known
    <3>1. CASE t[i] = New
      BY <1>0, <3>1
    <3>2. CASE \E j \in DOMAIN text[f] : t[i] = text[f][j]
      <4>1. PICK j \in DOMAIN text[f] : t[i] = text[f][j]
        BY <3>2
      <4>2. text[f][j] <= Lines + writes /\ text[f][j] \in Nat
        BY <1>2, <1>3 DEF Known
      <4> QED BY <1>0, <4>1, <4>2
    <3> QED BY <1>4, <3>1, <3>2
  <2>3. ~Known(t, writes)
    BY <1>0, <1>4, <2>1 DEF Known
  <2> QED BY <1>4, <2>2, <2>3
<1>5. CASE \E m \in {writes + 1, mtime[f]} : \E l \in DOMAIN text[f] : Writes(f, Replaced(f, l), m)
  <2>1. PICK l \in DOMAIN text[f] : \E m \in {writes + 1, mtime[f]} : Writes(f, Replaced(f, l), m)
    BY <1>5
  <2> DEFINE t == Replaced(f, l)
  <2>2. /\ t \in Seq(Nat) /\ Len(t) = Len(text[f])
        /\ \A i \in DOMAIN text[f] : t[i] = IF i = l THEN New ELSE text[f][i]
    BY <1>0, NewText
  <2>3. \E m \in {writes + 1, mtime[f]} : Writes(f, t, m)
    BY <2>1
  <2> HIDE DEF t
  <2>4. \E i \in 1..Len(t) : t[i] = New
    BY <1>3, <2>2
  <2>5. Len(t) \in 1..(Lines + writes + 1)
    BY <1>0, <1>2, <2>2
  <2>6. \A i \in 1..Len(t) : t[i] = New \/ \E j \in DOMAIN text[f] : t[i] = text[f][j]
    BY <1>3, <2>2
  <2> QED BY <1>4, <2>2, <2>3, <2>4, <2>5, <2>6
<1>6. CASE \E m \in {writes + 1, mtime[f]} : Writes(f, <<New>> \o text[f], m)
  <2> DEFINE t == <<New>> \o text[f]
  <2>1. /\ t \in Seq(Nat) /\ Len(t) = 1 + Len(text[f])
        /\ \A i \in 1..Len(t) : t[i] = IF i = 1 THEN New ELSE text[f][i - 1]
    BY <1>0, NewText
  <2>2. \E m \in {writes + 1, mtime[f]} : Writes(f, t, m)
    BY <1>6
  <2> HIDE DEF t
  <2>3. Len(t) \in 1..(Lines + writes + 1)
    BY <1>0, <1>2, <2>1
  <2>4. 1 \in 1..Len(t) /\ t[1] = New
    BY <1>0, <1>2, <2>1
  <2>5. \A i \in 1..Len(t) : t[i] = New \/ \E j \in DOMAIN text[f] : t[i] = text[f][j]
    <3> SUFFICES ASSUME NEW i \in 1..Len(t), i # 1
                 PROVE  \E j \in DOMAIN text[f] : t[i] = text[f][j]
      BY <2>4
    <3>1. i - 1 \in DOMAIN text[f]
      BY <1>2, <1>3, <2>1
    <3> QED BY <2>1, <3>1
  <2> QED BY <1>4, <2>1, <2>2, <2>3, <2>4, <2>5
<1> QED BY <1>1, <1>5, <1>6

LEMMA SavesKeepPast ==
  ASSUME PastInv, NEW c \in Caller,
         \/ Flush(c) \/ PostReadMarks(c) \/ PostReadHashes(c) \/ PostReadSnapshots(c)
         \/ PostEditMarks(c)
  PROVE  Past'
<1> TypeOK
  BY DEF PastInv
<1>1. PICK K \in Cache, h \in SUBSET AnyHazard, to \in {"idle", "asks", "hash", "snap"} :
        /\ Saves(c, K, h) /\ pc[c] \in Holding /\ pc' = [pc EXCEPT ![c] = to]
        /\ PostReadMarks(c) => K = MarkFileRead(copy[c], call[c].file, call[c].win, reads + 1)
        /\ PostEditMarks(c) => K = MarkFileEdited(copy[c], call[c].file)
        /\ PostReadHashes(c) =>
             K = IF call[c].win = Whole THEN RegisterContent(copy[c], call[c].file) ELSE copy[c]
        /\ PostReadSnapshots(c) =>
             K = [copy[c] EXCEPT !.shas[call[c].file] = text[call[c].file]]
        /\ Flush(c) => K = copy[c]
  BY WrittenBy
<1>2. /\ call[c].file \in File /\ call[c].win \in SUBSET Whole /\ copy[c] \in Cache /\ store \in Cache
      /\ reads \in Nat /\ writes \in Nat
  <2>1. pc[c] # "idle"
    BY <1>1 DEF Holding
  <2> QED BY <2>1, CallOf DEF TypeOK
<1>3. /\ Dated(copy[c], reads, writes) /\ Dated(store, reads, writes)
      /\ \A d \in Caller : Dated(copy[d], reads, writes) /\ copy[d] \in Cache
  BY DEF PastInv, Past, TypeOK
<1>4. /\ UNCHANGED <<text, mtime, quietAt, writes>> /\ reads' \in {reads, reads + 1}
      /\ PostReadMarks(c) => reads' = reads + 1
  BY DEF Flush, PostReadMarks, PostReadHashes, PostReadSnapshots, PostEditMarks, world
<1>5. reads' \in Nat /\ reads <= reads' /\ writes <= writes
  BY <1>2, <1>4
<1>6. Dated(K, reads', writes)
  <2>1. CASE PostReadMarks(c)
    <3>1. Dated(MarkFileRead(copy[c], call[c].file, call[c].win, reads + 1), reads + 1, writes)
      BY <1>2, <1>3, MarksAreDated
    <3> QED BY <1>1, <1>4, <2>1, <3>1
  <2>2. CASE ~PostReadMarks(c)
    <3>1. Dated(K, reads, writes)
      BY <1>1, <1>2, <1>3, <2>2, MarksAreDated
    <3> QED BY <1>2, <1>5, <3>1, DatesGrow
  <2> QED BY <2>1, <2>2
<1>7. /\ store' \in {store, K, Merge(K, store)}
      /\ \A d \in Caller : copy'[d] \in {copy[d], K, Fresh}
  BY <1>1, SaveChoices
<1>8. Dated(store, reads', writes) /\ \A d \in Caller : Dated(copy[d], reads', writes)
  BY <1>2, <1>3, <1>5, DatesGrow
<1>9. Dated(Merge(K, store), reads', writes)
  BY <1>2, <1>6, <1>8, MergeIsDated
<1>10. Dated(Fresh, reads', writes)
  BY <1>2, <1>5, FreshIsDated
<1>11. Dated(store', reads', writes)
  BY <1>6, <1>7, <1>8, <1>9
<1>12. \A d \in Caller : Dated(copy'[d], reads', writes)
  BY <1>6, <1>7, <1>8, <1>10
<1>13. ASSUME NEW f \in File PROVE DatedFile(f)'
  <2>1. DatedFile(f) /\ quietAt[f] \in Nat
    BY DEF PastInv, Past, TypeOK
  <2> QED BY <1>2, <1>4, <1>5, <2>1 DEF DatedFile
<1> QED BY <1>4, <1>11, <1>12, <1>13 DEF Past

LEMMA StepKeepsPast ==
  ASSUME PastInv, [Next]_vars
  PROVE  Past'
<1> TypeOK
  BY DEF PastInv
<1>0. /\ reads \in Nat /\ writes \in Nat
      /\ \A f \in File : DatedFile(f)
      /\ Dated(store, reads, writes) /\ \A c \in Caller : Dated(copy[c], reads, writes)
  BY DEF PastInv, Past, TypeOK
\* A step that leaves the files and the counters alone.
<1>1. ASSUME UNCHANGED <<world, reads, writes>>, store' \in {store, Fresh},
             NEW K, Dated(K, reads, writes),
             \A d \in Caller : copy'[d] \in {copy[d], K}
      PROVE  Past'
  <2>1. Dated(store', reads, writes) /\ \A d \in Caller : Dated(copy'[d], reads, writes)
    BY <1>0, <1>1, FreshIsDated
  <2>2. \A f \in File : DatedFile(f)'
    BY <1>0, <1>1 DEF DatedFile, world
  <2> QED BY <1>1, <2>1, <2>2 DEF Past
<1>2. ASSUME NEW c \in Caller,
             \/ Flush(c) \/ PostReadMarks(c) \/ PostReadHashes(c) \/ PostReadSnapshots(c)
             \/ PostEditMarks(c)
      PROVE  Past'
  BY <1>2, SavesKeepPast
<1>3. ASSUME NEW c \in Caller, PreReadDenies(c) PROVE Past'
  <2>1. PICK s : copy' = [copy EXCEPT ![c] = [store EXCEPT !.seen = s]]
    BY <1>3 DEF PreReadDenies, Keeps
  <2> DEFINE K == [store EXCEPT !.seen = s]
  <2>2. K.files = store.files /\ K.shas = store.shas /\ K.content = store.content
    BY DEF TypeOK, Cache
  <2>3. \A d \in Caller : copy'[d] \in {copy[d], K}
    BY <2>1 DEF TypeOK
  <2> HIDE DEF K
  <2>4. Dated(K, reads, writes)
    BY <1>0, <2>2 DEF Dated, DatedEntry
  <2>5. UNCHANGED <<world, store, reads, writes>>
    BY <1>3 DEF PreReadDenies, bounds
  <2> QED BY <1>1, <2>3, <2>4, <2>5
<1>4. ASSUME NEW c \in Caller, PostReadLoads(c) \/ PostEditLoads(c) PROVE Past'
  <2>1. copy' = [copy EXCEPT ![c] = store] /\ UNCHANGED <<world, store, reads, writes>>
    BY <1>4 DEF PostReadLoads, PostEditLoads, Loads, Keeps, bounds
  <2>2. \A d \in Caller : copy'[d] \in {copy[d], store}
    BY <2>1 DEF TypeOK
  <2> QED BY <1>0, <1>1, <2>1, <2>2
<1>5. ASSUME NEW c \in Caller, SnapshotFails(c) PROVE Past'
  <2>1. copy' = [copy EXCEPT ![c] = Fresh] /\ UNCHANGED <<world, store, reads, writes>>
    BY <1>5 DEF SnapshotFails, Keeps
  <2>2. \A d \in Caller : copy'[d] \in {copy[d], Fresh}
    BY <2>1 DEF TypeOK
  <2> QED BY <1>0, <1>1, <2>1, <2>2, FreshIsDated
<1>6. ASSUME \/ \E c \in Caller : \/ Ask(c) \/ PreReadDedup(c) \/ PreReadPasses(c)
                                \/ Tool(c) \/ LoadFails(c)
             \/ Compact \/ Reset \/ UNCHANGED vars
      PROVE  Past'
  <2>1. UNCHANGED <<world, copy, reads, writes>> /\ store' \in {store, Fresh}
    BY <1>6 DEF Ask, PreReadDedup, PreReadPasses, Tool, LoadFails, Compact, Reset, vars, bounds
  <2> QED BY <1>0, <1>1, <2>1
<1>7. CASE Hints
  <2>1. PICK s : store' = [store EXCEPT !.seen = s]
    BY <1>7 DEF Hints
  <2>2. store'.files = store.files /\ store'.shas = store.shas /\ store'.content = store.content
    BY <2>1 DEF TypeOK, Cache
  <2>3. Dated(store', reads, writes)
    BY <1>0, <2>2 DEF Dated, DatedEntry
  <2>4. UNCHANGED <<world, copy, reads, writes>>
    BY <1>7 DEF Hints, bounds
  <2>5. \A f \in File : DatedFile(f)'
    BY <1>0, <2>4 DEF DatedFile, world
  <2> QED BY <1>0, <2>3, <2>4, <2>5 DEF Past
<1>8. ASSUME Outside \/ \E c \in Caller : Edit(c) PROVE Past'
  <2>1. PICK f \in File, t \in Seq(Nat) :
          /\ Known(t, writes + 1) /\ Len(t) \in 1..(Lines + writes + 1)
          /\ \E m \in {writes + 1, mtime[f]} : Writes(f, t, m)
    BY <1>8, ChangeOf
  <2>2. PICK m \in {writes + 1, mtime[f]} : Writes(f, t, m)
    BY <2>1
  <2>3. UNCHANGED <<store, copy, reads>> /\ writes' = writes + 1 /\ writes' \in Nat
    <3>1. UNCHANGED <<store, copy, reads>>
      <4>1. CASE Outside
        BY <4>1 DEF Outside
      <4>2. CASE \E c \in Caller : Edit(c)
        BY <4>2 DEF Edit
      <4> QED BY <1>8, <4>1, <4>2
    <3>2. writes' = writes + 1
      BY <2>2 DEF Writes
    <3> QED BY <1>0, <3>1, <3>2
  <2>4. Dated(store, reads, writes') /\ \A c \in Caller : Dated(copy[c], reads, writes')
    BY <1>0, <2>3, DatesGrow DEF TypeOK
  <2>5. ASSUME NEW g \in File PROVE DatedFile(g)'
    <3>1. DatedFile(g) /\ mtime[g] \in Nat /\ quietAt[g] \in Nat /\ text[g] \in Seq(Nat)
      BY <1>0 DEF TypeOK
    <3>2. CASE g = f
      <4>1. text'[f] = t /\ mtime'[f] = m /\ quietAt'[f] \in {quietAt[f], reads}
        BY <2>2 DEF Writes, TypeOK
      <4>2. Len(t) \in 1..(Lines + writes')
        BY <1>0, <2>1, <2>3, Positive
      <4>3. m <= writes'
        BY <1>0, <2>3, <3>1, <3>2 DEF DatedFile
      <4> QED BY <1>0, <2>1, <2>3, <3>1, <3>2, <4>1, <4>2, <4>3 DEF DatedFile
    <3>3. CASE g # f
      <4>1. text'[g] = text[g] /\ mtime'[g] = mtime[g] /\ quietAt'[g] = quietAt[g]
        BY <2>2, <3>3 DEF Writes, TypeOK
      <4>2. Known(text[g], writes')
        BY <1>0, <2>3, <3>1, NumbersOf, Positive DEF DatedFile, Known
      <4>3. mtime[g] <= writes' /\ Len(text[g]) \in 1..(Lines + writes')
        BY <1>0, <2>3, <3>1, Positive DEF DatedFile
      <4> QED BY <2>3, <3>1, <4>1, <4>2, <4>3 DEF DatedFile
    <3> QED BY <3>2, <3>3
  <2> QED BY <2>3, <2>4, <2>5 DEF Past
<1> QED BY <1>2, <1>3, <1>4, <1>5, <1>6, <1>7, <1>8 DEF Next, Hook, PreRead

-----------------------------------------------------------------------------
(* What a cache says of the context: T, M, Q and H are the texts, the      *)
(* fingerprints, the quiet changes and the lines held.                     *)

Shown(T, f, w) == {T[f][l] : l \in w \cap DOMAIN T[f]}
HonestEntry(K, f, T, M, Q, H) ==
  /\ K.files[f].read > Q[f] /\ K.files[f].stamp = M[f] => Shown(T, f, K.files[f].cover) \subseteq H
  /\ K.shas[f] = T[f] => K.files[f].read > Q[f]
  /\ K.files[f] # NoEntry /\ K.files[f].read <= Q[f] => K.shas[f] # NoText
HonestContent(K, H) == \A p \in K.content : \A i \in DOMAIN p[1] : p[1][i] \in H
Honest(K, T, M, Q, H) ==
  (\A f \in File : HonestEntry(K, f, T, M, Q, H)) /\ HonestContent(K, H)

Asked(c) ==
  pc[c] \in {"posts", "marks", "hash"} => Shown(text, call[c].file, call[c].win) \subseteq held
Recorder(c) ==
  pc[c] \in {"hash", "snap"} => copy[c].files[call[c].file].read > quietAt[call[c].file]
Truthful ==
  /\ Honest(store, text, mtime, quietAt, held)
  /\ \A c \in Caller : Honest(copy[c], text, mtime, quietAt, held) /\ Asked(c) /\ Recorder(c)
TruthInHand == hazards \cap RangeHazard = {} => Truthful
TruthInv == PastInv /\ TruthInHand

LEMMA HonestGrows ==
  ASSUME NEW K, NEW T, NEW M, NEW Q, NEW H, NEW G, H \subseteq G, Honest(K, T, M, Q, H)
  PROVE  Honest(K, T, M, Q, G)
<1>1. \A f \in File : HonestEntry(K, f, T, M, Q, G)
  BY DEF Honest, HonestEntry
<1>2. HonestContent(K, G)
  BY DEF Honest, HonestContent
<1> QED BY <1>1, <1>2 DEF Honest

LEMMA HonestAlike ==
  ASSUME NEW K, NEW L, NEW T, NEW M, NEW Q, NEW H, Honest(K, T, M, Q, H),
         L.files = K.files, L.shas = K.shas, L.content = K.content
  PROVE  Honest(L, T, M, Q, H)
BY DEF Honest, HonestEntry, HonestContent

LEMMA FreshIsHonest ==
  ASSUME NEW T, NEW M, NEW Q \in [File -> Nat], NEW H, \A f \in File : T[f] # NoText
  PROVE  Honest(Fresh, T, M, Q, H)
<1>1. ASSUME NEW f \in File PROVE HonestEntry(Fresh, f, T, M, Q, H)
  <2>1. Fresh.files[f] = NoEntry /\ Fresh.shas[f] = NoText /\ NoEntry.read = 0
    BY DEF Fresh, NoEntry
  <2>2. ~(0 > Q[f])
    BY Q[f] \in Nat
  <2> QED BY <2>1, <2>2 DEF HonestEntry
<1>2. HonestContent(Fresh, H)
  BY DEF Fresh, HonestContent
<1> QED BY <1>1, <1>2 DEF Honest

LEMMA MergeIsHonest ==
  ASSUME NEW local \in Cache, NEW remote \in Cache, NEW T, NEW M, NEW Q \in [File -> Nat], NEW H,
         Honest(local, T, M, Q, H), Honest(remote, T, M, Q, H)
  PROVE  Honest(Merge(local, remote), T, M, Q, H)
<1> DEFINE N == Merge(local, remote)
<1>1. ASSUME NEW f \in File PROVE HonestEntry(N, f, T, M, Q, H)
  <2>1. /\ N.files[f] \in {local.files[f], remote.files[f]}
        /\ N.files[f].read >= local.files[f].read /\ N.files[f].read >= remote.files[f].read
    BY MergedEntries
  <2>2. N.shas[f] = IF local.shas[f] # NoText THEN local.shas[f] ELSE remote.shas[f]
    BY DEF Merge
  <2>3. HonestEntry(local, f, T, M, Q, H) /\ HonestEntry(remote, f, T, M, Q, H)
    BY DEF Honest
  <2>4. local.files[f].read \in Nat /\ remote.files[f].read \in Nat /\ Q[f] \in Nat
    BY CacheParts DEF Entry
  <2> HIDE DEF N
  <2>5. N.files[f].read > Q[f] /\ N.files[f].stamp = M[f] => Shown(T, f, N.files[f].cover) \subseteq H
    BY <2>1, <2>3 DEF HonestEntry
  <2>6. N.shas[f] = T[f] => N.files[f].read > Q[f]
    BY <2>1, <2>2, <2>3, <2>4 DEF HonestEntry
  <2>7. N.files[f] # NoEntry /\ N.files[f].read <= Q[f] => N.shas[f] # NoText
    BY <2>1, <2>2, <2>3, <2>4 DEF HonestEntry
  <2> QED BY <2>5, <2>6, <2>7 DEF HonestEntry
<1>2. N.content \subseteq local.content \cup remote.content
  BY DEF Merge
<1> HIDE DEF N
<1>3. HonestContent(N, H)
  BY <1>2 DEF Honest, HonestContent
<1>4. Honest(N, T, M, Q, H)
  BY <1>1, <1>3 DEF Honest
<1> QED BY <1>4 DEF N

LEMMA ShowingIsShown == \A f, w : Showing(f, w) = Shown(text, f, w)
BY DEF Showing, Shown

\* A read recorded with what it showed.
LEMMA ReadIsHonest ==
  ASSUME PastInv, NEW K \in Cache, NEW f \in File, NEW w \in SUBSET Whole,
         Honest(K, text, mtime, quietAt, held),
         Shown(text, f, K.files[f].cover) \subseteq held, Shown(text, f, w) \subseteq held,
         MarkFileRead(K, f, w, reads + 1).files[f].cover = K.files[f].cover \cup w
  PROVE  /\ Honest(MarkFileRead(K, f, w, reads + 1), text, mtime, quietAt, held)
         /\ MarkFileRead(K, f, w, reads + 1).files[f].read > quietAt[f]
<1> DEFINE L == MarkFileRead(K, f, w, reads + 1)
<1>1. /\ TypeOK /\ reads \in Nat /\ quietAt[f] \in Nat /\ quietAt[f] <= reads
  BY DEF PastInv, Past, DatedFile, TypeOK
<1>2. L.shas = K.shas /\ L.content = K.content
  BY DEF MarkFileRead, Cache
<1>3. /\ \A g \in File \ {f} : L.files[g] = K.files[g]
      /\ L.files[f].read = reads + 1
  BY <1>1, ReadEntry
<1>4. L.files[f].cover = K.files[f].cover \cup w
  OBVIOUS
<1> HIDE DEF L
<1>5. L.files[f].read > quietAt[f] /\ ~(L.files[f].read <= quietAt[f])
  BY <1>1, <1>3
<1>6. Shown(text, f, L.files[f].cover) \subseteq held
  BY <1>4 DEF Shown
<1>7. \A g \in File : HonestEntry(L, g, text, mtime, quietAt, held)
  BY <1>2, <1>3, <1>5, <1>6 DEF Honest, HonestEntry
<1>8. Honest(L, text, mtime, quietAt, held)
  BY <1>2, <1>7 DEF Honest, HonestContent
<1> QED BY <1>5, <1>8 DEF L

LEMMA EditMarkIsHonest ==
  ASSUME NEW K \in Cache, NEW f \in File, NEW T, NEW M, NEW Q, NEW H, Honest(K, T, M, Q, H)
  PROVE  Honest(MarkFileEdited(K, f), T, M, Q, H)
<1> DEFINE L == MarkFileEdited(K, f)
<1>1. L.shas = K.shas /\ L.content = K.content
  BY DEF MarkFileEdited, Cache
<1>2. \A g \in File : /\ L.files[g].read = K.files[g].read /\ L.files[g].stamp = K.files[g].stamp
                      /\ L.files[g].cover = K.files[g].cover
                      /\ L.files[g] # NoEntry => K.files[g] # NoEntry
  BY CacheParts DEF MarkFileEdited, Cache, Entry
<1> HIDE DEF L
<1>3. Honest(L, T, M, Q, H)
  BY <1>1, <1>2 DEF Honest, HonestEntry, HonestContent
<1> QED BY <1>3 DEF L

LEMMA WholeIsAll ==
  ASSUME PastInv, NEW f \in File
  PROVE  /\ DOMAIN text[f] \subseteq Whole /\ text[f] # NoText
         /\ \A i \in DOMAIN text[f] : text[f][i] \in Shown(text, f, Whole)
<1>1. /\ text[f] \in Seq(Nat) /\ Len(text[f]) \in 1..(Lines + writes) /\ writes \in 0..MaxWrites
  BY DEF PastInv, Past, DatedFile, TypeOK
<1>2. DOMAIN text[f] = 1..Len(text[f])
  BY <1>1, NumbersOf
<1>3. DOMAIN text[f] \subseteq Whole
  BY <1>1, <1>2, Positive DEF Whole, Beyond, MaxLine
<1>4. text[f] # NoText
  BY <1>1 DEF NoText
<1> QED BY <1>3, <1>4 DEF Shown

LEMMA ContentIsHonest ==
  ASSUME PastInv, NEW K \in Cache, NEW f \in File, Honest(K, text, mtime, quietAt, held),
         Shown(text, f, Whole) \subseteq held
  PROVE  Honest(RegisterContent(K, f), text, mtime, quietAt, held)
<1> DEFINE L == RegisterContent(K, f)
<1>1. L.shas = K.shas /\ L.files = K.files /\ L.content \subseteq K.content \cup {<<text[f], f>>}
  BY DEF RegisterContent, Cache
<1>2. \A i \in DOMAIN text[f] : text[f][i] \in held
  BY WholeIsAll
<1> HIDE DEF L
<1>3. HonestContent(L, held)
  BY <1>1, <1>2 DEF Honest, HonestContent
<1>4. Honest(L, text, mtime, quietAt, held)
  BY <1>1, <1>3 DEF Honest, HonestEntry
<1> QED BY <1>4 DEF L

LEMMA SnapshotIsHonest ==
  ASSUME PastInv, NEW K \in Cache, NEW f \in File, Honest(K, text, mtime, quietAt, held),
         K.files[f].read > quietAt[f]
  PROVE  Honest([K EXCEPT !.shas[f] = text[f]], text, mtime, quietAt, held)
<1> DEFINE L == [K EXCEPT !.shas[f] = text[f]]
<1>1. L.content = K.content /\ L.files = K.files
  BY DEF Cache
<1>2. \A g \in File : L.shas[g] = IF g = f THEN text[f] ELSE K.shas[g]
  BY DEF Cache
<1>3. text[f] # NoText
  BY WholeIsAll
<1> HIDE DEF L
<1>4. \A g \in File : HonestEntry(L, g, text, mtime, quietAt, held)
  BY <1>1, <1>2, <1>3 DEF Honest, HonestEntry
<1>5. Honest(L, text, mtime, quietAt, held)
  BY <1>1, <1>4 DEF Honest, HonestContent
<1> QED BY <1>5 DEF L

\* mark_file_read, when it neither restamps nor widens what it records.
LEMMA MarksHonestly ==
  ASSUME TruthInv, NEW c \in Caller, PostReadMarks(c), hazards' \cap RangeHazard = {},
         hazards \subseteq hazards'
  PROVE  LET K == MarkFileRead(copy[c], call[c].file, call[c].win, reads + 1)
         IN  /\ Honest(K, text, mtime, quietAt, held)
             /\ K.files[call[c].file].read > quietAt[call[c].file]
<1> DEFINE f == call[c].file
           w == call[c].win
           e == copy[c].files[f]
           K == MarkFileRead(copy[c], f, w, reads + 1)
           h == Flag("restamped", ~(Showing(f, e.cover) \subseteq held))
                \cup Flag("collapsed", K.files[f].cover # e.cover \cup w)
<1>1. PastInv /\ TypeOK /\ Truthful
  BY DEF TruthInv, TruthInHand, PastInv
<1>2. Saves(c, K, h) /\ pc[c] = "marks"
  BY DEF PostReadMarks, Goes, Move
<1>3. h \subseteq hazards'
  BY <1>2 DEF Saves, Saved, SaveFails
<1>4. /\ Shown(text, f, e.cover) \subseteq held
      /\ K.files[f].cover = e.cover \cup w
  <2> HIDE DEF K, e
  <2> QED BY <1>3, ShowingIsShown DEF Flag, RangeHazard
<1>5. f \in File /\ w \in SUBSET Whole /\ copy[c] \in Cache
  BY <1>1, <1>2, CallOf DEF TypeOK
<1>6. Shown(text, f, w) \subseteq held /\ Honest(copy[c], text, mtime, quietAt, held)
  BY <1>1, <1>2 DEF Truthful, Asked
<1>7. /\ Honest(MarkFileRead(copy[c], f, w, reads + 1), text, mtime, quietAt, held)
      /\ MarkFileRead(copy[c], f, w, reads + 1).files[f].read > quietAt[f]
  <2> HIDE DEF f, w
  <2> QED BY <1>1, <1>4, <1>5, <1>6, ReadIsHonest
<1> QED BY <1>7

LEMMA SavesKeepTruth ==
  ASSUME TruthInv, NEW c \in Caller,
         \/ Flush(c) \/ PostReadMarks(c) \/ PostReadHashes(c) \/ PostReadSnapshots(c)
         \/ PostEditMarks(c),
         hazards' \cap RangeHazard = {}, hazards \subseteq hazards'
  PROVE  Truthful'
<1> PastInv /\ TypeOK
  BY DEF TruthInv, PastInv
<1> DEFINE f == call[c].file
           w == call[c].win
<1>1. PICK K \in Cache, h \in SUBSET AnyHazard, to \in {"idle", "asks", "hash", "snap"} :
        /\ Saves(c, K, h) /\ pc[c] \in Holding /\ pc' = [pc EXCEPT ![c] = to]
        /\ PostReadMarks(c) => K = MarkFileRead(copy[c], f, w, reads + 1)
        /\ PostEditMarks(c) => K = MarkFileEdited(copy[c], f)
        /\ PostReadHashes(c) => K = IF w = Whole THEN RegisterContent(copy[c], f) ELSE copy[c]
        /\ PostReadSnapshots(c) => K = [copy[c] EXCEPT !.shas[f] = text[f]]
        /\ Flush(c) => K = copy[c]
        /\ ~PostReadMarks(c) /\ ~PostEditMarks(c) => K.files = copy[c].files
  BY WrittenBy
<1>2. /\ f \in File /\ w \in SUBSET Whole /\ copy[c] \in Cache /\ store \in Cache
      /\ quietAt \in [File -> Nat]
  <2>1. pc[c] # "idle"
    BY <1>1 DEF Holding
  <2> QED BY <2>1, CallOf DEF TypeOK
<1>3. Truthful
  BY DEF TruthInv, TruthInHand
<1>4. UNCHANGED <<text, mtime, quietAt, held>>
  BY DEF Flush, PostReadMarks, PostReadHashes, PostReadSnapshots, PostEditMarks, world
<1>5. Honest(copy[c], text, mtime, quietAt, held) /\ Asked(c) /\ Recorder(c)
  BY <1>3 DEF Truthful
<1>6. Honest(K, text, mtime, quietAt, held)
  <2>1. CASE PostReadMarks(c)
    BY <1>1, <2>1, MarksHonestly
  <2>2. CASE PostReadHashes(c)
    <3>1. pc[c] = "hash"
      BY <2>2 DEF PostReadHashes, Goes, Move
    <3>2. w = Whole => Shown(text, f, Whole) \subseteq held
      BY <1>5, <3>1 DEF Asked
    <3>3. w = Whole => Honest(RegisterContent(copy[c], f), text, mtime, quietAt, held)
      BY <1>2, <1>5, <3>2, ContentIsHonest
    <3> QED BY <1>1, <1>5, <2>2, <3>3
  <2>3. CASE PostReadSnapshots(c)
    <3>1. pc[c] = "snap"
      BY <2>3 DEF PostReadSnapshots, Ends, Move
    <3>2. copy[c].files[f].read > quietAt[f]
      BY <1>5, <3>1 DEF Recorder
    <3>3. Honest([copy[c] EXCEPT !.shas[f] = text[f]], text, mtime, quietAt, held)
      BY <1>2, <1>5, <3>2, SnapshotIsHonest
    <3> QED BY <1>1, <2>3, <3>3
  <2>4. CASE PostEditMarks(c)
    <3>1. Honest(MarkFileEdited(copy[c], f), text, mtime, quietAt, held)
      BY <1>2, <1>5, EditMarkIsHonest
    <3> QED BY <1>1, <2>4, <3>1
  <2>5. CASE Flush(c)
    BY <1>1, <1>5, <2>5
  <2> QED BY <2>1, <2>2, <2>3, <2>4, <2>5
<1>7. /\ store' \in {store, K, Merge(K, store)}
      /\ \A d \in Caller \ {c} : pc'[d] = pc[d] /\ copy'[d] = copy[d]
      /\ pc'[c] = to
      /\ copy'[c] = IF to \in Holding THEN K ELSE Fresh
  BY <1>1, SaveChoices
<1>8. Honest(Merge(K, store), text, mtime, quietAt, held)
  BY <1>2, <1>3, <1>6, MergeIsHonest DEF Truthful
<1>9. Honest(Fresh, text, mtime, quietAt, held)
  BY <1>2, WholeIsAll, FreshIsHonest
<1>10. Honest(store', text', mtime', quietAt', held')
  BY <1>3, <1>4, <1>6, <1>7, <1>8 DEF Truthful
<1>11. \A d \in Caller : Honest(copy'[d], text', mtime', quietAt', held')
  BY <1>3, <1>4, <1>6, <1>7, <1>9 DEF Truthful
<1>12. \A d \in Caller \ {c} : call'[d] = call[d]
  BY DEF Flush, PostReadMarks, PostReadHashes, PostReadSnapshots, PostEditMarks, Goes, Ends, TypeOK
<1>13. to \in {"hash", "snap"} =>
         /\ call'[c] = call[c]
         /\ \/ PostReadMarks(c) /\ to = "hash"
            \/ PostReadHashes(c) /\ to = "snap"
  <2>1. CASE Flush(c)
    BY <1>7, <2>1 DEF Flush, Goes, Ends, Move, TypeOK
  <2>2. CASE PostReadMarks(c)
    <3>1. pc' = [pc EXCEPT ![c] = "hash"] /\ call' = call
      BY <2>2 DEF PostReadMarks, Goes, Move
    <3>2. to = "hash"
      BY <1>7, <3>1 DEF TypeOK
    <3> QED BY <2>2, <3>1, <3>2
  <2>3. CASE PostReadHashes(c)
    BY <1>7, <2>3 DEF PostReadHashes, Goes, Move, TypeOK
  <2>4. CASE PostReadSnapshots(c) \/ PostEditMarks(c)
    BY <1>7, <2>4 DEF PostReadSnapshots, PostEditMarks, Ends, Move, TypeOK
  <2> QED BY <2>1, <2>2, <2>3, <2>4
<1>14. ASSUME NEW d \in Caller PROVE Asked(d)'
  <2>1. CASE d # c
    <3>1. Asked(d)
      BY <1>3 DEF Truthful
    <3> QED BY <1>4, <1>7, <1>12, <2>1, <3>1 DEF Asked
  <2>2. CASE d = c
    <3>1. to = "hash" => pc[c] = "marks" /\ call'[c] = call[c]
      BY <1>13 DEF PostReadMarks, Goes, Move
    <3> QED BY <1>4, <1>5, <1>7, <2>2, <3>1 DEF Asked
  <2> QED BY <2>1, <2>2
<1>15. ASSUME NEW d \in Caller PROVE Recorder(d)'
  <2>1. CASE d # c
    <3>1. Recorder(d)
      BY <1>3 DEF Truthful
    <3> QED BY <1>4, <1>7, <1>12, <2>1, <3>1 DEF Recorder
  <2>2. CASE d = c
    <3>1. to = "hash" => K.files[f].read > quietAt[f]
      BY <1>1, <1>13, MarksHonestly
    <3>2. to = "snap" => K.files[f].read > quietAt[f]
      <4>1. ASSUME PostReadHashes(c) PROVE K.files[f].read > quietAt[f]
        <5>1. pc[c] = "hash" /\ ~PostReadMarks(c) /\ ~PostEditMarks(c)
          BY <4>1 DEF PostReadHashes, PostReadMarks, PostEditMarks, Goes, Ends, Move
        <5> QED BY <1>1, <1>5, <5>1 DEF Recorder
      <4> QED BY <1>13, <4>1
    <3>3. to \in {"hash", "snap"} => copy'[c] = K /\ call'[c].file = f
      BY <1>7, <1>13 DEF Holding
    <3> HIDE DEF f
    <3> QED BY <1>4, <1>7, <2>2, <3>1, <3>2, <3>3 DEF Recorder
  <2> QED BY <2>1, <2>2
<1> QED BY <1>10, <1>11, <1>14, <1>15 DEF Truthful

\* A change leaves no entry of its file that still matches it.
LEMMA ChangedIsHonest ==
  ASSUME PastInv, NEW K \in Cache, Dated(K, reads, writes), NEW H, NEW f \in File, NEW t \in Seq(Nat),
         ~Known(t, writes), NEW m \in {writes + 1, mtime[f]}, Writes(f, t, m), held \subseteq H,
         Honest(K, text, mtime, quietAt, held),
         m = mtime[f] /\ K.files[f] # NoEntry => K.shas[f] # NoText
  PROVE  Honest(K, text', mtime', quietAt', H)
<1>1. /\ \A g \in File \ {f} : text'[g] = text[g] /\ mtime'[g] = mtime[g] /\ quietAt'[g] = quietAt[g]
      /\ text'[f] = t /\ mtime'[f] = m
      /\ quietAt'[f] = IF m = mtime[f] THEN reads ELSE quietAt[f]
  BY DEF Writes, PastInv, TypeOK
<1>2. ASSUME NEW g \in File \ {f} PROVE HonestEntry(K, g, text', mtime', quietAt', H)
  <2>1. HonestEntry(K, g, text, mtime, quietAt, held)
    BY DEF Honest
  <2> QED BY <1>1, <2>1 DEF HonestEntry, Shown
<1>3. HonestEntry(K, f, text', mtime', quietAt', H)
  <2>1. /\ K.files[f].stamp \in Nat /\ K.files[f].read \in Nat /\ writes \in Nat /\ reads \in Nat
        /\ mtime[f] \in Nat /\ mtime[f] <= writes
    BY CacheParts DEF PastInv, Past, DatedFile, TypeOK, Entry
  <2>2. K.files[f].stamp <= writes /\ K.files[f].read <= reads /\ Known(K.shas[f], writes)
    BY DEF Dated, DatedEntry
  <2>3. K.shas[f] # text'[f]
    BY <1>1, <2>2
  <2>4. HonestEntry(K, f, text, mtime, quietAt, held)
    BY DEF Honest
  <2>5. CASE m = mtime[f]
    <3>1. ~(K.files[f].read > quietAt'[f])
      BY <1>1, <2>1, <2>2, <2>5
    <3>2. K.files[f] # NoEntry => K.shas[f] # NoText
      BY <2>5
    <3> QED BY <2>3, <3>1, <3>2 DEF HonestEntry
  <2>6. CASE m # mtime[f]
    <3>1. K.files[f].stamp # mtime'[f] /\ quietAt'[f] = quietAt[f]
      BY <1>1, <2>1, <2>2, <2>6
    <3> QED BY <2>3, <2>4, <3>1 DEF HonestEntry
  <2> QED BY <2>5, <2>6
<1>4. HonestContent(K, H)
  BY DEF Honest, HonestContent
<1> QED BY <1>2, <1>3, <1>4 DEF Honest

LEMMA EditsKeepTruth ==
  ASSUME TruthInv, NEW c \in Caller, Edit(c), hazards' \cap RangeHazard = {},
         hazards \subseteq hazards'
  PROVE  Truthful'
<1> PastInv /\ TypeOK
  BY DEF TruthInv, PastInv
<1>1. Truthful
  BY DEF TruthInv, TruthInHand
<1>2. PICK f \in File :
        /\ Move(c, "idle", "edited") /\ call' = [call EXCEPT ![c] = [file |-> f, win |-> Whole]]
        /\ held' = held \cup {New}
        /\ \/ \E l \in DOMAIN text[f] : Writes(f, Replaced(f, l), writes + 1)
           \/ /\ Writes(f, <<New>> \o text[f], writes + 1)
              /\ hazards' = hazards \cup Flag("raced", Busy # {})
        /\ UNCHANGED <<store, copy, stale, reads, faults, told, noted>>
  BY DEF Edit
<1>3. PICK t \in Seq(Nat) :
        /\ Writes(f, t, writes + 1) /\ ~Known(t, writes)
        /\ \/ \E l \in DOMAIN text[f] : t = Replaced(f, l)
           \/ Busy = {}
  <2>0. /\ Lines + writes \in Nat /\ New = Lines + writes + 1 /\ text[f] \in Seq(Nat)
        /\ DOMAIN text[f] = 1..Len(text[f]) /\ Len(text[f]) \in Nat
    BY Positive, LenProperties DEF New, TypeOK
  <2>1. ASSUME NEW u \in Seq(Nat), NEW i \in 1..Len(u), u[i] = New PROVE ~Known(u, writes)
    <3>1. i \in DOMAIN u
      BY NumbersOf
    <3> QED BY <2>0, <2>1, <3>1 DEF Known
  <2>2. CASE \E l \in DOMAIN text[f] : Writes(f, Replaced(f, l), writes + 1)
    <3>1. PICK l \in DOMAIN text[f] : Writes(f, Replaced(f, l), writes + 1)
      BY <2>2
    <3>2. /\ Replaced(f, l) \in Seq(Nat) /\ l \in 1..Len(Replaced(f, l))
          /\ Replaced(f, l)[l] = New
      BY <2>0, NewText
    <3>3. ~Known(Replaced(f, l), writes)
      BY <2>1, <3>2
    <3> QED BY <3>1, <3>2, <3>3
  <2>3. CASE /\ Writes(f, <<New>> \o text[f], writes + 1)
             /\ hazards' = hazards \cup Flag("raced", Busy # {})
    <3> DEFINE t == <<New>> \o text[f]
    <3>1. /\ t \in Seq(Nat) /\ Len(t) = 1 + Len(text[f])
          /\ \A i \in 1..Len(t) : t[i] = IF i = 1 THEN New ELSE text[f][i - 1]
      BY NewText
    <3>2. Writes(f, t, writes + 1)
      BY <2>3
    <3> HIDE DEF t
    <3>3. 1 \in 1..Len(t) /\ t[1] = New
      BY <2>0, <3>1
    <3>4. ~Known(t, writes)
      BY <2>1, <3>1, <3>3
    <3>5. Busy = {}
      BY <2>3 DEF Flag, RangeHazard
    <3> QED BY <3>1, <3>2, <3>4, <3>5
  <2> QED BY <1>2, <2>2, <2>3
<1>4. writes + 1 # mtime[f]
  BY DEF PastInv, Past, DatedFile, TypeOK
<1>5. Dated(store, reads, writes) /\ \A d \in Caller : Dated(copy[d], reads, writes) /\ copy[d] \in Cache
  BY DEF PastInv, Past, TypeOK
<1>6. held \subseteq held' /\ store \in Cache
  BY <1>2 DEF TypeOK
<1>7. Honest(store, text', mtime', quietAt', held')
  BY <1>1, <1>3, <1>4, <1>5, <1>6, ChangedIsHonest DEF Truthful
<1>8. \A d \in Caller : Honest(copy[d], text', mtime', quietAt', held')
  BY <1>1, <1>3, <1>4, <1>5, <1>6, ChangedIsHonest DEF Truthful
<1>9. /\ \A d \in Caller \ {c} : pc'[d] = pc[d] /\ call'[d] = call[d]
      /\ pc'[c] = "edited"
  BY <1>2 DEF Move, TypeOK
<1>10. /\ quietAt' = quietAt
       /\ \A g \in File : text'[g] = IF g = f THEN t ELSE text[g]
  BY <1>3, <1>4 DEF Writes, TypeOK
<1>11. ASSUME NEW d \in Caller PROVE Asked(d)' /\ Recorder(d)'
  <2>1. CASE d = c
    BY <1>9, <2>1 DEF Asked, Recorder
  <2>2. CASE d # c
    <3>1. Asked(d) /\ Recorder(d)
      BY <1>1 DEF Truthful
    <3>2. Recorder(d)'
      BY <1>2, <1>9, <1>10, <2>2, <3>1 DEF Recorder
    <3>3. Asked(d)'
      <4> SUFFICES ASSUME pc[d] \in {"posts", "marks", "hash"}
                   PROVE  Shown(text', call[d].file, call[d].win) \subseteq held'
        BY <1>9, <2>2 DEF Asked
      <4>1. d \in Busy
        BY DEF Busy, InFlight, Holding
      <4>2. PICK l \in DOMAIN text[f] : t = Replaced(f, l)
        BY <1>3, <4>1
      <4>3. call[d].file \in File
        BY CallOf
      <4>4. /\ t \in Seq(Nat) /\ Len(t) = Len(text[f])
            /\ \A i \in DOMAIN text[f] : t[i] = IF i = l THEN New ELSE text[f][i]
        BY <4>2, NewText
      <4>5. DOMAIN t = DOMAIN text[f]
        BY <4>4, LenProperties DEF TypeOK
      <4>6. Shown(text, call[d].file, call[d].win) \subseteq held
        BY <3>1 DEF Asked
      <4> QED BY <1>2, <1>10, <4>3, <4>4, <4>5, <4>6 DEF Shown
    <3> QED BY <3>2, <3>3
  <2> QED BY <2>1, <2>2
<1>12. store' = store /\ copy' = copy
  BY <1>2
<1> QED BY <1>7, <1>8, <1>11, <1>12 DEF Truthful

LEMMA OutsideKeepsTruth ==
  ASSUME TruthInv, Outside, hazards' \cap RangeHazard = {}, hazards \subseteq hazards'
  PROVE  Truthful'
<1> PastInv /\ TypeOK
  BY DEF TruthInv, PastInv
<1>1. Truthful
  BY DEF TruthInv, TruthInHand
<1>2. PICK f \in File : \E m \in {writes + 1, mtime[f]} :
        /\ \E l \in DOMAIN text[f] : Writes(f, Replaced(f, l), m)
        /\ hazards' = hazards
             \cup Flag("raced", Busy # {})
             \cup Flag("quiet", m = mtime[f] /\ store.shas[f] = NoText)
        /\ UNCHANGED <<store, copy, stale, pc, call, held, reads, faults, told, noted>>
  BY DEF Outside
<1>3. PICK m \in {writes + 1, mtime[f]} :
        /\ \E l \in DOMAIN text[f] : Writes(f, Replaced(f, l), m)
        /\ hazards' = hazards
             \cup Flag("raced", Busy # {})
             \cup Flag("quiet", m = mtime[f] /\ store.shas[f] = NoText)
        /\ UNCHANGED <<store, copy, stale, pc, call, held, reads, faults, told, noted>>
  BY <1>2
<1>4. PICK l \in DOMAIN text[f] : Writes(f, Replaced(f, l), m)
  BY <1>3
<1> DEFINE t == Replaced(f, l)
<1>5. /\ t \in Seq(Nat) /\ ~Known(t, writes)
  <2>0. /\ Lines + writes \in Nat /\ New = Lines + writes + 1 /\ text[f] \in Seq(Nat)
        /\ DOMAIN text[f] = 1..Len(text[f])
    BY Positive, LenProperties DEF New, TypeOK
  <2>1. t \in Seq(Nat) /\ Len(t) = Len(text[f]) /\ t[l] = New
    BY NewText
  <2> HIDE DEF t
  <2>2. l \in DOMAIN t
    BY <2>0, <2>1, NumbersOf
  <2> QED BY <2>0, <2>1, <2>2 DEF Known
<1>6. Busy = {} /\ ~(m = mtime[f] /\ store.shas[f] = NoText)
  BY <1>3 DEF Flag, RangeHazard
<1>7. \A d \in Caller : pc[d] \notin InFlight /\ copy[d] = Fresh
  BY <1>6 DEF Busy, InFlight, TypeOK
<1>8. Writes(f, t, m)
  BY <1>4
<1> HIDE DEF t
<1>9. /\ Dated(store, reads, writes) /\ \A d \in Caller : Dated(copy[d], reads, writes)
      /\ store \in Cache /\ \A d \in Caller : copy[d] \in Cache
  BY DEF PastInv, Past, TypeOK
<1>10. Honest(store, text', mtime', quietAt', held)
  BY <1>1, <1>5, <1>6, <1>8, <1>9, ChangedIsHonest DEF Truthful
<1>11. ASSUME NEW d \in Caller PROVE Honest(copy[d], text', mtime', quietAt', held)
  <2>1. copy[d].files[f] = NoEntry
    BY <1>7 DEF Fresh
  <2>2. Honest(copy[d], text, mtime, quietAt, held)
    BY <1>1 DEF Truthful
  <2> QED BY <1>5, <1>8, <1>9, <2>1, <2>2, ChangedIsHonest
<1>12. UNCHANGED <<store, copy, pc, call, held>>
  BY <1>3
<1>13. \A d \in Caller : Asked(d)' /\ Recorder(d)'
  BY <1>7, <1>12 DEF Asked, Recorder, InFlight, Holding
<1> QED BY <1>10, <1>11, <1>12, <1>13 DEF Truthful

LEMMA StepKeepsTruth ==
  ASSUME TruthInv, [Next]_vars
  PROVE  TruthInHand'
<1> SUFFICES ASSUME hazards' \cap RangeHazard = {} PROVE Truthful'
  BY DEF TruthInHand, RangeHazard
<1>0. hazards \subseteq hazards' /\ PastInv /\ TypeOK /\ quietAt \in [File -> Nat]
  BY HazardsOnlyGrow DEF TruthInv, PastInv, TypeOK
<1>1. Truthful
  BY <1>0 DEF TruthInv, TruthInHand
<1>2. ASSUME NEW c \in Caller,
             \/ Flush(c) \/ PostReadMarks(c) \/ PostReadHashes(c) \/ PostReadSnapshots(c)
             \/ PostEditMarks(c)
      PROVE  Truthful'
  BY <1>0, <1>2, SavesKeepTruth
\* A step that leaves the files alone: one caller may get another object.
<1>3. ASSUME UNCHANGED <<world, store>>, held \subseteq held', NEW c \in Caller,
             \A d \in Caller \ {c} : pc'[d] = pc[d] /\ copy'[d] = copy[d] /\ call'[d] = call[d],
             Honest(copy'[c], text, mtime, quietAt, held),
             Asked(c)', pc'[c] \notin {"hash", "snap"}
      PROVE  Truthful'
  <2>1. UNCHANGED <<text, mtime, quietAt>>
    BY <1>3 DEF world
  <2>2. Honest(store', text', mtime', quietAt', held')
    BY <1>1, <1>3, <2>1, HonestGrows DEF Truthful
  <2>3. ASSUME NEW d \in Caller PROVE Honest(copy'[d], text', mtime', quietAt', held')
    <3>1. Honest(copy'[d], text, mtime, quietAt, held)
      BY <1>1, <1>3 DEF Truthful
    <3> QED BY <1>3, <2>1, <3>1, HonestGrows
  <2>4. ASSUME NEW d \in Caller PROVE Asked(d)' /\ Recorder(d)'
    <3>1. CASE d = c
      BY <1>3, <3>1 DEF Recorder
    <3>2. CASE d # c
      <4>1. Asked(d) /\ Recorder(d)
        BY <1>1 DEF Truthful
      <4>2. pc'[d] = pc[d] /\ copy'[d] = copy[d] /\ call'[d] = call[d]
        BY <1>3, <3>2
      <4> QED BY <1>3, <2>1, <4>1, <4>2 DEF Asked, Recorder
    <3> QED BY <3>1, <3>2
  <2> QED BY <2>2, <2>3, <2>4 DEF Truthful
<1>4. ASSUME NEW c \in Caller, PreReadDenies(c) PROVE Truthful'
  <2>1. PICK s : copy' = [copy EXCEPT ![c] = [store EXCEPT !.seen = s]]
    BY <1>4 DEF PreReadDenies, Keeps
  <2> DEFINE K == [store EXCEPT !.seen = s]
  <2>2. K.files = store.files /\ K.shas = store.shas /\ K.content = store.content
    BY <1>0 DEF TypeOK, Cache
  <2>3. UNCHANGED <<world, store, held, call>> /\ pc' = [pc EXCEPT ![c] = "flush"]
    BY <1>4 DEF PreReadDenies, Goes, Move
  <2>4. /\ \A d \in Caller \ {c} : pc'[d] = pc[d] /\ copy'[d] = copy[d] /\ call'[d] = call[d]
        /\ copy'[c] = K /\ pc'[c] = "flush"
    BY <1>0, <2>1, <2>3 DEF TypeOK
  <2> HIDE DEF K
  <2>5. Honest(copy'[c], text, mtime, quietAt, held)
    BY <1>1, <2>2, <2>4, HonestAlike DEF Truthful
  <2>6. Asked(c)'
    BY <2>4 DEF Asked
  <2> QED BY <1>3, <2>3, <2>4, <2>5, <2>6
<1>5. ASSUME NEW c \in Caller, PostReadLoads(c) \/ PostEditLoads(c) PROVE Truthful'
  <2>1. /\ UNCHANGED <<world, store, held, call>> /\ copy' = [copy EXCEPT ![c] = store]
        /\ \/ pc[c] = "posts" /\ pc' = [pc EXCEPT ![c] = "marks"]
           \/ pc' = [pc EXCEPT ![c] = "notes"]
    BY <1>5 DEF PostReadLoads, PostEditLoads, Loads, Keeps, Goes, Move
  <2>2. /\ copy'[c] = store /\ \A d \in Caller \ {c} : pc'[d] = pc[d] /\ copy'[d] = copy[d]
        /\ \/ pc[c] = "posts" /\ pc'[c] = "marks"
           \/ pc'[c] = "notes"
    BY <1>0, <2>1 DEF TypeOK
  <2>3. Asked(c)'
    BY <1>1, <2>1, <2>2 DEF Truthful, Asked, world
  <2> QED BY <1>1, <1>3, <2>1, <2>2, <2>3 DEF Truthful
<1>6. ASSUME NEW c \in Caller, Tool(c) PROVE Truthful'
  <2>1. /\ UNCHANGED <<world, store, copy, call>> /\ pc' = [pc EXCEPT ![c] = "posts"]
        /\ held \subseteq held'
        /\ hazards' = hazards \cup
             Flag("paged", ~(Showing(call[c].file, call[c].win) \subseteq held'))
    BY <1>6 DEF Tool, Goes, Move
  <2>2. Showing(call[c].file, call[c].win) \subseteq held'
    BY <2>1 DEF Flag, RangeHazard
  <2>3. Asked(c)'
    BY <2>1, <2>2, ShowingIsShown DEF Asked, world
  <2>4. pc'[c] = "posts" /\ \A d \in Caller \ {c} : pc'[d] = pc[d]
    BY <1>0, <2>1 DEF TypeOK
  <2> QED BY <1>1, <1>3, <2>1, <2>3, <2>4 DEF Truthful
<1>7. ASSUME NEW c \in Caller,
             Ask(c) \/ PreReadDedup(c) \/ PreReadPasses(c) \/ LoadFails(c)
      PROVE  Truthful'
  <2>1. UNCHANGED <<world, store, copy, held>>
    BY <1>7 DEF Ask, PreReadDedup, PreReadPasses, LoadFails
  <2>2. PICK to \in {"asks", "idle", "tool"} : pc' = [pc EXCEPT ![c] = to]
    BY <1>7 DEF Ask, PreReadDedup, PreReadPasses, LoadFails, Goes, Ends, Move
  <2>3. \A d \in Caller \ {c} : call'[d] = call[d]
    BY <1>0, <1>7 DEF Ask, PreReadDedup, PreReadPasses, LoadFails, Goes, Ends, TypeOK
  <2>4. pc'[c] \in {"asks", "idle", "tool"} /\ \A d \in Caller \ {c} : pc'[d] = pc[d]
    BY <1>0, <2>2 DEF TypeOK
  <2>5. Asked(c)'
    BY <2>4 DEF Asked
  <2> QED BY <1>1, <1>3, <2>1, <2>3, <2>4, <2>5 DEF Truthful
<1>8. ASSUME NEW c \in Caller, SnapshotFails(c) PROVE Truthful'
  <2>1. /\ UNCHANGED <<world, store, held>> /\ copy' = [copy EXCEPT ![c] = Fresh]
        /\ pc' = [pc EXCEPT ![c] = "idle"] /\ call' = [call EXCEPT ![c] = NoCall]
    BY <1>8 DEF SnapshotFails, Ends, Move, Keeps
  <2>2. /\ \A d \in Caller \ {c} : pc'[d] = pc[d] /\ copy'[d] = copy[d] /\ call'[d] = call[d]
        /\ pc'[c] = "idle" /\ copy'[c] = Fresh
    BY <1>0, <2>1 DEF TypeOK
  <2>3. Honest(Fresh, text, mtime, quietAt, held)
    BY <1>0, WholeIsAll, FreshIsHonest
  <2>4. Asked(c)'
    BY <2>2 DEF Asked
  <2> QED BY <1>3, <2>1, <2>2, <2>3, <2>4
<1>9. ASSUME NEW c \in Caller, Edit(c) PROVE Truthful'
  BY <1>0, <1>9, EditsKeepTruth
<1>10. CASE Outside
  BY <1>0, <1>10, OutsideKeepsTruth
<1>11. CASE Hints
  <2>1. PICK s : store' = [store EXCEPT !.seen = s]
    BY <1>11 DEF Hints
  <2>2. store'.files = store.files /\ store'.shas = store.shas /\ store'.content = store.content
    BY <1>0, <2>1 DEF TypeOK, Cache
  <2>3. UNCHANGED <<text, mtime, quietAt, copy, pc, call, held>>
    BY <1>11 DEF Hints, world
  <2>4. Honest(store', text', mtime', quietAt', held')
    BY <1>1, <2>2, <2>3, HonestAlike DEF Truthful
  <2> QED BY <1>1, <2>3, <2>4 DEF Truthful, Asked, Recorder
<1>12. CASE Compact
  BY <1>12 DEF Compact, RangeHazard
<1>13. CASE Reset
  <2>1. Busy = {} /\ store' = Fresh /\ UNCHANGED <<text, mtime, quietAt, copy, pc, call>>
    BY <1>13 DEF Reset, Flag, RangeHazard, world
  <2>2. \A d \in Caller : pc[d] \notin InFlight /\ copy[d] = Fresh
    BY <1>0, <2>1 DEF Busy, InFlight, TypeOK
  <2>3. Honest(Fresh, text, mtime, quietAt, held')
    BY <1>0, WholeIsAll, FreshIsHonest
  <2>4. \A d \in Caller : Asked(d)' /\ Recorder(d)'
    BY <2>1, <2>2 DEF Asked, Recorder, InFlight, Holding
  <2> QED BY <2>1, <2>2, <2>3, <2>4 DEF Truthful
<1>14. CASE UNCHANGED vars
  BY <1>1, <1>14 DEF vars, world, Truthful, Asked, Recorder
<1> QED BY <1>2, <1>4, <1>5, <1>6, <1>7, <1>8, <1>9, <1>10, <1>11, <1>12, <1>13, <1>14
        DEF Next, Hook, PreRead

LEMMA TruthMeansDenyIsTrue == TruthInv => DenyIsTrue
<1> SUFFICES ASSUME TruthInv, hazards \cap RangeHazard = {}, NEW f \in File, NEW w \in Window,
                    DedupDenies(f, w) \/ RereadDenies(f, w)
             PROVE  Shown(text, f, w) \subseteq held
  BY ShowingIsShown DEF DenyIsTrue
<1>1. Honest(store, text, mtime, quietAt, held) /\ store \in Cache /\ quietAt[f] \in Nat
  BY DEF TruthInv, TruthInHand, Truthful, PastInv, TypeOK
<1>2. CASE DedupDenies(f, w)
  <2>1. PICK g : <<text[f], g>> \in store.content
    BY <1>2 DEF DedupDenies, TwinOf
  <2>2. \A i \in DOMAIN text[f] : text[f][i] \in held
    BY <1>1, <2>1 DEF Honest, HonestContent
  <2> QED BY <2>2 DEF Shown
<1>3. CASE RereadDenies(f, w)
  <2>1. /\ store.files[f] # NoEntry /\ store.files[f].stamp = mtime[f]
        /\ w \subseteq store.files[f].cover /\ store.shas[f] \in {NoText, text[f]}
    BY <1>3 DEF RereadDenies, RereadApplies, StampMatches, WindowIsCovered, ShaMatches
  <2>2. HonestEntry(store, f, text, mtime, quietAt, held)
    BY <1>1 DEF Honest
  <2>3. store.files[f].read \in Nat
    BY <1>1, CacheParts DEF Entry
  <2>4. store.files[f].read > quietAt[f]
    BY <1>1, <2>1, <2>2, <2>3 DEF HonestEntry
  <2>5. Shown(text, f, store.files[f].cover) \subseteq held
    BY <2>1, <2>2, <2>4 DEF HonestEntry
  <2> QED BY <2>1, <2>5 DEF Shown
<1> QED BY <1>2, <1>3

\* pre_read tells the truth: what it denies as already in context, or as the
\* duplicate of a file already read, is in the session's contexts in its
\* present text, through any interleaving of hooks, failing saves, merges
\* and edits, until one of the named hazards.
THEOREM DenialsTrue == Spec => []DenyIsTrue
<1>1. Init => TruthInv
  <2> SUFFICES ASSUME Init PROVE TruthInv
    OBVIOUS
  <2>1. TypeOK /\ reads = 0 /\ writes = 0 /\ Lines \in Nat /\ Lines > 0
    BY InitialTypes, Positive DEF Init
  <2>2. ASSUME NEW f \in File PROVE DatedFile(f)
    <3>1. text[f] = [l \in 1..Lines |-> l] /\ mtime[f] = 0 /\ quietAt[f] = 0
      BY DEF Init
    <3>2. Len(text[f]) = Lines
      BY <2>1, <3>1
    <3>3. Known(text[f], 0)
      BY <2>1, <3>1 DEF Known
    <3> QED BY <2>1, <3>1, <3>2, <3>3 DEF DatedFile
  <2>3. store = Fresh /\ \A c \in Caller : copy[c] = Fresh /\ pc[c] = "idle"
    BY DEF Init
  <2>4. PastInv
    BY <2>1, <2>2, <2>3, FreshIsDated DEF PastInv, Past
  <2>5. Honest(Fresh, text, mtime, quietAt, held)
    BY <2>1, <2>4, WholeIsAll, FreshIsHonest DEF TypeOK
  <2>6. \A c \in Caller : Asked(c) /\ Recorder(c)
    BY <2>3 DEF Asked, Recorder
  <2> QED BY <2>3, <2>4, <2>5, <2>6 DEF TruthInv, TruthInHand, Truthful
<1>2. TruthInv /\ [Next]_vars => TruthInv'
  BY StepKeepsTypes, StepKeepsPast, StepKeepsTruth DEF TruthInv, PastInv
<1> QED BY <1>1, <1>2, TruthMeansDenyIsTrue, PTL DEF Spec

=============================================================================
