------------------------------ MODULE ReadGuard ------------------------------
(***************************************************************************)
(* What pre_read may deny (hooks_read.ts).  The session cache remembers    *)
(* which lines of which file a session has read; a later Read of the same  *)
(* lines is denied as "already in context", and a Read of a file whose     *)
(* bytes were read under another path as a duplicate.  post_read records   *)
(* reads, post_edit edits; the hooks of calls that run at once (parallel   *)
(* tool calls, a sub-agent under the same session id) share the cache.     *)
(*                                                                         *)
(* Data: a line is a number that no other line text has; `held` is what    *)
(* the session's contexts contain.  Every file is above                    *)
(* reread_deny_min_bytes and below the snapshot cap.  A save is atomic:    *)
(* SessionStore shows that, module SessionLog states it.                   *)
(***************************************************************************)
EXTENDS Naturals, Sequences, FiniteSets

CONSTANTS
  Caller,      \* the tool calls that can be under way at once
  File,        \* the files; all start as copies of one another
  Lines,       \* lines of a file at the start
  Window,      \* the windows the model asks for: intervals of line numbers
  Page,        \* lines the Read tool returns when given no limit
  FullAt,      \* _READ_COUNT_FULL_FILE_THRESHOLD
  MaxRanges,   \* _MAX_LINE_RANGES_PER_FILE
  MaxSeen,     \* HINTS_SEEN_MAX
  OtherHint,   \* fingerprints of the hints not modelled
  MaxReads,    \* bound: reads recorded
  MaxWrites,   \* bound: changes of files
  MaxFaults    \* bound: failing saves and snapshots, compactions, resets

MaxLine == Lines + MaxWrites
Beyond == MaxLine + 1    \* stands for _UNKNOWN_END_SENTINEL
INSTANCE LineCover

ASSUME Positive ==
  /\ Lines \in Nat \ {0} /\ Page \in Nat \ {0} /\ FullAt \in Nat /\ MaxRanges \in Nat \ {0}
  /\ MaxSeen \in Nat /\ MaxReads \in Nat /\ MaxWrites \in Nat
  /\ MaxFaults \in Nat
ASSUME WindowsAreIntervals ==
  \A w \in Window : \E a, b \in 1..Beyond : a <= b /\ w = a..b

VARIABLES
  text,      \* the lines of each file
  mtime,     \* its fingerprint, (mtime, size)
  store,     \* the session cache on disk
  copy,      \* the SessionCache object each hook works on
  stale,     \* callers whose object is older than the one on disk
  pc,        \* where each caller is
  call,      \* the file and window of its Read (its Edit)
  held,      \* lines in the session's contexts
  reads, writes, faults,   \* counters of the bounds
  told,      \* history: denials whose pre_read has returned
  noted,     \* history: files edited, as post_edit saved, since their last read
  quietAt,   \* history: per file, reads recorded before a change kept (mtime, size)
  hazards    \* history, see below

bounds == <<reads, writes, faults>>
world == <<text, mtime, quietAt>>
vars == <<world, store, copy, stale, pc, call, held, bounds, told, noted, hazards>>

(***************************************************************************)
(* What the recorded ranges do not survive:                                *)
(*   "compact"   the contexts dropped what they held, the cache did not    *)
(*   "revived"   a hook in flight saved its cache after reset_session      *)
(*   "raced"     a file changed, other than by an edit in place, while a   *)
(*               call was under way                                        *)
(*   "restamped" a read gave its fingerprint to ranges that had changed    *)
(*   "paged"     the tool returned less than the range recorded            *)
(*   "collapsed" the ranges were widened to the whole file or to a span    *)
(*   "quiet"     a change kept (mtime, size) and there was no snapshot     *)
(* and what the memory of denials does not:                                *)
(*   "lost"      the save of a denial failed                               *)
(*   "full"      hints_seen was at HINTS_SEEN_MAX                          *)
(* and the mark of an edit:                                                *)
(*   "crossed"   another hook saved between post_edit's load and its save  *)
(***************************************************************************)
RangeHazard == {"compact", "revived", "raced", "restamped", "paged", "collapsed", "quiet"}
OtherHazard == {"lost", "full", "crossed"}
Flag(h, cond) == IF cond THEN {h} ELSE {}

Entry == [read : Nat, edited : BOOLEAN, stamp : Nat, cover : SUBSET Whole, count : Nat]
NoEntry == [read |-> 0, edited |-> FALSE, stamp |-> 0, cover |-> {}, count |-> 0]
NoText == << >>
Denial == File \X SUBSET Whole
Cache == [files : [File -> Entry], shas : [File -> Seq(Nat)],
          seen : SUBSET (Denial \cup OtherHint), content : SUBSET (Seq(Nat) \X File)]
Fresh == [files |-> [f \in File |-> NoEntry], shas |-> [f \in File |-> NoText],
          seen |-> {}, content |-> {}]

Holding == {"flush", "marks", "hash", "snap", "notes"}   \* a hook has its object
InFlight == {"tool", "posts", "edited"} \cup Holding
Pc == {"idle", "asks"} \cup InFlight
Busy == {c \in Caller : pc[c] \in InFlight}
Request == [file : File, win : SUBSET Whole]
NoCall == << >>

Init ==
  /\ text = [f \in File |-> [l \in 1..Lines |-> l]]
  /\ mtime = [f \in File |-> 0]
  /\ store = Fresh /\ copy = [c \in Caller |-> Fresh] /\ stale = {}
  /\ pc = [c \in Caller |-> "idle"]
  /\ call = [c \in Caller |-> NoCall]
  /\ held = {} /\ told = {} /\ noted = {} /\ hazards = {}
  /\ quietAt = [f \in File |-> 0]
  /\ reads = 0 /\ writes = 0 /\ faults = 0

Move(c, from, to) == pc[c] = from /\ pc' = [pc EXCEPT ![c] = to]
Goes(c, from, to) == Move(c, from, to) /\ UNCHANGED call
Ends(c, from) == Move(c, from, "idle") /\ call' = [call EXCEPT ![c] = NoCall]
Fault == faults < MaxFaults /\ faults' = faults + 1
Showing(f, w) == {text[f][l] : l \in w \cap DOMAIN text[f]}

-----------------------------------------------------------------------------
(* The cache: recording, merging, saving.                                  *)

\* Mutant: hints_seen is not cut.
RememberUncut(seen, new) == seen \cup new

\* mark_hint_seen sorts by count and cuts: with HINTS_SEEN_MAX other
\* fingerprints in place it is the new one that goes.
Remember(seen, new) ==
  IF Cardinality(seen \cup new) <= MaxSeen THEN seen \cup new ELSE seen

MarkFileRead(K, f, w, now) ==
  [K EXCEPT !.files[f] = [read |-> now, edited |-> FALSE, stamp |-> mtime[f],
                          cover |-> Recorded(@.cover, @.count, w),
                          count |-> @.count + 1]]

MarkFileEdited(K, f) ==
  IF K.files[f] = NoEntry THEN K ELSE [K EXCEPT !.files[f].edited = TRUE]

RegisterContent(K, f) ==
  IF \E g \in File : <<text[f], g>> \in K.content THEN K
  ELSE [K EXCEPT !.content = @ \cup {<<text[f], f>>}]

\* Mutant: between equal readers the local entry wins.
NewerOrSame(local, remote) == IF local.read >= remote.read THEN local ELSE remote

\* _merge_session_caches: an entry is taken whole, from the later reader.
Newer(local, remote) == IF local.read > remote.read THEN local ELSE remote

\* Mutant: the merge forgets the hints that this hook has given.
MergeDropsHints(local, remote) ==
  [files   |-> [f \in File |-> Newer(local.files[f], remote.files[f])],
   shas    |-> [f \in File |-> IF local.shas[f] # NoText THEN local.shas[f]
                               ELSE remote.shas[f]],
   seen    |-> remote.seen,
   content |-> remote.content \cup local.content]

Merge(local, remote) ==
  [files   |-> [f \in File |-> Newer(local.files[f], remote.files[f])],
   shas    |-> [f \in File |-> IF local.shas[f] # NoText THEN local.shas[f]
                               ELSE remote.shas[f]],
   seen    |-> Remember(remote.seen, local.seen),
   content |-> remote.content \cup
               {p \in local.content : \A r \in remote.content : r[1] # p[1]}]

\* The hook keeps its object K (behind the store, once another hook has
\* saved) or has ended, and then the object is gone.
Keeps(c, K) == copy' = [copy EXCEPT ![c] = K]

\* Mutant: every other caller counts as behind.
BehindAll(c) == Caller \ {c}

Behind(c) == {d \in Caller \ {c} : pc[d] \in Holding}

\* h: what the action adds to hazards.
Saved(c, K, h) ==
  /\ store' = IF c \in stale THEN Merge(K, store) ELSE K
  /\ stale' = (IF pc'[c] \in Holding THEN stale ELSE stale \ {c}) \cup Behind(c)
  /\ Keeps(c, IF pc'[c] \in Holding THEN K ELSE Fresh)
  /\ hazards' = hazards \cup h
  /\ UNCHANGED faults

SaveFails(c, K, h) ==
  /\ Fault
  /\ stale' = IF pc'[c] \in Holding THEN stale ELSE stale \ {c}
  /\ Keeps(c, IF pc'[c] \in Holding THEN K ELSE Fresh)
  /\ hazards' = hazards \cup h \cup {"lost"}
  /\ UNCHANGED store

Saves(c, K, h) == Saved(c, K, h) \/ SaveFails(c, K, h)

Loads(c) == Keeps(c, store) /\ UNCHANGED stale

-----------------------------------------------------------------------------
(* pre_read: every answer is given from one load of the cache.             *)

\* _check_content_dedup looks only at a Read without offset and limit.
TwinOf(f) == {g \in File : <<text[f], g>> \in store.content} \ {f}
DedupDenies(f, w) == w = Whole /\ TwinOf(f) # {}

StampMatches(f) == store.files[f].stamp = mtime[f]

\* Mutant: the snapshot's sha is not compared.
ShaIgnored(f) == TRUE
ShaMatches(f) == store.shas[f] \in {NoText, text[f]}

RereadApplies(f, w) ==
  /\ ~DedupDenies(f, w)
  /\ store.files[f] # NoEntry
  /\ ~store.files[f].edited
  /\ StampMatches(f)
  /\ WindowIsCovered(store.files[f].cover, w)
  /\ ShaMatches(f)

RereadDenies(f, w) == RereadApplies(f, w) /\ <<f, w>> \notin store.seen

Ask(c) ==
  /\ Move(c, "idle", "asks")
  /\ \E f \in File, w \in Window : call' = [call EXCEPT ![c] = [file |-> f, win |-> w]]
  /\ reads < MaxReads
  /\ UNCHANGED <<world, store, copy, stale, held, bounds, told, noted, hazards>>

\* The agent turns to the file it was pointed to.
PreReadDedup(c) ==
  /\ Ends(c, "asks")
  /\ DedupDenies(call[c].file, call[c].win)
  /\ UNCHANGED <<world, store, copy, stale, held, bounds, told, noted, hazards>>

PreReadDenies(c) ==
  /\ Goes(c, "asks", "flush")
  /\ RereadDenies(call[c].file, call[c].win)
  /\ LET d == <<call[c].file, call[c].win>>
         seen == Remember(store.seen, {d})
     IN  /\ Keeps(c, [store EXCEPT !.seen = seen])
         /\ hazards' = hazards \cup Flag("full", d \notin seen)
  /\ UNCHANGED <<world, store, stale, held, bounds, told, noted>>

PreReadPasses(c) ==
  /\ Goes(c, "asks", "tool")
  /\ ~DedupDenies(call[c].file, call[c].win)
  /\ ~RereadDenies(call[c].file, call[c].win)
  /\ UNCHANGED <<world, store, copy, stale, held, bounds, told, noted, hazards>>

\* _flush_pending_hint_save; a failing save is suppressed.  Then the agent
\* gives in, or insists with the same request.
Flush(c) ==
  LET d == <<call[c].file, call[c].win>>
      seen == IF c \in stale THEN Remember(store.seen, copy[c].seen) ELSE copy[c].seen
  IN  /\ Ends(c, "flush") \/ Goes(c, "flush", "asks")
      /\ told' = told \cup {d}
      /\ Saves(c, copy[c], Flag("full", d \notin seen))
      /\ UNCHANGED <<world, held, reads, writes, noted>>

-----------------------------------------------------------------------------
(* The Read tool and post_read.                                            *)

Returned(f, w) ==
  IF Beyond \in w
  THEN {text[f][l] : l \in {k \in w \cap DOMAIN text[f] : k - Page \notin w}}
  ELSE Showing(f, w)

Tool(c) ==
  /\ Goes(c, "tool", "posts")
  /\ held' = held \cup Returned(call[c].file, call[c].win)
  /\ hazards' = hazards \cup
       Flag("paged", ~(Showing(call[c].file, call[c].win) \subseteq held'))
  /\ UNCHANGED <<world, store, copy, stale, bounds, told, noted>>

PostReadLoads(c) ==
  /\ Goes(c, "posts", "marks")
  /\ Loads(c)
  /\ UNCHANGED <<world, store, held, bounds, told, noted, hazards>>

\* mark_file_read stats the file now, after the tool has read it.
PostReadMarks(c) ==
  LET f == call[c].file
      w == call[c].win
      e == copy[c].files[f]
      K == MarkFileRead(copy[c], f, w, reads + 1)
  IN  /\ Goes(c, "marks", "hash")
      /\ reads' = reads + 1
      /\ Saves(c, K, Flag("restamped", ~(Showing(f, e.cover) \subseteq held))
                \cup Flag("collapsed", K.files[f].cover # e.cover \cup w))
      /\ noted' = noted \ {f}
      /\ UNCHANGED <<world, held, writes, told>>

PostReadHashes(c) ==
  LET K == IF call[c].win = Whole THEN RegisterContent(copy[c], call[c].file)
           ELSE copy[c]
  IN  /\ Goes(c, "hash", "snap")
      /\ Saves(c, K, {})
      /\ UNCHANGED <<world, held, reads, writes, told, noted>>

PostReadSnapshots(c) ==
  /\ Ends(c, "snap")
  /\ Saves(c, [copy[c] EXCEPT !.shas[call[c].file] = text[call[c].file]], {})
  /\ UNCHANGED <<world, held, reads, writes, told, noted>>

\* snapshots.store returned null: no sha is recorded.
SnapshotFails(c) ==
  /\ Ends(c, "snap")
  /\ Fault
  /\ Keeps(c, Fresh) /\ stale' = stale \ {c}
  /\ UNCHANGED <<world, store, held, reads, writes, told, noted, hazards>>

-----------------------------------------------------------------------------
(* Changes of files.                                                       *)

New == Lines + writes + 1
Replaced(f, l) == [text[f] EXCEPT ![l] = New]
Writes(f, t, m) ==
  /\ writes < MaxWrites /\ writes' = writes + 1
  /\ text' = [text EXCEPT ![f] = t]
  /\ mtime' = [mtime EXCEPT ![f] = m]
  /\ quietAt' = IF m = mtime[f] THEN [quietAt EXCEPT ![f] = reads] ELSE quietAt

\* The Edit tool: a line replaced in place, or one inserted, which gives the
\* lines after it other numbers.
Edit(c) ==
  \E f \in File :
    /\ Move(c, "idle", "edited")
    /\ call' = [call EXCEPT ![c] = [file |-> f, win |-> Whole]]
    /\ held' = held \cup {New}
    /\ \/ /\ \E l \in DOMAIN text[f] : Writes(f, Replaced(f, l), writes + 1)
          /\ UNCHANGED hazards
       \/ /\ Writes(f, <<New>> \o text[f], writes + 1)
          /\ hazards' = hazards \cup Flag("raced", Busy # {})
    /\ UNCHANGED <<store, copy, stale, reads, faults, told, noted>>

PostEditLoads(c) ==
  /\ Goes(c, "edited", "notes")
  /\ Loads(c)
  /\ UNCHANGED <<world, store, held, bounds, told, noted, hazards>>

PostEditMarks(c) ==
  /\ Ends(c, "notes")
  /\ LET f == call[c].file
         K == MarkFileEdited(copy[c], f)
     IN  \/ /\ Saved(c, K, Flag("crossed", c \in stale))
            /\ noted' = noted \cup {g \in {f} : K.files[g].edited}
         \/ SaveFails(c, K, {}) /\ UNCHANGED noted
  /\ UNCHANGED <<world, held, reads, writes, told>>

\* load_session_safe returned null: pre_read lets the call pass, the other
\* hooks end.
LoadFails(c) ==
  /\ Fault
  /\ Goes(c, "asks", "tool") \/ Ends(c, "posts") \/ Ends(c, "edited")
  /\ UNCHANGED <<world, store, copy, stale, held, reads, writes, told, noted, hazards>>

\* Another program changes a line; it may restore the time stamp.
Outside ==
  \E f \in File : \E m \in {writes + 1, mtime[f]} :
    /\ \E l \in DOMAIN text[f] : Writes(f, Replaced(f, l), m)
    /\ hazards' = hazards
         \cup Flag("raced", Busy # {})
         \cup Flag("quiet", m = mtime[f] /\ store.shas[f] = NoText)
    /\ UNCHANGED <<store, copy, stale, pc, call, held, reads, faults, told, noted>>

-----------------------------------------------------------------------------
(* The rest of the session.                                                *)

\* Another hint of some hook, marked and saved.
Hints ==
  /\ \E h \in OtherHint : store' = [store EXCEPT !.seen = Remember(@, {h})]
  /\ store' # store
  /\ stale' = {c \in Caller : pc[c] \in Holding}
  /\ UNCHANGED <<world, copy, pc, call, held, bounds, told, noted, hazards>>

\* pre_compact keeps the entries; session_start after it resets nothing.
Compact ==
  /\ Fault
  /\ held' = {}
  /\ hazards' = hazards \cup {"compact"}
  /\ UNCHANGED <<world, store, copy, stale, pc, call, reads, writes, told, noted>>

\* /clear: reset_session unlinks the file, so that a later save finds nothing
\* to merge with.
Reset ==
  /\ Fault
  /\ store' = Fresh /\ stale' = {} /\ held' = {}
  /\ told' = {} /\ noted' = {}
  /\ hazards' = hazards \cup Flag("revived", Busy # {})
  /\ UNCHANGED <<world, copy, pc, call, reads, writes>>

PreRead(c) == PreReadDedup(c) \/ PreReadDenies(c) \/ PreReadPasses(c)
Hook(c) ==
  \/ PreRead(c) \/ Flush(c) \/ PostReadLoads(c) \/ PostReadMarks(c)
  \/ PostReadHashes(c) \/ PostReadSnapshots(c) \/ SnapshotFails(c)
  \/ PostEditLoads(c) \/ PostEditMarks(c) \/ LoadFails(c)

Next ==
  \/ \E c \in Caller : Ask(c) \/ Hook(c) \/ Tool(c) \/ Edit(c)
  \/ Outside \/ Hints \/ Compact \/ Reset

Spec == Init /\ [][Next]_vars

-----------------------------------------------------------------------------
\* Every variable keeps its type; an object lives as long as its hook.
TypeOK ==
  /\ text \in [File -> Seq(Nat)] /\ mtime \in [File -> Nat]
  /\ quietAt \in [File -> Nat]
  /\ store \in Cache /\ copy \in [Caller -> Cache]
  /\ pc \in [Caller -> Pc] /\ call \in [Caller -> Request \cup {NoCall}]
  /\ \A c \in Caller : pc[c] \notin Holding => copy[c] = Fresh /\ c \notin stale
  /\ \A c \in Caller : pc[c] = "idle" <=> call[c] = NoCall
  /\ stale \subseteq Caller /\ held \subseteq Nat
  /\ told \subseteq Denial /\ noted \subseteq File
  /\ reads \in Nat /\ writes \in 0..MaxWrites /\ faults \in 0..MaxFaults
  /\ hazards \subseteq RangeHazard \cup OtherHazard

\* The lists of the cache keep their caps, whoever merges with whom.
CapsHold ==
  /\ Cardinality(store.seen) <= MaxSeen
  /\ \A f \in File : Runs(store.files[f].cover) <= MaxRanges

\* pre_read tells the truth: every line of a Read it would deny now, as
\* already in context or as the duplicate of a file already read, is in the
\* session's context in its present text, until a hazard.
DenyIsTrue ==
  hazards \cap RangeHazard = {} =>
    \A f \in File, w \in Window :
      DedupDenies(f, w) \/ RereadDenies(f, w) => Showing(f, w) \subseteq held

\* A denial is given once: what pre_read has told is in hints_seen, whoever
\* else saved meanwhile, so that the second request passes.
DenialsAreRemembered ==
  hazards \cap {"lost", "full", "revived"} = {} => told \subseteq store.seen

\* "A second identical request passes through automatically", also when the
\* session has seen many hints.
SecondRequestPasses ==
  hazards \cap {"lost", "revived"} = {} =>
    \A d \in told : ~RereadDenies(d[1], d[2])

\* An edit that post_edit saved shows in the entry until the file is read
\* again: pre_read then says that the remembered text may be stale.
EditsAreNoted ==
  hazards \cap {"lost", "crossed", "revived"} = {} =>
    \A f \in noted : store.files[f].edited
=============================================================================
