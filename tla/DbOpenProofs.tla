---------------------------- MODULE DbOpenProofs ----------------------------
(***************************************************************************)
(* The safety properties of DbOpen for every number of processes, files,   *)
(* damages and faults.                                                     *)
(***************************************************************************)
EXTENDS DbOpen, TLAPS

-----------------------------------------------------------------------------
(* Types.                                                                  *)

LEMMA NextFile ==
  ASSUME TypeOK, made < MaxFiles
  PROVE  made + 1 \in File /\ made + 1 \in 0..MaxFiles /\ made + 1 # None
  BY BoundsAreNat DEF TypeOK, File, None

LEMMA FilesAreNumbers == \A f \in File : f # None /\ f \in Nat
  BY BoundsAreNat DEF File, None

\* A process that moves has a connection where it comes to exactly if it is one of
\* the places for it.
LEMMA ConnectionFollows ==
  ASSUME TypeOK, NEW p \in Proc, NEW to, NEW f \in File \cup {None},
         Goto(p, to), conn' = [conn EXCEPT ![p] = f],
         to \in SchemaPc \cup Running \cup {"check"} <=> f # None
  PROVE  /\ conn' \in [Proc -> File \cup {None}]
         /\ \A q \in Proc : Connected(q)' <=> conn'[q] # None
  BY DEF TypeOK, Goto, Connected

LEMMA ConnectionStays ==
  ASSUME TypeOK, NEW p \in Proc, NEW to,
         Goto(p, to), UNCHANGED conn,
         to \in SchemaPc \cup Running \cup {"check"} <=> Connected(p)
  PROVE  /\ conn' \in [Proc -> File \cup {None}]
         /\ \A q \in Proc : Connected(q)' <=> conn'[q] # None
  BY DEF TypeOK, Goto, Connected

LEMMA OpenedTypes ==
  ASSUME TypeOK, NEW p \in Proc, NEW f \in File, NEW r \in BOOLEAN, Opened(p, f, r)
  PROVE  /\ conn' \in [Proc -> File \cup {None}]
         /\ \A q \in Proc : Connected(q)' <=> conn'[q] # None
         /\ pc' \in [Proc -> Pc] /\ ro' \in [Proc -> BOOLEAN]
         /\ again' \in [Proc -> BOOLEAN] /\ repairing' \in [Proc -> BOOLEAN]
         /\ checked' \in [Proc -> BOOLEAN]
<1>1. f # None /\ f \in File \cup {None}
  BY FilesAreNumbers
<1>2. /\ conn' \in [Proc -> File \cup {None}]
      /\ \A q \in Proc : Connected(q)' <=> conn'[q] # None
  <2>1. CASE repairing[p]
    BY <1>1, <2>1, ConnectionFollows DEF Opened, SchemaPc, Running
  <2>2. CASE ~repairing[p]
    BY <1>1, <2>2, ConnectionFollows DEF Opened, SchemaPc, Running
  <2> QED BY <2>1, <2>2
<1>3. pc' \in [Proc -> Pc]
  BY DEF TypeOK, Opened, Goto, Pc, SchemaPc, Running
<1>4. /\ ro' \in [Proc -> BOOLEAN] /\ again' \in [Proc -> BOOLEAN]
      /\ repairing' \in [Proc -> BOOLEAN]
  BY DEF TypeOK, Opened
<1>5. checked' \in [Proc -> BOOLEAN]
  BY DEF TypeOK, Opened
<1> QED BY <1>2, <1>3, <1>4, <1>5

LEMMA FailTypes ==
  ASSUME TypeOK, NEW p \in Proc, Fail(p)
  PROVE  /\ conn' \in [Proc -> File \cup {None}]
         /\ \A q \in Proc : Connected(q)' <=> conn'[q] # None
         /\ pc' \in [Proc -> Pc] /\ ro' \in [Proc -> BOOLEAN]
         /\ again' \in [Proc -> BOOLEAN] /\ repairing' \in [Proc -> BOOLEAN]
<1>1. /\ conn' \in [Proc -> File \cup {None}]
      /\ \A q \in Proc : Connected(q)' <=> conn'[q] # None
  BY ConnectionFollows DEF Fail, SchemaPc, Running
<1> QED BY <1>1 DEF TypeOK, Fail, Goto, Pc

LEMMA ConnectingKeepsTypes ==
  ASSUME TypeOK, NEW p \in Proc,
         Begin(p) \/ Create(p) \/ Connect(p) \/ Fallback(p) \/ Check(p) \/ Rename(p)
  PROVE  TypeOK'
<1>1. CASE Begin(p)
  <2>1. /\ conn' \in [Proc -> File \cup {None}]
        /\ \A q \in Proc : Connected(q)' <=> conn'[q] # None
    BY <1>1, ConnectionStays DEF Begin, Connected, SchemaPc, Running
  <2>2. pc' \in [Proc -> Pc] /\ crowded' \in [Proc -> BOOLEAN]
    BY <1>1 DEF TypeOK, Begin, Goto, Opening, Pc
  <2> QED BY <1>1, <2>1, <2>2 DEF TypeOK, Begin, files, caches, bounds
<1>2. CASE Create(p)
  <2>1. path' \in File \cup {None} /\ made' \in 0..MaxFiles /\ made + 1 \in File
    BY <1>2, NextFile DEF Create
  <2>2. health' \in [File -> Health]
    BY <1>2 DEF TypeOK, Create, Health
  <2>3. Opened(p, made + 1, FALSE)
    BY <1>2 DEF Create
  <2> HIDE DEF Opened
  <2> QED BY <1>2, <2>1, <2>2, <2>3, OpenedTypes DEF TypeOK, Create, bounds, history
<1>3. CASE Connect(p)
  <2>1. CASE HasNoHeader(path)
    <3>1. /\ conn' \in [Proc -> File \cup {None}]
          /\ \A q \in Proc : Connected(q)' <=> conn'[q] # None
      BY <1>3, <2>1, ConnectionStays DEF Connect, Connected, SchemaPc, Running
    <3>2. pc' \in [Proc -> Pc]
      BY <1>3, <2>1 DEF TypeOK, Connect, Goto, Pc
    <3> QED BY <1>3, <2>1, <3>1, <3>2 DEF TypeOK, Connect, files, bounds, history
  <2>2. CASE ~HasNoHeader(path)
    <3>1. path \in File /\ Opened(p, path, FALSE)
      BY <1>3, <2>2 DEF TypeOK, Connect
    <3> QED BY <1>3, <3>1, OpenedTypes DEF TypeOK, Connect, files, bounds, history
  <2> QED BY <2>1, <2>2
<1>4. CASE Fallback(p)
  <2>1. CASE Fail(p) /\ UNCHANGED <<checked, finds>>
    BY <1>4, <2>1, FailTypes DEF TypeOK, Fallback, files, bounds
  <2>2. CASE path # None /\ Opened(p, path, TRUE) /\ UNCHANGED finds
    BY <1>4, <2>2, OpenedTypes DEF TypeOK, Fallback, files, bounds
  <2>3. CASE /\ path # None /\ Goto(p, "rename") /\ again' = [again EXCEPT ![p] = TRUE]
             /\ finds' = [finds EXCEPT ![path] = @ + 1]
             /\ UNCHANGED <<conn, ro, repairing, checked>>
    <3>1. /\ conn' \in [Proc -> File \cup {None}]
          /\ \A q \in Proc : Connected(q)' <=> conn'[q] # None
      BY <1>4, <2>3, ConnectionStays DEF Fallback, Connected, SchemaPc, Running
    <3>2. pc' \in [Proc -> Pc] /\ again' \in [Proc -> BOOLEAN] /\ finds' \in [File -> Nat]
      BY <2>3 DEF TypeOK, Goto, Pc
    <3> QED BY <1>4, <2>3, <3>1, <3>2 DEF TypeOK, Fallback, files, bounds
  <2> QED BY <1>4, <2>1, <2>2, <2>3 DEF Fallback, HasNoHeader
<1>5. CASE Check(p)
  <2>1. conn[p] \in File
    BY <1>5 DEF TypeOK, Check, Connected
  <2>2. CASE checked[p] \/ health[conn[p]] # "pages"
    <3>1. /\ conn' \in [Proc -> File \cup {None}]
          /\ \A q \in Proc : Connected(q)' <=> conn'[q] # None
      BY <1>5, <2>2, ConnectionStays DEF Check, Connected, SchemaPc, Running
    <3>2. /\ Goto(p, "tables") /\ checked' = [checked EXCEPT ![p] = TRUE]
          /\ hazards' \in {hazards, hazards \cup {"unchecked"}}
          /\ exempt' \in {exempt, exempt \cup {p}}
          /\ UNCHANGED <<ro, again, repairing, finds>>
      BY <1>5, <2>2 DEF Check
    <3>3. pc' \in [Proc -> Pc] /\ checked' \in [Proc -> BOOLEAN]
      BY <3>2 DEF TypeOK, Goto, Pc, SchemaPc, Running
    <3>4. exempt' \in SUBSET Proc /\ hazards' \in SUBSET Hazard
      BY <3>2 DEF TypeOK, Hazard
    <3> QED BY <1>5, <3>1, <3>2, <3>3, <3>4 DEF TypeOK, Check, files, bounds
  <2>3. CASE ~(checked[p] \/ health[conn[p]] # "pages")
    <3>1. /\ conn' \in [Proc -> File \cup {None}]
          /\ \A q \in Proc : Connected(q)' <=> conn'[q] # None
      BY <1>5, <2>3, ConnectionFollows DEF Check, SchemaPc, Running
    <3>2. /\ Goto(p, "rename") /\ ro' = [ro EXCEPT ![p] = FALSE]
          /\ repairing' = [repairing EXCEPT ![p] = TRUE]
          /\ finds' = [finds EXCEPT ![conn[p]] = @ + 1]
          /\ UNCHANGED <<again, checked, exempt, hazards>>
      BY <1>5, <2>3 DEF Check
    <3>3. /\ pc' \in [Proc -> Pc] /\ ro' \in [Proc -> BOOLEAN]
          /\ repairing' \in [Proc -> BOOLEAN]
      BY <3>2 DEF TypeOK, Goto, Pc
    <3>4. finds' \in [File -> Nat]
      BY <2>1, <3>2 DEF TypeOK
    <3> QED BY <1>5, <3>1, <3>2, <3>3, <3>4 DEF TypeOK, Check, files, bounds
  <2> QED BY <1>5, <2>2, <2>3 DEF Check
<1>6. CASE Rename(p)
  <2>1. /\ conn' \in [Proc -> File \cup {None}]
        /\ \A q \in Proc : Connected(q)' <=> conn'[q] # None
    BY <1>6, ConnectionStays DEF Rename, Connected, SchemaPc, Running
  <2>2. /\ pc' \in [Proc -> Pc] /\ checked' \in [Proc -> BOOLEAN]
        /\ migrated' \in [Proc -> BOOLEAN] /\ exempt' \in SUBSET Proc
    BY <1>6 DEF TypeOK, Rename, Goto, Pc
  <2> QED BY <1>6, <2>1, <2>2 DEF TypeOK, Rename, bounds
<1> QED BY <1>1, <1>2, <1>3, <1>4, <1>5, <1>6

LEMMA SchemaKeepsTypes ==
  ASSUME TypeOK, NEW p \in Proc,
         Tables(p) \/ LookAtColumn(p) \/ AddColumn(p) \/ Version(p) \/ Insert(p) \/ Close(p)
  PROVE  TypeOK'
<1>0. Late \in SUBSET Column /\ Adds(p) \in Column
  BY DEF Late, Column, Adds
<1>1. CASE Tables(p)
  <2>1. /\ conn' \in [Proc -> File \cup {None}]
        /\ \A q \in Proc : Connected(q)' <=> conn'[q] # None
    BY <1>1, ConnectionStays DEF Tables, Connected, SchemaPc, Running
  <2>2. pc' \in [Proc -> Pc]
    BY <1>1 DEF TypeOK, Tables, Goto, Pc, SchemaPc, Running
  <2>3. tables' \in [File -> BOOLEAN] /\ cols' \in [File -> SUBSET Column]
    BY <1>0, <1>1 DEF TypeOK, Tables
  <2> QED BY <1>1, <2>1, <2>2, <2>3 DEF TypeOK, Tables, caches, bounds, history
<1>2. CASE LookAtColumn(p)
  <2>1. /\ conn' \in [Proc -> File \cup {None}]
        /\ \A q \in Proc : Connected(q)' <=> conn'[q] # None
    BY <1>2, ConnectionStays DEF LookAtColumn, HasLines, HasEpoch, Connected, SchemaPc, Running
  <2>2. pc' \in [Proc -> Pc]
    BY <1>2 DEF TypeOK, LookAtColumn, HasLines, HasEpoch, Goto, Pc, SchemaPc, Running
  <2>3. migrated' \in [Proc -> BOOLEAN] /\ epoch' \in [Proc -> BOOLEAN]
    BY <1>2 DEF TypeOK, LookAtColumn, HasLines, HasEpoch
  <2> QED BY <1>2, <2>1, <2>2, <2>3 DEF TypeOK, LookAtColumn, files, bounds, history
<1>3. CASE AddColumn(p)
  <2>1. cols' \in [File -> SUBSET Column]
    BY <1>0, <1>3 DEF TypeOK, AddColumn
  <2>2. migrated' \in [Proc -> BOOLEAN] /\ epoch' \in [Proc -> BOOLEAN]
    <3>1. CASE UNCHANGED <<migrated, epoch>>
      BY <3>1 DEF TypeOK
    <3>2. CASE HasLines(p)
      BY <3>2 DEF TypeOK, HasLines
    <3>3. CASE HasEpoch(p)
      BY <3>3 DEF TypeOK, HasEpoch
    <3> QED BY <1>3, <3>1, <3>2, <3>3 DEF AddColumn
  <2>3. /\ conn' \in [Proc -> File \cup {None}]
        /\ \A q \in Proc : Connected(q)' <=> conn'[q] # None
        /\ pc' \in [Proc -> Pc] /\ ro' \in [Proc -> BOOLEAN]
        /\ again' \in [Proc -> BOOLEAN] /\ repairing' \in [Proc -> BOOLEAN]
    <3>1. CASE Fail(p)
      BY <3>1, FailTypes
    <3>2. CASE ~Fail(p)
      <4>1. /\ \E to \in {"body", "bare", "version", "lookEpoch"} : Goto(p, to)
            /\ UNCHANGED <<conn, ro, again, repairing>>
        BY <1>3, <3>2 DEF AddColumn, HasLines, HasEpoch
      <4> QED BY <1>3, <4>1, ConnectionStays
           DEF TypeOK, AddColumn, Connected, Goto, Pc, SchemaPc, Running
    <3> QED BY <3>1, <3>2
  <2> QED BY <1>3, <2>1, <2>2, <2>3 DEF TypeOK, AddColumn, bounds, history
<1>4. CASE Version(p)
  <2>1. /\ conn' \in [Proc -> File \cup {None}]
        /\ \A q \in Proc : Connected(q)' <=> conn'[q] # None
    BY <1>4, ConnectionStays DEF Version, AfterVersion, Connected, SchemaPc, Running
  <2>2. pc' \in [Proc -> Pc] /\ version' \in [File -> BOOLEAN]
    BY <1>4 DEF TypeOK, Version, AfterVersion, Goto, Pc, SchemaPc, Running
  <2> QED BY <1>4, <2>1, <2>2 DEF TypeOK, Version, caches, bounds, history
<1>5. CASE Insert(p)
  <2>1. version' \in [File -> BOOLEAN]
    BY <1>5 DEF TypeOK, Insert
  <2>2. CASE Fail(p)
    BY <1>5, <2>1, <2>2, FailTypes DEF TypeOK, Insert, caches, bounds, history
  <2>3. CASE ~Fail(p)
    <3>1. /\ \E to \in {"body", "bare", "lookEpoch"} : Goto(p, to)
          /\ UNCHANGED <<conn, ro, again, repairing>>
      BY <1>5, <2>3 DEF Insert, AfterVersion
    <3>2. /\ conn' \in [Proc -> File \cup {None}]
          /\ \A q \in Proc : Connected(q)' <=> conn'[q] # None
      BY <1>5, <3>1, ConnectionStays DEF Insert, Connected, SchemaPc, Running
    <3>3. pc' \in [Proc -> Pc]
      BY <3>1 DEF TypeOK, Goto, Pc, SchemaPc, Running
    <3> QED BY <1>5, <2>1, <3>1, <3>2, <3>3 DEF TypeOK, Insert, caches, bounds, history
  <2> QED BY <2>2, <2>3
<1>6. CASE Close(p)
  <2>1. /\ conn' \in [Proc -> File \cup {None}]
        /\ \A q \in Proc : Connected(q)' <=> conn'[q] # None
    BY <1>6, ConnectionFollows DEF Close, SchemaPc, Running
  <2> QED BY <1>6, <2>1 DEF TypeOK, Close, Goto, files, caches, bounds, Pc
<1> QED BY <1>1, <1>2, <1>3, <1>4, <1>5, <1>6

LEMMA FaultsKeepTypes ==
  ASSUME TypeOK, Damaged \/ \E p \in Proc : Exit(p) \/ FaultStep(p)
  PROVE  TypeOK'
<1>1. CASE Damaged
  <2>1. damage' \in 0..MaxDamage
    BY <1>1, BoundsAreNat DEF TypeOK, Damaged
  <2>2. \A q \in Proc : Connected(q)' <=> Connected(q)
    BY <1>1 DEF Damaged, open, Connected
  <2> QED BY <1>1, <2>1, <2>2 DEF TypeOK, Damaged, open, caches, Health, Opening
<1>2. ASSUME NEW p \in Proc, Exit(p) \/ FaultStep(p) PROVE TypeOK'
  <2>1. faults < MaxFaults => faults + 1 \in 0..MaxFaults
    BY BoundsAreNat DEF TypeOK
  <2>2. ASSUME NEW to \in {"tables", "connect", "fallback", "bare"}, Goto(p, to),
               to \in {"tables", "bare"} <=> Connected(p),
               NEW h \in Hazard, Fault(h),
               UNCHANGED <<conn, ro, again, repairing, migrated, epoch>>,
               checked' \in [Proc -> BOOLEAN]
        PROVE  TypeOK'
    <3>1. /\ conn' \in [Proc -> File \cup {None}]
          /\ \A q \in Proc : Connected(q)' <=> conn'[q] # None
      BY <2>2, ConnectionStays DEF Connected, SchemaPc, Running
    <3>2. pc' \in [Proc -> Pc]
      BY <2>2 DEF TypeOK, Goto, Pc, SchemaPc, Running
    <3> QED BY <2>1, <2>2, <3>1, <3>2 DEF TypeOK, Fault, files
  <2>3. CASE Exit(p) \/ Killed(p)
    <3>1. /\ conn' \in [Proc -> File \cup {None}]
          /\ \A q \in Proc : Connected(q)' <=> conn'[q] # None
      BY <2>3, ConnectionFollows DEF Exit, Killed, Gone, SchemaPc, Running
    <3>2. /\ pc' \in [Proc -> Pc] /\ ro' \in [Proc -> BOOLEAN]
          /\ again' \in [Proc -> BOOLEAN] /\ repairing' \in [Proc -> BOOLEAN]
          /\ checked' \in [Proc -> BOOLEAN] /\ migrated' \in [Proc -> BOOLEAN]
          /\ epoch' \in [Proc -> BOOLEAN] /\ crowded' \in [Proc -> BOOLEAN]
          /\ exempt' \in SUBSET Proc /\ faults' \in 0..MaxFaults
      BY <2>1, <2>3 DEF TypeOK, Exit, Killed, Gone, Goto, Pc
    <3> QED BY <2>3, <3>1, <3>2 DEF TypeOK, Exit, Killed, Gone, files
  <2>4. CASE RenameFails(p)
    BY <2>2, <2>4 DEF TypeOK, RenameFails, caches, Connected, SchemaPc, Running, Hazard
  <2>5. CASE CheckRaises(p)
    BY <2>2, <2>5 DEF TypeOK, CheckRaises, Connected, Hazard
  <2>6. CASE WalRefused(p)
    BY <2>2, <2>6 DEF TypeOK, WalRefused, caches, Connected, SchemaPc, Running, Hazard
  <2>7. CASE ReadRefused(p)
    <3>1. CASE Fail(p)
      BY <2>1, <2>7, <3>1, FailTypes DEF TypeOK, ReadRefused, Fault, Hazard, files, caches
    <3>2. CASE Goto(p, "connect") /\ UNCHANGED <<conn, ro, again, repairing>>
      BY <2>2, <2>7, <3>2 DEF TypeOK, ReadRefused, caches, Connected, SchemaPc, Running, Hazard
    <3> QED BY <2>7, <3>1, <3>2 DEF ReadRefused
  <2>8. CASE StatementThrows(p)
    BY <2>8, FailTypes DEF TypeOK, SchemaSkipped, StatementThrows, files, caches, bounds, history
  <2>9. CASE SchemaSkipped(p)
    BY <2>2, <2>9 DEF TypeOK, SchemaSkipped, caches, Connected, Hazard
  <2> QED BY <1>2, <2>3, <2>4, <2>5, <2>6, <2>7, <2>8, <2>9 DEF FaultStep
<1> QED BY <1>1, <1>2

\* Every variable keeps its type, and a process has a connection exactly where the
\* code holds one: in the integrity check, the schema and the body (db.ts,
\* _openWithRetry, openGlobal and openProject).
THEOREM TypeCorrect == Spec => []TypeOK
<1>1. Init => TypeOK
  <2> SUFFICES ASSUME Init PROVE TypeOK OBVIOUS
  <2>1. 1 \in File /\ 0 \in 0..MaxFiles /\ 1 \in 0..MaxFiles
    BY BoundsAreNat DEF File
  <2>2. Late \subseteq Column
    BY DEF Late, Column
  <2>3. 0 \in 0..MaxDamage /\ 0 \in 0..MaxFaults
    BY BoundsAreNat
  <2>4. \A p \in Proc : Connected(p) <=> conn[p] # None
    BY DEF Init, Connected, SchemaPc, Running
  <2>5. cols \in [File -> SUBSET Column] /\ made \in 0..MaxFiles /\ path \in File \cup {None}
    BY <2>1, <2>2 DEF Init
  <2> QED BY <2>1, <2>3, <2>4, <2>5 DEF Init, TypeOK, Health, Pc
<1>2. TypeOK /\ [Next]_vars => TypeOK'
  <2> SUFFICES ASSUME TypeOK, [Next]_vars PROVE TypeOK' OBVIOUS
  <2>1. CASE UNCHANGED vars
    BY <2>1 DEF TypeOK, vars, files, open, caches, bounds, history, Connected
  <2> QED BY <2>1, ConnectingKeepsTypes, SchemaKeepsTypes, FaultsKeepTypes DEF Next, OpenStep
<1> QED BY <1>1, <1>2, PTL DEF Spec

-----------------------------------------------------------------------------
(* What a step leaves alone.                                               *)

Step(p) == Begin(p) \/ OpenStep(p) \/ Exit(p) \/ FaultStep(p)

\* A step of one process changes nothing the others remember or hold.
LEMMA OthersStay ==
  ASSUME TypeOK, NEW p \in Proc, Step(p), NEW q \in Proc, q # p
  PROVE  /\ pc'[q] = pc[q] /\ conn'[q] = conn[q] /\ ro'[q] = ro[q]
         /\ again'[q] = again[q] /\ repairing'[q] = repairing[q]
         /\ checked'[q] = checked[q] /\ migrated'[q] = migrated[q] /\ epoch'[q] = epoch[q]
         /\ q \in exempt' <=> q \in exempt
<1> USE DEF TypeOK
<1>1. CASE Begin(p)
  BY <1>1 DEF Begin, Goto, caches
<1>2. CASE Create(p) \/ Connect(p)
  BY <1>2 DEF Create, Connect, Opened, Goto, history
<1>3. CASE Fallback(p)
  BY <1>3 DEF Fallback, Opened, Fail, Goto
<1>4. CASE Check(p) \/ Rename(p)
  BY <1>4 DEF Check, Rename, Goto
<1>5. CASE Tables(p) \/ Version(p)
  BY <1>5 DEF Tables, Version, AfterVersion, Goto, caches, history
<1>6. CASE LookAtColumn(p)
  BY <1>6 DEF LookAtColumn, HasLines, HasEpoch, Goto, history
<1>7. CASE AddColumn(p)
  BY <1>7 DEF AddColumn, HasLines, HasEpoch, Fail, Goto, history
<1>8. CASE Insert(p) \/ Close(p) \/ StatementThrows(p)
  BY <1>8 DEF Insert, Close, SchemaSkipped, StatementThrows, AfterVersion, Fail, Goto, caches, history
<1>9. CASE Exit(p) \/ Killed(p)
  BY <1>9 DEF Exit, Killed, Gone, Goto
<1>10. CASE RenameFails(p) \/ CheckRaises(p) \/ WalRefused(p) \/ ReadRefused(p) \/ SchemaSkipped(p)
  BY <1>10 DEF RenameFails, CheckRaises, WalRefused, ReadRefused, SchemaSkipped, Fault, Fail,
     Goto, caches
<1> QED BY <1>1, <1>2, <1>3, <1>4, <1>5, <1>6, <1>7, <1>8, <1>9, <1>10
     DEF Step, OpenStep, FaultStep

\* Where a step leaves the file of the name in place, a connection it makes is to it.
LEMMA NameStays ==
  ASSUME TypeOK, NEW p \in Proc, Step(p), ~Create(p), ~Rename(p)
  PROVE  /\ UNCHANGED <<made, path, health>>
         /\ conn'[p] \in {conn[p], None, path}
<1> USE DEF TypeOK
<1>1. CASE Begin(p) \/ Connect(p)
  BY <1>1 DEF Begin, Connect, Opened, files
<1>3. CASE Fallback(p)
  BY <1>3 DEF Fallback, Opened, Fail, files
<1>4. CASE Check(p)
  BY <1>4 DEF Check, files
<1>5. CASE Tables(p) \/ Version(p) \/ LookAtColumn(p)
  BY <1>5 DEF Tables, Version, LookAtColumn, files
<1>7. CASE AddColumn(p) \/ Insert(p)
  BY <1>7 DEF AddColumn, Insert, Fail
<1>8. CASE Close(p) \/ StatementThrows(p)
  BY <1>8 DEF Close, SchemaSkipped, StatementThrows, Fail, files
<1>9. CASE Exit(p) \/ Killed(p)
  BY <1>9 DEF Exit, Killed, Gone, files
<1>10. CASE RenameFails(p) \/ CheckRaises(p) \/ WalRefused(p) \/ ReadRefused(p) \/ SchemaSkipped(p)
  BY <1>10 DEF RenameFails, CheckRaises, WalRefused, ReadRefused, SchemaSkipped, Fault, Fail,
     files
<1> QED BY <1>1, <1>3, <1>4, <1>5, <1>7, <1>8, <1>9, <1>10 DEF Step, OpenStep, FaultStep

LEMMA FileInvHolds == Spec => []FileInv
<1>1. Init => FileInv
  <2> SUFFICES ASSUME Init PROVE FileInv OBVIOUS
  <2>1. PICK old \in BOOLEAN :
          /\ made = IF old THEN 1 ELSE 0
          /\ path = IF old THEN 1 ELSE None
          /\ health = [f \in File |-> IF old /\ f = 1 THEN "ok" ELSE "unused"]
          /\ tables = [f \in File |-> old /\ f = 1]
    BY DEF Init
  <2>2. \A f \in File : (f > made => ~tables[f]) /\ (health[f] = "unused" => f > made)
    <3>1. \A f \in File : f > 0 /\ (f # 1 => f > 1) /\ ~(1 > 1)
      BY BoundsAreNat DEF File
    <3>2. CASE old
      BY <2>1, <3>1, <3>2
    <3>3. CASE ~old
      BY <2>1, <3>1, <3>3
    <3> QED BY <3>2, <3>3
  <2>3. \A p \in Proc : conn[p] <= made
    BY <2>1 DEF Init, None
  <2> QED BY <2>1, <2>2, <2>3 DEF FileInv
<1>2. TypeOK /\ FileInv /\ [Next]_vars => FileInv'
  <2> SUFFICES ASSUME TypeOK, FileInv, [Next]_vars PROVE FileInv' OBVIOUS
  <2>1. CASE UNCHANGED vars
    BY <2>1 DEF FileInv, vars, files, open
  <2>2. CASE Damaged
    <3>1. \A f \in File : health'[f] = "unused" => health[f] = "unused"
      BY <2>2 DEF Damaged, TypeOK
    <3> QED BY <2>2, <3>1 DEF FileInv, Damaged, open
  <2>3. ASSUME NEW p \in Proc, Step(p) PROVE FileInv'
    <3>0. made \in Nat /\ \A q \in Proc : conn[q] \in Nat
      BY BoundsAreNat DEF TypeOK, File, None
    <3>1. CASE Create(p)
      <4>1. \A q \in Proc : conn'[q] <= made'
        BY <2>3, <3>0, <3>1, OthersStay DEF TypeOK, FileInv, Create, Opened
      <4>2. \A f \in File : /\ f > made' => ~tables'[f]
                            /\ health'[f] = "unused" => f > made'
        BY <3>0, <3>1 DEF TypeOK, FileInv, Create, File
      <4> QED BY <3>1, <4>1, <4>2 DEF FileInv, Create
    <3>2. CASE Rename(p)
      BY <3>2 DEF FileInv, Rename
    <3>3. CASE ~Create(p) /\ ~Rename(p)
      <4>1. UNCHANGED <<made, path, health>> /\ conn'[p] \in {conn[p], None, path}
        BY <2>3, <3>3, NameStays
      <4>2. \A q \in Proc : conn'[q] <= made'
        BY <2>3, <3>0, <4>1, OthersStay DEF FileInv, None
      <4>3. \A f \in File : f > made => ~tables'[f]
        <5>1. CASE Tables(p)
          <6>1. conn[p] \in File /\ conn[p] <= made
            BY <5>1 DEF TypeOK, FileInv, Tables, Connected, SchemaPc, Running
          <6>2. \A f \in File : f > made => f # conn[p]
            BY <3>0, <6>1, BoundsAreNat DEF File
          <6>3. \A f \in File : f # conn[p] => tables'[f] = tables[f]
            BY <5>1 DEF TypeOK, Tables
          <6> QED BY <6>2, <6>3 DEF FileInv
        <5>2. CASE ~Tables(p)
          <6>1. UNCHANGED tables
            BY <2>3, <3>3, <5>2 DEF Step, OpenStep, FaultStep, Begin, Connect, Fallback, Check,
               LookAtColumn, AddColumn, Version, Insert, Close, Exit, Killed, Gone, RenameFails,
               CheckRaises, WalRefused, ReadRefused, SchemaSkipped, StatementThrows, Fault, files
          <6> QED BY <6>1 DEF FileInv
        <5> QED BY <5>1, <5>2
      <4> QED BY <4>1, <4>2, <4>3 DEF FileInv
    <3> QED BY <3>1, <3>2, <3>3
  <2> QED BY <2>1, <2>2, <2>3 DEF Next, Step
<1> QED BY <1>1, <1>2, TypeCorrect, PTL DEF Spec

LEMMA PendingInvHolds == Spec => []PendingInv
<1>1. Init => PendingInv
  BY DEF Init, PendingInv
<1>2. TypeOK /\ PendingInv /\ [Next]_vars => PendingInv'
  <2> SUFFICES ASSUME TypeOK, PendingInv, [Next]_vars PROVE PendingInv' OBVIOUS
  <2>1. CASE UNCHANGED vars \/ Damaged
    BY <2>1 DEF PendingInv, vars, open, Damaged
  <2>2. ASSUME NEW p \in Proc, Step(p) PROVE PendingInv'
    <3>1. again'[p] \/ repairing'[p] => pc'[p] \in {"rename", "connect", "fallback"}
      <4>2. CASE Fail(p) \/ Exit(p) \/ Killed(p)
        BY <4>2 DEF TypeOK, Fail, Exit, Killed, Gone
      <4>3. CASE Begin(p) \/ Rename(p) \/ RenameFails(p) \/ WalRefused(p)
        BY <4>3 DEF TypeOK, Begin, Rename, RenameFails, WalRefused, Goto
      <4>4. CASE Create(p) \/ Connect(p)
        BY <4>4 DEF TypeOK, PendingInv, Create, Connect, Opened, Goto
      <4>5. CASE Fallback(p) \/ ReadRefused(p)
        BY <4>2, <4>5 DEF TypeOK, PendingInv, Fallback, ReadRefused, Opened, Goto
      <4>6. CASE Check(p) \/ CheckRaises(p)
        BY <4>6 DEF TypeOK, PendingInv, Check, CheckRaises, Goto
      <4>7. CASE /\ pc[p] \in SchemaPc \cup Running \cup {"failed"}
                 /\ UNCHANGED <<again, repairing>>
        BY <4>7 DEF PendingInv, SchemaPc, Running
      <4> QED BY <2>2, <4>2, <4>3, <4>4, <4>5, <4>6, <4>7 DEF Step, OpenStep, FaultStep, Tables,
           LookAtColumn, AddColumn, Version, Insert, Close, SchemaSkipped, StatementThrows, SchemaPc, Running
    <3> QED BY <2>2, <3>1, OthersStay DEF PendingInv
  <2> QED BY <2>1, <2>2 DEF Next, Step
<1> QED BY <1>1, <1>2, TypeCorrect, PTL DEF Spec

-----------------------------------------------------------------------------
(* Healthy files are kept.                                                 *)

\* Nobody starts to rename without a find, and every other step keeps the reasons.
LEMMA FoundInvHolds == Spec => []FoundInv
<1>1. Init => FoundInv
  <2> SUFFICES ASSUME Init PROVE FoundInv OBVIOUS
  <2>1. Aside = {}
    BY DEF Init, Aside, None
  <2> QED BY <2>1 DEF Init, FoundInv
<1>2. TypeOK /\ TypeOK' /\ FileInv /\ FoundInv /\ [Next]_vars => FoundInv'
  <2> SUFFICES ASSUME TypeOK, TypeOK', FileInv, FoundInv, [Next]_vars,
                      \A f \in File : finds'[f] <= 1
               PROVE  /\ \A f \in Aside' : ~Healthy(f)' /\ finds'[f] = 1
                      /\ \A q \in Proc : pc'[q] = "rename" =>
                           path' # None /\ ~Healthy(path)' /\ finds'[path'] = 1
                      /\ \A q, r \in Proc : pc'[q] = "rename" /\ pc'[r] = "rename" => q = r
    BY DEF FoundInv
  <2>0. \A f \in File : finds'[f] >= finds[f]
    <3>1. CASE UNCHANGED finds
      BY <3>1 DEF TypeOK
    <3>2. ASSUME NEW p \in Proc, Fallback(p), ~UNCHANGED finds PROVE \A f \in File : finds'[f] >= finds[f]
      <4>1. path \in File /\ finds' = [finds EXCEPT ![path] = @ + 1]
        BY <3>2 DEF TypeOK, Fallback, HasNoHeader
      <4> QED BY <4>1 DEF TypeOK
    <3>3. ASSUME NEW p \in Proc, Check(p), ~UNCHANGED finds PROVE \A f \in File : finds'[f] >= finds[f]
      <4>1. conn[p] \in File /\ finds' = [finds EXCEPT ![conn[p]] = @ + 1]
        BY <3>3 DEF TypeOK, Check, Connected
      <4> QED BY <4>1 DEF TypeOK
    <3> QED BY <3>1, <3>2, <3>3 DEF Next, OpenStep, FaultStep, Begin, Create, Connect, Rename,
         Tables, LookAtColumn, AddColumn, Version, Insert, Close, Exit, Killed, Gone,
         RenameFails, CheckRaises, WalRefused, ReadRefused, SchemaSkipped, StatementThrows, Damaged, Fault,
         history, vars
  <2>1. /\ \A f \in Aside : ~Healthy(f) /\ finds[f] = 1
        /\ \A q \in Proc : pc[q] = "rename" => path # None /\ ~Healthy(path) /\ finds[path] = 1
        /\ \A q, r \in Proc : pc[q] = "rename" /\ pc[r] = "rename" => q = r
    <3>1. \A f \in File : finds[f] <= 1
      BY <2>0 DEF TypeOK
    <3> QED BY <3>1 DEF FoundInv
  <2>2. ASSUME UNCHANGED <<made, path, health, finds>>,
               \A q \in Proc : pc'[q] = "rename" => pc[q] = "rename"
        PROVE  FoundInv'
    BY <2>1, <2>2 DEF FoundInv, Aside, Healthy
  <2>3. CASE UNCHANGED vars
    BY <2>1, <2>3 DEF vars, files, open, history, Aside, Healthy
  <2>4. CASE Damaged
    <3>1. \A q \in Proc : pc[q] # "rename"
      BY <2>1, <2>4 DEF Damaged
    <3>2. \A f \in Aside : f # path /\ f \in File
      BY BoundsAreNat DEF TypeOK, Aside, File
    <3>3. Aside' = Aside
      BY <2>4 DEF Damaged, Aside
    <3> QED BY <2>1, <2>4, <3>1, <3>2, <3>3 DEF TypeOK, Damaged, open, Healthy
  <2>5. ASSUME NEW p \in Proc, Step(p) PROVE FoundInv'
    <3>0. \A f \in Aside : f \in File /\ f # path
      BY BoundsAreNat DEF TypeOK, Aside, File
    <3>1. CASE Create(p)
      <4>1. \A q \in Proc : pc[q] # "rename"
        BY <2>1, <3>1 DEF Create
      <4>2. \A q \in Proc : pc'[q] # "rename"
        BY <2>5, <3>1, <4>1, OthersStay DEF TypeOK, Create, Opened, Goto
      <4>3. \A f \in Aside' : f \in Aside /\ f # made + 1
        BY <3>1 DEF TypeOK, Create, Aside, None, File
      <4>4. UNCHANGED finds /\ \A f \in File : f # made + 1 => health'[f] = health[f]
        BY <3>1 DEF TypeOK, Create, history
      <4> QED BY <2>1, <3>0, <4>2, <4>3, <4>4 DEF FoundInv, Healthy
    <3>2. CASE Rename(p)
      <4>1. \A q \in Proc : pc'[q] # "rename"
        BY <2>1, <2>5, <3>2, OthersStay DEF TypeOK, Rename, Goto
      <4>2. \A f \in Aside' : f \in Aside \/ f = path
        BY <3>2 DEF Rename, Aside
      <4>3. path # None => ~Healthy(path) /\ finds[path] = 1
        BY <2>1, <3>2 DEF Rename
      <4>4. \A f \in Aside' : f # None
        BY <3>0, <3>2, FilesAreNumbers DEF TypeOK, Rename, Aside, None
      <4> QED BY <2>1, <3>2, <4>1, <4>2, <4>3, <4>4 DEF FoundInv, Rename, Healthy
    <3>3. CASE ~Create(p) /\ ~Rename(p) /\ ~(pc'[p] = "rename" /\ pc[p] # "rename")
      <4>1. UNCHANGED <<made, path, health>>
        BY <2>5, <3>3, NameStays
      <4>2. \A q \in Proc : pc'[q] = "rename" => pc[q] = "rename"
        BY <2>5, <3>3, OthersStay
      <4>3. \A f \in File : finds[f] = 1 => finds'[f] = 1
        <5> SUFFICES ASSUME NEW f \in File, finds[f] = 1 PROVE finds'[f] = 1 OBVIOUS
        <5>1. finds'[f] \in Nat /\ finds'[f] >= 1 /\ finds'[f] <= 1
          BY <2>0 DEF TypeOK
        <5> QED BY <5>1
      <4>4. path # None => path \in File
        BY DEF TypeOK
      <4> QED BY <2>1, <3>0, <4>1, <4>2, <4>3, <4>4 DEF FoundInv, Aside, Healthy
    <3>4. CASE ~Create(p) /\ ~Rename(p) /\ pc'[p] = "rename" /\ pc[p] # "rename"
      <4>1. UNCHANGED <<made, path, health>>
        BY <2>5, <3>4, NameStays
      <4>2. PICK f \in File :
              finds' = [finds EXCEPT ![f] = @ + 1] /\ ~Healthy(f) /\ (f = path \/ f \in Aside)
        <5>1. CASE Fallback(p)
          BY <3>4, <5>1 DEF TypeOK, Fallback, Opened, Fail, Goto, HasNoHeader, Healthy
        <5>2. CASE Check(p)
          <6>1. conn[p] \in File /\ conn[p] <= made
            BY <5>2 DEF TypeOK, FileInv, Check, Connected
          <6>2. conn[p] = path \/ conn[p] \in Aside
            BY <6>1, BoundsAreNat DEF TypeOK, Aside, File
          <6>3. finds' = [finds EXCEPT ![conn[p]] = @ + 1] /\ ~Healthy(conn[p])
            BY <3>4, <5>2 DEF TypeOK, Check, Goto, Healthy
          <6> QED BY <6>1, <6>2, <6>3
        <5> QED BY <2>5, <3>4, <5>1, <5>2 DEF TypeOK, Step, OpenStep, FaultStep, Begin, Connect,
             Tables, LookAtColumn, HasLines, HasEpoch, AddColumn, Version, AfterVersion, Insert,
             Close, Exit, Killed, Gone, RenameFails, CheckRaises, WalRefused, ReadRefused,
             SchemaSkipped, StatementThrows, Opened, Fail, Goto
      <4>3. finds[f] = 0 /\ finds'[f] = 1
        <5>1. finds[f] \in Nat /\ finds'[f] = finds[f] + 1
          BY <4>2 DEF TypeOK
        <5>2. finds'[f] <= 1
          OBVIOUS
        <5> QED BY <5>1, <5>2
      <4>4. f = path /\ f # None
        BY <2>1, <4>2, <4>3, FilesAreNumbers
      <4>5. \A q \in Proc : pc[q] # "rename"
        BY <2>1, <4>3, <4>4
      <4>6. \A q \in Proc : pc'[q] = "rename" => q = p
        BY <2>5, <4>5, OthersStay
      <4>7. \A g \in Aside : finds'[g] = 1
        BY <2>1, <3>0, <4>2, <4>4 DEF TypeOK
      <4> QED BY <2>1, <4>1, <4>2, <4>3, <4>4, <4>6, <4>7 DEF FoundInv, Aside, Healthy
    <3> QED BY <3>1, <3>2, <3>3, <3>4
  <2>6. CASE FoundInv'
    BY <2>6 DEF FoundInv
  <2> QED BY <2>3, <2>4, <2>5, <2>6 DEF Next, Step
<1> QED BY <1>1, <1>2, TypeCorrect, FileInvHolds, PTL DEF Spec

\* A healthy file is set aside only when two processes found the same file corrupt
\* (db.ts, _rebuild): with one find per file, the file that the rename takes is the
\* one that was found.
THEOREM HealthyFilesKept == Spec => []LoneFinderKeepsHealthy
<1>1. FoundInv => LoneFinderKeepsHealthy
  BY DEF FoundInv, LoneFinderKeepsHealthy
<1> QED BY <1>1, FoundInvHolds, PTL

-----------------------------------------------------------------------------
(* The schema.                                                             *)

\* What a file has of its schema stays; tables that are made come with all columns.
Grows ==
  /\ kind' = kind
  /\ \A f \in File : /\ tables[f] => tables'[f] /\ cols[f] \subseteq cols'[f]
                     /\ tables'[f] /\ ~tables[f] => Late \subseteq cols'[f]
                     /\ version[f] => version'[f]

KnowsAfter(p, f) ==
  f # None /\ tables'[f] =>
    /\ epoch'[p] => "last_access_epoch" \in cols'[f]
    /\ migrated'[p] => Late \subseteq cols'[f]

LEMMA EpochIsLate == "last_access_epoch" \in Late
  BY DEF Late, Column

LEMMA StepGrows == ASSUME TypeOK, NEW p \in Proc, Step(p) PROVE Grows
<1> USE DEF TypeOK
<1>1. CASE UNCHANGED <<kind, tables, cols, version>>
  BY <1>1 DEF Grows
<1>2. CASE Tables(p)
  BY <1>2 DEF Grows, Tables
<1>3. CASE AddColumn(p)
  BY <1>3 DEF Grows, AddColumn
<1>4. CASE Version(p) \/ Insert(p)
  BY <1>4 DEF Grows, Version, Insert
<1> QED BY <1>1, <1>2, <1>3, <1>4 DEF Step, OpenStep, FaultStep, Begin, Create, Connect,
     Fallback, Check, Rename, LookAtColumn, Close, Exit, Killed, Gone, RenameFails,
     CheckRaises, WalRefused, ReadRefused, SchemaSkipped, StatementThrows, Fault, files

LEMMA KnowledgeStaysTrue ==
  ASSUME TypeOK, Grows, NEW p \in Proc, NEW f \in File \cup {None}, Knows(p, f),
         epoch'[p] => epoch[p], migrated'[p] => migrated[p]
  PROVE  KnowsAfter(p, f)
  BY EpochIsLate DEF Grows, Knows, KnowsAfter

\* The steps outside the schema, and of the others.
LEMMA ProgressStays ==
  ASSUME TypeOK, Grows, NEW p \in Proc, Progress(p, conn[p]),
         pc'[p] = pc[p], conn'[p] = conn[p], ro'[p] = ro[p]
  PROVE  Progress(p, conn[p])'
<1>1. Late' = Late
  BY DEF Grows, Late
<1>2. CASE pc[p] \in SchemaPc \cup Running
  <2>1. conn[p] \in File
    BY <1>2 DEF TypeOK, Connected
  <2>2. "line_count" \in cols[conn[p]] => "line_count" \in cols'[conn[p]] \/ ~tables[conn[p]]
    BY <2>1 DEF Grows
  <2> QED BY <1>1, <1>2, <2>1, <2>2 DEF Grows, Progress, UpToDate, SchemaPc, Running
<1>3. CASE pc[p] \notin SchemaPc \cup Running
  BY <1>3 DEF Progress, SchemaPc, Running
<1> QED BY <1>2, <1>3

LEMMA ProgressElsewhere ==
  ASSUME NEW p \in Proc, pc'[p] \notin (SchemaPc \ {"tables"}) \cup {"body"}
  PROVE  Progress(p, conn[p])'
  BY DEF Progress, SchemaPc, Running

\* The file of the name is a later one than the connection's, and so it is complete.
LEMMA KnowledgeOfTheName ==
  ASSUME TypeOK, FileInv, SchemaInv, Grows, NEW p \in Proc, conn[p] \in File,
         KnowsAfter(p, conn[p])
  PROVE  KnowsAfter(p, path)
<1>1. CASE path \in {None, conn[p]}
  BY <1>1 DEF KnowsAfter
<1>2. CASE path \notin {None, conn[p]}
  <2>1. path \in File /\ path # 1
    BY <1>2, BoundsAreNat DEF TypeOK, FileInv, File, None
  <2>2. tables'[path] => Late \subseteq cols'[path]
    BY <2>1 DEF SchemaInv, OnlyFirstIsOld, Grows
  <2> QED BY <2>2, EpochIsLate DEF KnowsAfter
<1> QED BY <1>1, <1>2

\* What a step of the schema makes of the process that takes it.
LEMMA SchemaSteps ==
  ASSUME TypeOK, FileInv, SchemaInv, NEW p \in Proc,
         Tables(p) \/ LookAtColumn(p) \/ AddColumn(p) \/ Version(p) \/ Insert(p)
  PROVE  Progress(p, conn[p])' /\ KnowsAfter(p, path) /\ KnowsAfter(p, conn[p])
<1> DEFINE f == conn[p]
<1>0. f \in File /\ Grows /\ kind \in Kind
  <2>1. f \in File
    BY DEF TypeOK, Connected, SchemaPc, Running, Tables, LookAtColumn, AddColumn, Version, Insert
  <2> QED BY <2>1, StepGrows DEF Step, OpenStep, TypeOK
<1>1. Progress(p, f) /\ Knows(p, f)
  BY DEF SchemaInv
<1>2. SUFFICES Progress(p, conn[p])' /\ KnowsAfter(p, f)
  BY <1>0, KnowledgeOfTheName
<1>3. /\ Late' = Late /\ (kind = "project" => Late = Column) /\ Late \subseteq Column
      /\ kind = "global" => Late = {"last_access_epoch"}
  BY <1>0 DEF Grows, Late, Column
<1>4. UNCHANGED <<migrated, epoch>> => KnowsAfter(p, f)
  BY <1>0, <1>1, KnowledgeStaysTrue
<1>5. Fail(p) => Progress(p, conn[p])'
  BY DEF TypeOK, Fail, Goto, Progress, SchemaPc, Running
<1>6. CASE Tables(p)
  <2>1. KnowsAfter(p, f)
    BY <1>4, <1>6 DEF Tables, caches
  <2>2. CASE ro[p] /\ ~tables[f]
    BY <1>6, <2>1, <2>2 DEF TypeOK, Tables, Goto, Progress, SchemaPc, Running
  <2>3. CASE ~(ro[p] /\ ~tables[f])
    <3>1. /\ tables'[f] /\ (~tables[f] => cols'[f] = Late) /\ (tables[f] => cols'[f] = cols[f])
          /\ pc'[p] = IF kind = "project" /\ ~migrated[p] THEN "lookLines" ELSE "version"
          /\ UNCHANGED <<kind, conn, migrated>>
      BY <1>0, <1>6, <2>3 DEF TypeOK, Tables, Goto, caches
    <3>2. migrated[p] => Late \subseteq cols'[f]
      BY <1>0, <1>1, <3>1, FilesAreNumbers DEF Knows
    <3> QED BY <1>3, <2>1, <3>1, <3>2 DEF Progress, SchemaPc, Running
  <2> QED BY <2>2, <2>3
<1>7. ASSUME HasLines(p), UNCHANGED conn, "line_count" \in cols'[f], kind = "project", tables[f]
      PROVE  Progress(p, conn[p])' /\ KnowsAfter(p, f)
  <2>1. /\ migrated'[p] = epoch[p] /\ epoch'[p] = epoch[p]
        /\ pc'[p] = IF epoch[p] THEN "version" ELSE "lookEpoch"
    BY <1>7 DEF TypeOK, HasLines, Goto
  <2>2. tables'[f] /\ (epoch[p] => "last_access_epoch" \in cols'[f]) /\ kind' = kind
    BY <1>0, <1>1, <1>7, FilesAreNumbers DEF Knows, Grows
  <2>3. epoch[p] => Late \subseteq cols'[f]
    BY <1>3, <1>7, <2>2 DEF Column
  <2> QED BY <1>3, <1>7, <2>1, <2>2, <2>3 DEF Progress, KnowsAfter, SchemaPc, Running
<1>8. ASSUME HasEpoch(p), UNCHANGED <<conn, version>>, "last_access_epoch" \in cols'[f], tables[f],
             IF kind = "project" THEN "line_count" \in cols[f] ELSE version[f]
      PROVE  Progress(p, conn[p])' /\ KnowsAfter(p, f)
  <2>1. pc'[p] = IF kind = "project" THEN "version" ELSE "body"
    BY <1>8 DEF TypeOK, HasEpoch, Goto
  <2>2. tables'[f] /\ kind' = kind
    BY <1>0, <1>8 DEF Grows
  <2>3. Late \subseteq cols'[f]
    <3>1. CASE kind = "project"
      BY <1>0, <1>3, <1>8, <3>1 DEF Column, Grows
    <3>2. CASE kind = "global"
      BY <1>3, <1>8, <3>2
    <3> QED BY <1>0, <3>1, <3>2 DEF Kind
  <2> QED BY <1>3, <1>8, <2>1, <2>2, <2>3 DEF Progress, UpToDate, KnowsAfter, SchemaPc, Running
<1>9. CASE LookAtColumn(p)
  <2>0. UNCHANGED <<kind, conn, tables, cols, version, ro>>
    BY <1>9 DEF LookAtColumn, files
  <2>1. CASE pc[p] = "lookLines"
    <3>1. kind = "project" /\ tables[f]
      BY <1>1, <2>1 DEF Progress, SchemaPc, Running
    <3>2. CASE "line_count" \in cols[f]
      BY <1>7, <1>9, <2>0, <2>1, <3>1, <3>2 DEF LookAtColumn
    <3>3. CASE "line_count" \notin cols[f]
      <4>1. pc'[p] = "addLines" /\ UNCHANGED <<migrated, epoch>>
        BY <1>9, <2>1, <3>3 DEF TypeOK, LookAtColumn, Goto
      <4> QED BY <1>4, <2>0, <3>1, <4>1 DEF Progress, SchemaPc, Running
    <3> QED BY <3>2, <3>3
  <2>2. CASE pc[p] = "lookEpoch"
    <3>1. tables[f] /\ IF kind = "project" THEN "line_count" \in cols[f] ELSE version[f]
      BY <1>1, <2>2 DEF Progress, SchemaPc, Running
    <3>2. CASE "last_access_epoch" \in cols[f]
      BY <1>8, <1>9, <2>0, <2>2, <3>1, <3>2 DEF LookAtColumn
    <3>3. CASE "last_access_epoch" \notin cols[f]
      <4>1. pc'[p] = "addEpoch" /\ UNCHANGED <<migrated, epoch>>
        BY <1>9, <2>2, <3>3 DEF TypeOK, LookAtColumn, Goto
      <4> QED BY <1>4, <2>0, <3>1, <4>1 DEF Progress, SchemaPc, Running
    <3> QED BY <3>2, <3>3
  <2> QED BY <1>9, <2>1, <2>2 DEF LookAtColumn
<1>10. CASE AddColumn(p)
  <2>0. UNCHANGED <<kind, tables, version>>
    BY <1>10 DEF AddColumn
  <2>1. CASE ro[p]
    <3>1. pc'[p] = "bare" /\ ro'[p] /\ UNCHANGED <<migrated, epoch>>
      BY <1>10, <2>1 DEF TypeOK, AddColumn, Goto
    <3> QED BY <1>4, <3>1 DEF Progress, SchemaPc, Running
  <2>2. CASE ~ro[p] /\ Adds(p) \in cols[f]
    <3>1. Fail(p) /\ UNCHANGED <<migrated, epoch>>
      BY <1>10, <2>2 DEF AddColumn
    <3> QED BY <1>4, <1>5, <3>1
  <2>3. CASE ~ro[p] /\ Adds(p) \notin cols[f]
    <3>1. /\ Adds(p) \in cols'[f] /\ UNCHANGED conn
          /\ IF pc[p] = "addLines" THEN HasLines(p) ELSE HasEpoch(p)
      BY <1>0, <1>10, <2>3 DEF TypeOK, AddColumn
    <3>2. CASE pc[p] = "addLines"
      <4>1. kind = "project" /\ tables[f]
        BY <1>1, <3>2 DEF Progress, SchemaPc, Running
      <4> QED BY <1>7, <3>1, <3>2, <4>1 DEF Adds
    <3>3. CASE pc[p] = "addEpoch"
      <4>1. tables[f] /\ IF kind = "project" THEN "line_count" \in cols[f] ELSE version[f]
        BY <1>1, <3>3 DEF Progress, SchemaPc, Running
      <4> QED BY <1>8, <2>0, <3>1, <3>3, <4>1 DEF Adds
    <3> QED BY <1>10, <3>2, <3>3 DEF AddColumn
  <2> QED BY <2>1, <2>2, <2>3
<1>11. CASE Version(p)
  <2>1. KnowsAfter(p, f)
    BY <1>4, <1>11 DEF Version, caches
  <2>2. tables[f] /\ tables'[f] /\ UNCHANGED <<kind, cols, conn, ro>>
    BY <1>1, <1>11 DEF Version, Progress, SchemaPc, Running
  <2>3. CASE kind = "project"
    <3>1. /\ pc'[p] = IF ro[p] THEN "bare" ELSE "body"
          /\ ~ro[p] => version'[f]
      BY <1>0, <1>11, <2>3 DEF TypeOK, Version, Goto
    <3>2. Late \subseteq cols[f]
      BY <1>1, <1>11, <2>3 DEF Version, Progress
    <3> QED BY <1>3, <2>1, <2>2, <3>1, <3>2 DEF Progress, UpToDate, SchemaPc, Running
  <2>4. CASE kind # "project"
    <3>1. /\ UNCHANGED version
          /\ pc'[p] = IF version[f] THEN (IF epoch[p] THEN "body" ELSE "lookEpoch") ELSE "insert"
      BY <1>0, <1>11, <2>4 DEF TypeOK, Version, AfterVersion, Goto
    <3>2. epoch[p] => Late \subseteq cols[f]
      BY <1>0, <1>1, <1>3, <2>2, <2>4, FilesAreNumbers DEF Knows, Kind
    <3> QED BY <1>0, <1>3, <2>1, <2>2, <2>4, <3>1, <3>2 DEF Progress, UpToDate, SchemaPc, Running, Kind
  <2> QED BY <2>3, <2>4
<1>12. CASE Insert(p)
  <2>1. KnowsAfter(p, f)
    BY <1>4, <1>12 DEF Insert, caches
  <2>2. tables[f] /\ tables'[f] /\ kind = "global" /\ UNCHANGED <<kind, cols>>
    BY <1>1, <1>12 DEF Insert, Progress, SchemaPc, Running
  <2>3. CASE Fail(p)
    BY <1>5, <2>1, <2>3
  <2>4. CASE ro[p] /\ ~Fail(p)
    <3>1. pc'[p] = "bare" /\ ro'[p]
      BY <1>12, <2>4 DEF TypeOK, Insert, Goto
    <3> QED BY <2>1, <3>1 DEF Progress, SchemaPc, Running
  <2>5. CASE ~ro[p] /\ ~Fail(p)
    <3>1. /\ version'[f] /\ UNCHANGED <<conn, ro>>
          /\ pc'[p] = IF epoch[p] THEN "body" ELSE "lookEpoch"
      BY <1>0, <1>12, <2>5 DEF TypeOK, Insert, AfterVersion, Goto
    <3>2. epoch[p] => Late \subseteq cols[f]
      BY <1>0, <1>1, <1>3, <2>2, FilesAreNumbers DEF Knows
    <3> QED BY <1>3, <2>1, <2>2, <3>1, <3>2 DEF Progress, UpToDate, SchemaPc, Running
  <2> QED BY <2>3, <2>4, <2>5
<1> QED BY <1>6, <1>9, <1>10, <1>11, <1>12

LEMMA SchemaInvHolds == Spec => []SchemaInv
<1>1. Init => SchemaInv
  <2> SUFFICES ASSUME Init PROVE SchemaInv OBVIOUS
  <2>1. OnlyFirstIsOld
    BY DEF Init, OnlyFirstIsOld
  <2>2. ASSUME NEW p \in Proc PROVE Knows(p, path) /\ Knows(p, conn[p]) /\ Progress(p, conn[p])
    BY DEF Init, Knows, Progress, SchemaPc, Running
  <2> QED BY <2>1, <2>2 DEF SchemaInv
<1>2. TypeOK /\ TypeOK' /\ FileInv /\ SchemaInv /\ [Next]_vars => SchemaInv'
  <2> SUFFICES ASSUME TypeOK, TypeOK', FileInv, SchemaInv, [Next]_vars PROVE SchemaInv' OBVIOUS
  <2>1. CASE UNCHANGED vars \/ Damaged
    BY <2>1 DEF SchemaInv, OnlyFirstIsOld, Knows, Progress, UpToDate, Late, vars, Damaged,
       files, open, caches
  <2>2. ASSUME NEW p \in Proc, Step(p) PROVE SchemaInv'
    <3>1. Grows
      BY <2>2, StepGrows
    <3>2. Late' = Late
      BY <3>1 DEF Grows, Late
    <3>3. OnlyFirstIsOld'
      BY <3>1, <3>2 DEF Grows, SchemaInv, OnlyFirstIsOld
    <3>4. ASSUME NEW q \in Proc, q # p
          PROVE  /\ Progress(q, conn[q])' /\ KnowsAfter(q, path) /\ KnowsAfter(q, conn'[q])
      <4>1. /\ pc'[q] = pc[q] /\ conn'[q] = conn[q] /\ ro'[q] = ro[q]
            /\ migrated'[q] = migrated[q] /\ epoch'[q] = epoch[q]
        BY <2>2, <3>4, OthersStay
      <4>2. path \in File \cup {None} /\ conn[q] \in File \cup {None}
        BY DEF TypeOK
      <4>3. Progress(q, conn[q]) /\ Knows(q, path) /\ Knows(q, conn[q])
        BY DEF SchemaInv
      <4> QED BY <3>1, <4>1, <4>2, <4>3, ProgressStays, KnowledgeStaysTrue
    <3>5. Progress(p, conn[p])' /\ KnowsAfter(p, path) /\ KnowsAfter(p, conn'[p])
      <4>1. CASE Tables(p) \/ LookAtColumn(p) \/ AddColumn(p) \/ Version(p) \/ Insert(p)
        <5>1. conn'[p] \in {conn[p], None}
          BY <4>1 DEF TypeOK, Tables, LookAtColumn, AddColumn, Version, Insert, Fail
        <5>2. KnowsAfter(p, None)
          BY DEF KnowsAfter
        <5> QED BY <4>1, <5>1, <5>2, SchemaSteps
      <4>2. CASE ~(Tables(p) \/ LookAtColumn(p) \/ AddColumn(p) \/ Version(p) \/ Insert(p))
        <5>1. pc'[p] \notin (SchemaPc \ {"tables"}) \cup {"body"}
          <6>1. CASE Create(p) \/ Connect(p) \/ Fallback(p)
            BY <6>1 DEF TypeOK, Create, Connect, Fallback, Opened, Fail, Goto, SchemaPc, Running
          <6>2. CASE Begin(p) \/ Rename(p) \/ Close(p) \/ Exit(p)
            BY <6>2 DEF TypeOK, Begin, Rename, Close, Exit, Gone, Goto, SchemaPc, Running
          <6>3. CASE Check(p)
            <7>1. Goto(p, "tables") \/ Goto(p, "rename")
              BY <6>3 DEF Check
            <7> QED BY <7>1 DEF TypeOK, Goto, SchemaPc, Running
          <6>4. CASE FaultStep(p)
            BY <6>4 DEF TypeOK, FaultStep, Killed, Gone, RenameFails, CheckRaises, WalRefused,
               ReadRefused, SchemaSkipped, StatementThrows, Fail, Goto, SchemaPc, Running
          <6> QED BY <2>2, <4>2, <6>1, <6>2, <6>3, <6>4 DEF Step, OpenStep
        <5>2. epoch'[p] => epoch[p]
          <6>1. CASE Exit(p) \/ Killed(p)
            BY <6>1 DEF TypeOK, Exit, Killed, Gone
          <6>2. CASE UNCHANGED epoch
            BY <6>2
          <6>3. CASE FaultStep(p) /\ ~Killed(p)
            BY <6>2, <6>3 DEF FaultStep, RenameFails, CheckRaises, WalRefused, ReadRefused,
               SchemaSkipped, StatementThrows, caches
          <6> QED BY <2>2, <4>2, <6>1, <6>2, <6>3 DEF Step, OpenStep, Begin, Create, Connect,
               Fallback, Check, Rename, Close, caches
        <5>3. migrated'[p] => migrated[p]
          <6>1. CASE Exit(p) \/ Killed(p) \/ Rename(p)
            BY <6>1 DEF TypeOK, Exit, Killed, Gone, Rename
          <6>2. CASE UNCHANGED migrated
            BY <6>2
          <6>3. CASE FaultStep(p) /\ ~Killed(p)
            BY <6>2, <6>3 DEF FaultStep, RenameFails, CheckRaises, WalRefused, ReadRefused,
               SchemaSkipped, StatementThrows, caches
          <6> QED BY <2>2, <4>2, <6>1, <6>2, <6>3 DEF Step, OpenStep, Begin, Create, Connect,
               Fallback, Check, Close, caches
        <5>4. conn'[p] \in {conn[p], None, path} \/ (Create(p) /\ conn'[p] = made + 1)
          BY <2>2, NameStays DEF TypeOK, Create, Opened, Rename
        <5>5. Create(p) => KnowsAfter(p, made + 1)
          <6> SUFFICES ASSUME Create(p) PROVE KnowsAfter(p, made + 1) OBVIOUS
          <6>1. made + 1 \in File /\ made + 1 > made
            BY NextFile DEF Create, TypeOK
          <6> QED BY <6>1 DEF FileInv, Create, KnowsAfter
        <5>6. path \in File \cup {None} /\ conn[p] \in File \cup {None} /\ None \in File \cup {None}
          BY DEF TypeOK
        <5>7. Knows(p, path) /\ Knows(p, conn[p]) /\ Knows(p, None)
          BY DEF SchemaInv, Knows
        <5> QED BY <3>1, <5>1, <5>2, <5>3, <5>4, <5>5, <5>6, <5>7, ProgressElsewhere,
             KnowledgeStaysTrue
      <4> QED BY <4>1, <4>2
    <3>6. ASSUME NEW q \in Proc PROVE KnowsAfter(q, path')
      <4>1. CASE Create(p)
        <5>1. made + 1 \in File /\ made + 1 > made
          BY <4>1, NextFile DEF Create, TypeOK
        <5> QED BY <4>1, <5>1 DEF FileInv, Create, KnowsAfter
      <4>2. CASE Rename(p)
        BY <4>2 DEF Rename, KnowsAfter
      <4>3. CASE path' = path
        BY <3>4, <3>5, <4>3
      <4> QED BY <2>2, <4>1, <4>2, <4>3, NameStays
    <3>7. ASSUME NEW q \in Proc PROVE Knows(q, path)' /\ Knows(q, conn[q])' /\ Progress(q, conn[q])'
      BY <3>2, <3>4, <3>5, <3>6 DEF Knows, KnowsAfter
    <3> QED BY <3>3, <3>7 DEF SchemaInv
  <2> QED BY <2>1, <2>2 DEF Next, Step
<1> QED BY <1>1, <1>2, TypeCorrect, FileInvHolds, PTL DEF Spec

\* A body that no refused statement sent ahead finds the whole schema in its file,
\* though what a process remembers of the schema goes by the name and the file may have
\* been replaced since (db.ts, _ensureProjectSchema and _ensureGlobalSchema).
THEOREM BodiesHaveTheirSchema == Spec => []BodyHasSchema
<1>1. SchemaInv => BodyHasSchema
  BY DEF SchemaInv, Progress, BodyHasSchema
<1> QED BY <1>1, SchemaInvHolds, PTL

-----------------------------------------------------------------------------
(* Damage is caught.                                                       *)

Unharmed == hazards \cap {"renameFailed", "unchecked"} = {}

LEMMA HazardsStay == ASSUME TypeOK, NEW p \in Proc, Step(p) PROVE hazards \subseteq hazards'
<1>1. CASE UNCHANGED hazards
  BY <1>1
<1>2. CASE Check(p)
  BY <1>2 DEF Check
<1> QED BY <1>1, <1>2 DEF Step, OpenStep, FaultStep, Begin, Create, Connect, Fallback, Rename,
     Tables, LookAtColumn, AddColumn, Version, Insert, Close, Exit, Killed, Gone, RenameFails,
     CheckRaises, WalRefused, ReadRefused, SchemaSkipped, StatementThrows, Fault, history

\* A connection that is made is trusted exactly if the file of the name was.
LEMMA OpenedIsCaught ==
  ASSUME TypeOK, NEW p \in Proc, NEW r \in BOOLEAN, pc[p] \in {"connect", "fallback"},
         path' # None, Opened(p, path', r), Trusts(p) => health'[path'] = "ok"
  PROVE  Caught(p)'
<1>1. /\ conn'[p] = path' /\ ~repairing'[p] /\ checked'[p] = (checked[p] \/ repairing[p])
      /\ pc'[p] = IF repairing[p] THEN "tables" ELSE "check"
  BY DEF TypeOK, Opened, Goto
<1>2. checked'[p] => health'[path'] = "ok"
  BY <1>1 DEF Trusts
<1>3. CASE repairing[p]
  BY <1>1, <1>2, <1>3 DEF Caught, Trusts, Healthy, SchemaPc, Running
<1>4. CASE ~repairing[p]
  BY <1>1, <1>2, <1>4 DEF Caught, Trusts, Healthy, SchemaPc, Running
<1> QED BY <1>3, <1>4

\* What a step makes of the process that takes it.
LEMMA CaughtSteps ==
  ASSUME TypeOK, FileInv, PendingInv, NEW p \in Proc, Step(p), Unharmed', p \notin exempt',
         p \notin exempt => Caught(p)
  PROVE  Caught(p)'
<1>1. CASE Begin(p)
  <2>1. /\ UNCHANGED <<path, health, checked, exempt>> /\ pc'[p] = "connect" /\ ~repairing'[p]
    BY <1>1 DEF TypeOK, PendingInv, Begin, Goto, files, caches
  <2> QED BY <2>1 DEF Caught, Trusts, Healthy, SchemaPc, Running
<1>2. CASE Create(p)
  <2>1. health'[path'] = "ok" /\ path' # None /\ Opened(p, path', FALSE) /\ pc[p] = "connect"
    BY <1>2, NextFile DEF TypeOK, Create
  <2> QED BY <2>1, OpenedIsCaught
<1>3. CASE Connect(p)
  <2>1. UNCHANGED <<path, health, exempt>> /\ pc[p] = "connect" /\ path # None
    BY <1>3 DEF Connect, files, history
  <2>2. CASE HasNoHeader(path)
    BY <1>3, <2>1, <2>2 DEF TypeOK, Connect, Goto, Caught, Trusts, Healthy, SchemaPc, Running
  <2>3. CASE ~HasNoHeader(path)
    <3>1. Trusts(p) => health'[path'] = "ok"
      BY <2>1 DEF Caught, Healthy
    <3> QED BY <1>3, <2>1, <2>3, <3>1, OpenedIsCaught DEF Connect
  <2> QED BY <2>2, <2>3
<1>4. CASE Fallback(p)
  <2>1. UNCHANGED <<path, health, exempt>> /\ pc[p] = "fallback"
    BY <1>4 DEF Fallback, files
  <2>2. CASE path # None /\ Opened(p, path, TRUE)
    <3>1. Trusts(p) => health'[path'] = "ok"
      BY <2>1, <2>2 DEF Caught, Healthy
    <3> QED BY <2>1, <2>2, <3>1, OpenedIsCaught
  <2>3. CASE Goto(p, "rename") /\ UNCHANGED checked
    BY <2>1, <2>3 DEF TypeOK, Goto, Caught, Trusts, Healthy, SchemaPc, Running
  <2>4. CASE Fail(p) /\ UNCHANGED checked
    BY <2>1, <2>4 DEF TypeOK, Fail, Goto, Caught, Trusts, Healthy, SchemaPc, Running
  <2> QED BY <1>4, <2>2, <2>3, <2>4 DEF Fallback
<1>5. CASE Check(p)
  <2>1. UNCHANGED <<path, health>> /\ pc[p] = "check" /\ conn[p] \in File /\ conn[p] <= made
    BY <1>5 DEF TypeOK, FileInv, Check, Connected, files
  <2>2. CASE checked[p] \/ health[conn[p]] # "pages"
    <3>1. /\ pc'[p] = "tables" /\ checked'[p] /\ UNCHANGED conn /\ conn[p] = path
          /\ p \notin exempt
      BY <1>5, <2>2 DEF TypeOK, Check, Goto
    <3>2. checked[p] => Healthy(conn[p])
      BY <2>1, <3>1 DEF Caught
    <3>3. ~checked[p] => health[conn[p]] # "header"
      BY <1>5, <2>1, FilesAreNumbers DEF Check, Unharmed, HasNoHeader
    <3>4. health[conn[p]] # "unused" /\ health[conn[p]] \in Health
      BY <2>1, BoundsAreNat DEF TypeOK, FileInv, File
    <3>5. Healthy(conn[p])
      BY <2>2, <3>2, <3>3, <3>4 DEF Healthy, Health
    <3> QED BY <2>1, <3>1, <3>5 DEF Caught, Trusts, Healthy
  <2>3. CASE ~(checked[p] \/ health[conn[p]] # "pages")
    <3>1. pc'[p] = "rename" /\ ~checked'[p]
      BY <1>5, <2>3 DEF TypeOK, Check, Goto
    <3> QED BY <3>1 DEF Caught, Trusts, SchemaPc, Running
  <2> QED BY <2>2, <2>3
<1>6. CASE Rename(p)
  BY <1>6 DEF TypeOK, Rename, Goto, Caught, SchemaPc, Running
<1>7. CASE Exit(p) \/ Killed(p)
  BY <1>7 DEF TypeOK, Exit, Killed, Gone, Goto, Caught, Trusts, SchemaPc, Running
<1>8. CASE RenameFails(p) \/ CheckRaises(p)
  BY <1>8 DEF RenameFails, CheckRaises, Fault, Unharmed
<1>9. CASE WalRefused(p) \/ ReadRefused(p)
  <2>1. UNCHANGED <<path, health, checked, exempt>> /\ pc[p] \in {"connect", "fallback"}
    BY <1>9 DEF WalRefused, ReadRefused, Fault, files, caches
  <2>2. CASE Fail(p)
    BY <2>1, <2>2 DEF TypeOK, Fail, Goto, Caught, Trusts, Healthy, SchemaPc, Running
  <2>3. CASE (Goto(p, "fallback") \/ Goto(p, "connect")) /\ UNCHANGED repairing
    BY <2>1, <2>3 DEF TypeOK, Goto, Caught, Trusts, Healthy, SchemaPc, Running
  <2> QED BY <1>9, <2>2, <2>3 DEF WalRefused, ReadRefused
<1>10. CASE \/ Tables(p) \/ LookAtColumn(p) \/ AddColumn(p) \/ Version(p) \/ Insert(p)
            \/ Close(p) \/ SchemaSkipped(p) \/ StatementThrows(p)
  <2>1. UNCHANGED <<path, health, checked, exempt>>
    BY <1>10 DEF Tables, LookAtColumn, AddColumn, Version, Insert, Close, SchemaSkipped, StatementThrows,
       Fault, files, caches, history
  <2>2. CASE pc'[p] \in {"idle", "failed"}
    BY <2>1, <2>2 DEF Caught, Trusts, Healthy, SchemaPc, Running
  <2>3. CASE pc'[p] \notin {"idle", "failed"}
    <3>1. UNCHANGED conn /\ pc[p] \in SchemaPc
      BY <1>10, <2>3 DEF TypeOK, Tables, LookAtColumn, AddColumn, Version, Insert, Close,
         SchemaSkipped, StatementThrows, Fail, Goto, SchemaPc, Running
    <3>2. pc'[p] # "check" /\ pc'[p] \notin {"connect", "fallback"}
      BY <1>10 DEF TypeOK, Tables, LookAtColumn, HasLines, HasEpoch, AddColumn, Version,
         AfterVersion, Insert, Close, SchemaSkipped, StatementThrows, Fail, Goto
    <3> QED BY <2>1, <3>1, <3>2 DEF Caught, Trusts, Healthy
  <2> QED BY <2>2, <2>3
<1> QED BY <1>1, <1>2, <1>3, <1>4, <1>5, <1>6, <1>7, <1>8, <1>9, <1>10
     DEF Step, OpenStep, FaultStep

LEMMA CaughtInvHolds == Spec => []CaughtInv
<1>1. Init => CaughtInv
  BY DEF Init, CaughtInv, Caught, Trusts, SchemaPc, Running
<1>2. TypeOK /\ FileInv /\ PendingInv /\ CaughtInv /\ [Next]_vars => CaughtInv'
  <2> SUFFICES ASSUME TypeOK, FileInv, PendingInv, CaughtInv, [Next]_vars, Unharmed',
                      NEW q \in Proc, q \notin exempt'
               PROVE  Caught(q)'
    BY DEF CaughtInv, Unharmed
  <2>1. CASE UNCHANGED vars
    BY <2>1 DEF CaughtInv, Unharmed, Caught, Trusts, Healthy, vars, files, open, caches, history
  <2>2. CASE Damaged
    <3>1. q \notin exempt /\ ~checked[q] /\ ~repairing[q] /\ Unharmed
      BY <2>2 DEF Damaged, Unharmed
    <3>2. Caught(q)
      BY <3>1 DEF CaughtInv, Unharmed
    <3> QED BY <2>2, <3>1, <3>2 DEF Damaged, Caught, Trusts, open, caches
  <2>3. ASSUME NEW p \in Proc, Step(p) PROVE Caught(q)'
    <3>0. Unharmed
      BY <2>3, HazardsStay DEF Unharmed
    <3>1. CASE p = q
      BY <2>3, <3>0, <3>1, CaughtSteps DEF CaughtInv, Unharmed
    <3>2. CASE p # q
      <4>1. /\ pc'[q] = pc[q] /\ conn'[q] = conn[q] /\ repairing'[q] = repairing[q]
            /\ checked'[q] = checked[q] /\ Caught(q)
        BY <2>3, <3>0, <3>2, OthersStay DEF CaughtInv, Unharmed
      <4>2. path' = None \/ (path' = path /\ UNCHANGED health)
            \/ (path' = made + 1 /\ health'[path'] = "ok")
        <5>1. CASE Create(p)
          BY <5>1, NextFile DEF TypeOK, Create
        <5>2. CASE Rename(p)
          BY <5>2 DEF Rename
        <5> QED BY <2>3, <5>1, <5>2, NameStays
      <4>3. conn[q] # None => health'[conn[q]] = health[conn[q]]
        <5>1. CASE Create(p)
          <6>1. conn[q] # made + 1
            BY BoundsAreNat DEF TypeOK, FileInv, File, None
          <6> QED BY <5>1, <6>1 DEF TypeOK, Create
        <5>2. CASE Rename(p)
          BY <5>2 DEF Rename
        <5> QED BY <2>3, <5>1, <5>2, NameStays
      <4>4. pc[q] \in SchemaPc \cup Running \cup {"check"} => conn[q] # None
        BY DEF TypeOK, Connected
      <4> QED BY <4>1, <4>2, <4>3, <4>4 DEF Caught, Trusts, Healthy, None
    <3> QED BY <3>1, <3>2
  <2> QED BY <2>1, <2>2, <2>3 DEF Next, Step
<1> QED BY <1>1, <1>2, TypeCorrect, FileInvHolds, PendingInvHolds, PTL DEF Spec

\* Nobody works on a file that was corrupt when he opened it, unless it was damaged after
\* his one check, he checked its predecessor, the check raised or the file could not be
\* renamed (db.ts, _repairIfCorrupt): a remembered verdict is true of the file that has
\* the name.
THEOREM DamagedFilesAreCaught == Spec => []DamageIsCaught
<1>1. CaughtInv => DamageIsCaught
  BY DEF CaughtInv, Caught, DamageIsCaught
<1> QED BY <1>1, CaughtInvHolds, PTL

-----------------------------------------------------------------------------
(* A lone opening succeeds.                                                *)

LEMMA CrowdStays ==
  ASSUME TypeOK, NEW p \in Proc, OpenStep(p) \/ Exit(p) \/ FaultStep(p), NEW q \in Proc,
         q = p => Opening(q)'
  PROVE  crowded'[q] = crowded[q]
<1>1. CASE UNCHANGED crowded
  BY <1>1
<1>2. CASE Close(p)
  BY <1>2 DEF TypeOK, Close, Goto, Opening
<1>3. CASE Exit(p) \/ Killed(p)
  BY <1>3 DEF TypeOK, Exit, Killed, Gone, Goto, Opening
<1> QED BY <1>1, <1>2, <1>3 DEF OpenStep, FaultStep, Create, Connect, Fallback, Check, Rename,
     Tables, LookAtColumn, AddColumn, Version, Insert, RenameFails, CheckRaises, WalRefused,
     ReadRefused, SchemaSkipped, StatementThrows, Fault, history

\* What a step makes of the only process that is opening.
LEMMA SmoothSteps ==
  ASSUME TypeOK, CaughtInv, NEW p \in Proc, OpenStep(p) \/ FaultStep(p), Opening(p)',
         hazards = {}, hazards' = {}, p \notin exempt', p \notin exempt => Smooth(p)
  PROVE  Smooth(p)'
<1>1. CASE Create(p) \/ Connect(p) \/ Fallback(p)
  <2>1. CASE \E f \in File, r \in BOOLEAN : Opened(p, f, r)
    BY <2>1 DEF TypeOK, Opened, Goto, Smooth
  <2>2. CASE Create(p)
    BY <2>1, <2>2, NextFile DEF Create
  <2>3. CASE Connect(p) /\ HasNoHeader(path)
    <3>1. pc'[p] = "fallback" /\ UNCHANGED <<path, health, again, exempt>> /\ ~again[p]
      BY <2>3 DEF TypeOK, Connect, Goto, Smooth, files, history
    <3> QED BY <2>3, <3>1 DEF Smooth, HasNoHeader
  <2>4. CASE Connect(p) /\ ~HasNoHeader(path)
    BY <2>1, <2>4 DEF TypeOK, Connect
  <2>5. CASE Fallback(p)
    <3>1. HasNoHeader(path) /\ ~again[p]
      BY <2>5 DEF Fallback, Smooth
    <3>2. pc'[p] = "rename"
      BY <2>5, <3>1 DEF TypeOK, Fallback, HasNoHeader, Goto
    <3> QED BY <3>2 DEF Smooth
  <2> QED BY <1>1, <2>2, <2>3, <2>4, <2>5
<1>2. CASE Check(p)
  <2>1. Goto(p, "tables") \/ Goto(p, "rename")
    BY <1>2 DEF Check
  <2> QED BY <2>1 DEF TypeOK, Goto, Smooth
<1>3. CASE Rename(p)
  <2>1. pc'[p] = "connect" /\ path' = None
    BY <1>3 DEF TypeOK, Rename, Goto
  <2> QED BY <2>1 DEF Smooth
<1>4. CASE Tables(p) \/ Version(p)
  <2>1. CASE pc'[p] # "insert"
    BY <1>4, <2>1 DEF TypeOK, Tables, Version, AfterVersion, Goto, Smooth
  <2>2. CASE pc'[p] = "insert"
    <3>1. UNCHANGED <<version, conn>> /\ ~version[conn[p]]
      BY <1>4, <2>2 DEF TypeOK, Tables, Version, AfterVersion, Goto
    <3> QED BY <2>2, <3>1 DEF Smooth
  <2> QED BY <2>1, <2>2
<1>5. CASE LookAtColumn(p)
  <2>1. CASE pc'[p] \in {"addLines", "addEpoch"}
    <3>1. UNCHANGED <<cols, conn>> /\ Adds(p)' \notin cols[conn[p]]
      BY <1>5, <2>1 DEF TypeOK, LookAtColumn, HasLines, HasEpoch, Goto, Adds, files
    <3> QED BY <2>1, <3>1 DEF Smooth
  <2>2. CASE pc'[p] \notin {"addLines", "addEpoch"}
    <3>1. pc'[p] \in {"version", "lookEpoch", "body"}
      BY <1>5, <2>2 DEF TypeOK, LookAtColumn, HasLines, HasEpoch, Goto
    <3> QED BY <3>1 DEF Smooth
  <2> QED BY <2>1, <2>2
<1>6. CASE AddColumn(p)
  <2>1. Adds(p) \notin cols[conn[p]]
    BY <1>6 DEF AddColumn, Smooth, history
  <2>2. pc'[p] \in {"version", "lookEpoch", "body", "bare"}
    BY <1>6, <2>1 DEF TypeOK, AddColumn, HasLines, HasEpoch, Goto
  <2> QED BY <2>2 DEF Smooth
<1>7. CASE Insert(p)
  <2>1. ~version[conn[p]]
    BY <1>7 DEF Insert, Smooth, history
  <2>2. pc'[p] \in {"lookEpoch", "body", "bare"}
    BY <1>7, <2>1 DEF TypeOK, Insert, AfterVersion, Goto
  <2> QED BY <2>2 DEF Smooth
<1>8. CASE Close(p) \/ Killed(p)
  BY <1>8 DEF TypeOK, Close, Killed, Gone, Goto, Opening
<1>9. CASE RenameFails(p) \/ CheckRaises(p) \/ WalRefused(p) \/ ReadRefused(p) \/ SchemaSkipped(p)
  BY <1>9 DEF RenameFails, CheckRaises, WalRefused, ReadRefused, SchemaSkipped, Fault
<1>10. CASE StatementThrows(p)
  BY <1>10 DEF SchemaSkipped, StatementThrows, CaughtInv, Caught, history
<1> QED BY <1>1, <1>2, <1>3, <1>4, <1>5, <1>6, <1>7, <1>8, <1>9, <1>10 DEF OpenStep, FaultStep

LEMMA LoneInvHolds == Spec => []LoneInv
<1>1. Init => LoneInv
  BY DEF Init, LoneInv, Opening
<1>2. TypeOK /\ PendingInv /\ CaughtInv /\ LoneInv /\ [Next]_vars => LoneInv'
  <2> SUFFICES ASSUME TypeOK, PendingInv, CaughtInv, LoneInv, [Next]_vars,
                      NEW q \in Proc, Opening(q)', ~crowded'[q]
               PROVE  /\ \A r \in Proc \ {q} : ~Opening(r)'
                      /\ hazards' = {} /\ q \notin exempt' => Smooth(q)'
    BY DEF LoneInv
  <2>1. CASE UNCHANGED vars
    BY <2>1 DEF LoneInv, Opening, Smooth, HasNoHeader, Adds, vars, files, open, caches, history
  <2>2. CASE Damaged
    BY <2>2 DEF TypeOK, Damaged, Opening, open
  <2>3. ASSUME NEW p \in Proc, Step(p), p # q
        PROVE  /\ \A r \in Proc \ {q} : ~Opening(r)'
               /\ hazards' = {} /\ q \notin exempt' => Smooth(q)'
    <3>1. Opening(q) /\ again'[q] = again[q] /\ conn'[q] = conn[q] /\ pc'[q] = pc[q]
          /\ (q \in exempt' <=> q \in exempt)
      BY <2>3, OthersStay DEF Opening
    <3>2. CASE Begin(p)
      BY <2>3, <3>1, <3>2 DEF TypeOK, Begin
    <3>3. CASE ~Begin(p)
      <4>1. ~crowded[q] /\ ~Opening(p)
        BY <2>3, <3>1, <3>3, CrowdStays DEF LoneInv, Step
      <4>2. Exit(p)
        BY <2>3, <3>3, <4>1 DEF Step, OpenStep, FaultStep, Opening, Create, Connect, Fallback,
           Check, Rename, Tables, LookAtColumn, AddColumn, Version, Insert, Close, Killed,
           RenameFails, CheckRaises, WalRefused, ReadRefused, SchemaSkipped, StatementThrows, SchemaPc, Running
      <4>3. UNCHANGED <<path, health, cols, version, hazards>> /\ pc'[p] = "idle"
        BY <4>2 DEF TypeOK, Exit, Gone, Goto, files
      <4>4. \A r \in Proc \ {q} : ~Opening(r)'
        BY <2>3, <3>1, <4>1, <4>3, OthersStay DEF LoneInv, Opening
      <4> QED BY <3>1, <4>1, <4>3, <4>4 DEF LoneInv, Smooth, HasNoHeader, Adds
    <3> QED BY <3>2, <3>3
  <2>4. ASSUME Step(q)
        PROVE  /\ \A r \in Proc \ {q} : ~Opening(r)'
               /\ hazards' = {} /\ q \notin exempt' => Smooth(q)'
    <3>1. CASE Begin(q)
      <4>1. \A r \in Proc \ {q} : ~Opening(r)
        BY <3>1 DEF TypeOK, Begin
      <4>2. pc'[q] = "connect" /\ ~again'[q]
        BY <3>1 DEF TypeOK, PendingInv, Begin, Goto
      <4> QED BY <2>4, <4>1, <4>2, OthersStay DEF Opening, Smooth
    <3>2. CASE Exit(q)
      BY <3>2 DEF TypeOK, Exit, Gone, Goto, Opening
    <3>3. CASE OpenStep(q) \/ FaultStep(q)
      <4>1. Opening(q)
        BY <3>3 DEF OpenStep, FaultStep, Opening, Create, Connect, Fallback,
           Check, Rename, Tables, LookAtColumn, AddColumn, Version, Insert, Close, Killed,
           RenameFails, CheckRaises, WalRefused, ReadRefused, SchemaSkipped, StatementThrows, SchemaPc, Running
      <4>2. ~crowded[q]
        BY <3>3, CrowdStays
      <4>3. \A r \in Proc \ {q} : ~Opening(r)'
        BY <2>4, <4>1, <4>2, OthersStay DEF LoneInv, Opening
      <4>4. hazards' = {} => hazards = {}
        BY <2>4, HazardsStay
      <4> QED BY <3>3, <4>1, <4>2, <4>3, <4>4, SmoothSteps DEF LoneInv
    <3> QED BY <2>4, <3>1, <3>2, <3>3 DEF Step
  <2> QED BY <2>1, <2>2, <2>3, <2>4 DEF Next, Step
<1> QED BY <1>1, <1>2, TypeCorrect, PendingInvHolds, CaughtInvHolds, PTL DEF Spec

\* Whatever killed processes left of a schema, an opening that meets no other opening, no
\* damage and no refusal succeeds (db.ts, _openWithRetry to _ensureProjectSchema).
THEOREM LoneOpeningsSucceed == Spec => []LoneOpeningSucceeds
<1>1. LoneInv => LoneOpeningSucceeds
  BY DEF LoneInv, Smooth, Opening, LoneOpeningSucceeds
<1> QED BY <1>1, LoneInvHolds, PTL
=============================================================================
