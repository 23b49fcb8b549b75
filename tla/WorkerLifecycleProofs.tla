------------------------ MODULE WorkerLifecycleProofs ------------------------
(***************************************************************************)
(* The daemon slot for every number of daemons and hooks, and every set of *)
(* events: types, at most one daemon in the slot, the pid file and the     *)
(* heartbeat belong to it.  All from one inductive invariant, SlotInv.     *)
(***************************************************************************)
EXTENDS WorkerLifecycle, TLAPS

\* Every variable keeps its type, and the claim file has at most one owner
\* (worker.ts and worker_daemon.ts, all of the life cycle).
THEOREM TypeCorrect == Spec => []TypeOK
<1> USE BoundsAreNat
<1>1. Init => TypeOK
  <2> SUFFICES ASSUME Init PROVE TypeOK
    OBVIOUS
  <2>1. dpc \in [Daemon -> DaemonPc] /\ npc \in [Nudger -> NudgerPc]
    BY DEF Init, DaemonPc, NudgerPc
  <2>2. kills \in 0..MaxKills /\ reuses \in 0..MaxReuses
    BY DEF Init
  <2> QED BY <2>1, <2>2 DEF Init, TypeOK
<1>2. TypeOK /\ [Next]_vars => TypeOK'
  <2> SUFFICES ASSUME TypeOK, [Next]_vars PROVE TypeOK'
    OBVIOUS
  <2> USE DEF TypeOK, DaemonPc, SlotPc, NudgerPc, Hazard, Goto, NGoto, slot, bounds
  <2>1. ASSUME NEW n \in Nudger, NudgeStep(n) \/ KillDuplicate(n) \/ HookKilled(n) PROVE TypeOK'
    <3>1. CASE CheckAlive(n) BY <3>1 DEF CheckAlive
    <3>2. CASE Reap(n) BY <3>2 DEF Reap, LivePid
    <3>3. CASE Busy(n) BY <3>3 DEF Busy
    <3>4. CASE ClearStale(n) BY <3>4 DEF ClearStale, ClearPid
    <3>5. CASE UnlinkStale(n) BY <3>5 DEF UnlinkStale, UnlinkClaim
    <3>6. CASE Spawn(n) BY <3>6 DEF Spawn, Born
    <3>7. CASE UnlinkPid(n) BY <3>7 DEF UnlinkPid
    <3>8. CASE KillDuplicate(n) BY <3>8 DEF KillDuplicate, Terminated, LivePid
    <3>9. CASE ClearStaleBeat(n) BY <3>9 DEF ClearStaleBeat, ClearHeartbeat
    <3>10. CASE HookKilled(n) BY <3>10 DEF HookKilled
    <3> QED BY <2>1, <3>1, <3>2, <3>3, <3>4, <3>5, <3>6, <3>7, <3>8, <3>9, <3>10
            DEF NudgeStep
  <2>2. ASSUME NEW d \in Daemon, StartStep(d) PROVE TypeOK'
    <3>1. CASE OpenClaim(d) BY <3>1 DEF OpenClaim, CreateClaim
    <3>2. CASE EvictClaim(d) BY <3>2 DEF EvictClaim, UnlinkClaim
    <3>3. CASE RetryClaim(d) BY <3>3 DEF RetryClaim, CreateClaim
    <3>4. CASE PopulateClaim(d) BY <3>4 DEF PopulateClaim
    <3>5. CASE PopulateFails(d) BY <3>5 DEF PopulateFails, UnlinkClaim
    <3>6. CASE ClearOld(d) BY <3>6 DEF ClearOld, ClearPid
    <3>7. CASE WritePid(d) BY <3>7 DEF WritePid
    <3>8. CASE VerifyPid(d) BY <3>8 DEF VerifyPid
    <3>9. CASE FirstBeat(d) BY <3>9 DEF FirstBeat
    <3>10. CASE ClearOldBeat(d) BY <3>10 DEF ClearOldBeat, ClearHeartbeat
    <3> QED BY <2>2, <3>1, <3>2, <3>3, <3>4, <3>5, <3>6, <3>7, <3>8, <3>9, <3>10
            DEF StartStep
  <2>3. ASSUME NEW d \in Daemon, ExitStep(d) \/ Beat(d) \/ LoopEnds(d) \/ Killed(d)
                                  \/ Crashes(d) \/ PidReused(d)
        PROVE  TypeOK'
    <3>1. CASE ExitClears(d) BY <3>1 DEF ExitClears, ClearPid
    <3>2. CASE ExitReleases(d) BY <3>2 DEF ExitReleases, UnlinkClaim, Spawnable
    <3>3. CASE Beat(d) BY <3>3 DEF Beat
    <3>4. CASE LoopEnds(d) BY <3>4 DEF LoopEnds
    <3>5. CASE Killed(d) BY <3>5 DEF Killed
    <3>6. CASE PidReused(d) BY <3>6 DEF PidReused
    <3>7. CASE Crashes(d) BY <3>7 DEF Crashes, ClearPid
    <3>8. CASE TermClears(d) BY <3>8 DEF TermClears, ClearPid
    <3>9. CASE TermClearsBeat(d) \/ ExitClearsBeat(d) \/ CrashClearsBeat(d)
      BY <3>9 DEF TermClearsBeat, ExitClearsBeat, CrashClearsBeat, ClearHeartbeat
    <3> QED BY <2>3, <3>1, <3>2, <3>3, <3>4, <3>5, <3>6, <3>7, <3>8, <3>9 DEF ExitStep
  <2>4. CASE Login BY <2>4 DEF Login, Born
  <2>5. CASE HeartbeatAges BY <2>5 DEF HeartbeatAges
  <2>6. CASE BlankAges BY <2>6 DEF BlankAges
  <2>7. CASE UNCHANGED vars BY <2>7 DEF vars
  <2> QED BY <2>1, <2>2, <2>3, <2>4, <2>5, <2>6, <2>7 DEF Next
<1> QED BY <1>1, <1>2, PTL DEF Spec

-----------------------------------------------------------------------------
\* Once disrespected, the slot stays so: hazards only grow (every UnlinkClaim).
LEMMA HazardsGrow ==
  ASSUME [Next]_vars, SlotRespected'
  PROVE  SlotRespected
<1> USE DEF SlotRespected
<1>1. ASSUME NEW n \in Nudger, NudgeStep(n) \/ KillDuplicate(n) \/ HookKilled(n) PROVE SlotRespected
  BY <1>1 DEF NudgeStep, CheckAlive, Reap, Busy, ClearStale, ClearStaleBeat, UnlinkStale,
              UnlinkClaim, Spawn, UnlinkPid, KillDuplicate, HookKilled
<1>2. ASSUME NEW d \in Daemon, StartStep(d) PROVE SlotRespected
  BY <1>2 DEF StartStep, OpenClaim, EvictClaim, UnlinkClaim, RetryClaim, PopulateClaim,
              PopulateFails, ClearOld, ClearOldBeat, WritePid, VerifyPid, FirstBeat
<1>3. ASSUME NEW d \in Daemon, ExitStep(d) \/ Beat(d) \/ LoopEnds(d) \/ Killed(d)
                                  \/ Crashes(d) \/ PidReused(d)
      PROVE  SlotRespected
  BY <1>3 DEF ExitStep, TermClears, TermClearsBeat, ExitClears, ExitClearsBeat,
              ExitReleases, CrashClearsBeat, UnlinkClaim, Beat, LoopEnds, Killed, Crashes,
              PidReused
<1>4. CASE Login \/ HeartbeatAges \/ BlankAges \/ UNCHANGED vars
  BY <1>4 DEF Login, HeartbeatAges, BlankAges, vars
<1> QED BY <1>1, <1>2, <1>3, <1>4 DEF Next

\* The body of SlotInv.
SlotHolds ==
  \A d \in Daemon :
    /\ InSlot(d) => claim = {d}
    /\ d \in pidfile /\ dpc[d] # "gone" => InSlot(d)
    /\ dpc[d] \in {"write", "verify", "beat"} => heartbeat = "none"

\* Steps of a hook.
LEMMA NudgeKeepsSlot ==
  ASSUME TypeOK, SlotHolds, SlotRespected, SlotRespected',
         NEW n \in Nudger, NudgeStep(n) \/ KillDuplicate(n) \/ HookKilled(n)
  PROVE  SlotHolds'
<1> USE DEF SlotHolds, InSlot, Alive, TypeOK, DaemonPc, SlotPc, Goto, NGoto, slot
<1>1. CASE CheckAlive(n) BY <1>1 DEF CheckAlive
<1>2. CASE Reap(n) BY <1>2 DEF Reap
<1>3. CASE Busy(n) BY <1>3 DEF Busy
<1>4. CASE ClearStale(n) BY <1>4 DEF ClearStale, ClearPid
<1>5. CASE UnlinkStale(n) BY <1>5 DEF UnlinkStale, UnlinkClaim, SlotRespected
<1>6. CASE Spawn(n) BY <1>6 DEF Spawn, Born, Spawnable
<1>7. CASE UnlinkPid(n) BY <1>7 DEF UnlinkPid
<1>8. CASE KillDuplicate(n) BY <1>8 DEF KillDuplicate, Terminated
<1>9. CASE ClearStaleBeat(n) BY <1>9 DEF ClearStaleBeat, ClearHeartbeat
<1>10. CASE HookKilled(n) BY <1>10 DEF HookKilled
<1> QED BY <1>1, <1>2, <1>3, <1>4, <1>5, <1>6, <1>7, <1>8, <1>9, <1>10 DEF NudgeStep

\* Steps of a starting daemon.
LEMMA StartKeepsSlot ==
  ASSUME TypeOK, SlotHolds, SlotRespected, SlotRespected', NEW d \in Daemon, StartStep(d)
  PROVE  SlotHolds'
<1> USE DEF SlotHolds, InSlot, Alive, TypeOK, DaemonPc, SlotPc, Goto, slot
<1>1. CASE OpenClaim(d) BY <1>1 DEF OpenClaim, CreateClaim
<1>2. CASE EvictClaim(d) BY <1>2 DEF EvictClaim, UnlinkClaim, SlotRespected
<1>3. CASE RetryClaim(d) BY <1>3 DEF RetryClaim, CreateClaim
<1>4. CASE PopulateClaim(d) BY <1>4 DEF PopulateClaim
<1>5. CASE PopulateFails(d) BY <1>5 DEF PopulateFails, UnlinkClaim
<1>6. CASE ClearOld(d) BY <1>6 DEF ClearOld, ClearPid
<1>7. CASE WritePid(d) BY <1>7 DEF WritePid
<1>8. CASE VerifyPid(d) BY <1>8 DEF VerifyPid
<1>9. CASE FirstBeat(d) BY <1>9 DEF FirstBeat
<1>10. CASE ClearOldBeat(d) BY <1>10 DEF ClearOldBeat, ClearHeartbeat
<1> QED BY <1>1, <1>2, <1>3, <1>4, <1>5, <1>6, <1>7, <1>8, <1>9, <1>10 DEF StartStep

\* Steps of a running, leaving or dying daemon.
LEMMA ExitKeepsSlot ==
  ASSUME TypeOK, SlotHolds, SlotRespected, SlotRespected', NEW d \in Daemon,
         ExitStep(d) \/ Beat(d) \/ LoopEnds(d) \/ Killed(d)
                                  \/ Crashes(d) \/ PidReused(d)
  PROVE  SlotHolds'
<1> USE DEF SlotHolds, InSlot, Alive, TypeOK, DaemonPc, SlotPc, Goto, slot
<1>1. CASE ExitClears(d) BY <1>1 DEF ExitClears, ClearPid
<1>2. CASE ExitReleases(d) BY <1>2 DEF ExitReleases, UnlinkClaim, Spawnable
<1>3. CASE Beat(d) BY <1>3 DEF Beat
<1>4. CASE LoopEnds(d) BY <1>4 DEF LoopEnds
<1>5. CASE Killed(d) BY <1>5 DEF Killed
<1>6. CASE PidReused(d) BY <1>6 DEF PidReused
<1>7. CASE Crashes(d) BY <1>7 DEF Crashes, ClearPid
<1>8. CASE TermClears(d) BY <1>8 DEF TermClears, ClearPid
<1>9. CASE TermClearsBeat(d) BY <1>9 DEF TermClearsBeat, ClearHeartbeat
<1>10. CASE ExitClearsBeat(d) BY <1>10 DEF ExitClearsBeat, ClearHeartbeat
<1>11. CASE CrashClearsBeat(d) BY <1>11 DEF CrashClearsBeat, ClearHeartbeat
<1> QED BY <1>1, <1>2, <1>3, <1>4, <1>5, <1>6, <1>7, <1>8, <1>9, <1>10, <1>11 DEF ExitStep

\* While no hook and no starting daemon unlinks the claim of a live daemon, the
\* claim, the pid file and the heartbeat belong to whoever is in the slot.
THEOREM SlotIsOwned == Spec => []SlotInv
<1>1. Init => SlotInv
  BY DEF Init, SlotInv, InSlot, Alive, SlotPc
<1>2. TypeOK /\ SlotInv /\ [Next]_vars => SlotInv'
  <2> SUFFICES ASSUME TypeOK, SlotInv, [Next]_vars, SlotRespected' PROVE SlotHolds'
    BY DEF SlotInv, SlotHolds
  <2>1. SlotRespected /\ SlotHolds
    BY HazardsGrow DEF SlotInv, SlotHolds
  <2>2. ASSUME NEW n \in Nudger, NudgeStep(n) \/ KillDuplicate(n) \/ HookKilled(n) PROVE SlotHolds'
    BY <2>1, <2>2, NudgeKeepsSlot
  <2>3. ASSUME NEW d \in Daemon, StartStep(d) PROVE SlotHolds'
    BY <2>1, <2>3, StartKeepsSlot
  <2>4. ASSUME NEW d \in Daemon, ExitStep(d) \/ Beat(d) \/ LoopEnds(d) \/ Killed(d)
                                  \/ Crashes(d) \/ PidReused(d)
        PROVE  SlotHolds'
    BY <2>1, <2>4, ExitKeepsSlot
  <2> USE DEF SlotHolds, InSlot, Alive, slot
  <2>5. CASE Login
    BY <2>1, <2>5 DEF Login, Born, Spawnable, Goto, TypeOK, SlotPc
  <2>6. CASE HeartbeatAges BY <2>1, <2>6 DEF HeartbeatAges
  <2>7. CASE BlankAges BY <2>1, <2>7 DEF BlankAges
  <2>8. CASE UNCHANGED vars BY <2>1, <2>8 DEF vars
  <2> QED BY <2>2, <2>3, <2>4, <2>5, <2>6, <2>7, <2>8 DEF Next
<1> QED BY <1>1, <1>2, TypeCorrect, PTL DEF Spec

\* At most one daemon is in the slot (worker.ts, _try_claim_worker_slot).
THEOREM OneDaemonInSlot == Spec => []OneInSlot
<1>1. SlotInv => OneInSlot
  BY DEF SlotInv, OneInSlot
<1> QED BY <1>1, SlotIsOwned, PTL

\* The pid file never names another live daemon than the one in the slot
\* (worker_daemon.ts, run_daemon).
THEOREM PidNamesOwner == Spec => []PidIsOwner
<1>1. SlotInv => PidIsOwner
  BY DEF SlotInv, PidIsOwner, Alive, InSlot
<1> QED BY <1>1, SlotIsOwned, PTL

\* A starting daemon is not judged by the heartbeat of an earlier one (worker.ts,
\* _reap_hung_worker).
THEOREM NoStarterReaped == Spec => []StartersSpared
<1>1. TypeOK /\ SlotInv => StartersSpared
  BY DEF SlotInv, StartersSpared, TypeOK
<1> QED BY <1>1, TypeCorrect, SlotIsOwned, PTL

-----------------------------------------------------------------------------
(* The claim file.                                                         *)

Owners == {d \in Daemon : InSlot(d)}

\* What a step may do to the claim file and to who is in the slot: create it where
\* there is none for one daemon, remove it, or leave it alone; nobody else enters.
LEMMA SlotMoves ==
  ASSUME TypeOK, [Next]_vars
  PROVE  \/ claim' \in {claim, {}} /\ Owners' \subseteq Owners
         \/ \E p \in Daemon : claim = {} /\ claim' = {p} /\ Owners' = Owners \cup {p}
<1> USE DEF Owners, InSlot, SlotPc, Goto, slot, Born
<1>0. dpc \in [Daemon -> DaemonPc]
  BY DEF TypeOK
<1>1. ASSUME NEW d \in Daemon, CreateClaim(d)
      PROVE  claim = {} /\ claim' = {d} /\ Owners' = Owners \cup {d}
  BY <1>0, <1>1 DEF CreateClaim
<1>2. ASSUME NEW d \in Daemon, StartStep(d), ~CreateClaim(d)
      PROVE  claim' \in {claim, {}} /\ Owners' \subseteq Owners
  <2>1. CASE OpenClaim(d) BY <1>0, <1>2, <2>1 DEF OpenClaim
  <2>2. CASE EvictClaim(d) BY <1>0, <2>2 DEF EvictClaim, UnlinkClaim
  <2>3. CASE RetryClaim(d) BY <1>0, <1>2, <2>3 DEF RetryClaim
  <2>4. CASE PopulateClaim(d) BY <1>0, <2>4 DEF PopulateClaim
  <2>5. CASE PopulateFails(d) BY <1>0, <2>5 DEF PopulateFails, UnlinkClaim
  <2>6. CASE ClearOld(d) \/ ClearOldBeat(d) \/ WritePid(d) \/ VerifyPid(d) \/ FirstBeat(d)
    BY <1>0, <2>6 DEF ClearOld, ClearOldBeat, WritePid, VerifyPid, FirstBeat
  <2> QED BY <1>2, <2>1, <2>2, <2>3, <2>4, <2>5, <2>6 DEF StartStep
<1>3. ASSUME NEW d \in Daemon, ExitStep(d) \/ Beat(d) \/ LoopEnds(d) \/ Killed(d)
                                  \/ Crashes(d) \/ PidReused(d)
      PROVE  claim' \in {claim, {}} /\ Owners' \subseteq Owners
  <2>1. CASE ExitReleases(d) BY <1>0, <2>1 DEF ExitReleases, UnlinkClaim
  <2>2. CASE ~ExitReleases(d)
    BY <1>0, <1>3, <2>2 DEF ExitStep, TermClears, TermClearsBeat, ExitClears, ExitClearsBeat,
                            CrashClearsBeat, Beat, LoopEnds, Killed, Crashes, PidReused
  <2> QED BY <2>1, <2>2
<1>4. ASSUME NEW n \in Nudger, NudgeStep(n) \/ KillDuplicate(n) \/ HookKilled(n)
      PROVE  claim' \in {claim, {}} /\ Owners' \subseteq Owners
  <2>1. CASE UnlinkStale(n) BY <1>0, <2>1 DEF UnlinkStale, UnlinkClaim
  <2>2. CASE Reap(n) BY <1>0, <2>2 DEF Reap
  <2>3. CASE KillDuplicate(n) BY <1>0, <2>3 DEF KillDuplicate, Terminated
  <2>4. CASE Spawn(n) BY <1>0, <2>4 DEF Spawn
  <2>5. CASE \/ CheckAlive(n) \/ Busy(n) \/ ClearStale(n) \/ ClearStaleBeat(n)
             \/ UnlinkPid(n) \/ HookKilled(n)
    BY <1>0, <2>5 DEF CheckAlive, Busy, ClearStale, ClearStaleBeat, UnlinkPid, HookKilled
  <2> QED BY <1>4, <2>1, <2>2, <2>3, <2>4, <2>5 DEF NudgeStep
<1>5. CASE Login BY <1>0, <1>5 DEF Login
<1>6. CASE HeartbeatAges \/ BlankAges \/ UNCHANGED vars
  BY <1>6 DEF HeartbeatAges, BlankAges, vars
<1> QED BY <1>1, <1>2, <1>3, <1>4, <1>5, <1>6 DEF Next

\* A step that leaves trust in the claim is a step of OwnedLock or none.
LEMMA NextSlot ==
  ASSUME TypeOK, SlotInv, SlotInv', [Next]_vars
  PROVE  [Slot!Next]_<<claim, Owners, SlotRespected>>
<1>1. CASE ~(SlotRespected)'
  BY <1>1 DEF Slot!Next
<1>2. CASE (SlotRespected)'
  <2>0. SlotRespected
    BY <1>2, HazardsGrow
  <2>1. /\ \A p \in Owners : claim = {p}
        /\ \A p \in Owners' : claim' = {p}
    BY <1>2, <2>0 DEF SlotInv, Owners
  <2>2. \A p \in Owners : Owners = {p} /\ p \in Daemon
    BY <2>1 DEF Owners
  <2>3. CASE claim' \in {claim, {}} /\ Owners' \subseteq Owners
    <3>1. CASE Owners' = Owners /\ claim' = claim
      BY <1>2, <2>0, <3>1
    <3>2. CASE Owners = {} /\ claim' # claim
      <4>1. Owners' = {} /\ claim' = {}
        BY <2>3, <3>2
      <4>2. Slot!Recover
        BY <3>2, <4>1 DEF Slot!Recover, Owners
      <4> QED BY <1>2, <2>0, <4>2 DEF Slot!Next
    <3>3. CASE Owners # {} /\ ~(Owners' = Owners /\ claim' = claim)
      <4>1. PICK p \in Owners : Owners = {p} /\ p \in Daemon /\ claim = {p}
        BY <2>1, <2>2, <3>3
      <4>2. Owners' = {}
        BY <2>1, <2>3, <3>3, <4>1
      <4>3. Slot!Leave(p)
        BY <2>3, <4>1, <4>2 DEF Slot!Leave, Owners
      <4> QED BY <1>2, <2>0, <4>1, <4>3 DEF Slot!Next
    <3> QED BY <2>3, <3>1, <3>2, <3>3
  <2>4. CASE \E p \in Daemon : claim = {} /\ claim' = {p} /\ Owners' = Owners \cup {p}
    <3>1. PICK p \in Daemon : claim = {} /\ claim' = {p} /\ Owners' = Owners \cup {p}
      BY <2>4
    <3>2. Owners = {} /\ Owners' = {p}
      BY <2>1, <3>1
    <3>3. Slot!Acquire(p)
      BY <3>1, <3>2 DEF Slot!Acquire, Owners
    <3> QED BY <1>2, <2>0, <3>3 DEF Slot!Next
  <2> QED BY <2>3, <2>4, SlotMoves
<1> QED BY <1>1, <1>2

\* The daemon slot implements OwnedLock: the claim file is created only where there is
\* none and removed only by its daemon or when none is in the slot, until a live
\* one's is unlinked (worker.ts, _try_claim_worker_slot).
THEOREM SlotImplemented == Spec => SlotIsLock
<1>1. Init => Slot!Init
  BY DEF Init, Slot!Init, InSlot, SlotPc, SlotRespected
<1>2. TypeOK /\ SlotInv /\ SlotInv' /\ [Next]_vars => [Slot!Next]_(Slot!lockVars)
  BY NextSlot DEF Owners, Slot!lockVars
<1> QED BY <1>1, <1>2, TypeCorrect, SlotIsOwned, PTL DEF Spec, SlotIsLock, Slot!Spec
=============================================================================
