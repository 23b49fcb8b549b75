--------------------------- MODULE WorkerLifecycle ---------------------------
(***************************************************************************)
(* Who may be the worker daemon: the claim file, the pid file and the      *)
(* heartbeat file, the start and end of a daemon (worker_daemon.ts,        *)
(* run_daemon) and the hooks that look after it (worker.ts,                *)
(* ensure_running).  One action per file system call or probe, since hooks *)
(* and daemons are separate processes.                                     *)
(*                                                                         *)
(* Data: a file is the daemon whose pid it holds; the heartbeat is its age *)
(* class.  Node cannot tell a pid's command line or creation time, so a    *)
(* pid is probed for existence only.                                       *)
(***************************************************************************)
EXTENDS Naturals, FiniteSets

CONSTANTS
  Daemon,      \* daemon processes that can live or be named by a file at once
  Nudger,      \* hook processes that call ensure_running
  Events,      \* which of Event happen
  MaxKills,    \* bound: daemons and hooks killed
  MaxReuses    \* bound: pids of dead daemons given to other programs

(***************************************************************************)
(* "login"      the login item or a daemon's own watchdog spawns a daemon  *)
(*              without asking ensure_running                              *)
(* "stall"      a live daemon needs more than a minute to fill the claim   *)
(*              file it created                                            *)
(* "duplicate"  worker --kill-duplicate finds another interpreter          *)
(***************************************************************************)
Event == {"login", "stall", "duplicate"}

ASSUME BoundsAreNat == MaxKills \in Nat /\ MaxReuses \in Nat
ASSUME EventsAreKnown == Events \subseteq Event

VARIABLES
  claim,      \* owner of worker.claim: {} or {d}
  blank,      \* the claim file has no content yet
  zombie,     \* ... and is older than a minute
  pidfile,    \* {} or {d}
  heartbeat,  \* "none", "fresh", "stale" (65 s), "hung" (WORKER_HUNG_THRESHOLD)
  dpc,        \* where each daemon is
  npc,        \* where each hook is in ensure_running
  reused,     \* dead daemons whose pid names another program
  kills, reuses,   \* counters of the bounds
  hazards     \* history

bounds == <<kills, reuses>>
slot == <<claim, blank, zombie>>
vars == <<slot, pidfile, heartbeat, dpc, npc, reused, bounds, hazards>>

(***************************************************************************)
(* hazards:                                                                *)
(*   "nudgeUnlink"    ensure_running unlinked the claim of a live daemon   *)
(*   "evictUnlink"    a starting daemon did, after judging it stale        *)
(*   "exitUnlink"     a leaving daemon did                                 *)
(*   "strangerKilled" a program that is no worker was killed as a worker   *)
(***************************************************************************)
Hazard == {"nudgeUnlink", "evictUnlink", "exitUnlink", "strangerKilled"}

\* The owner of the slot, from the creation of the claim file to its unlink.
SlotPc == {"populate", "clear", "clearBeat", "write", "verify", "lost", "beat", "running",
           "term", "termBeat", "exit", "exitBeat", "crashed", "release"}
DaemonPc == SlotPc \cup {"start", "evict", "retry", "gone"}
NudgerPc == {"idle", "reap", "busy", "clear", "clearBeat", "unlink", "spawn", "unlinkPid"}

Alive(d) == dpc[d] # "gone"
PidExists(d) == Alive(d) \/ d \in reused
InSlot(d) == dpc[d] \in SlotPc

Goto(d, at) == dpc' = [dpc EXCEPT ![d] = at]
NGoto(n, at) == npc' = [npc EXCEPT ![n] = at]

\* A process of the daemons by unlinks the claim file: a hazard, when the claim
\* is another live daemon's.
UnlinkClaim(by, hazard) ==
  /\ claim' = {} /\ blank' = FALSE /\ zombie' = FALSE
  /\ hazards' = IF \E d \in claim \ by : Alive(d)
                THEN hazards \cup {hazard} ELSE hazards

\* _clear_pid is two unlinks, of the pid file and then of the heartbeat, whoever
\* they belong to by then.
ClearPid == pidfile' = {} /\ UNCHANGED heartbeat

\* Mutant: the heartbeat of the last daemon stays.
HeartbeatStays == UNCHANGED <<pidfile, heartbeat>>

ClearHeartbeat == heartbeat' = "none" /\ UNCHANGED pidfile

Init ==
  /\ claim = {} /\ blank = FALSE /\ zombie = FALSE
  /\ pidfile = {} /\ heartbeat = "none"
  /\ dpc = [d \in Daemon |-> "gone"] /\ npc = [n \in Nudger |-> "idle"]
  /\ reused = {} /\ kills = 0 /\ reuses = 0 /\ hazards = {}

-----------------------------------------------------------------------------
(* ensure_running, from a hook.                                            *)

LivePid == {d \in pidfile : PidExists(d)}

\* is_worker_alive: the pid exists and the heartbeat is fresh.
CheckAlive(n) ==
  /\ npc[n] = "idle"
  /\ ~(heartbeat = "fresh" /\ LivePid # {})
  /\ NGoto(n, "reap")
  /\ UNCHANGED <<slot, pidfile, heartbeat, dpc, reused, bounds, hazards>>

\* Mutant: a hung daemon counts as busy.
NeverReap(n) ==
  /\ npc[n] = "reap"
  /\ NGoto(n, "busy")
  /\ UNCHANGED <<slot, pidfile, heartbeat, dpc, reused, bounds, hazards>>

\* _reap_hung_worker: kill whatever has the pid when the heartbeat is too old.
Reap(n) ==
  /\ npc[n] = "reap"
  /\ IF LivePid # {} /\ heartbeat = "hung"
     THEN /\ NGoto(n, "clear")
          /\ dpc' = [d \in Daemon |-> IF d \in LivePid THEN "gone" ELSE dpc[d]]
          /\ reused' = reused \ LivePid
          /\ hazards' = IF LivePid \cap reused # {}
                        THEN hazards \cup {"strangerKilled"} ELSE hazards
     ELSE NGoto(n, "busy") /\ UNCHANGED <<dpc, reused, hazards>>
  /\ UNCHANGED <<slot, pidfile, heartbeat, bounds>>

\* A live process without a fresh heartbeat is busy: leave it alone.
Busy(n) ==
  /\ npc[n] = "busy"
  /\ NGoto(n, IF LivePid # {} THEN "idle" ELSE "clear")
  /\ UNCHANGED <<slot, pidfile, heartbeat, dpc, reused, bounds, hazards>>

ClearStale(n) ==
  /\ npc[n] = "clear"
  /\ ClearPid
  /\ NGoto(n, "clearBeat")
  /\ UNCHANGED <<slot, dpc, reused, bounds, hazards>>

ClearStaleBeat(n) ==
  /\ npc[n] = "clearBeat"
  /\ ClearHeartbeat
  /\ NGoto(n, "unlink")
  /\ UNCHANGED <<slot, dpc, reused, bounds, hazards>>

\* The claim file goes too, whoever holds it by now.
UnlinkStale(n) ==
  /\ npc[n] = "unlink"
  /\ UnlinkClaim({}, "nudgeUnlink")
  /\ NGoto(n, "spawn")
  /\ UNCHANGED <<pidfile, heartbeat, dpc, reused, bounds>>

\* A daemon that is gone, and that no file names, is a new process.
Spawnable(d) == dpc[d] = "gone" /\ d \notin claim \cup pidfile

Born(d) == Spawnable(d) /\ Goto(d, "start") /\ reused' = reused \ {d}

\* The bound: the model has no daemon left, all live or are named by a file.
Crowded == \A d \in Daemon : ~Spawnable(d)

\* The spawn fails at the bound only.
Spawn(n) ==
  /\ npc[n] = "spawn"
  /\ \/ \E d \in Daemon : Born(d)
     \/ Crowded /\ UNCHANGED <<dpc, reused>>
  /\ NGoto(n, "idle")
  /\ UNCHANGED <<slot, pidfile, heartbeat, bounds, hazards>>

Login ==
  /\ "login" \in Events
  /\ \E d \in Daemon : Born(d)
  /\ UNCHANGED <<slot, pidfile, heartbeat, npc, bounds, hazards>>

\* kill_duplicate_daemon: SIGTERM to the pid of the file.  A daemon that has its
\* signal handler survives it: without a stop event the handler only clears the
\* files, and the daemon goes on.
Handles(d) == dpc[d] \in {"running", "term", "termBeat", "exit"}

Terminated ==
  [d \in Daemon |-> IF d \notin LivePid \/ (Handles(d) /\ dpc[d] # "running") THEN dpc[d]
                    ELSE IF dpc[d] = "running" THEN "term" ELSE "gone"]

KillDuplicate(n) ==
  /\ npc[n] = "idle" /\ "duplicate" \in Events /\ LivePid # {}
  /\ NGoto(n, "unlinkPid")
  /\ dpc' = Terminated
  /\ reused' = reused \ LivePid
  /\ hazards' = IF LivePid \cap reused # {}
                THEN hazards \cup {"strangerKilled"} ELSE hazards
  /\ UNCHANGED <<slot, pidfile, heartbeat, bounds>>

UnlinkPid(n) ==
  /\ npc[n] = "unlinkPid"
  /\ pidfile' = {}
  /\ NGoto(n, "idle")
  /\ UNCHANGED <<slot, heartbeat, dpc, reused, bounds, hazards>>

-----------------------------------------------------------------------------
(* A daemon: _try_claim_worker_slot and run_daemon.                        *)

\* Its owner is gone, or it stayed blank for more than a minute.
ClaimIsStale == IF blank THEN zombie ELSE \E d \in claim : ~PidExists(d)

\* Mutant: without O_EXCL.
CreateShared(d) ==
  /\ claim' = {d} /\ blank' = TRUE /\ zombie' = FALSE
  /\ Goto(d, "populate")

CreateClaim(d) ==
  /\ claim = {}
  /\ claim' = {d} /\ blank' = TRUE /\ zombie' = FALSE
  /\ Goto(d, "populate")

\* Mutant: a daemon that is refused removes the claim on its way out.
OpenRefusedUnlinks(d) ==
  /\ dpc[d] = "start"
  /\ \/ CreateClaim(d)
     \/ /\ claim # {} /\ Goto(d, IF ClaimIsStale THEN "evict" ELSE "gone")
        /\ claim' = {} /\ blank' = FALSE /\ zombie' = FALSE
  /\ UNCHANGED <<pidfile, heartbeat, npc, reused, bounds, hazards>>

OpenClaim(d) ==
  /\ dpc[d] = "start"
  /\ \/ CreateClaim(d)
     \/ claim # {} /\ Goto(d, IF ClaimIsStale THEN "evict" ELSE "gone") /\ UNCHANGED slot
  /\ UNCHANGED <<pidfile, heartbeat, npc, reused, bounds, hazards>>

EvictClaim(d) ==
  /\ dpc[d] = "evict"
  /\ UnlinkClaim({d}, "evictUnlink")
  /\ Goto(d, "retry")
  /\ UNCHANGED <<pidfile, heartbeat, npc, reused, bounds>>

\* Mutant: the second attempt's refusal goes unnoticed.
RetryUnnoticed(d) ==
  /\ dpc[d] = "retry"
  /\ \/ CreateClaim(d)
     \/ claim # {} /\ Goto(d, "clear") /\ UNCHANGED slot
  /\ UNCHANGED <<pidfile, heartbeat, npc, reused, bounds, hazards>>

RetryClaim(d) ==
  /\ dpc[d] = "retry"
  /\ \/ CreateClaim(d)
     \/ claim # {} /\ Goto(d, "gone") /\ UNCHANGED slot
  /\ UNCHANGED <<pidfile, heartbeat, npc, reused, bounds, hazards>>

\* The content goes to the file it created, if that still has its name.
PopulateClaim(d) ==
  /\ dpc[d] = "populate"
  /\ IF claim = {d} THEN blank' = FALSE /\ zombie' = FALSE ELSE UNCHANGED <<blank, zombie>>
  /\ Goto(d, "clear")
  /\ UNCHANGED <<claim, pidfile, heartbeat, npc, reused, bounds, hazards>>

\* The content cannot be written: unlink the claim file and leave.
PopulateFails(d) ==
  /\ dpc[d] = "populate"
  /\ UnlinkClaim({d}, "exitUnlink")
  /\ Goto(d, "gone")
  /\ UNCHANGED <<pidfile, heartbeat, npc, reused, bounds>>

ClearOld(d) ==
  /\ dpc[d] = "clear"
  /\ ClearPid
  /\ Goto(d, "clearBeat")
  /\ UNCHANGED <<slot, npc, reused, bounds, hazards>>

ClearOldBeat(d) ==
  /\ dpc[d] = "clearBeat"
  /\ ClearHeartbeat
  /\ Goto(d, "write")
  /\ UNCHANGED <<slot, npc, reused, bounds, hazards>>

WritePid(d) ==
  /\ dpc[d] = "write"
  /\ pidfile' = {d}
  /\ Goto(d, "verify")
  /\ UNCHANGED <<slot, heartbeat, npc, reused, bounds, hazards>>

\* Leave when the pid file names another daemon; go on when it is missing.
VerifyPid(d) ==
  /\ dpc[d] = "verify"
  /\ Goto(d, IF pidfile \subseteq {d} THEN "beat" ELSE "lost")
  /\ UNCHANGED <<slot, pidfile, heartbeat, npc, reused, bounds, hazards>>

FirstBeat(d) ==
  /\ dpc[d] = "beat"
  /\ heartbeat' = "fresh"
  /\ Goto(d, "running")
  /\ UNCHANGED <<slot, pidfile, npc, reused, bounds, hazards>>

Beat(d) ==
  /\ dpc[d] = "running"
  /\ heartbeat' = "fresh" /\ UNCHANGED dpc
  /\ UNCHANGED <<slot, pidfile, npc, reused, bounds, hazards>>

\* The signal handler of a running daemon.
TermClears(d) ==
  /\ dpc[d] = "term"
  /\ ClearPid
  /\ Goto(d, "termBeat")
  /\ UNCHANGED <<slot, npc, reused, bounds, hazards>>

TermClearsBeat(d) ==
  /\ dpc[d] = "termBeat"
  /\ ClearHeartbeat
  /\ Goto(d, "running")
  /\ UNCHANGED <<slot, npc, reused, bounds, hazards>>

\* The loop ends: its only tick is over, a signal came, or an upgrade.
LoopEnds(d) ==
  /\ dpc[d] = "running"
  /\ Goto(d, "exit")
  /\ UNCHANGED <<slot, pidfile, heartbeat, npc, reused, bounds, hazards>>

\* The finally block: clear the pid file and the heartbeat, ...
ExitClears(d) ==
  /\ dpc[d] \in {"exit", "lost"}
  /\ ClearPid
  /\ Goto(d, "exitBeat")
  /\ UNCHANGED <<slot, npc, reused, bounds, hazards>>

ExitClearsBeat(d) ==
  /\ dpc[d] = "exitBeat"
  /\ ClearHeartbeat
  /\ Goto(d, "release")
  /\ UNCHANGED <<slot, npc, reused, bounds, hazards>>

\* ... unlink the claim file, whoever they belong to, and after an upgrade start
\* the next daemon.
ExitReleases(d) ==
  /\ dpc[d] = "release"
  /\ UnlinkClaim({d}, "exitUnlink")
  /\ \/ Goto(d, "gone") /\ UNCHANGED reused
     \/ \E e \in Daemon :
          /\ Spawnable(e)
          /\ dpc' = [dpc EXCEPT ![d] = "gone", ![e] = "start"]
          /\ reused' = reused \ {e}
  /\ UNCHANGED <<pidfile, heartbeat, npc, bounds>>

-----------------------------------------------------------------------------
(* The rest of the world.                                                  *)

Killed(d) ==
  /\ Alive(d) /\ kills < MaxKills
  /\ kills' = kills + 1
  /\ Goto(d, "gone")
  /\ UNCHANGED <<slot, pidfile, heartbeat, npc, reused, reuses, hazards>>

\* A hook is stopped in the middle of ensure_running.
HookKilled(n) ==
  /\ npc[n] # "idle" /\ kills < MaxKills
  /\ kills' = kills + 1
  /\ NGoto(n, "idle")
  /\ UNCHANGED <<slot, pidfile, heartbeat, dpc, reused, reuses, hazards>>

\* An uncaught error ends it: its exit listener clears the files, nobody the claim.
Crashes(d) ==
  /\ InSlot(d) /\ dpc[d] \notin {"populate", "crashed"} /\ kills < MaxKills
  /\ kills' = kills + 1
  /\ IF dpc[d] = "lost" THEN Goto(d, "gone") /\ UNCHANGED <<pidfile, heartbeat>>
                        ELSE Goto(d, "crashed") /\ ClearPid
  /\ UNCHANGED <<slot, npc, reused, reuses, hazards>>

CrashClearsBeat(d) ==
  /\ dpc[d] = "crashed"
  /\ ClearHeartbeat
  /\ Goto(d, "gone")
  /\ UNCHANGED <<slot, npc, reused, bounds, hazards>>

PidReused(d) ==
  /\ dpc[d] = "gone" /\ d \in (claim \cup pidfile) \ reused /\ reuses < MaxReuses
  /\ reuses' = reuses + 1
  /\ reused' = reused \cup {d}
  /\ UNCHANGED <<slot, pidfile, heartbeat, dpc, npc, kills, hazards>>

HeartbeatAges ==
  /\ heartbeat \in {"fresh", "stale"}
  /\ heartbeat' = IF heartbeat = "fresh" THEN "stale" ELSE "hung"
  /\ UNCHANGED <<slot, pidfile, dpc, npc, reused, kills, reuses, hazards>>

BlankAges ==
  /\ blank /\ ~zombie
  /\ "stall" \in Events \/ \A d \in claim : ~Alive(d)
  /\ zombie' = TRUE
  /\ UNCHANGED <<claim, blank, pidfile, heartbeat, dpc, npc, reused, kills,
                 reuses, hazards>>

NudgeStep(n) ==
  \/ CheckAlive(n) \/ Reap(n) \/ Busy(n) \/ ClearStale(n) \/ ClearStaleBeat(n)
  \/ UnlinkStale(n) \/ Spawn(n) \/ UnlinkPid(n)
StartStep(d) ==
  \/ OpenClaim(d) \/ EvictClaim(d) \/ RetryClaim(d) \/ PopulateClaim(d)
  \/ PopulateFails(d) \/ ClearOld(d) \/ ClearOldBeat(d) \/ WritePid(d) \/ VerifyPid(d)
  \/ FirstBeat(d)
ExitStep(d) ==
  \/ TermClears(d) \/ TermClearsBeat(d) \/ ExitClears(d) \/ ExitClearsBeat(d)
  \/ ExitReleases(d) \/ CrashClearsBeat(d)

Next ==
  \/ \E n \in Nudger : NudgeStep(n) \/ KillDuplicate(n) \/ HookKilled(n)
  \/ \E d \in Daemon :
       \/ StartStep(d) \/ Beat(d) \/ LoopEnds(d) \/ ExitStep(d)
       \/ Killed(d) \/ Crashes(d) \/ PidReused(d)
  \/ Login \/ HeartbeatAges \/ BlankAges

Spec == Init /\ [][Next]_vars

\* Hooks keep coming, started daemons go on, and time passes.
FairSpec ==
  /\ Spec
  /\ \A n \in Nudger : WF_vars(NudgeStep(n))
  /\ \A d \in Daemon : WF_vars(StartStep(d) \/ ExitStep(d))
  /\ WF_vars(HeartbeatAges)

-----------------------------------------------------------------------------
TypeOK ==
  /\ claim \in SUBSET Daemon /\ pidfile \in SUBSET Daemon
  /\ \A d, e \in claim : d = e
  /\ blank \in BOOLEAN /\ zombie \in BOOLEAN
  /\ heartbeat \in {"none", "fresh", "stale", "hung"}
  /\ dpc \in [Daemon -> DaemonPc] /\ npc \in [Nudger -> NudgerPc]
  /\ reused \in SUBSET Daemon
  /\ kills \in 0..MaxKills /\ reuses \in 0..MaxReuses
  /\ hazards \in SUBSET Hazard

\* Nobody took the claim of a live daemon by mistake.
SlotRespected == {"nudgeUnlink", "evictUnlink"} \cap hazards = {}

\* At most one daemon is between its claim and the release of it, through kills,
\* failed starts, restarts and exits, until a hook or a starting daemon unlinks
\* the claim of a live one (worker.ts, _try_claim_worker_slot).
OneInSlot == SlotRespected => \A d, e \in Daemon : InSlot(d) /\ InSlot(e) => d = e

\* The worker slot is an OwnedLock, its file the claim: created only where there is
\* none, removed only by its daemon or when none is in the slot, although hooks
\* kill daemons and unlink files by name (worker.ts, _try_claim_worker_slot).
Slot == INSTANCE OwnedLock WITH Process <- Daemon, file <- claim,
                                inside <- {d \in Daemon : InSlot(d)},
                                trusted <- SlotRespected
SlotIsLock == Slot!Spec

\* While the slot is respected the pid file never names another live daemon than
\* the one in the slot: status and reaping look at the right process
\* (worker_daemon.ts, run_daemon).
PidIsOwner ==
  SlotRespected =>
    \A d, e \in Daemon : d \in pidfile /\ Alive(d) /\ InSlot(e) => d = e

\* While the slot is respected a daemon that has yet to write its first heartbeat
\* is not judged, and killed as hung, by the heartbeat of one before it
\* (worker.ts, _reap_hung_worker).
StartersSpared ==
  SlotRespected =>
    \A d \in pidfile : dpc[d] \in {"verify", "beat"} => heartbeat = "none"

\* The daemon of the pid file is running and its heartbeat is fresh.
Healthy == heartbeat = "fresh" /\ \E d \in pidfile : dpc[d] = "running"

\* The pid file names an existing process and there is no heartbeat to judge it by,
\* or another daemon writes it: ensure_running answers "busy", or "alive".
Unjudged ==
  /\ LivePid # {}
  /\ heartbeat = "none" \/ \E e \in Daemon \ pidfile : dpc[e] = "running"

\* Somebody else removes the claim or the pid file of a live daemon, or kills it in
\* its start, by the heartbeat of another; or it cannot fill the claim it created.
Disturbance ==
  \E d \in Daemon :
    \/ Alive(d) /\ dpc'[d] = dpc[d] /\ d \in (claim \ claim') \cup (pidfile \ pidfile')
    \/ dpc[d] \in {"verify", "beat"} /\ dpc'[d] = "gone"
    \/ PopulateFails(d)

\* Again and again a healthy daemon runs: stale files, a hung daemon, kills, a pid
\* file or a heartbeat removed by the daemon before, and failed starts do not keep
\* the worker down.  The exceptions: hooks and leaving daemons disturb live ones for
\* ever; or the pid file names, for ever, a process without a heartbeat of its own,
\* the busy case of worker.ts, ensure_running.  Crowded is the bound.
WorkerReturns ==
  \/ []<>Healthy
  \/ []<><<Disturbance>>_vars
  \/ <>[]Unjudged
  \/ <>[]Crowded

-----------------------------------------------------------------------------
(* What comments of the code say.                                          *)

\* "ensure exactly one healthy worker is running": not two of them.
ExactlyOneWorker == \A d, e \in Daemon : dpc[d] = "running" /\ dpc[e] = "running" => d = e

\* "ensure exactly one healthy worker is running": again and again one is.
WorkerComesUp == []<>Healthy

\* "Atomically claim the single-worker slot": two daemons that start at once do
\* not both get it, as long as no hook unlinks the claim.
ClaimIsAtomic ==
  "nudgeUnlink" \notin hazards => \A d, e \in Daemon : InSlot(d) /\ InSlot(e) => d = e

\* "PID from the pid file, but only if it names a live token-goat-worker process".
ReapsOnlyWorkers == "strangerKilled" \notin hazards

\* "another process won the startup race": the loser leaves the winner its pid
\* file.
LoserLeavesWinner ==
  [][\A d, e \in Daemon :
       /\ dpc[d] = "lost" /\ dpc'[d] = "exitBeat"
       /\ dpc[e] = "running" /\ pidfile = {e}
       => pidfile' = {e}]_vars

-----------------------------------------------------------------------------
(* Why the slot is safe: the claim file names whoever is in it, and the pid *)
(* file and the heartbeat left by the one before are cleared first.        *)
SlotInv ==
  SlotRespected =>
    \A d \in Daemon :
      /\ InSlot(d) => claim = {d}
      /\ d \in pidfile /\ dpc[d] # "gone" => InSlot(d)
      /\ dpc[d] \in {"write", "verify", "beat"} => heartbeat = "none"
=============================================================================
