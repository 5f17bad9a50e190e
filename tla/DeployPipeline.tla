--------------------------- MODULE DeployPipeline ---------------------------
(***************************************************************************)
(* The autonomous integrate-and-deploy pipeline: src/integrations.js (the  *)
(* durable stage graph), deploy_orchestrator.js (the queue driver),        *)
(* integrator.js (the gate), publisher.js (publish, soak, rollback, boot   *)
(* reconciliation, watchdog) and the detached bin/deploy they spawn.       *)
(*                                                                         *)
(* One server process is live at a time.  Every SQLite transaction is an   *)
(* action of its own, and so is every write to the repository: the process *)
(* may die, and anything else may happen, between any two of them.  A read *)
(* of the repository that is awaited just before a transition is part of   *)
(* the transition's action: what others do in between either leaves the    *)
(* row alone, and commutes with the transition, or changes its stage or    *)
(* fence, and the transition is refused.                                   *)
(*                                                                         *)
(* Deadlines are abstracted to "ahead" and "past"; a clock action moves    *)
(* them at any moment (the host may sleep, so even timers that are minutes *)
(* apart may fire in any order).  The watchdog's margins are zero.         *)
(***************************************************************************)
EXTENDS Naturals, FiniteSets

CONSTANTS
  MaxIntegrations,  \* bound on enqueued integrations
  Successes,        \* SUCCESSES: consecutive good probes before a soak ends
  MaxBoots,         \* bound on server starts
  PushLimit,        \* bound on main's length up to which others push to it
  MaxFence          \* bound on fences up to which a second process starts

ASSUME PipelineAssumption ==
  /\ MaxIntegrations \in Nat
  /\ Successes \in Nat \ {0}
  /\ MaxBoots \in Nat \ {0}
  /\ PushLimit \in Nat
  /\ MaxFence \in Nat

Ids == 1 .. MaxIntegrations     \* in created_at order

VARIABLES
  \* the rows of the integrations table
  stage,        \* "ABSENT" before enqueue()
  fence,        \* fence_token
  code,         \* failure_code, "none" for null
  deadline,     \* health_deadline against the clock
  base,         \* the main the candidate was rebased on, 0 before the gate
  rollbackSha,  \* rollback_sha: the main position of the revert, 0 for null
  \* the repository: main is a history of commits 1..main
  main,
  landed,       \* where the candidate entered main, 0 while it has not
  revertAt,     \* where its revert entered main, 0 while it has not
  \* the detached bin/deploy processes, they outlive the server
  child,
  \* the live server process
  served,       \* COMMIT_SHA: the main position checked out at boot
  boot,         \* BOOT_ID
  orc,          \* orchestrateOnce with the driveGate/drivePublish it awaits
  loop,         \* verifyLoop and the startRollback it awaits, per integration
  ticker        \* reconcile() is scheduled

rows == <<stage, fence, code, deadline, base, rollbackSha>>
repo == <<main, landed, revertAt>>
memory == <<orc, loop, ticker>>
vars == <<rows, repo, child, served, boot, memory>>

-----------------------------------------------------------------------------
(***************************************************************************)
(* The stage graph (integrations.js).                                      *)
(***************************************************************************)
Terminal == {"GREEN", "REJECTED", "ROLLED_BACK", "SUPERSEDED"}
GateStages == {"PREPARING", "CHECKING", "APPROVED"}
ForwardPath == {"PUBLISHING", "MAIN_PUBLISHED", "RESTART_REQUESTED", "VERIFYING"}
RollbackPath == {"ROLLING_BACK", "ROLLBACK_PUBLISHED",
                 "ROLLBACK_RESTART_REQUESTED", "ROLLBACK_VERIFYING"}
Active == GateStages \cup ForwardPath \cup RollbackPath
Stages == {"QUEUED", "HELD"} \cup Active \cup Terminal

NextStages(s) ==
  CASE s = "QUEUED" -> {"PREPARING", "REJECTED", "HELD", "SUPERSEDED"}
    [] s = "PREPARING" -> {"CHECKING", "REJECTED", "HELD"}
    [] s = "CHECKING" -> {"APPROVED", "REJECTED", "HELD"}
    [] s = "APPROVED" -> {"PUBLISHING", "REJECTED", "HELD"}
    [] s = "PUBLISHING" -> {"MAIN_PUBLISHED", "ROLLING_BACK", "HELD"}
    [] s = "MAIN_PUBLISHED" -> {"RESTART_REQUESTED", "ROLLING_BACK", "HELD"}
    [] s = "RESTART_REQUESTED" -> {"VERIFYING", "ROLLING_BACK", "HELD"}
    [] s = "VERIFYING" -> {"GREEN", "ROLLING_BACK", "HELD", "SUPERSEDED"}
    [] s = "ROLLING_BACK" -> {"ROLLBACK_PUBLISHED", "HELD"}
    [] s = "ROLLBACK_PUBLISHED" -> {"ROLLBACK_RESTART_REQUESTED", "HELD"}
    [] s = "ROLLBACK_RESTART_REQUESTED" -> {"ROLLBACK_VERIFYING", "HELD"}
    [] s = "ROLLBACK_VERIFYING" -> {"ROLLED_BACK", "HELD"}
    [] s = "HELD" -> {"QUEUED", "REJECTED", "ROLLED_BACK", "VERIFYING"}
    [] OTHER -> {}

(***************************************************************************)
(* An operator whose comment calls it faulty is a variant that plays no    *)
(* part in the specification: it stands in for the definition it precedes  *)
(* to show which property notices.                                         *)
(*                                                                         *)
(* Failure codes: those some code path branches on by name, the rest one.  *)
(***************************************************************************)
MechanicalStuck == {"deploy_died_before_restart", "deploy_not_served",
                    "not_fast_forward", "no_repo_or_candidate"}
Codes == MechanicalStuck \cup
         {"none", "served_release_recovery", "gate_interrupted", "other"}

\* Faulty: a parked integration does not count.
OccupiesIgnoringHeld(i) == stage[i] \in Active

Occupies(i) == stage[i] \in Active \cup {"HELD"}

(***************************************************************************)
(* occupiedBy() and nextQueued(): the oldest row of either kind.           *)
(***************************************************************************)
Occupied == \E i \in Ids : Occupies(i)
Occupant(i) == Occupies(i) /\ \A j \in Ids : j < i => ~Occupies(j)

\* Faulty: any queued row, not the oldest.
AnyQueued(i) == stage[i] = "QUEUED"

NextQueued(i) ==
  stage[i] = "QUEUED" /\ \A j \in Ids : j < i => stage[j] # "QUEUED"

(***************************************************************************)
(* transition() returns or throws.  A throw changes nothing.               *)
(***************************************************************************)
\* Faulty: the token is not compared.
FenceIgnored(i, ft) == TRUE

FenceOk(i, ft) == ft = fence[i]

CanTransition(i, to, ft) ==
  /\ FenceOk(i, ft)
  /\ to \in NextStages(stage[i])
  /\ to \in Active => \A j \in Ids \ {i} : ~Occupies(j)

Move(i, to) == stage' = [stage EXCEPT ![i] = to]
SetCode(i, c) == code' = [code EXCEPT ![i] = c]
SetDeadline(i, d) == deadline' = [deadline EXCEPT ![i] = d]

KeepRow == UNCHANGED <<fence, base, rollbackSha>>

(***************************************************************************)
(* A transition that may patch failure_code, and safeHold(): the HELD      *)
(* transition whose failure is only logged.                                *)
(***************************************************************************)
Patch(i, to, c) ==
  /\ Move(i, to)
  /\ SetCode(i, c)
  /\ UNCHANGED deadline
  /\ KeepRow

SafeHold(i, ft, c) ==
  IF CanTransition(i, "HELD", ft) THEN Patch(i, "HELD", c) ELSE UNCHANGED rows

-----------------------------------------------------------------------------
(***************************************************************************)
(* Two episodes share the soak code; "superseded" is the forward one with  *)
(* another ending.                                                         *)
(***************************************************************************)
Episodes == {"forward", "rollback", "superseded"}
Kinds == {"forward", "rollback"}

VerifyStage(ep) == IF ep = "rollback" THEN "ROLLBACK_VERIFYING" ELSE "VERIFYING"
SuccessStage(ep) == CASE ep = "forward" -> "GREEN"
                      [] ep = "rollback" -> "ROLLED_BACK"
                      [] OTHER -> "SUPERSEDED"

EpisodeOf(i) ==
  CASE stage[i] = "VERIFYING" /\ code[i] = "served_release_recovery" -> "superseded"
    [] stage[i] \in RollbackPath -> "rollback"
    [] OTHER -> "forward"

WalkStep(s) ==
  CASE s = "PUBLISHING" -> "MAIN_PUBLISHED"
    [] s = "MAIN_PUBLISHED" -> "RESTART_REQUESTED"
    [] s = "RESTART_REQUESTED" -> "VERIFYING"
    [] s = "ROLLING_BACK" -> "ROLLBACK_PUBLISHED"
    [] s = "ROLLBACK_PUBLISHED" -> "ROLLBACK_RESTART_REQUESTED"
    [] s = "ROLLBACK_RESTART_REQUESTED" -> "ROLLBACK_VERIFYING"
    [] OTHER -> s

(***************************************************************************)
(* servedHasCandidate(): the episode's commit is in the history of the     *)
(* commit this process was started from.                                   *)
(***************************************************************************)
ExpectedAt(i, ep) == IF ep = "rollback" THEN rollbackSha[i] ELSE landed[i]

\* Faulty: on main, but not in the release that runs.
ServedHasOnMain(i, ep) == ExpectedAt(i, ep) # 0

\* Faulty: a commit that nobody has seen is taken for an old one.
ServedHasUnseen(i, ep) == ExpectedAt(i, ep) <= served

ServedHas(i, ep) == ExpectedAt(i, ep) # 0 /\ ExpectedAt(i, ep) <= served

(***************************************************************************)
(* verifyLoop(): at most one per integration (the _verifying set).         *)
(***************************************************************************)
LoopOff == [pc |-> "off", ft |-> 0, ep |-> "forward", ok |-> 0]
NewLoop(ft, ep) == [pc |-> "probe", ft |-> ft, ep |-> ep, ok |-> 0]

StartLoop(i, ft, ep) ==
  loop' = IF loop[i].pc = "off" THEN [loop EXCEPT ![i] = NewLoop(ft, ep)] ELSE loop
StopLoop(i) == loop' = [loop EXCEPT ![i] = LoopOff]
LoopGoes(i, pc) == loop' = [loop EXCEPT ![i].pc = pc]

OrcIdle == [pc |-> "idle", row |-> 0, ft |-> 0]
OrcGoes(pc, i, ft) == orc' = [pc |-> pc, row |-> i, ft |-> ft]

Init ==
  /\ stage = [i \in Ids |-> "ABSENT"]
  /\ fence = [i \in Ids |-> 0]
  /\ code = [i \in Ids |-> "none"]
  /\ deadline = [i \in Ids |-> "unset"]
  /\ base = [i \in Ids |-> 0]
  /\ rollbackSha = [i \in Ids |-> 0]
  /\ main = 1
  /\ landed = [i \in Ids |-> 0]
  /\ revertAt = [i \in Ids |-> 0]
  /\ child = [i \in Ids |-> [k \in Kinds |-> "none"]]
  /\ served = 1
  /\ boot = 1
  /\ orc = OrcIdle
  /\ loop = [i \in Ids |-> LoopOff]
  /\ ticker = TRUE

-----------------------------------------------------------------------------
(***************************************************************************)
(* enqueue().                                                              *)
(***************************************************************************)
Enqueue(i) ==
  /\ stage[i] = "ABSENT"
  /\ \A j \in Ids : j < i => stage[j] # "ABSENT"
  /\ Move(i, "QUEUED")
  /\ fence' = [fence EXCEPT ![i] = 1]
  /\ UNCHANGED <<code, deadline, base, rollbackSha, repo, child, served, boot, memory>>

-----------------------------------------------------------------------------
(***************************************************************************)
(* orchestrateOnce(), then driveGate() and drivePublish() inside it.       *)
(*                                                                         *)
(* OrcStep names what a transition of the worker does to its own control:  *)
(* a throw ends the pass (the catch and finally of orchestrateOnce).       *)
(***************************************************************************)
World == <<repo, child, served, boot, loop, ticker>>

\* Faulty: no finally, a transition that throws leaves _busy set.
OrcMoveNoFinally(i, to, c, pc) ==
  IF CanTransition(i, to, orc.ft)
  THEN Patch(i, to, c) /\ (IF pc = "idle" THEN orc' = OrcIdle ELSE OrcGoes(pc, i, orc.ft))
  ELSE UNCHANGED rows /\ UNCHANGED orc

OrcMove(i, to, c, pc) ==
  IF CanTransition(i, to, orc.ft)
  THEN Patch(i, to, c) /\ (IF pc = "idle" THEN orc' = OrcIdle ELSE OrcGoes(pc, i, orc.ft))
  ELSE UNCHANGED rows /\ orc' = OrcIdle

(***************************************************************************)
(* Past the _busy, occupied and empty early returns.                       *)
(***************************************************************************)
Dequeue(i) ==
  /\ orc.pc = "idle"
  /\ ~Occupied
  /\ NextQueued(i)
  /\ OrcGoes("claimed", i, fence[i])
  /\ UNCHANGED rows
  /\ UNCHANGED World

(***************************************************************************)
(* The per-project switches are off, the breaker is open, or the row has   *)
(* no repository.  Every one of them rejects with a freshly read token.    *)
(***************************************************************************)
RefuseClaim(i) ==
  /\ orc.pc = "claimed" /\ orc.row = i
  /\ IF CanTransition(i, "REJECTED", fence[i])
     THEN \E c \in {"no_repo_or_candidate", "other"} : Patch(i, "REJECTED", c)
     ELSE UNCHANGED rows
  /\ orc' = OrcIdle
  /\ UNCHANGED World

ClaimGate(i) ==
  /\ orc.pc = "claimed" /\ orc.row = i
  /\ IF CanTransition(i, "PREPARING", fence[i])
     THEN Patch(i, "PREPARING", code[i]) /\ OrcGoes("prepare", i, fence[i])
     ELSE UNCHANGED rows /\ orc' = OrcIdle
  /\ UNCHANGED World

GateStops(i) ==
  /\ orc.pc \in {"prepare", "check"} /\ orc.row = i
  /\ \E to \in {"HELD", "REJECTED"} : OrcMove(i, to, "other", "idle")
  /\ UNCHANGED World

(***************************************************************************)
(* The candidate is rebased onto main as it is now; candidate_sha becomes  *)
(* the rebased commit, main's head if main already contains the candidate. *)
(***************************************************************************)
GatePrepared(i) ==
  /\ orc.pc = "prepare" /\ orc.row = i
  /\ IF CanTransition(i, "CHECKING", orc.ft)
     THEN /\ Move(i, "CHECKING")
          /\ base' = [base EXCEPT ![i] = main]
          /\ landed' = [landed EXCEPT ![i] = IF @ = 0 THEN 0 ELSE main]
          /\ OrcGoes("check", i, orc.ft)
          /\ UNCHANGED <<fence, code, deadline, rollbackSha>>
     ELSE UNCHANGED <<rows, landed>> /\ orc' = OrcIdle
  /\ UNCHANGED <<main, revertAt, child, served, boot, loop, ticker>>

GateApproves(i) ==
  /\ orc.pc = "check" /\ orc.row = i
  /\ OrcMove(i, "APPROVED", code[i], "approved")
  /\ UNCHANGED World

(***************************************************************************)
(* drivePublish() reads the row and its token again, throws unless         *)
(* APPROVED, and parks it when publishing was switched off or the          *)
(* repository is gone.                                                     *)
(***************************************************************************)
PublishRefused(i) ==
  /\ orc.pc = "approved" /\ orc.row = i
  /\ IF stage[i] = "APPROVED"
     THEN \E c \in {"no_repo_or_candidate", "other"} : Patch(i, "HELD", c)
     ELSE UNCHANGED rows
  /\ orc' = OrcIdle
  /\ UNCHANGED World

\* Faulty: the row gets no health_deadline.
PublishIntentNoDeadline(i) ==
  /\ orc.pc = "approved" /\ orc.row = i
  /\ IF stage[i] = "APPROVED" /\ CanTransition(i, "PUBLISHING", fence[i])
     THEN Patch(i, "PUBLISHING", code[i]) /\ OrcGoes("publishing", i, fence[i])
     ELSE UNCHANGED rows /\ orc' = OrcIdle
  /\ UNCHANGED World

PublishIntent(i) ==
  /\ orc.pc = "approved" /\ orc.row = i
  /\ IF stage[i] = "APPROVED" /\ CanTransition(i, "PUBLISHING", fence[i])
     THEN /\ Move(i, "PUBLISHING")
          /\ SetDeadline(i, "ahead")
          /\ OrcGoes("publishing", i, fence[i])
          /\ UNCHANGED code
          /\ KeepRow
     ELSE UNCHANGED rows /\ orc' = OrcIdle
  /\ UNCHANGED World

(***************************************************************************)
(* Clean fast-forward only: main has not moved since the rebase.           *)
(***************************************************************************)
PublishMain(i) ==
  /\ orc.pc = "publishing" /\ orc.row = i
  /\ IF main = base[i]
     THEN OrcMove(i, "MAIN_PUBLISHED", code[i], "main")
     ELSE SafeHold(i, orc.ft, "not_fast_forward") /\ orc' = OrcIdle
  /\ UNCHANGED World

PublishRestart(i) ==
  /\ orc.pc = "main" /\ orc.row = i
  /\ OrcMove(i, "RESTART_REQUESTED", code[i], "restart")
  /\ UNCHANGED World

(***************************************************************************)
(* The detached deploy starts, or spawn() throws.                          *)
(***************************************************************************)
SpawnDeploy(i) ==
  /\ orc.pc = "restart" /\ orc.row = i
  /\ \/ /\ child' = [child EXCEPT ![i]["forward"] = "spawned"]
        /\ UNCHANGED rows
     \/ /\ SafeHold(i, orc.ft, "other")
        /\ UNCHANGED child
  /\ orc' = OrcIdle
  /\ UNCHANGED <<repo, served, boot, loop, ticker>>

-----------------------------------------------------------------------------
(***************************************************************************)
(* verifyLoop(): one probe per tick.                                       *)
(***************************************************************************)
LoopRest == <<repo, child, served, boot, orc, ticker>>

SoakStands(i) ==
  /\ stage[i] = VerifyStage(loop[i].ep)
  /\ FenceOk(i, loop[i].ft)

Probing(i) == loop[i].pc = "probe"

LoopEnds(i) ==
  /\ Probing(i)
  /\ ~SoakStands(i)
  /\ StopLoop(i)
  /\ UNCHANGED rows
  /\ UNCHANGED LoopRest

(***************************************************************************)
(* The count of consecutive good probes after a probe that went well.      *)
(***************************************************************************)
ProbeSucceeds(i) == ServedHas(i, loop[i].ep) /\ loop[i].ok + 1 >= Successes

SoakPasses(i) ==
  /\ Probing(i)
  /\ SoakStands(i)
  /\ ProbeSucceeds(i)
  /\ CanTransition(i, SuccessStage(loop[i].ep), loop[i].ft)
  /\ Patch(i, SuccessStage(loop[i].ep), "none")
  /\ StopLoop(i)
  /\ UNCHANGED LoopRest

(***************************************************************************)
(* A probe that does not end the soak, before the deadline.                *)
(***************************************************************************)
ProbeCounts(i) ==
  /\ Probing(i)
  /\ SoakStands(i)
  /\ deadline[i] # "past"
  /\ \/ /\ ServedHas(i, loop[i].ep)
        /\ loop[i].ok + 1 < Successes
        /\ loop' = [loop EXCEPT ![i].ok = @ + 1]
     \/ loop' = [loop EXCEPT ![i].ok = 0]
  /\ UNCHANGED rows
  /\ UNCHANGED LoopRest

(***************************************************************************)
(* onVerifyFail(): only the forward episode goes on to startRollback().    *)
(***************************************************************************)
SoakTimesOut(i) ==
  /\ Probing(i)
  /\ SoakStands(i)
  /\ deadline[i] = "past"
  /\ IF loop[i].ep = "forward"
     THEN LoopGoes(i, "diff") /\ UNCHANGED rows
     ELSE StopLoop(i) /\ SafeHold(i, loop[i].ft, "other")
  /\ UNCHANGED LoopRest

-----------------------------------------------------------------------------
(***************************************************************************)
(* startRollback(): up to ROLLING_BACK with the soak's token, afterwards   *)
(* with a token it reads again before every transition.                    *)
(***************************************************************************)
RollbackRefused(i) ==
  /\ loop[i].pc = "diff"
  /\ SafeHold(i, loop[i].ft, "other")
  /\ StopLoop(i)
  /\ UNCHANGED LoopRest

RollbackBegins(i) ==
  /\ loop[i].pc = "diff"
  /\ IF CanTransition(i, "ROLLING_BACK", loop[i].ft)
     THEN /\ Move(i, "ROLLING_BACK")
          /\ SetDeadline(i, "ahead")
          /\ LoopGoes(i, "revert")
          /\ UNCHANGED code
          /\ KeepRow
     ELSE SafeHold(i, loop[i].ft, "other") /\ StopLoop(i)
  /\ UNCHANGED LoopRest

RollbackConflicts(i) ==
  /\ loop[i].pc = "revert"
  /\ SafeHold(i, fence[i], "other")
  /\ StopLoop(i)
  /\ UNCHANGED LoopRest

(***************************************************************************)
(* git checkout, revert and commit in the live checkout: main moves        *)
(* before any row says so.                                                 *)
(***************************************************************************)
RollbackCommits(i) ==
  /\ loop[i].pc = "revert"
  /\ main' = main + 1
  /\ revertAt' = [revertAt EXCEPT ![i] = main + 1]
  /\ LoopGoes(i, "committed")
  /\ UNCHANGED <<rows, landed, child, served, boot, orc, ticker>>

RollbackPublished(i) ==
  /\ loop[i].pc = "committed"
  /\ IF CanTransition(i, "ROLLBACK_PUBLISHED", fence[i])
     THEN /\ Move(i, "ROLLBACK_PUBLISHED")
          /\ rollbackSha' = [rollbackSha EXCEPT ![i] = revertAt[i]]
          /\ LoopGoes(i, "published")
          /\ UNCHANGED <<fence, code, deadline, base>>
     ELSE SafeHold(i, loop[i].ft, "other") /\ StopLoop(i)
  /\ UNCHANGED LoopRest

RollbackRestart(i) ==
  /\ loop[i].pc = "published"
  /\ IF CanTransition(i, "ROLLBACK_RESTART_REQUESTED", fence[i])
     THEN Patch(i, "ROLLBACK_RESTART_REQUESTED", code[i]) /\ LoopGoes(i, "spawn")
     ELSE SafeHold(i, loop[i].ft, "other") /\ StopLoop(i)
  /\ UNCHANGED LoopRest

RollbackSpawn(i) ==
  /\ loop[i].pc = "spawn"
  /\ \/ /\ child' = [child EXCEPT ![i]["rollback"] = "spawned"]
        /\ UNCHANGED rows
     \/ /\ SafeHold(i, fence[i], "other")
        /\ UNCHANGED child
  /\ StopLoop(i)
  /\ UNCHANGED <<repo, served, boot, orc, ticker>>

-----------------------------------------------------------------------------
(***************************************************************************)
(* reconcile(): at boot, then every PROBE_MS while it is still waiting.    *)
(***************************************************************************)
ReconcileRest == <<repo, child, served, boot, orc>>

ReconcileNothing ==
  /\ ticker
  /\ ~\E i \in Ids : Occupant(i) /\ stage[i] \in ForwardPath \cup RollbackPath
  /\ ticker' = FALSE
  /\ UNCHANGED <<rows, loop>>
  /\ UNCHANGED ReconcileRest

ReconcileResumes(i) ==
  /\ ticker
  /\ Occupant(i)
  /\ stage[i] \in {"VERIFYING", "ROLLBACK_VERIFYING"}
  /\ StartLoop(i, fence[i], EpisodeOf(i))
  /\ ticker' = FALSE
  /\ UNCHANGED rows
  /\ UNCHANGED ReconcileRest

Walkable == {"PUBLISHING", "MAIN_PUBLISHED", "RESTART_REQUESTED", "ROLLING_BACK",
             "ROLLBACK_PUBLISHED", "ROLLBACK_RESTART_REQUESTED"}

(***************************************************************************)
(* walkTo(): one fenced transition at a time towards the verify stage.     *)
(***************************************************************************)
ReconcileWalks(i) ==
  /\ ticker
  /\ Occupant(i)
  /\ stage[i] \in Walkable
  /\ ServedHas(i, EpisodeOf(i))
  /\ CanTransition(i, WalkStep(stage[i]), fence[i])
  /\ Patch(i, WalkStep(stage[i]), code[i])
  /\ UNCHANGED <<loop, ticker>>
  /\ UNCHANGED ReconcileRest

\* Faulty: a restart that was requested in vain is requested again.
ReconcileRespawns(i) ==
  /\ ticker
  /\ Occupant(i)
  /\ stage[i] = "RESTART_REQUESTED"
  /\ ~ServedHas(i, "forward")
  /\ child' = [child EXCEPT ![i]["forward"] = "spawned"]
  /\ UNCHANGED <<rows, loop, ticker, repo, served, boot, orc>>

ReconcileHolds(i) ==
  /\ ticker
  /\ Occupant(i)
  /\ stage[i] \in Walkable
  /\ ~ServedHas(i, EpisodeOf(i))
  /\ deadline[i] = "past"
  /\ SafeHold(i, fence[i], IF EpisodeOf(i) = "forward" THEN "deploy_not_served" ELSE "other")
  /\ ticker' = FALSE
  /\ UNCHANGED loop
  /\ UNCHANGED ReconcileRest

-----------------------------------------------------------------------------
(***************************************************************************)
(* reconcilePublishedWork(), run by the orchestrator, the watchdog and     *)
(* reconcile(): stage, token and candidate are compared again after its    *)
(* only await, so each row is handled in one step.                         *)
(***************************************************************************)
RetireRest == <<repo, child, served, boot, orc, ticker>>

RetireQueued(i) ==
  /\ stage[i] = "QUEUED"
  /\ ServedHas(i, "forward")
  /\ Patch(i, "SUPERSEDED", "none")
  /\ UNCHANGED loop
  /\ UNCHANGED RetireRest

RecoverHeld(i) ==
  /\ stage[i] = "HELD"
  /\ code[i] \in MechanicalStuck
  /\ rollbackSha[i] = 0
  /\ ServedHas(i, "forward")
  /\ CanTransition(i, "VERIFYING", fence[i])
  /\ Move(i, "VERIFYING")
  /\ SetCode(i, "served_release_recovery")
  /\ SetDeadline(i, "ahead")
  /\ StartLoop(i, fence[i], "superseded")
  /\ KeepRow
  /\ UNCHANGED RetireRest

-----------------------------------------------------------------------------
(***************************************************************************)
(* watchdog(): parks a stage past its deadline, and closes a parked        *)
(* mechanical stall whose candidate is not on main.                        *)
(***************************************************************************)
WatchdogRest == <<repo, child, served, boot, memory>>

WatchdogHolds(i) ==
  /\ Occupant(i)
  /\ stage[i] # "HELD"
  /\ deadline[i] = "past"
  /\ SafeHold(i, fence[i],
              IF code[i] = "none" THEN "deploy_died_before_restart" ELSE code[i])
  /\ UNCHANGED WatchdogRest

\* Faulty: any movement of main is taken for the candidate's.
MainHasMoved(i) == main # base[i]

CandidateOnMain(i) == landed[i] # 0

WatchdogReleases(i) ==
  /\ Occupant(i)
  /\ stage[i] = "HELD"
  /\ code[i] \in MechanicalStuck
  /\ ~CandidateOnMain(i)
  /\ Patch(i, "REJECTED", code[i])
  /\ UNCHANGED WatchdogRest

-----------------------------------------------------------------------------
(***************************************************************************)
(* The detached bin/deploy.  An exclusive lock is held from before the     *)
(* fast-forward to the end (its fail-open branch, for hosts with neither   *)
(* flock nor python3, is left out); it may stall or die at every step.     *)
(***************************************************************************)
ChildPhases == {"none", "spawned", "merged", "pushed", "over"}

DeployLockFree == \A j \in Ids, k \in Kinds : child[j][k] \notin {"merged", "pushed"}

SetChild(i, k, p) == child' = [child EXCEPT ![i][k] = p]

(***************************************************************************)
(* Fast-forward main to the exact commit: main must be an ancestor of it.  *)
(* A rollback's commit already is on main.                                 *)
(***************************************************************************)
ChildMerges(i, k) ==
  /\ child[i][k] = "spawned"
  /\ DeployLockFree
  /\ IF k = "forward"
     THEN /\ main = base[i]
          /\ main' = IF landed[i] = 0 THEN main + 1 ELSE main
          /\ landed' = IF landed[i] = 0 THEN [landed EXCEPT ![i] = main + 1] ELSE landed
     ELSE /\ main = rollbackSha[i]
          /\ UNCHANGED <<main, landed>>
  /\ SetChild(i, k, "merged")
  /\ UNCHANGED <<rows, revertAt, served, boot, memory>>

(***************************************************************************)
(* bin/version commits the release bump on top, then the push.             *)
(***************************************************************************)
ChildPushes(i, k) ==
  /\ child[i][k] = "merged"
  /\ main' = main + 1
  /\ SetChild(i, k, "pushed")
  /\ UNCHANGED <<rows, landed, revertAt, served, boot, memory>>

ChildDies(i, k) ==
  /\ child[i][k] \in {"spawned", "merged", "pushed"}
  /\ SetChild(i, k, "over")
  /\ UNCHANGED <<rows, repo, served, boot, memory>>

-----------------------------------------------------------------------------
\* Faulty: a gate that was running is taken over, not parked.
RecoverKeepsGate ==
  /\ fence' = [i \in Ids |-> IF Occupant(i) THEN fence[i] + 1 ELSE fence[i]]
  /\ UNCHANGED <<stage, code, deadline, base, rollbackSha>>

(***************************************************************************)
(* A process loads: recoverOnBoot() takes over the row that occupies the   *)
(* pipeline, recoverGateOnBoot() parks it if its gate was running.         *)
(***************************************************************************)
RecoverOnBoot ==
  /\ fence' = [i \in Ids |-> IF Occupant(i) THEN fence[i] + 1 ELSE fence[i]]
  /\ stage' = [i \in Ids |->
       IF Occupant(i) /\ stage[i] \in GateStages THEN "HELD" ELSE stage[i]]
  /\ code' = [i \in Ids |->
       IF Occupant(i) /\ stage[i] \in GateStages THEN "gate_interrupted" ELSE code[i]]
  /\ UNCHANGED <<deadline, base, rollbackSha>>

(***************************************************************************)
(* The process is replaced: its memory is gone and the checkout's main is  *)
(* what it serves now.                                                     *)
(***************************************************************************)
Reborn ==
  /\ boot < MaxBoots
  /\ boot' = boot + 1
  /\ served' = main
  /\ RecoverOnBoot
  /\ orc' = OrcIdle
  /\ loop' = [i \in Ids |-> LoopOff]
  /\ ticker' = TRUE
  /\ UNCHANGED repo

CrashRestart == Reborn /\ UNCHANGED child

DeployRestart(i, k) ==
  /\ child[i][k] = "pushed"
  /\ SetChild(i, k, "over")
  /\ Reborn

(***************************************************************************)
(* A second process loads on the same data directory and exits because the *)
(* port is taken: the live one keeps running, with a stale token.          *)
(***************************************************************************)
SecondStart ==
  /\ \E i \in Ids : Occupant(i) /\ fence[i] < MaxFence
  /\ RecoverOnBoot
  /\ UNCHANGED <<repo, child, served, boot, memory>>

(***************************************************************************)
(* Somebody else moves main, perhaps releasing a candidate that waits or   *)
(* is parked.                                                              *)
(***************************************************************************)
OthersPush ==
  /\ main < PushLimit
  /\ main' = main + 1
  /\ \/ UNCHANGED landed
     \/ \E i \in Ids :
          /\ stage[i] \in {"QUEUED", "HELD"}
          /\ landed[i] = 0
          /\ landed' = [landed EXCEPT ![i] = main + 1]
  /\ UNCHANGED <<rows, revertAt, child, served, boot, memory>>

DeadlinePasses(i) ==
  /\ deadline[i] = "ahead"
  /\ stage[i] \notin Terminal
  /\ SetDeadline(i, "past")
  /\ UNCHANGED <<stage, code, repo, child, served, boot, memory>>
  /\ KeepRow

-----------------------------------------------------------------------------
Orchestrator(i) ==
  \/ Dequeue(i) \/ RefuseClaim(i) \/ ClaimGate(i)
  \/ GateStops(i) \/ GatePrepared(i) \/ GateApproves(i)
  \/ PublishRefused(i) \/ PublishIntent(i) \/ PublishMain(i)
  \/ PublishRestart(i) \/ SpawnDeploy(i)

Soak(i) ==
  \/ LoopEnds(i) \/ SoakPasses(i) \/ ProbeCounts(i) \/ SoakTimesOut(i)

Rollback(i) ==
  \/ RollbackRefused(i) \/ RollbackBegins(i) \/ RollbackConflicts(i)
  \/ RollbackCommits(i) \/ RollbackPublished(i) \/ RollbackRestart(i)
  \/ RollbackSpawn(i)

Reconcile(i) ==
  \/ ReconcileResumes(i) \/ ReconcileWalks(i) \/ ReconcileHolds(i)

Retire(i) == RetireQueued(i) \/ RecoverHeld(i)

Watchdog(i) == WatchdogHolds(i) \/ WatchdogReleases(i)

Deploy(i, k) ==
  ChildMerges(i, k) \/ ChildPushes(i, k) \/ ChildDies(i, k) \/ DeployRestart(i, k)

Next ==
  \/ \E i \in Ids :
       \/ Enqueue(i) \/ Orchestrator(i) \/ Soak(i) \/ Rollback(i)
       \/ Reconcile(i) \/ Retire(i) \/ Watchdog(i) \/ DeadlinePasses(i)
       \/ \E k \in Kinds : Deploy(i, k)
  \/ ReconcileNothing \/ CrashRestart \/ SecondStart \/ OthersPush

Spec == Init /\ [][Next]_vars

(***************************************************************************)
(* The timers of a live process keep firing: the 20 s orchestrator tick,   *)
(* the probes and the reconcile timer; the awaits of a worker return (each *)
(* has a timeout); and time passes.  Nothing is assumed of bin/deploy.     *)
(***************************************************************************)
Fairness ==
  /\ WF_vars(\E i \in Ids : Orchestrator(i))
  /\ WF_vars(ReconcileNothing \/ \E i \in Ids : Reconcile(i))
  /\ WF_vars(\E i \in Ids : Watchdog(i))
  /\ WF_vars(\E i \in Ids : DeadlinePasses(i))
  /\ \A i \in Ids : WF_vars(Soak(i) \/ Rollback(i))

FairSpec == Spec /\ Fairness

-----------------------------------------------------------------------------
(***************************************************************************)
(* Every variable has its type.                                            *)
(***************************************************************************)
RowsTypeOK ==
  /\ stage \in [Ids -> Stages \cup {"ABSENT"}]
  /\ fence \in [Ids -> Nat]
  /\ code \in [Ids -> Codes]
  /\ deadline \in [Ids -> {"unset", "ahead", "past"}]
  /\ base \in [Ids -> Nat]
  /\ rollbackSha \in [Ids -> Nat]

RepoTypeOK ==
  /\ main \in Nat
  /\ landed \in [Ids -> Nat]
  /\ revertAt \in [Ids -> Nat]
  /\ child \in [Ids -> [Kinds -> ChildPhases]]

OrcStates == {"idle", "claimed", "prepare", "check", "approved", "publishing",
              "main", "restart"}
LoopStates == {"off", "probe", "diff", "revert", "committed", "published", "spawn"}

ProcessTypeOK ==
  /\ served \in Nat
  /\ boot \in 1 .. MaxBoots
  /\ orc \in [pc: OrcStates, row: Ids \cup {0}, ft: Nat]
  /\ loop \in [Ids -> [pc: LoopStates, ft: Nat, ep: Episodes, ok: Nat]]
  /\ ticker \in BOOLEAN

TypeOK == RowsTypeOK /\ RepoTypeOK /\ ProcessTypeOK

(***************************************************************************)
(* SINGLE ACTIVE (integrations.js): at most one integration is in flight   *)
(* or parked, through every await, restart and recovery.                   *)
(***************************************************************************)
InFlight == {i \in Ids : stage[i] \in Active \cup {"HELD"}}

SingleOccupant == \A i, j \in InFlight : i = j

(***************************************************************************)
(* No false green (publisher.js): an integration that ended GREEN or       *)
(* SUPERSEDED has its candidate in the history of the release that runs,   *)
(* one that ended ROLLED_BACK has its revert there, whatever crashed,      *)
(* stalled or restarted in between.                                        *)
(***************************************************************************)
SettledMeansServed ==
  \A i \in Ids :
    /\ stage[i] \in {"GREEN", "SUPERSEDED"} => landed[i] \in 1 .. served
    /\ stage[i] = "ROLLED_BACK" =>
         rollbackSha[i] = revertAt[i] /\ revertAt[i] \in 1 .. served

(***************************************************************************)
(* The forward revert undoes only what was shipped: main never holds the   *)
(* revert of a candidate that it does not hold below it.                   *)
(***************************************************************************)
RevertOnlyShipped ==
  \A i \in Ids : revertAt[i] # 0 => landed[i] # 0 /\ landed[i] < revertAt[i]

(***************************************************************************)
(* One integration is deployed at most once in each direction, however     *)
(* often the server restarts between the row and the spawn.                *)
(***************************************************************************)
DeployedOnce ==
  [][\A i \in Ids, k \in Kinds :
       child'[i][k] = "spawned" => child[i][k] \in {"none", "spawned"}]_vars

(***************************************************************************)
(* FENCING (integrations.js): a gate or publish worker whose token a boot  *)
(* recovery has bumped writes no stage.                                    *)
(***************************************************************************)
StaleOrchestratorWritesNothing ==
  [][orc.pc # "idle" /\ orc.ft # fence[orc.row] /\ orc' # orc
       => stage'[orc.row] = stage[orc.row]]_vars

(***************************************************************************)
(* The same, for the worker that rolls a release back.                     *)
(***************************************************************************)
StaleRollbackWritesNothing ==
  [][\A i \in Ids :
       loop[i].pc # "off" /\ loop[i].ft # fence[i] /\ loop'[i] # loop[i]
         => stage'[i] = stage[i]]_vars

(***************************************************************************)
(* The watchdog closes only what never shipped: a REJECTED integration     *)
(* does not enter main afterwards.                                         *)
(***************************************************************************)
RejectedNeverShips ==
  [][\A i \in Ids : stage[i] = "REJECTED" /\ landed[i] = 0 => landed'[i] = 0]_vars

(***************************************************************************)
(* A parked integration retired because a later release serves it is       *)
(* soaked without blessing or rolling back that newer release.             *)
(***************************************************************************)
RecoveryIsNeverBlessed ==
  [][\A i \in Ids :
       stage[i] = "VERIFYING" /\ code[i] = "served_release_recovery"
         => stage'[i] \notin {"GREEN", "ROLLING_BACK"}]_vars

-----------------------------------------------------------------------------
(***************************************************************************)
(* The inductive strengthening of the safety invariants.                   *)
(*                                                                         *)
(* Before the publisher took an integration up, nothing of it exists       *)
(* outside its row, but the candidate itself if others pushed it.          *)
(***************************************************************************)
Unpublished == {"ABSENT", "QUEUED"} \cup GateStages

UntouchedBeforePublish ==
  \A i \in Ids :
    stage[i] \in Unpublished =>
      /\ loop[i].pc = "off"
      /\ revertAt[i] = 0
      /\ \A k \in Kinds : child[i][k] = "none"

(***************************************************************************)
(* rollback_sha names the revert, and only once ROLLBACK_PUBLISHED says so.*)
(***************************************************************************)
RollbackShaNamesRevert ==
  \A i \in Ids :
    /\ rollbackSha[i] \in {0, revertAt[i]}
    /\ stage[i] \in Unpublished \cup ForwardPath \cup {"ROLLING_BACK"}
         => rollbackSha[i] = 0
    /\ loop[i].pc \in {"revert", "committed"} => rollbackSha[i] = 0
    /\ loop[i].pc = "committed" => revertAt[i] # 0
    /\ loop[i].pc \in {"published", "spawn"} => rollbackSha[i] # 0

(***************************************************************************)
(* What a stage, or a rollback under way, says about the running release.  *)
(***************************************************************************)
InRelease(p) == p # 0 /\ p <= served

StagesTellTheRelease ==
  \A i \in Ids :
    /\ stage[i] \in {"VERIFYING", "GREEN", "SUPERSEDED"} => InRelease(landed[i])
    /\ loop[i].pc \in LoopStates \ {"off", "probe"} => InRelease(landed[i])
    /\ stage[i] \in {"ROLLBACK_VERIFYING", "ROLLED_BACK"} => InRelease(rollbackSha[i])

HistoryGrows ==
  /\ served <= main
  /\ \A i \in Ids : landed[i] <= main /\ revertAt[i] <= main

(***************************************************************************)
(* The publish worker spawns the first forward deploy of its integration,  *)
(* the rollback worker its first rollback deploy.                          *)
(***************************************************************************)
SpawnsAreFirst ==
  /\ orc.pc \in {"publishing", "main", "restart"} => child[orc.row]["forward"] = "none"
  /\ \A i \in Ids :
       child[i]["rollback"] # "none" =>
         rollbackSha[i] # 0 /\ loop[i].pc \in {"off", "probe", "diff"}

(***************************************************************************)
(* The worker's integration, and its token while it is about to read it    *)
(* again.                                                                  *)
(***************************************************************************)
WorkerOwnsItsRow ==
  /\ orc.pc # "idle" => orc.row \in Ids
  /\ orc.pc = "claimed" =>
       /\ stage[orc.row] \in {"QUEUED", "SUPERSEDED"}
       /\ stage[orc.row] = "QUEUED" => orc.ft = fence[orc.row]
       /\ \A j \in Ids : j < orc.row => stage[j] \notin {"ABSENT", "QUEUED"}
  /\ orc.pc \notin {"idle", "claimed"} => stage[orc.row] \notin {"ABSENT", "QUEUED"}
  /\ orc.pc \in {"publishing", "main", "restart"} => stage[orc.row] \notin Unpublished
  /\ orc.pc \in {"prepare", "check", "approved"} /\ stage[orc.row] \in GateStages
       => orc.ft = fence[orc.row]

EnqueuedInOrder ==
  \A i, j \in Ids : j < i /\ stage[i] # "ABSENT" => stage[j] # "ABSENT"

PipelineInv ==
  /\ TypeOK
  /\ SingleOccupant
  /\ UntouchedBeforePublish
  /\ RollbackShaNamesRevert
  /\ StagesTellTheRelease
  /\ HistoryGrows
  /\ RevertOnlyShipped
  /\ SpawnsAreFirst
  /\ WorkerOwnsItsRow
  /\ EnqueuedInOrder

(***************************************************************************)
(* What a reader of the list of integrations is promised.                  *)
(***************************************************************************)
PhaseOf(s) ==
  CASE s = "ABSENT" -> "absent"
    [] s = "QUEUED" -> "waiting"
    [] s \in Active -> "working"
    [] s = "HELD" -> "parked"
    [] s = "GREEN" -> "shipped"
    [] s = "REJECTED" -> "refused"
    [] s = "ROLLED_BACK" -> "undone"
    [] OTHER -> "retired"

Queue == INSTANCE ReleaseQueue WITH phase <- [i \in Ids |-> PhaseOf(stage[i])]

(***************************************************************************)
(* The pipeline is a release queue: one integration at a time, oldest      *)
(* first, holding the pipeline until a final outcome.                      *)
(***************************************************************************)
ImplementsReleaseQueue == Queue!RQSpec

-----------------------------------------------------------------------------
(***************************************************************************)
(* No stage lasts for ever: whatever bin/deploy does, dies or hangs, and   *)
(* wherever the server was killed, an integration that was taken up ends   *)
(* or is parked for a human (verifyLoop, reconcile, watchdog).             *)
(***************************************************************************)
TakenUpSettles ==
  \A i \in Ids : stage[i] \in Active ~> stage[i] \in Terminal \cup {"HELD"}

(***************************************************************************)
(* A dead deploy does not hold the queue for ever (watchdog): a mechanical *)
(* stall is closed unless its candidate did reach main.                    *)
(***************************************************************************)
StallIsFreed ==
  \A i \in Ids :
    stage[i] = "HELD" /\ code[i] \in MechanicalStuck
      ~> stage[i] # "HELD" \/ landed[i] # 0

(***************************************************************************)
(* The queue moves: a queued integration is taken up or dismissed unless   *)
(* an integration is parked, which pauses the pipeline by design.          *)
(***************************************************************************)
QueueMoves ==
  \A i \in Ids :
    stage[i] = "QUEUED" ~> stage[i] # "QUEUED" \/ \E j \in Ids : stage[j] = "HELD"

=============================================================================
