------------------------- MODULE DeployPipelineSteps -------------------------
(***************************************************************************)
(* What one step of DeployPipeline may do: it keeps the types, it moves at *)
(* most one row along the stage graph (StageStep), and each variable is    *)
(* moved by few actions.  DeployPipelineProofs argues from these facts.    *)
(***************************************************************************)
EXTENDS DeployPipeline, TLAPS

(***************************************************************************)
(* The stage graph never leaves the set of stages.                         *)
(***************************************************************************)
LEMMA NextStagesType == \A s : NextStages(s) \subseteq Stages
  BY DEF NextStages, Stages, Active, GateStages, ForwardPath, RollbackPath, Terminal

(***************************************************************************)
(* A transition that patches failure_code keeps the types of the rows.     *)
(***************************************************************************)
LEMMA PatchType ==
  ASSUME RowsTypeOK, NEW i \in Ids, NEW to \in Stages, NEW c \in Codes, Patch(i, to, c)
  PROVE  RowsTypeOK'
  BY DEF RowsTypeOK, Patch, Move, SetCode, KeepRow

(***************************************************************************)
(* So does safeHold(), whether it parks the row or only logs.              *)
(***************************************************************************)
LEMMA SafeHoldType ==
  ASSUME RowsTypeOK, NEW i \in Ids, NEW ft, NEW c \in Codes, SafeHold(i, ft, c)
  PROVE  RowsTypeOK'
<1>1. "HELD" \in Stages
  BY DEF Stages
<1>2. CASE CanTransition(i, "HELD", ft)
  BY <1>1, <1>2, PatchType DEF SafeHold
<1>3. CASE ~CanTransition(i, "HELD", ft)
  BY <1>3 DEF SafeHold, rows, RowsTypeOK
<1> QED BY <1>2, <1>3

(***************************************************************************)
(* A transition of the worker keeps the types, its own included.           *)
(***************************************************************************)
LEMMA OrcMoveType ==
  ASSUME RowsTypeOK, ProcessTypeOK, NEW i \in Ids, NEW to, NEW c \in Codes,
         NEW pc \in OrcStates, OrcMove(i, to, c, pc)
  PROVE  RowsTypeOK' /\ orc' \in [pc: OrcStates, row: Ids \cup {0}, ft: Nat]
<1>1. orc.ft \in Nat
  BY DEF ProcessTypeOK
<1>2. OrcIdle \in [pc: OrcStates, row: Ids \cup {0}, ft: Nat]
  BY DEF OrcIdle, OrcStates
<1>3. CASE CanTransition(i, to, orc.ft)
  <2>1. to \in Stages
    BY <1>3, NextStagesType DEF CanTransition
  <2>2. RowsTypeOK'
    BY <1>3, <2>1, PatchType DEF OrcMove
  <2> QED BY <1>1, <1>2, <1>3, <2>2 DEF OrcMove, OrcGoes
<1>4. CASE ~CanTransition(i, to, orc.ft)
  BY <1>2, <1>4 DEF OrcMove, rows, RowsTypeOK
<1> QED BY <1>3, <1>4

(***************************************************************************)
(* A detached deploy moves between its phases.                             *)
(***************************************************************************)
LEMMA SetChildType ==
  ASSUME RepoTypeOK, NEW i \in Ids, NEW k \in Kinds, NEW p \in ChildPhases, SetChild(i, k, p)
  PROVE  child' \in [Ids -> [Kinds -> ChildPhases]]
  BY DEF RepoTypeOK, SetChild

(***************************************************************************)
(* The orchestrator, its gate and its publisher keep every type.           *)
(***************************************************************************)
LEMMA OrchestratorType ==
  ASSUME TypeOK, NEW i \in Ids, Orchestrator(i)
  PROVE  TypeOK'
<1> USE DEF TypeOK
<1>0. \A c \in {"none", "other", "not_fast_forward", "no_repo_or_candidate"} : c \in Codes
  BY DEF Codes, MechanicalStuck
<1>1. CASE Dequeue(i)
  BY <1>1 DEF Dequeue, rows, World, repo, OrcGoes, OrcStates, RowsTypeOK, RepoTypeOK,
     ProcessTypeOK
<1>2. CASE RefuseClaim(i)
  <2>1. RowsTypeOK'
    <3>1. CASE CanTransition(i, "REJECTED", fence[i])
      BY <1>0, <1>2, <3>1, PatchType DEF RefuseClaim, Stages, Terminal
    <3>2. CASE ~CanTransition(i, "REJECTED", fence[i])
      BY <1>2, <3>2 DEF RefuseClaim, rows, RowsTypeOK
    <3> QED BY <3>1, <3>2
  <2> QED BY <1>2, <2>1 DEF RefuseClaim, World, repo, OrcIdle, OrcStates, RepoTypeOK,
             ProcessTypeOK
<1>3. CASE ClaimGate(i)
  <2>1. RowsTypeOK'
    <3>1. CASE CanTransition(i, "PREPARING", fence[i])
      <4>1. code[i] \in Codes
        BY DEF RowsTypeOK
      <4> QED BY <4>1, <1>3, <3>1, PatchType DEF ClaimGate, Stages, Active, GateStages
    <3>2. CASE ~CanTransition(i, "PREPARING", fence[i])
      BY <1>3, <3>2 DEF ClaimGate, rows, RowsTypeOK
    <3> QED BY <3>1, <3>2
  <2> QED BY <1>3, <2>1 DEF ClaimGate, World, repo, OrcGoes, OrcIdle, OrcStates, RowsTypeOK,
             RepoTypeOK, ProcessTypeOK
<1>4. ASSUME NEW to, NEW c \in Codes, NEW pc \in OrcStates, OrcMove(i, to, c, pc), UNCHANGED World
      PROVE  TypeOK'
  <2>1. RowsTypeOK' /\ orc' \in [pc: OrcStates, row: Ids \cup {0}, ft: Nat]
    BY <1>4, OrcMoveType
  <2> QED BY <1>4, <2>1 DEF World, repo, RepoTypeOK, ProcessTypeOK
<1>5. CASE GateStops(i)
  BY <1>0, <1>4, <1>5 DEF GateStops, OrcStates
<1>6. CASE GatePrepared(i)
  BY <1>6 DEF GatePrepared, rows, OrcGoes, OrcIdle, OrcStates, Move, Stages, Active, GateStages,
              RowsTypeOK, RepoTypeOK, ProcessTypeOK
<1>7. CASE GateApproves(i)
  BY <1>4, <1>7 DEF GateApproves, OrcStates, RowsTypeOK
<1>8. CASE PublishRefused(i)
  <2>1. RowsTypeOK'
    BY <1>0, <1>8, PatchType DEF PublishRefused, Stages, rows, RowsTypeOK
  <2> QED BY <1>8, <2>1 DEF PublishRefused, World, repo, OrcIdle, OrcStates, RepoTypeOK,
             ProcessTypeOK
<1>9. CASE PublishIntent(i)
  <2>1. RowsTypeOK'
    BY <1>9 DEF PublishIntent, rows, KeepRow, SetDeadline, Move, Stages, Active, ForwardPath,
                RowsTypeOK
  <2>2. orc' \in [pc: OrcStates, row: Ids \cup {0}, ft: Nat]
    BY <1>9 DEF PublishIntent, OrcGoes, OrcIdle, OrcStates, RowsTypeOK
  <2> QED BY <1>9, <2>1, <2>2 DEF PublishIntent, World, repo, RepoTypeOK, ProcessTypeOK
<1>10. CASE PublishMain(i)
  <2>1. CASE main = base[i]
    BY <1>4, <1>10, <2>1 DEF PublishMain, OrcStates, RowsTypeOK
  <2>2. CASE main # base[i]
    <3>1. RowsTypeOK'
      BY <1>0, <1>10, <2>2, SafeHoldType DEF PublishMain
    <3> QED BY <1>10, <2>2, <3>1 DEF PublishMain, World, repo, OrcIdle, OrcStates, RepoTypeOK,
               ProcessTypeOK
  <2> QED BY <2>1, <2>2
<1>11. CASE PublishRestart(i)
  BY <1>4, <1>11 DEF PublishRestart, OrcStates, RowsTypeOK
<1>12. CASE SpawnDeploy(i)
  <2>1. RowsTypeOK'
    BY <1>0, <1>12, SafeHoldType DEF SpawnDeploy, rows, RowsTypeOK
  <2>2. child' \in [Ids -> [Kinds -> ChildPhases]]
    BY <1>12 DEF SpawnDeploy, RepoTypeOK, ChildPhases, Kinds
  <2> QED BY <1>12, <2>1, <2>2 DEF SpawnDeploy, repo, OrcIdle, OrcStates, RepoTypeOK,
             ProcessTypeOK
<1> QED
  BY <1>1, <1>2, <1>3, <1>5, <1>6, <1>7, <1>8, <1>9, <1>10, <1>11, <1>12 DEF Orchestrator

(***************************************************************************)
(* verifyLoop() keeps every type.                                          *)
(***************************************************************************)
LEMMA SoakType ==
  ASSUME TypeOK, NEW i \in Ids, Soak(i)
  PROVE  TypeOK'
<1> USE DEF TypeOK
<1>1. RowsTypeOK'
  <2>1. CASE rows' = rows
    BY <2>1 DEF rows, RowsTypeOK
  <2>2. CASE SoakPasses(i)
    <3>1. SuccessStage(loop[i].ep) \in Stages
      BY DEF SuccessStage, Stages, Terminal
    <3>2. "none" \in Codes
      BY DEF Codes
    <3> QED BY <2>2, <3>1, <3>2, PatchType DEF SoakPasses
  <2>3. CASE SafeHold(i, loop[i].ft, "other")
    BY <2>3, SafeHoldType DEF Codes
  <2> QED BY <2>1, <2>2, <2>3 DEF Soak, LoopEnds, ProbeCounts, SoakTimesOut
<1>2. loop' \in [Ids -> [pc: LoopStates, ft: Nat, ep: Episodes, ok: Nat]]
  <2>1. CASE ProbeCounts(i)
    BY <2>1 DEF ProbeCounts, ProcessTypeOK
  <2>2. CASE ~ProbeCounts(i)
    <3>1. StopLoop(i) \/ LoopGoes(i, "diff")
      BY <2>2 DEF Soak, LoopEnds, SoakPasses, SoakTimesOut
    <3> QED BY <3>1 DEF StopLoop, LoopGoes, LoopOff, LoopStates, Episodes, ProcessTypeOK
  <2> QED BY <2>1, <2>2
<1>3. UNCHANGED LoopRest
  BY DEF Soak, LoopEnds, SoakPasses, ProbeCounts, SoakTimesOut
<1> QED BY <1>1, <1>2, <1>3 DEF LoopRest, repo, RepoTypeOK, ProcessTypeOK

(***************************************************************************)
(* startRollback() keeps every type.                                       *)
(***************************************************************************)
LEMMA RollbackType ==
  ASSUME TypeOK, NEW i \in Ids, Rollback(i)
  PROVE  TypeOK'
<1> USE DEF TypeOK
<1>1. RowsTypeOK'
  <2>1. CASE rows' = rows
    BY <2>1 DEF rows, RowsTypeOK
  <2>2. CASE \E ft : SafeHold(i, ft, "other")
    BY <2>2, SafeHoldType DEF Codes
  <2>3. CASE RollbackBegins(i) /\ Move(i, "ROLLING_BACK")
    <3> QED BY <2>2, <2>3 DEF RollbackBegins, Move, SetDeadline, KeepRow, Stages, Active,
               RollbackPath, RowsTypeOK
  <2>4. CASE RollbackPublished(i) /\ Move(i, "ROLLBACK_PUBLISHED")
    BY <2>2, <2>4 DEF RollbackPublished, Move, Stages, Active, RollbackPath, RowsTypeOK,
       RepoTypeOK
  <2>5. CASE Patch(i, "ROLLBACK_RESTART_REQUESTED", code[i])
    <3>1. code[i] \in Codes
      BY DEF RowsTypeOK
    <3> QED BY <2>5, <3>1, PatchType DEF Stages, Active, RollbackPath
  <2> QED BY <2>1, <2>2, <2>3, <2>4, <2>5
    DEF Rollback, RollbackRefused, RollbackBegins, RollbackConflicts, RollbackCommits,
        RollbackPublished, RollbackRestart, RollbackSpawn
<1>2. RepoTypeOK'
  BY DEF Rollback, RollbackRefused, RollbackBegins, RollbackConflicts, RollbackCommits,
         RollbackPublished, RollbackRestart, RollbackSpawn, LoopRest, repo, RepoTypeOK,
         ChildPhases, Kinds
<1>3. loop' \in [Ids -> [pc: LoopStates, ft: Nat, ep: Episodes, ok: Nat]]
  <2>1. StopLoop(i) \/ \E pc \in LoopStates : LoopGoes(i, pc)
    BY DEF Rollback, RollbackRefused, RollbackBegins, RollbackConflicts, RollbackCommits,
           RollbackPublished, RollbackRestart, RollbackSpawn, LoopStates
  <2> QED BY <2>1 DEF StopLoop, LoopGoes, LoopOff, LoopStates, Episodes, ProcessTypeOK
<1>4. UNCHANGED <<served, boot, orc, ticker>>
  BY DEF Rollback, RollbackRefused, RollbackBegins, RollbackConflicts, RollbackCommits,
         RollbackPublished, RollbackRestart, RollbackSpawn, LoopRest
<1> QED BY <1>1, <1>2, <1>3, <1>4 DEF ProcessTypeOK

(***************************************************************************)
(* reconcile() keeps every type.                                           *)
(***************************************************************************)
LEMMA ReconcileType ==
  ASSUME TypeOK, NEW i \in Ids, Reconcile(i)
  PROVE  TypeOK'
<1> USE DEF TypeOK
<1>1. RowsTypeOK'
  <2>1. CASE rows' = rows
    BY <2>1 DEF rows, RowsTypeOK
  <2>2. CASE ReconcileWalks(i)
    <3>1. WalkStep(stage[i]) \in Stages /\ code[i] \in Codes
      BY <2>2 DEF ReconcileWalks, Walkable, WalkStep, Stages, Active, ForwardPath, RollbackPath,
                  RowsTypeOK
    <3> QED BY <2>2, <3>1, PatchType DEF ReconcileWalks
  <2>3. CASE ReconcileHolds(i)
    BY <2>3, SafeHoldType DEF ReconcileHolds, Codes, MechanicalStuck
  <2> QED BY <2>1, <2>2, <2>3 DEF Reconcile, ReconcileResumes
<1>2. loop' \in [Ids -> [pc: LoopStates, ft: Nat, ep: Episodes, ok: Nat]]
  <2>1. UNCHANGED loop \/ StartLoop(i, fence[i], EpisodeOf(i))
    BY DEF Reconcile, ReconcileResumes, ReconcileWalks, ReconcileHolds
  <2>2. fence[i] \in Nat /\ EpisodeOf(i) \in Episodes
    BY DEF RowsTypeOK, EpisodeOf, Episodes
  <2> QED BY <2>1, <2>2 DEF StartLoop, NewLoop, LoopStates, ProcessTypeOK
<1>3. ticker' \in BOOLEAN /\ UNCHANGED ReconcileRest
  BY DEF Reconcile, ReconcileResumes, ReconcileWalks, ReconcileHolds, ProcessTypeOK
<1> QED BY <1>1, <1>2, <1>3 DEF ReconcileRest, repo, RepoTypeOK, ProcessTypeOK

(***************************************************************************)
(* reconcilePublishedWork() keeps every type.                              *)
(***************************************************************************)
LEMMA RetireType ==
  ASSUME TypeOK, NEW i \in Ids, Retire(i)
  PROVE  TypeOK'
<1> USE DEF TypeOK
<1>1. RowsTypeOK'
  <2>1. CASE RetireQueued(i)
    BY <2>1, PatchType DEF RetireQueued, Stages, Terminal, Codes
  <2>2. CASE RecoverHeld(i)
    BY <2>2 DEF RecoverHeld, Move, SetCode, SetDeadline, KeepRow, Codes, Stages, Active,
                ForwardPath, RowsTypeOK
  <2> QED BY <2>1, <2>2 DEF Retire
<1>2. loop' \in [Ids -> [pc: LoopStates, ft: Nat, ep: Episodes, ok: Nat]]
  <2>1. UNCHANGED loop \/ StartLoop(i, fence[i], "superseded")
    BY DEF Retire, RetireQueued, RecoverHeld
  <2>2. fence[i] \in Nat
    BY DEF RowsTypeOK
  <2> QED BY <2>1, <2>2 DEF StartLoop, NewLoop, LoopStates, Episodes, ProcessTypeOK
<1>3. UNCHANGED RetireRest
  BY DEF Retire, RetireQueued, RecoverHeld
<1> QED BY <1>1, <1>2, <1>3 DEF RetireRest, repo, RepoTypeOK, ProcessTypeOK

(***************************************************************************)
(* watchdog() keeps every type.                                            *)
(***************************************************************************)
LEMMA WatchdogType ==
  ASSUME TypeOK, NEW i \in Ids, Watchdog(i)
  PROVE  TypeOK'
<1> USE DEF TypeOK
<1>1. code[i] \in Codes
  BY DEF RowsTypeOK
<1>2. RowsTypeOK'
  <2>1. CASE WatchdogHolds(i)
    <3>1. (IF code[i] = "none" THEN "deploy_died_before_restart" ELSE code[i]) \in Codes
      BY <1>1 DEF Codes, MechanicalStuck
    <3> QED BY <2>1, <3>1, SafeHoldType DEF WatchdogHolds
  <2>2. CASE WatchdogReleases(i)
    BY <1>1, <2>2, PatchType DEF WatchdogReleases, Stages, Terminal
  <2> QED BY <2>1, <2>2 DEF Watchdog
<1>3. UNCHANGED WatchdogRest
  BY DEF Watchdog, WatchdogHolds, WatchdogReleases
<1> QED BY <1>2, <1>3 DEF WatchdogRest, repo, memory, RepoTypeOK, ProcessTypeOK

(***************************************************************************)
(* recoverOnBoot() keeps the types of the rows.                            *)
(***************************************************************************)
LEMMA RecoveryType ==
  ASSUME RowsTypeOK, RecoverOnBoot
  PROVE  RowsTypeOK'
  BY DEF RecoverOnBoot, RowsTypeOK, Codes, Stages

(***************************************************************************)
(* A new process starts with every type right.                             *)
(***************************************************************************)
LEMMA RebornType ==
  ASSUME TypeOK, Reborn, child' \in [Ids -> [Kinds -> ChildPhases]]
  PROVE  TypeOK'
<1>1. RowsTypeOK'
  BY RecoveryType DEF TypeOK, Reborn
<1>2. boot' \in 1 .. MaxBoots
  BY PipelineAssumption DEF TypeOK, ProcessTypeOK, Reborn
<1>3. ProcessTypeOK'
  BY <1>2 DEF TypeOK, ProcessTypeOK, RepoTypeOK, Reborn, OrcIdle, OrcStates, LoopOff,
     LoopStates, Episodes
<1>4. RepoTypeOK'
  BY DEF TypeOK, RepoTypeOK, Reborn, repo
<1> QED BY <1>1, <1>3, <1>4 DEF TypeOK

(***************************************************************************)
(* A detached bin/deploy keeps every type.                                 *)
(***************************************************************************)
LEMMA DeployType ==
  ASSUME TypeOK, NEW i \in Ids, NEW k \in Kinds, Deploy(i, k)
  PROVE  TypeOK'
<1> USE DEF TypeOK
<1>1. child' \in [Ids -> [Kinds -> ChildPhases]]
  <2>1. \E p \in ChildPhases : SetChild(i, k, p)
    BY DEF Deploy, ChildMerges, ChildPushes, ChildDies, DeployRestart, ChildPhases
  <2> QED BY <2>1, SetChildType
<1>2. CASE DeployRestart(i, k)
  BY <1>1, <1>2, RebornType DEF DeployRestart
<1>3. CASE ChildMerges(i, k)
  <2>1. main' \in Nat /\ landed' \in [Ids -> Nat]
    BY <1>3 DEF ChildMerges, RepoTypeOK
  <2>2. UNCHANGED <<rows, revertAt, served, boot, memory>>
    BY <1>3 DEF ChildMerges
  <2> QED BY <1>1, <2>1, <2>2 DEF rows, memory, RowsTypeOK, RepoTypeOK, ProcessTypeOK
<1>4. CASE ChildPushes(i, k)
  BY <1>1, <1>4 DEF ChildPushes, rows, memory, RowsTypeOK, RepoTypeOK, ProcessTypeOK
<1>5. CASE ChildDies(i, k)
  BY <1>1, <1>5 DEF ChildDies, rows, memory, repo, RowsTypeOK, RepoTypeOK, ProcessTypeOK
<1> QED
  BY <1>2, <1>3, <1>4, <1>5 DEF Deploy

(***************************************************************************)
(* Every step keeps every type.                                            *)
(***************************************************************************)
LEMMA TypeOKStep ==
  ASSUME TypeOK, [Next]_vars
  PROVE  TypeOK'
<1> USE DEF TypeOK
<1>1. ASSUME NEW i \in Ids, Enqueue(i) PROVE TypeOK'
  BY <1>1 DEF Enqueue, Move, Stages, repo, memory, RowsTypeOK, RepoTypeOK, ProcessTypeOK
<1>2. ASSUME NEW i \in Ids, DeadlinePasses(i) PROVE TypeOK'
  BY <1>2 DEF DeadlinePasses, SetDeadline, KeepRow, repo, memory, RowsTypeOK, RepoTypeOK,
              ProcessTypeOK
<1>3. CASE ReconcileNothing
  BY <1>3 DEF ReconcileNothing, rows, ReconcileRest, repo, RowsTypeOK, RepoTypeOK, ProcessTypeOK
<1>4. CASE CrashRestart
  BY <1>4, RebornType DEF CrashRestart, RepoTypeOK
<1>5. CASE SecondStart
  <2>1. RowsTypeOK'
    BY <1>5, RecoveryType DEF SecondStart
  <2> QED BY <1>5, <2>1 DEF SecondStart, repo, memory, RepoTypeOK, ProcessTypeOK
<1>6. CASE OthersPush
  <2>1. main' \in Nat /\ landed' \in [Ids -> Nat]
    BY <1>6 DEF OthersPush, RepoTypeOK
  <2>2. UNCHANGED <<rows, revertAt, child, served, boot, memory>>
    BY <1>6 DEF OthersPush
  <2> QED BY <2>1, <2>2 DEF rows, memory, RowsTypeOK, RepoTypeOK, ProcessTypeOK
<1>7. CASE UNCHANGED vars
  BY <1>7 DEF vars, rows, repo, memory, RowsTypeOK, RepoTypeOK, ProcessTypeOK
<1> QED
  BY <1>1, <1>2, <1>3, <1>4, <1>5, <1>6, <1>7, OrchestratorType, SoakType,
     RollbackType, ReconcileType, RetireType, WatchdogType, DeployType
     DEF Next

-----------------------------------------------------------------------------
(***************************************************************************)
(* What one step may do to the stages: one row moves, along the graph, in  *)
(* a way that leaves one occupant, and into a stage that speaks of the     *)
(* running release only with the evidence for it.                          *)
(***************************************************************************)
Evidence(i, to) ==
  /\ to \in {"VERIFYING", "GREEN", "SUPERSEDED"} => ServedHas(i, "forward")
  /\ to \in {"ROLLBACK_VERIFYING", "ROLLED_BACK"} => ServedHas(i, "rollback")
  /\ stage[i] = "HELD" => to \in {"REJECTED", "VERIFYING"}
  /\ stage[i] = "HELD" /\ to = "VERIFYING" => rollbackSha[i] = 0

MayMove(i, to) ==
  /\ to \in NextStages(stage[i])
  /\ to = "HELD" => stage[i] \in Active
  /\ to \in Active => \A j \in Ids \ {i} : ~Occupies(j)
  /\ to = "PREPARING" => \A j \in Ids : j < i => stage[j] \notin {"ABSENT", "QUEUED"}
  /\ Evidence(i, to)

MayAppear(i, to) ==
  /\ to = "QUEUED"
  /\ stage[i] = "ABSENT"
  /\ \A j \in Ids : j < i => stage[j] # "ABSENT"

StageStep ==
  \/ stage' = stage
  \/ \E i \in Ids : \E to \in Stages : Move(i, to) /\ (MayMove(i, to) \/ MayAppear(i, to))

(***************************************************************************)
(* The stages that need no evidence.                                       *)
(***************************************************************************)
Plain == Stages \ {"PREPARING", "QUEUED", "VERIFYING", "GREEN", "SUPERSEDED",
                   "ROLLBACK_VERIFYING", "ROLLED_BACK"}

(***************************************************************************)
(* A legal move into a plain stage needs no more.                          *)
(***************************************************************************)
LEMMA PlainEvidence ==
  ASSUME NEW i \in Ids, NEW to \in Plain, to \in NextStages(stage[i])
  PROVE  Evidence(i, to)
  BY DEF Plain, Evidence, NextStages

(***************************************************************************)
(* The plain stages, by name.                                              *)
(***************************************************************************)
LEMMA PlainStages ==
  /\ {"CHECKING", "APPROVED", "PUBLISHING", "MAIN_PUBLISHED", "RESTART_REQUESTED"} \subseteq Plain
  /\ {"ROLLING_BACK", "ROLLBACK_PUBLISHED", "ROLLBACK_RESTART_REQUESTED"} \subseteq Plain
  /\ {"HELD", "REJECTED"} \subseteq Plain
  BY DEF Plain, Stages, Active, GateStages, ForwardPath, RollbackPath, Terminal

(***************************************************************************)
(* transition() moves one row as StageStep allows.                         *)
(***************************************************************************)
LEMMA CanTransitionMoves ==
  ASSUME NEW i \in Ids, NEW to, NEW ft, CanTransition(i, to, ft), Move(i, to),
         to = "HELD" => stage[i] \in Active, to # "PREPARING",
         to \in Plain \/ Evidence(i, to)
  PROVE  StageStep
<1>1. to \in NextStages(stage[i]) /\ to \in Stages
  BY NextStagesType DEF CanTransition
<1>2. Evidence(i, to)
  BY <1>1, PlainEvidence
<1> QED BY <1>1, <1>2 DEF StageStep, MayMove, CanTransition

(***************************************************************************)
(* safeHold() of a row that was taken up moves it as StageStep allows.     *)
(***************************************************************************)
LEMMA SafeHoldMoves ==
  ASSUME NEW i \in Ids, NEW ft, NEW c, SafeHold(i, ft, c), stage[i] \notin {"ABSENT", "QUEUED"}
  PROVE  StageStep
<1>1. CASE CanTransition(i, "HELD", ft)
  <2>1. stage[i] \in Active
    BY <1>1 DEF CanTransition, NextStages, Active, GateStages, ForwardPath, RollbackPath
  <2> QED BY <1>1, <2>1, CanTransitionMoves, PlainStages DEF SafeHold, Patch
<1>2. CASE ~CanTransition(i, "HELD", ft)
  BY <1>2 DEF SafeHold, rows, StageStep
<1> QED BY <1>1, <1>2

(***************************************************************************)
(* So does a transition of the worker into a plain stage.                  *)
(***************************************************************************)
LEMMA OrcMoveMoves ==
  ASSUME NEW i \in Ids, NEW to, NEW c, NEW pc, OrcMove(i, to, c, pc),
         stage[i] \notin {"ABSENT", "QUEUED"}, to \in Plain
  PROVE  StageStep
<1>1. CASE CanTransition(i, to, orc.ft)
  <2>1. to = "HELD" => stage[i] \in Active
    BY <1>1 DEF CanTransition, NextStages, Active, GateStages, ForwardPath, RollbackPath
  <2>2. to # "PREPARING"
    BY DEF Plain
  <2> QED BY <1>1, <2>1, <2>2, CanTransitionMoves DEF OrcMove, Patch
<1>2. CASE ~CanTransition(i, to, orc.ft)
  BY <1>2 DEF OrcMove, rows, StageStep
<1> QED BY <1>1, <1>2

(***************************************************************************)
(* The orchestrator, its gate and its publisher move one row.              *)
(***************************************************************************)
LEMMA OrchestratorStages ==
  ASSUME TypeOK, WorkerOwnsItsRow, NEW i \in Ids, Orchestrator(i)
  PROVE  StageStep
<1>1. CASE Dequeue(i)
  BY <1>1 DEF Dequeue, rows, StageStep
<1>2. CASE RefuseClaim(i)
  <2>1. CASE CanTransition(i, "REJECTED", fence[i])
    BY <1>2, <2>1, CanTransitionMoves, PlainStages DEF RefuseClaim, Patch
  <2>2. CASE ~CanTransition(i, "REJECTED", fence[i])
    BY <1>2, <2>2 DEF RefuseClaim, rows, StageStep
  <2> QED BY <2>1, <2>2
<1>3. CASE ClaimGate(i)
  <2>1. CASE CanTransition(i, "PREPARING", fence[i])
    <3>1. MayMove(i, "PREPARING")
      BY <1>3, <2>1 DEF ClaimGate, CanTransition, MayMove, WorkerOwnsItsRow, NextStages,
         Evidence
    <3>2. Move(i, "PREPARING")
      BY <1>3, <2>1 DEF ClaimGate, Patch
    <3> QED BY <3>1, <3>2 DEF StageStep, Stages, Active, GateStages
  <2>2. CASE ~CanTransition(i, "PREPARING", fence[i])
    BY <1>3, <2>2 DEF ClaimGate, rows, StageStep
  <2> QED BY <2>1, <2>2
<1>4. CASE GateStops(i)
  <2>1. stage[i] \notin {"ABSENT", "QUEUED"}
    BY <1>4 DEF GateStops, WorkerOwnsItsRow
  <2> QED BY <1>4, <2>1, OrcMoveMoves, PlainStages DEF GateStops
<1>5. CASE GatePrepared(i)
  <2>1. CASE CanTransition(i, "CHECKING", orc.ft)
    BY <1>5, <2>1, CanTransitionMoves, PlainStages DEF GatePrepared
  <2>2. CASE ~CanTransition(i, "CHECKING", orc.ft)
    BY <1>5, <2>2 DEF GatePrepared, rows, StageStep
  <2> QED BY <2>1, <2>2
<1>6. CASE GateApproves(i)
  <2>1. stage[i] \notin {"ABSENT", "QUEUED"}
    BY <1>6 DEF GateApproves, WorkerOwnsItsRow
  <2> QED BY <1>6, <2>1, OrcMoveMoves, PlainStages DEF GateApproves
<1>7. CASE PublishRefused(i)
  <2>1. CASE stage[i] = "APPROVED"
    <3>1. Move(i, "HELD")
      BY <1>7, <2>1 DEF PublishRefused, Patch
    <3>2. MayMove(i, "HELD")
      BY <2>1 DEF MayMove, Evidence, NextStages, Active, GateStages, ForwardPath, RollbackPath
    <3> QED BY <3>1, <3>2 DEF StageStep, Stages
  <2>2. CASE stage[i] # "APPROVED"
    BY <1>7, <2>2 DEF PublishRefused, rows, StageStep
  <2> QED BY <2>1, <2>2
<1>8. CASE PublishIntent(i)
  <2>1. CASE stage[i] = "APPROVED" /\ CanTransition(i, "PUBLISHING", fence[i])
    BY <1>8, <2>1, CanTransitionMoves, PlainStages DEF PublishIntent
  <2>2. CASE ~(stage[i] = "APPROVED" /\ CanTransition(i, "PUBLISHING", fence[i]))
    BY <1>8, <2>2 DEF PublishIntent, rows, StageStep
  <2> QED BY <2>1, <2>2
<1>9. CASE PublishMain(i)
  <2>1. stage[i] \notin {"ABSENT", "QUEUED"}
    BY <1>9 DEF PublishMain, WorkerOwnsItsRow
  <2>2. CASE main = base[i]
    BY <1>9, <2>1, <2>2, OrcMoveMoves, PlainStages DEF PublishMain
  <2>3. CASE main # base[i]
    BY <1>9, <2>1, <2>3, SafeHoldMoves DEF PublishMain
  <2> QED BY <2>2, <2>3
<1>10. CASE PublishRestart(i)
  <2>1. stage[i] \notin {"ABSENT", "QUEUED"}
    BY <1>10 DEF PublishRestart, WorkerOwnsItsRow
  <2> QED BY <1>10, <2>1, OrcMoveMoves, PlainStages DEF PublishRestart
<1>11. CASE SpawnDeploy(i)
  <2>1. stage[i] \notin {"ABSENT", "QUEUED"}
    BY <1>11 DEF SpawnDeploy, WorkerOwnsItsRow
  <2>2. stage' = stage \/ SafeHold(i, orc.ft, "other")
    BY <1>11 DEF SpawnDeploy, rows
  <2> QED BY <2>1, <2>2, SafeHoldMoves DEF StageStep
<1> QED
  BY <1>1, <1>2, <1>3, <1>4, <1>5, <1>6, <1>7, <1>8, <1>9, <1>10, <1>11 DEF Orchestrator

(***************************************************************************)
(* verifyLoop() moves one row, with the evidence for its verdict.          *)
(***************************************************************************)
LEMMA SoakStages ==
  ASSUME TypeOK, UntouchedBeforePublish, NEW i \in Ids, Soak(i)
  PROVE  StageStep
<1>1. CASE LoopEnds(i)
  BY <1>1 DEF LoopEnds, rows, StageStep
<1>2. CASE SoakPasses(i)
  <2>1. SuccessStage(loop[i].ep) \in {"GREEN", "SUPERSEDED", "ROLLED_BACK"}
    BY DEF SuccessStage
  <2>2. Evidence(i, SuccessStage(loop[i].ep))
    BY <1>2 DEF SoakPasses, SoakStands, ProbeSucceeds, VerifyStage, SuccessStage, Evidence,
                ServedHas, ExpectedAt
  <2> QED BY <1>2, <2>1, <2>2, CanTransitionMoves DEF SoakPasses, Patch
<1>3. CASE ProbeCounts(i)
  BY <1>3 DEF ProbeCounts, rows, StageStep
<1>4. CASE SoakTimesOut(i)
  <2>1. stage[i] \notin {"ABSENT", "QUEUED"}
    BY <1>4 DEF SoakTimesOut, SoakStands, VerifyStage
  <2>2. stage' = stage \/ SafeHold(i, loop[i].ft, "other")
    BY <1>4 DEF SoakTimesOut, rows
  <2> QED BY <2>1, <2>2, SafeHoldMoves DEF StageStep
<1> QED
  BY <1>1, <1>2, <1>3, <1>4 DEF Soak

(***************************************************************************)
(* startRollback() moves one row.                                          *)
(***************************************************************************)
LEMMA RollbackStages ==
  ASSUME TypeOK, UntouchedBeforePublish, NEW i \in Ids, Rollback(i)
  PROVE  StageStep
<1> DEFINE RollbackMoves == {"ROLLING_BACK", "ROLLBACK_PUBLISHED", "ROLLBACK_RESTART_REQUESTED"}
<1>0. stage[i] \notin {"ABSENT", "QUEUED"}
  BY DEF Rollback, RollbackRefused, RollbackBegins, RollbackConflicts, RollbackCommits,
         RollbackPublished, RollbackRestart, RollbackSpawn, UntouchedBeforePublish, Unpublished
<1>1. CASE \E ft : SafeHold(i, ft, "other")
  BY <1>0, <1>1, SafeHoldMoves
<1>2. CASE stage' = stage
  BY <1>2 DEF StageStep
<1>3. CASE \E to \in RollbackMoves : CanTransition(i, to, loop[i].ft) /\ Move(i, to)
  BY <1>3, CanTransitionMoves, PlainStages
<1>4. CASE \E to \in RollbackMoves : CanTransition(i, to, fence[i]) /\ Move(i, to)
  BY <1>4, CanTransitionMoves, PlainStages
<1> QED
  <2>1. CASE RollbackRefused(i)
    BY <1>1, <2>1 DEF RollbackRefused
  <2>2. CASE RollbackBegins(i)
    BY <1>1, <1>3, <2>2 DEF RollbackBegins
  <2>3. CASE RollbackConflicts(i)
    BY <1>1, <2>3 DEF RollbackConflicts
  <2>4. CASE RollbackCommits(i)
    BY <1>2, <2>4 DEF RollbackCommits, rows
  <2>5. CASE RollbackPublished(i)
    BY <1>1, <1>4, <2>5 DEF RollbackPublished
  <2>6. CASE RollbackRestart(i)
    BY <1>1, <1>4, <2>6 DEF RollbackRestart, Patch
  <2>7. CASE RollbackSpawn(i)
    BY <1>1, <1>2, <2>7 DEF RollbackSpawn, rows
  <2> QED BY <2>1, <2>2, <2>3, <2>4, <2>5, <2>6, <2>7 DEF Rollback

(***************************************************************************)
(* reconcile() moves one row, with the evidence for a walk to VERIFYING.   *)
(***************************************************************************)
LEMMA ReconcileStages ==
  ASSUME NEW i \in Ids, Reconcile(i)
  PROVE  StageStep
<1>1. CASE ReconcileResumes(i)
  BY <1>1 DEF ReconcileResumes, rows, StageStep
<1>2. CASE ReconcileWalks(i)
  <2>1. WalkStep(stage[i]) \in Stages \ {"HELD", "PREPARING"}
    BY <1>2 DEF ReconcileWalks, Walkable, WalkStep, Stages, Active, ForwardPath, RollbackPath
  <2>2. Evidence(i, WalkStep(stage[i]))
    BY <1>2 DEF ReconcileWalks, Walkable, WalkStep, Evidence, ServedHas, ExpectedAt, EpisodeOf,
                RollbackPath
  <2> QED BY <1>2, <2>1, <2>2, CanTransitionMoves DEF ReconcileWalks, Patch
<1>3. CASE ReconcileHolds(i)
  BY <1>3, SafeHoldMoves DEF ReconcileHolds, Walkable
<1> QED
  BY <1>1, <1>2, <1>3 DEF Reconcile

(***************************************************************************)
(* reconcilePublishedWork() moves one row the running release contains.    *)
(***************************************************************************)
LEMMA RetireStages ==
  ASSUME NEW i \in Ids, Retire(i)
  PROVE  StageStep
<1>1. CASE RetireQueued(i)
  <2>1. MayMove(i, "SUPERSEDED") /\ Move(i, "SUPERSEDED")
    BY <1>1 DEF RetireQueued, Patch, MayMove, Evidence, NextStages, Active, GateStages,
                ForwardPath, RollbackPath
  <2> QED BY <2>1 DEF StageStep, Stages, Terminal
<1>2. CASE RecoverHeld(i)
  BY <1>2, CanTransitionMoves DEF RecoverHeld, Evidence
<1> QED
  BY <1>1, <1>2 DEF Retire

(***************************************************************************)
(* watchdog() moves one row.                                               *)
(***************************************************************************)
LEMMA WatchdogStages ==
  ASSUME NEW i \in Ids, Watchdog(i)
  PROVE  StageStep
<1>1. CASE WatchdogHolds(i)
  <2>1. stage[i] \notin {"ABSENT", "QUEUED"}
    BY <1>1 DEF WatchdogHolds, Occupant, Occupies, Active, GateStages, ForwardPath, RollbackPath
  <2> QED BY <1>1, <2>1, SafeHoldMoves DEF WatchdogHolds
<1>2. CASE WatchdogReleases(i)
  <2>1. MayMove(i, "REJECTED") /\ Move(i, "REJECTED")
    BY <1>2 DEF WatchdogReleases, Patch, MayMove, Evidence, NextStages, Active, GateStages,
                ForwardPath, RollbackPath
  <2> QED BY <2>1 DEF StageStep, Stages, Terminal
<1> QED
  BY <1>1, <1>2 DEF Watchdog

(***************************************************************************)
(* A boot moves the row that occupies the pipeline, and no other.          *)
(***************************************************************************)
LEMMA RecoveryStages ==
  ASSUME TypeOK, RecoverOnBoot
  PROVE  StageStep
<1>1. CASE \E i \in Ids : Occupant(i) /\ stage[i] \in GateStages
  <2>1. PICK i \in Ids : Occupant(i) /\ stage[i] \in GateStages
    BY <1>1
  <2>2. \A j \in Ids : Occupant(j) => j = i
    BY <2>1 DEF Occupant, Ids
  <2>3. Move(i, "HELD")
    BY <2>1, <2>2 DEF RecoverOnBoot, Move, TypeOK, RowsTypeOK
  <2>4. MayMove(i, "HELD")
    BY <2>1 DEF MayMove, Evidence, NextStages, Active, GateStages, ForwardPath, RollbackPath
  <2> QED BY <2>3, <2>4 DEF StageStep, Stages
<1>2. CASE ~\E i \in Ids : Occupant(i) /\ stage[i] \in GateStages
  <2>1. stage' = stage
    BY <1>2 DEF RecoverOnBoot, TypeOK, RowsTypeOK
  <2> QED BY <2>1 DEF StageStep
<1> QED BY <1>1, <1>2

(***************************************************************************)
(* A deploy moves a row only by restarting the server.                     *)
(***************************************************************************)
LEMMA DeployStages ==
  ASSUME TypeOK, NEW i \in Ids, NEW k \in Kinds, Deploy(i, k)
  PROVE  StageStep
<1>1. CASE DeployRestart(i, k)
  BY <1>1, RecoveryStages DEF DeployRestart, Reborn
<1>2. CASE ChildMerges(i, k) \/ ChildPushes(i, k) \/ ChildDies(i, k)
  BY <1>2 DEF ChildMerges, ChildPushes, ChildDies, rows, StageStep
<1> QED
  BY <1>1, <1>2 DEF Deploy

(***************************************************************************)
(* Every step is a StageStep.                                              *)
(***************************************************************************)
LEMMA NextStageStep ==
  ASSUME TypeOK, UntouchedBeforePublish, WorkerOwnsItsRow, [Next]_vars
  PROVE  StageStep
<1>1. ASSUME NEW i \in Ids, Enqueue(i) PROVE StageStep
  BY <1>1 DEF Enqueue, StageStep, MayAppear, Stages
<1>2. ASSUME NEW i \in Ids, DeadlinePasses(i) PROVE StageStep
  BY <1>2 DEF DeadlinePasses, StageStep
<1>3. CASE ReconcileNothing
  BY <1>3 DEF ReconcileNothing, rows, StageStep
<1>4. CASE CrashRestart
  BY <1>4, RecoveryStages DEF CrashRestart, Reborn
<1>5. CASE SecondStart
  BY <1>5, RecoveryStages DEF SecondStart
<1>6. CASE OthersPush
  BY <1>6 DEF OthersPush, rows, StageStep
<1>7. CASE UNCHANGED vars
  BY <1>7 DEF vars, rows, StageStep
<1> QED
  BY <1>1, <1>2, <1>3, <1>4, <1>5, <1>6, <1>7, OrchestratorStages, SoakStages,
     RollbackStages, ReconcileStages, RetireStages, WatchdogStages, DeployStages
     DEF Next

-----------------------------------------------------------------------------
(***************************************************************************)
(* Which actions move which variable: the proofs below look only at those. *)
(***************************************************************************)
LEMMA RepoMoves ==
  ASSUME [Next]_vars
  PROVE  \/ UNCHANGED repo
         \/ UNCHANGED served /\ \E i \in Ids : GatePrepared(i) \/ RollbackCommits(i)
         \/ UNCHANGED served /\ \E i \in Ids, k \in Kinds : ChildMerges(i, k) \/ ChildPushes(i, k)
         \/ OthersPush
<1>1. ASSUME NEW i \in Ids, Orchestrator(i) PROVE UNCHANGED repo \/ (UNCHANGED served /\ GatePrepared(i))
  BY <1>1 DEF Orchestrator, Dequeue, RefuseClaim, ClaimGate, GateStops, GatePrepared,
     GateApproves,
              PublishRefused, PublishIntent, PublishMain, PublishRestart, SpawnDeploy, World
<1>2. ASSUME NEW i \in Ids, Soak(i) \/ Reconcile(i) \/ Retire(i) \/ Watchdog(i)
      PROVE  UNCHANGED repo
  BY <1>2 DEF Soak, LoopEnds, SoakPasses, ProbeCounts, SoakTimesOut, LoopRest,
              Reconcile, ReconcileResumes, ReconcileWalks, ReconcileHolds, ReconcileRest,
              Retire, RetireQueued, RecoverHeld, RetireRest,
              Watchdog, WatchdogHolds, WatchdogReleases, WatchdogRest
<1>3. ASSUME NEW i \in Ids, Rollback(i)
      PROVE  UNCHANGED repo \/ (UNCHANGED served /\ RollbackCommits(i))
  BY <1>3 DEF Rollback, RollbackRefused, RollbackBegins, RollbackConflicts, RollbackCommits,
              RollbackPublished, RollbackRestart, RollbackSpawn, LoopRest
<1>4. ASSUME NEW i \in Ids, NEW k \in Kinds, Deploy(i, k)
      PROVE  UNCHANGED repo \/ (UNCHANGED served /\ (ChildMerges(i, k) \/ ChildPushes(i, k)))
  BY <1>4 DEF Deploy, ChildMerges, ChildPushes, ChildDies, DeployRestart, Reborn
<1>5. ASSUME \/ \E i \in Ids : Enqueue(i) \/ DeadlinePasses(i)
             \/ ReconcileNothing \/ CrashRestart \/ SecondStart \/ UNCHANGED vars
      PROVE  UNCHANGED repo
  BY <1>5 DEF Enqueue, DeadlinePasses, ReconcileNothing, ReconcileRest, CrashRestart, Reborn,
              SecondStart, vars
<1> QED
  BY <1>1, <1>2, <1>3, <1>4, <1>5 DEF Next

(***************************************************************************)
(* Only a new process serves another commit: main as it finds it.          *)
(***************************************************************************)
LEMMA ServedMoves ==
  ASSUME [Next]_vars
  PROVE  UNCHANGED served \/ (served' = main /\ UNCHANGED repo)
<1>1. ASSUME NEW i \in Ids, Orchestrator(i) PROVE UNCHANGED served
  BY <1>1 DEF Orchestrator, Dequeue, RefuseClaim, ClaimGate, GateStops, GatePrepared,
     GateApproves,
              PublishRefused, PublishIntent, PublishMain, PublishRestart, SpawnDeploy, World
<1>2. ASSUME NEW i \in Ids, Soak(i) \/ Reconcile(i) \/ Retire(i) \/ Watchdog(i)
      PROVE  UNCHANGED served
  BY <1>2 DEF Soak, LoopEnds, SoakPasses, ProbeCounts, SoakTimesOut, LoopRest,
              Reconcile, ReconcileResumes, ReconcileWalks, ReconcileHolds, ReconcileRest,
              Retire, RetireQueued, RecoverHeld, RetireRest,
              Watchdog, WatchdogHolds, WatchdogReleases, WatchdogRest
<1>3. ASSUME NEW i \in Ids, Rollback(i) PROVE UNCHANGED served
  BY <1>3 DEF Rollback, RollbackRefused, RollbackBegins, RollbackConflicts, RollbackCommits,
              RollbackPublished, RollbackRestart, RollbackSpawn, LoopRest
<1>4. ASSUME NEW i \in Ids, NEW k \in Kinds, Deploy(i, k)
      PROVE  UNCHANGED served \/ (served' = main /\ UNCHANGED repo)
  BY <1>4 DEF Deploy, ChildMerges, ChildPushes, ChildDies, DeployRestart, Reborn
<1>5. ASSUME \/ \E i \in Ids : Enqueue(i) \/ DeadlinePasses(i)
             \/ ReconcileNothing \/ CrashRestart \/ SecondStart \/ OthersPush \/ UNCHANGED vars
      PROVE  UNCHANGED served \/ (served' = main /\ UNCHANGED repo)
  BY <1>5 DEF Enqueue, DeadlinePasses, ReconcileNothing, ReconcileRest, CrashRestart, Reborn,
              SecondStart, OthersPush, vars
<1> QED
  BY <1>1, <1>2, <1>3, <1>4, <1>5 DEF Next

(***************************************************************************)
(* Who moves a detached deploy.                                            *)
(***************************************************************************)
LEMMA DeployMoves ==
  ASSUME [Next]_vars
  PROVE  \/ UNCHANGED child
         \/ \E i \in Ids : SpawnDeploy(i) \/ RollbackSpawn(i)
         \/ \E i \in Ids, k \in Kinds : Deploy(i, k)
<1>1. ASSUME NEW i \in Ids, Orchestrator(i) PROVE UNCHANGED child \/ SpawnDeploy(i)
  BY <1>1 DEF Orchestrator, Dequeue, RefuseClaim, ClaimGate, GateStops, GatePrepared,
     GateApproves,
              PublishRefused, PublishIntent, PublishMain, PublishRestart, World
<1>2. ASSUME NEW i \in Ids, Soak(i) \/ Reconcile(i) \/ Retire(i) \/ Watchdog(i)
      PROVE  UNCHANGED child
  BY <1>2 DEF Soak, LoopEnds, SoakPasses, ProbeCounts, SoakTimesOut, LoopRest,
              Reconcile, ReconcileResumes, ReconcileWalks, ReconcileHolds, ReconcileRest,
              Retire, RetireQueued, RecoverHeld, RetireRest,
              Watchdog, WatchdogHolds, WatchdogReleases, WatchdogRest
<1>3. ASSUME NEW i \in Ids, Rollback(i) PROVE UNCHANGED child \/ RollbackSpawn(i)
  BY <1>3 DEF Rollback, RollbackRefused, RollbackBegins, RollbackConflicts, RollbackCommits,
              RollbackPublished, RollbackRestart, LoopRest
<1>4. ASSUME \/ \E i \in Ids : Enqueue(i) \/ DeadlinePasses(i)
             \/ ReconcileNothing \/ CrashRestart \/ SecondStart \/ OthersPush \/ UNCHANGED vars
      PROVE  UNCHANGED child
  BY <1>4 DEF Enqueue, DeadlinePasses, ReconcileNothing, ReconcileRest, CrashRestart,
              SecondStart, OthersPush, vars
<1> QED
  BY <1>1, <1>2, <1>3, <1>4 DEF Next

(***************************************************************************)
(* Who moves a soak or rollback worker.                                    *)
(***************************************************************************)
LEMMA LoopMoves ==
  ASSUME [Next]_vars
  PROVE  \/ UNCHANGED loop
         \/ loop' = [i \in Ids |-> LoopOff]
         \/ \E i \in Ids : Soak(i) \/ Rollback(i) \/ ReconcileResumes(i) \/ RecoverHeld(i)
<1>1. ASSUME NEW i \in Ids, Orchestrator(i) PROVE UNCHANGED loop
  BY <1>1 DEF Orchestrator, Dequeue, RefuseClaim, ClaimGate, GateStops, GatePrepared,
     GateApproves,
              PublishRefused, PublishIntent, PublishMain, PublishRestart, SpawnDeploy, World
<1>2. ASSUME NEW i \in Ids, Reconcile(i) \/ Retire(i) \/ Watchdog(i)
      PROVE  UNCHANGED loop \/ ReconcileResumes(i) \/ RecoverHeld(i)
  BY <1>2 DEF Reconcile, ReconcileWalks, ReconcileHolds, Retire, RetireQueued,
              Watchdog, WatchdogHolds, WatchdogReleases, WatchdogRest, memory
<1>3. ASSUME NEW i \in Ids, NEW k \in Kinds, Deploy(i, k)
      PROVE  UNCHANGED loop \/ loop' = [j \in Ids |-> LoopOff]
  BY <1>3 DEF Deploy, ChildMerges, ChildPushes, ChildDies, DeployRestart, Reborn, memory
<1>4. ASSUME \/ \E i \in Ids : Enqueue(i) \/ DeadlinePasses(i)
             \/ ReconcileNothing \/ CrashRestart \/ SecondStart \/ OthersPush \/ UNCHANGED vars
      PROVE  UNCHANGED loop \/ loop' = [i \in Ids |-> LoopOff]
  BY <1>4 DEF Enqueue, DeadlinePasses, ReconcileNothing, CrashRestart, Reborn, SecondStart,
              OthersPush, vars, memory
<1> QED
  BY <1>1, <1>2, <1>3, <1>4 DEF Next

(***************************************************************************)
(* Who moves the orchestrator's worker.                                    *)
(***************************************************************************)
LEMMA OrcMoves ==
  ASSUME [Next]_vars
  PROVE  \/ UNCHANGED orc
         \/ orc' = OrcIdle
         \/ \E i \in Ids : Orchestrator(i)
<1>1. ASSUME NEW i \in Ids, Soak(i) \/ Reconcile(i) \/ Retire(i) \/ Watchdog(i)
      PROVE  UNCHANGED orc
  BY <1>1 DEF Soak, LoopEnds, SoakPasses, ProbeCounts, SoakTimesOut, LoopRest,
              Reconcile, ReconcileResumes, ReconcileWalks, ReconcileHolds, ReconcileRest,
              Retire, RetireQueued, RecoverHeld, RetireRest,
              Watchdog, WatchdogHolds, WatchdogReleases, WatchdogRest, memory
<1>2. ASSUME NEW i \in Ids, Rollback(i) PROVE UNCHANGED orc
  BY <1>2 DEF Rollback, RollbackRefused, RollbackBegins, RollbackConflicts, RollbackCommits,
              RollbackPublished, RollbackRestart, RollbackSpawn, LoopRest
<1>3. ASSUME NEW i \in Ids, NEW k \in Kinds, Deploy(i, k)
      PROVE  UNCHANGED orc \/ orc' = OrcIdle
  BY <1>3 DEF Deploy, ChildMerges, ChildPushes, ChildDies, DeployRestart, Reborn, memory
<1>4. ASSUME \/ \E i \in Ids : Enqueue(i) \/ DeadlinePasses(i)
             \/ ReconcileNothing \/ CrashRestart \/ SecondStart \/ OthersPush \/ UNCHANGED vars
      PROVE  UNCHANGED orc \/ orc' = OrcIdle
  BY <1>4 DEF Enqueue, DeadlinePasses, ReconcileNothing, ReconcileRest, CrashRestart, Reborn,
              SecondStart, OthersPush, vars, memory
<1> QED
  BY <1>1, <1>2, <1>3, <1>4 DEF Next

(***************************************************************************)
(* Only the ROLLBACK_PUBLISHED transition writes rollback_sha.             *)
(***************************************************************************)
LEMMA RollbackShaMoves ==
  ASSUME [Next]_vars
  PROVE  UNCHANGED rollbackSha \/ \E i \in Ids : RollbackPublished(i)
<1>0. \A i, ft, c : SafeHold(i, ft, c) => UNCHANGED rollbackSha
  BY DEF SafeHold, Patch, KeepRow, rows
<1>1. ASSUME NEW i \in Ids, Orchestrator(i) PROVE UNCHANGED rollbackSha
  BY <1>0, <1>1 DEF Orchestrator, Dequeue, RefuseClaim, ClaimGate, GateStops, GatePrepared,
              GateApproves, PublishRefused, PublishIntent, PublishMain, PublishRestart,
              SpawnDeploy, OrcMove, Patch, KeepRow, rows
<1>2. ASSUME NEW i \in Ids, Soak(i) \/ Reconcile(i) \/ Retire(i) \/ Watchdog(i)
      PROVE  UNCHANGED rollbackSha
  BY <1>0, <1>2 DEF Soak, LoopEnds, SoakPasses, ProbeCounts, SoakTimesOut,
              Reconcile, ReconcileResumes, ReconcileWalks, ReconcileHolds,
              Retire, RetireQueued, RecoverHeld,
              Watchdog, WatchdogHolds, WatchdogReleases, Patch, KeepRow, rows
<1>3. ASSUME NEW i \in Ids, Rollback(i) PROVE UNCHANGED rollbackSha \/ RollbackPublished(i)
  BY <1>0, <1>3 DEF Rollback, RollbackRefused, RollbackBegins, RollbackConflicts,
     RollbackCommits,
              RollbackRestart, RollbackSpawn, Patch, KeepRow, rows
<1>4. ASSUME NEW i \in Ids, NEW k \in Kinds, Deploy(i, k) PROVE UNCHANGED rollbackSha
  BY <1>4 DEF Deploy, ChildMerges, ChildPushes, ChildDies, DeployRestart, Reborn,
     RecoverOnBoot, rows
<1>5. ASSUME \/ \E i \in Ids : Enqueue(i) \/ DeadlinePasses(i)
             \/ ReconcileNothing \/ CrashRestart \/ SecondStart \/ OthersPush \/ UNCHANGED vars
      PROVE  UNCHANGED rollbackSha
  BY <1>5 DEF Enqueue, DeadlinePasses, KeepRow, ReconcileNothing, CrashRestart, Reborn,
              RecoverOnBoot, SecondStart, OthersPush, vars, rows
<1> QED
  BY <1>1, <1>2, <1>3, <1>4, <1>5 DEF Next

(***************************************************************************)
(* A token moves when its row is enqueued and when a boot recovers it.     *)
(***************************************************************************)
LEMMA FenceMoves ==
  ASSUME TypeOK, [Next]_vars, NEW j \in Ids
  PROVE  fence'[j] = fence[j] \/ stage[j] = "ABSENT" \/ (Occupies(j) /\ RecoverOnBoot)
<1>0. \A i, ft, c : SafeHold(i, ft, c) => UNCHANGED fence
  BY DEF SafeHold, Patch, KeepRow, rows
<1>1. ASSUME NEW i \in Ids, Orchestrator(i) PROVE UNCHANGED fence
  BY <1>0, <1>1 DEF Orchestrator, Dequeue, RefuseClaim, ClaimGate, GateStops, GatePrepared,
              GateApproves, PublishRefused, PublishIntent, PublishMain, PublishRestart,
              SpawnDeploy, OrcMove, Patch, KeepRow, rows
<1>2. ASSUME NEW i \in Ids, Soak(i) \/ Reconcile(i) \/ Retire(i) \/ Watchdog(i)
      PROVE  UNCHANGED fence
  BY <1>0, <1>2 DEF Soak, LoopEnds, SoakPasses, ProbeCounts, SoakTimesOut,
              Reconcile, ReconcileResumes, ReconcileWalks, ReconcileHolds,
              Retire, RetireQueued, RecoverHeld,
              Watchdog, WatchdogHolds, WatchdogReleases, Patch, KeepRow, rows
<1>3. ASSUME NEW i \in Ids, Rollback(i) PROVE UNCHANGED fence
  BY <1>0, <1>3 DEF Rollback, RollbackRefused, RollbackBegins, RollbackConflicts,
     RollbackCommits,
              RollbackPublished, RollbackRestart, RollbackSpawn, Patch, KeepRow, rows
<1>4. RecoverOnBoot => fence'[j] = fence[j] \/ Occupies(j)
  BY DEF RecoverOnBoot, Occupant
<1>5. ASSUME NEW i \in Ids, NEW k \in Kinds, Deploy(i, k) PROVE UNCHANGED fence \/ RecoverOnBoot
  BY <1>5 DEF Deploy, ChildMerges, ChildPushes, ChildDies, DeployRestart, Reborn, rows
<1>6. ASSUME NEW i \in Ids, Enqueue(i) PROVE fence'[j] = fence[j] \/ stage[j] = "ABSENT"
  BY <1>6 DEF Enqueue, TypeOK, RowsTypeOK
<1>7. ASSUME \/ \E i \in Ids : DeadlinePasses(i)
             \/ ReconcileNothing \/ CrashRestart \/ SecondStart \/ OthersPush \/ UNCHANGED vars
      PROVE  UNCHANGED fence \/ RecoverOnBoot
  BY <1>7 DEF DeadlinePasses, KeepRow, ReconcileNothing, CrashRestart, Reborn,
              SecondStart, OthersPush, vars, rows
<1> QED
  BY <1>1, <1>2, <1>3, <1>4, <1>5, <1>6, <1>7 DEF Next

=============================================================================
