------------------------ MODULE DeployPipelineProofs ------------------------
(***************************************************************************)
(* Theorems about DeployPipeline, for every number of integrations,        *)
(* probes, restarts and foreign pushes: one lemma per conjunct of the      *)
(* inductive invariant PipelineInv, then what follows from it.             *)
(***************************************************************************)
EXTENDS DeployPipelineSteps

(***************************************************************************)
(* A second row cannot start to occupy the pipeline.                       *)
(***************************************************************************)
LEMMA SingleOccupantStep ==
  ASSUME TypeOK, SingleOccupant, StageStep
  PROVE  SingleOccupant'
<1>1. CASE stage' = stage
  BY <1>1 DEF SingleOccupant, InFlight
<1>2. ASSUME NEW i \in Ids, NEW to \in Stages, Move(i, to), MayMove(i, to) \/ MayAppear(i, to)
      PROVE  SingleOccupant'
  <2>1. \A j \in Ids : j # i => (Occupies(j)' <=> Occupies(j))
    BY <1>2 DEF Move, Occupies, TypeOK, RowsTypeOK
  <2>2. stage'[i] = to
    BY <1>2 DEF Move, TypeOK, RowsTypeOK
  <2>3. CASE to \in Active \cup {"HELD"}
    <3>1. \A j \in Ids : j # i => ~Occupies(j)
      BY <1>2, <2>3 DEF MayMove, MayAppear, SingleOccupant, InFlight, Occupies, Active, GateStages,
         ForwardPath, RollbackPath
    <3> QED BY <2>1, <3>1 DEF SingleOccupant, InFlight, Occupies, Active, GateStages,
                                  ForwardPath, RollbackPath
  <2>4. CASE to \notin Active \cup {"HELD"}
    <3>1. ~Occupies(i)'
      BY <2>2, <2>4 DEF Occupies
    <3> QED BY <2>1, <3>1 DEF SingleOccupant, InFlight, Occupies, Active, GateStages,
                                  ForwardPath, RollbackPath
  <2> QED BY <2>3, <2>4
<1> QED BY <1>1, <1>2 DEF StageStep

(***************************************************************************)
(* A row does not become unpublished, waiting or absent again.             *)
(***************************************************************************)
LEMMA NoWayBack ==
  ASSUME TypeOK, StageStep, NEW i \in Ids
  PROVE  /\ stage'[i] \in Unpublished => stage[i] \in Unpublished
         /\ stage'[i] = "ABSENT" => stage[i] = "ABSENT"
         /\ stage'[i] = "QUEUED" => stage[i] \in {"ABSENT", "QUEUED"}
<1>1. CASE stage' = stage
  BY <1>1
<1>2. ASSUME NEW j \in Ids, NEW to \in Stages, Move(j, to), MayMove(j, to) \/ MayAppear(j, to)
      PROVE  stage'[i] = stage[i]
             \/ (i = j /\ stage'[i] = to /\ (MayMove(i, to) \/ MayAppear(i, to)))
  BY <1>2 DEF Move, TypeOK, RowsTypeOK
<1>3. ASSUME NEW to \in Stages, MayMove(i, to)
      PROVE  to # "ABSENT" /\ to # "QUEUED" /\ (to \in Unpublished => stage[i] \in Unpublished)
  BY <1>3 DEF MayMove, Evidence, NextStages, Unpublished, GateStages
<1>4. ASSUME MayAppear(i, stage'[i])
      PROVE  stage'[i] = "QUEUED" /\ stage[i] = "ABSENT"
  BY <1>4 DEF MayAppear
<1> QED BY <1>1, <1>2, <1>3, <1>4 DEF StageStep, Unpublished

(***************************************************************************)
(* Rows are enqueued in the order of created_at.                           *)
(***************************************************************************)
LEMMA EnqueuedInOrderStep ==
  ASSUME TypeOK, EnqueuedInOrder, StageStep
  PROVE  EnqueuedInOrder'
<1>1. CASE stage' = stage
  BY <1>1 DEF EnqueuedInOrder
<1>2. ASSUME NEW j \in Ids, NEW to \in Stages, Move(j, to), MayMove(j, to) \/ MayAppear(j, to)
      PROVE  EnqueuedInOrder'
  <2>1. \A i \in Ids : stage'[i] = IF i = j THEN to ELSE stage[i]
    BY <1>2 DEF Move, TypeOK, RowsTypeOK
  <2>2. to # "ABSENT"
    BY DEF Stages, Active, GateStages, ForwardPath, RollbackPath, Terminal
  <2>3. MayMove(j, to) => stage[j] # "ABSENT"
    BY DEF MayMove, NextStages
  <2> QED BY <1>2, <2>1, <2>2, <2>3 DEF EnqueuedInOrder, MayAppear
<1> QED BY <1>1, <1>2 DEF StageStep

(***************************************************************************)
(* Nothing refers to a commit that main does not have yet.                 *)
(***************************************************************************)
LEMMA HistoryGrowsStep ==
  ASSUME TypeOK, HistoryGrows, [Next]_vars
  PROVE  HistoryGrows'
<1> USE DEF TypeOK, RepoTypeOK, ProcessTypeOK
<1>1. CASE UNCHANGED repo
  BY <1>1, ServedMoves DEF repo, HistoryGrows
<1>2. ASSUME NEW i \in Ids, GatePrepared(i), UNCHANGED served PROVE HistoryGrows'
  <2>1. main' = main /\ revertAt' = revertAt
    BY <1>2 DEF GatePrepared
  <2>2. \/ landed' = landed
        \/ landed' = [landed EXCEPT ![i] = 0]
        \/ landed' = [landed EXCEPT ![i] = main]
    BY <1>2 DEF GatePrepared
  <2>3. \A j \in Ids : landed'[j] <= main
    BY <2>2 DEF HistoryGrows
  <2> QED BY <1>2, <2>1, <2>3 DEF HistoryGrows
<1>3. ASSUME NEW i \in Ids, RollbackCommits(i), UNCHANGED served PROVE HistoryGrows'
  BY <1>3 DEF RollbackCommits, HistoryGrows
<1>4. ASSUME NEW i \in Ids, NEW k \in Kinds, ChildMerges(i, k), UNCHANGED served
      PROVE  HistoryGrows'
  <2>1. revertAt' = revertAt
    BY <1>4 DEF ChildMerges
  <2>2. CASE main' = main /\ landed' = landed
    BY <1>4, <2>1, <2>2 DEF HistoryGrows
  <2>3. CASE main' = main + 1 /\ landed' = [landed EXCEPT ![i] = main + 1]
    BY <1>4, <2>1, <2>3 DEF HistoryGrows
  <2>4. \/ main' = main /\ landed' = landed
        \/ main' = main + 1 /\ landed' = [landed EXCEPT ![i] = main + 1]
    BY <1>4 DEF ChildMerges
  <2> QED BY <2>2, <2>3, <2>4
<1>5. ASSUME NEW i \in Ids, NEW k \in Kinds, ChildPushes(i, k), UNCHANGED served
      PROVE  HistoryGrows'
  BY <1>5 DEF ChildPushes, HistoryGrows
<1>6. CASE OthersPush
  <2>1. main' = main + 1 /\ UNCHANGED <<revertAt, served>>
    BY <1>6 DEF OthersPush
  <2>2. landed' = landed \/ \E i \in Ids : landed' = [landed EXCEPT ![i] = main + 1]
    BY <1>6 DEF OthersPush
  <2>3. \A j \in Ids : landed'[j] <= main + 1
    BY <2>2 DEF HistoryGrows
  <2> QED BY <2>1, <2>3 DEF HistoryGrows
<1> QED BY <1>1, <1>2, <1>3, <1>4, <1>5, <1>6, RepoMoves

(***************************************************************************)
(* The gate leaves nothing outside its row.                                *)
(***************************************************************************)
LEMMA UntouchedBeforePublishStep ==
  ASSUME TypeOK, UntouchedBeforePublish, WorkerOwnsItsRow, StageStep, [Next]_vars
  PROVE  UntouchedBeforePublish'
<1> SUFFICES ASSUME NEW i \in Ids, stage'[i] \in Unpublished
             PROVE  /\ loop'[i].pc = "off"
                    /\ revertAt'[i] = 0
                    /\ \A k \in Kinds : child'[i][k] = "none"
  BY DEF UntouchedBeforePublish, Unpublished, GateStages
<1>1. stage[i] \in Unpublished
  BY NoWayBack
<1>2. loop[i].pc = "off" /\ revertAt[i] = 0 /\ \A k \in Kinds : child[i][k] = "none"
  BY <1>1 DEF UntouchedBeforePublish
<1>3. loop'[i].pc = "off"
  <2>1. CASE UNCHANGED loop \/ loop' = [j \in Ids |-> LoopOff]
    BY <1>2, <2>1 DEF LoopOff
  <2>2. ASSUME NEW j \in Ids, Soak(j) \/ Rollback(j) \/ ReconcileResumes(j) \/ RecoverHeld(j)
        PROVE  loop'[i].pc = "off"
    <3>1. CASE Soak(j) \/ Rollback(j)
      <4>1. loop[j].pc # "off"
        BY <3>1 DEF Soak, LoopEnds, SoakPasses, ProbeCounts, SoakTimesOut, Probing,
                    Rollback, RollbackRefused, RollbackBegins, RollbackConflicts,
                    RollbackCommits, RollbackPublished, RollbackRestart, RollbackSpawn
      <4>2. i # j
        BY <1>2, <4>1
      <4>3. (\E pc : LoopGoes(j, pc)) \/ StopLoop(j) \/ (\E n : loop' = [loop EXCEPT ![j].ok = n])
            \/ UNCHANGED loop
        BY <3>1 DEF Soak, LoopEnds, SoakPasses, ProbeCounts, SoakTimesOut,
                    Rollback, RollbackRefused, RollbackBegins, RollbackConflicts,
                    RollbackCommits, RollbackPublished, RollbackRestart, RollbackSpawn
      <4>4. loop'[i] = loop[i]
        BY <4>2, <4>3 DEF LoopGoes, StopLoop, TypeOK, ProcessTypeOK
      <4> QED BY <1>2, <4>4
    <3>2. CASE ReconcileResumes(j) \/ RecoverHeld(j)
      <4>1. i # j
        BY <1>1, <3>2 DEF ReconcileResumes, RecoverHeld, Unpublished, GateStages
      <4>2. loop'[i] = loop[i]
        BY <3>2, <4>1 DEF ReconcileResumes, RecoverHeld, StartLoop, TypeOK, ProcessTypeOK
      <4> QED BY <1>2, <4>2
    <3> QED BY <2>2, <3>1, <3>2
  <2> QED BY <2>1, <2>2, LoopMoves
<1>4. revertAt'[i] = 0
  <2>1. ASSUME NEW j \in Ids, RollbackCommits(j) PROVE revertAt'[i] = revertAt[i]
    BY <1>2, <2>1 DEF RollbackCommits, TypeOK, RepoTypeOK
  <2>2. UNCHANGED revertAt \/ \E j \in Ids : RollbackCommits(j)
    BY RepoMoves DEF repo, GatePrepared, ChildMerges, ChildPushes, OthersPush
  <2> QED BY <1>2, <2>1, <2>2
<1>5. ASSUME NEW k \in Kinds PROVE child'[i][k] = "none"
  <2>1. ASSUME NEW j \in Ids, SpawnDeploy(j) PROVE child'[i] = child[i]
    <3>1. stage[j] \notin Unpublished
      BY <2>1 DEF SpawnDeploy, WorkerOwnsItsRow
    <3> QED BY <1>1, <2>1, <3>1 DEF SpawnDeploy, TypeOK, RepoTypeOK
  <2>2. ASSUME NEW j \in Ids, RollbackSpawn(j) PROVE child'[i] = child[i]
    BY <1>2, <2>2 DEF RollbackSpawn, TypeOK, RepoTypeOK
  <2>3. ASSUME NEW j \in Ids, NEW l \in Kinds, Deploy(j, l) PROVE child'[i] = child[i]
    <3>1. child[j][l] # "none" /\ \E p : SetChild(j, l, p)
      BY <2>3 DEF Deploy, ChildMerges, ChildPushes, ChildDies, DeployRestart
    <3>2. i # j
      BY <1>2, <3>1
    <3> QED BY <3>1, <3>2 DEF SetChild, TypeOK, RepoTypeOK
  <2> QED BY <1>2, <2>1, <2>2, <2>3, DeployMoves
<1> QED BY <1>3, <1>4, <1>5

(***************************************************************************)
(* How the soak and the rollback of one integration advance.               *)
(***************************************************************************)
LEMMA LoopSteps ==
  ASSUME TypeOK, [Next]_vars, NEW i \in Ids
  PROVE  \/ loop'[i].pc = loop[i].pc
         \/ loop'[i].pc \in {"off", "probe"}
         \/ loop'[i].pc = "diff" /\ stage[i] = "VERIFYING"
         \/ RollbackBegins(i) /\ loop'[i].pc = "revert" /\ stage[i] \in ForwardPath
         \/ RollbackCommits(i) /\ loop'[i].pc = "committed"
         \/ RollbackPublished(i) /\ loop'[i].pc = "published" /\ rollbackSha'[i] = revertAt[i]
         \/ RollbackRestart(i) /\ loop'[i].pc = "spawn"
<1> USE DEF TypeOK, ProcessTypeOK
<1>1. CASE UNCHANGED loop \/ loop' = [j \in Ids |-> LoopOff]
  BY <1>1 DEF LoopOff
<1>2. ASSUME NEW j \in Ids, j # i, Soak(j) \/ Rollback(j) \/ ReconcileResumes(j) \/ RecoverHeld(j)
      PROVE  loop'[i] = loop[i]
  BY <1>2 DEF Soak, LoopEnds, SoakPasses, ProbeCounts, SoakTimesOut, Rollback, RollbackRefused,
              RollbackBegins, RollbackConflicts, RollbackCommits, RollbackPublished,
              RollbackRestart, RollbackSpawn, ReconcileResumes, RecoverHeld,
              LoopGoes, StopLoop, StartLoop
<1>3. ASSUME Soak(i)
      PROVE  \/ loop'[i].pc = loop[i].pc
             \/ loop'[i].pc = "off"
             \/ loop'[i].pc = "diff" /\ stage[i] = "VERIFYING"
  <2>1. CASE LoopEnds(i) \/ SoakPasses(i) \/ ProbeCounts(i)
    BY <2>1 DEF LoopEnds, SoakPasses, ProbeCounts, StopLoop, LoopOff
  <2>2. CASE SoakTimesOut(i)
    BY <2>2 DEF SoakTimesOut, SoakStands, VerifyStage, StopLoop, LoopGoes, LoopOff
  <2> QED BY <1>3, <2>1, <2>2 DEF Soak
<1>4. CASE ReconcileResumes(i) \/ RecoverHeld(i)
  BY <1>4 DEF ReconcileResumes, RecoverHeld, StartLoop, NewLoop
<1>5. CASE RollbackRefused(i) \/ RollbackConflicts(i) \/ RollbackSpawn(i)
  BY <1>5 DEF RollbackRefused, RollbackConflicts, RollbackSpawn, StopLoop, LoopOff
<1>6. CASE RollbackBegins(i)
  <2>1. CASE CanTransition(i, "ROLLING_BACK", loop[i].ft)
    <3>1. stage[i] \in ForwardPath
      BY <2>1 DEF CanTransition, NextStages, ForwardPath
    <3> QED BY <1>6, <2>1, <3>1 DEF RollbackBegins, LoopGoes
  <2>2. CASE ~CanTransition(i, "ROLLING_BACK", loop[i].ft)
    BY <1>6, <2>2 DEF RollbackBegins, StopLoop, LoopOff
  <2> QED BY <2>1, <2>2
<1>7. CASE RollbackCommits(i)
  BY <1>7 DEF RollbackCommits, LoopGoes
<1>8. CASE RollbackPublished(i)
  <2>1. CASE CanTransition(i, "ROLLBACK_PUBLISHED", fence[i])
    BY <1>8, <2>1 DEF RollbackPublished, LoopGoes, RowsTypeOK
  <2>2. CASE ~CanTransition(i, "ROLLBACK_PUBLISHED", fence[i])
    BY <1>8, <2>2 DEF RollbackPublished, StopLoop, LoopOff
  <2> QED BY <2>1, <2>2
<1>9. CASE RollbackRestart(i)
  BY <1>9 DEF RollbackRestart, LoopGoes, StopLoop, LoopOff
<1>10. ASSUME Rollback(i)
       PROVE  \/ RollbackRefused(i) \/ RollbackConflicts(i) \/ RollbackSpawn(i)
              \/ RollbackBegins(i) \/ RollbackCommits(i) \/ RollbackPublished(i)
              \/ RollbackRestart(i)
  BY <1>10 DEF Rollback
<1> QED
  BY <1>1, <1>2, <1>3, <1>4, <1>5, <1>6, <1>7, <1>8, <1>9, <1>10, LoopMoves

(***************************************************************************)
(* A revert is committed on top of the candidate it undoes.                *)
(***************************************************************************)
LEMMA RevertOnlyShippedStep ==
  ASSUME TypeOK, RevertOnlyShipped, UntouchedBeforePublish, StagesTellTheRelease, HistoryGrows,
         [Next]_vars
  PROVE  RevertOnlyShipped'
<1> USE DEF TypeOK, RepoTypeOK
<1>1. CASE UNCHANGED repo
  BY <1>1 DEF repo, RevertOnlyShipped
<1>2. ASSUME NEW i \in Ids, GatePrepared(i) PROVE RevertOnlyShipped'
  <2>1. CASE landed' = landed
    BY <1>2, <2>1 DEF GatePrepared, RevertOnlyShipped
  <2>2. CASE landed' # landed
    <3>1. stage[i] = "PREPARING"
      BY <1>2, <2>2 DEF GatePrepared, CanTransition, NextStages
    <3>2. revertAt[i] = 0
      BY <3>1 DEF UntouchedBeforePublish, Unpublished, GateStages
    <3>3. revertAt' = revertAt /\ \A j \in Ids \ {i} : landed'[j] = landed[j]
      BY <1>2 DEF GatePrepared
    <3> QED BY <3>2, <3>3 DEF RevertOnlyShipped
  <2> QED BY <2>1, <2>2
<1>3. ASSUME NEW i \in Ids, RollbackCommits(i) PROVE RevertOnlyShipped'
  <2>1. landed[i] # 0 /\ landed[i] <= main
    BY <1>3 DEF RollbackCommits, StagesTellTheRelease, LoopStates, InRelease, HistoryGrows
  <2>2. landed' = landed /\ revertAt' = [revertAt EXCEPT ![i] = main + 1]
    BY <1>3 DEF RollbackCommits
  <2> QED BY <2>1, <2>2 DEF RevertOnlyShipped
<1>4. ASSUME UNCHANGED revertAt,
             landed' = landed \/ \E i \in Ids : landed[i] = 0 /\ landed' = [landed EXCEPT ![i] = main + 1]
      PROVE  RevertOnlyShipped'
  BY <1>4 DEF RevertOnlyShipped
<1>5. ASSUME NEW i \in Ids, NEW k \in Kinds, ChildMerges(i, k) \/ ChildPushes(i, k)
      PROVE  RevertOnlyShipped'
  BY <1>4, <1>5 DEF ChildMerges, ChildPushes
<1>6. CASE OthersPush
  BY <1>4, <1>6 DEF OthersPush
<1> QED BY <1>1, <1>2, <1>3, <1>5, <1>6, RepoMoves

(***************************************************************************)
(* rollback_sha is written once the revert exists, and names it.           *)
(***************************************************************************)
LEMMA RollbackShaNamesRevertStep ==
  ASSUME TypeOK, RollbackShaNamesRevert, UntouchedBeforePublish, StageStep, [Next]_vars
  PROVE  RollbackShaNamesRevert'
<1> USE DEF TypeOK, RowsTypeOK, RepoTypeOK
<1> DEFINE Before == Unpublished \cup ForwardPath \cup {"ROLLING_BACK"}
           Clean(i) == /\ rollbackSha[i] \in {0, revertAt[i]}
                       /\ stage[i] \in Before => rollbackSha[i] = 0
                       /\ loop[i].pc \in {"revert", "committed"} => rollbackSha[i] = 0
                       /\ loop[i].pc = "committed" => revertAt[i] # 0
                       /\ loop[i].pc \in {"published", "spawn"} => rollbackSha[i] # 0
<1> SUFFICES ASSUME NEW i \in Ids PROVE Clean(i)'
  BY DEF RollbackShaNamesRevert, Unpublished, GateStages, ForwardPath
<1>0. Clean(i)
  BY DEF RollbackShaNamesRevert
<1> HIDE DEF Clean
<1>1. stage'[i] \in Before => rollbackSha[i] = 0
  <2>1. CASE stage'[i] = stage[i]
    BY <1>0, <2>1 DEF Clean
  <2>2. CASE MayMove(i, stage'[i])
    <3>1. stage'[i] \in Before => stage[i] \in Before \cup {"HELD"}
      BY <2>2 DEF MayMove, NextStages, Unpublished, GateStages, ForwardPath
    <3>2. stage'[i] \in Before /\ stage[i] = "HELD" => rollbackSha[i] = 0
      BY <2>2 DEF MayMove, Evidence, Unpublished, GateStages, ForwardPath
    <3> QED BY <1>0, <3>1, <3>2 DEF Clean
  <2>3. CASE MayAppear(i, stage'[i])
    BY <1>0, <2>3 DEF MayAppear, Unpublished, Clean
  <2>4. stage'[i] = stage[i] \/ MayMove(i, stage'[i]) \/ MayAppear(i, stage'[i])
    BY DEF StageStep, Move
  <2> QED BY <2>1, <2>2, <2>3, <2>4
<1>2. \/ rollbackSha'[i] = rollbackSha[i]
      \/ /\ RollbackPublished(i)
         /\ stage'[i] = "ROLLBACK_PUBLISHED"
         /\ loop'[i].pc = "published"
         /\ loop[i].pc = "committed"
         /\ rollbackSha'[i] = revertAt[i]
  <2>1. ASSUME NEW j \in Ids, RollbackPublished(j), CanTransition(j, "ROLLBACK_PUBLISHED", fence[j])
        PROVE  /\ stage' = [stage EXCEPT ![j] = "ROLLBACK_PUBLISHED"]
               /\ rollbackSha' = [rollbackSha EXCEPT ![j] = revertAt[j]]
               /\ loop[j].pc = "committed"
               /\ loop' = [loop EXCEPT ![j].pc = "published"]
    BY <2>1 DEF RollbackPublished, Move, LoopGoes
  <2>2. ASSUME NEW j \in Ids, RollbackPublished(j), ~CanTransition(j, "ROLLBACK_PUBLISHED", fence[j])
        PROVE  UNCHANGED rollbackSha
    BY <2>2 DEF RollbackPublished, SafeHold, Patch, KeepRow, rows
  <2> QED BY <2>1, <2>2, RollbackShaMoves DEF ProcessTypeOK
<1>3. revertAt'[i] = revertAt[i] \/ (RollbackCommits(i) /\ revertAt'[i] = main + 1)
  BY RepoMoves DEF repo, GatePrepared, ChildMerges, ChildPushes, OthersPush, RollbackCommits
<1>4. ~(stage'[i] = "ROLLBACK_PUBLISHED" /\ stage'[i] \in Before)
  BY DEF Unpublished, GateStages, ForwardPath
<1> HIDE DEF Before
<1>5. CASE RollbackCommits(i)
  BY <1>0, <1>1, <1>5 DEF Clean, RollbackCommits, LoopGoes, rows, ProcessTypeOK
<1>6. CASE RollbackPublished(i)
  <2>1. revertAt' = revertAt
    BY <1>6 DEF RollbackPublished, LoopRest, repo
  <2>2. loop[i].pc = "committed" /\ loop'[i].pc \in {"published", "off"}
        /\ (loop'[i].pc = "published" => rollbackSha'[i] = revertAt[i])
    BY <1>6, LoopSteps DEF RollbackPublished, LoopGoes, StopLoop, LoopOff, ProcessTypeOK
  <2> QED BY <1>0, <1>1, <1>2, <1>4, <2>1, <2>2 DEF Clean
<1>7. CASE ~RollbackCommits(i) /\ ~RollbackPublished(i)
  <2>1. UNCHANGED <<rollbackSha[i], revertAt[i]>>
    BY <1>2, <1>3, <1>7
  <2>2. \/ loop'[i].pc = loop[i].pc
        \/ loop'[i].pc \in {"off", "probe", "diff"}
        \/ loop'[i].pc = "revert" /\ stage[i] \in ForwardPath
        \/ loop'[i].pc = "spawn" /\ loop[i].pc = "published"
    BY <1>7, LoopSteps DEF RollbackRestart
  <2>3. stage[i] \in ForwardPath => rollbackSha[i] = 0
    BY <1>0 DEF Clean, Before
  <2> QED BY <1>0, <1>1, <2>1, <2>2, <2>3 DEF Clean
<1> QED BY <1>5, <1>6, <1>7

(***************************************************************************)
(* What is in the running release stays there, but for a candidate that    *)
(* the gate rebases: that one is not published yet.                        *)
(***************************************************************************)
LEMMA ReleaseKeepsLanded ==
  ASSUME TypeOK, HistoryGrows, UntouchedBeforePublish, StageStep, [Next]_vars,
         NEW i \in Ids, InRelease(landed[i])
  PROVE  InRelease(landed[i])' \/ (stage[i] = "PREPARING" /\ stage'[i] = "CHECKING")
<1> USE DEF TypeOK, RepoTypeOK, ProcessTypeOK, RowsTypeOK
<1>1. served <= served' /\ served' \in Nat
  BY ServedMoves DEF HistoryGrows
<1>2. CASE landed'[i] = landed[i]
  BY <1>1, <1>2 DEF InRelease
<1>3. CASE landed'[i] # landed[i]
  <2>1. ASSUME NEW j \in Ids, GatePrepared(j)
        PROVE  stage[i] = "PREPARING" /\ stage'[i] = "CHECKING"
    <3>1. i = j /\ CanTransition(i, "CHECKING", orc.ft)
      BY <1>3, <2>1 DEF GatePrepared
    <3> QED BY <2>1, <3>1 DEF GatePrepared, CanTransition, NextStages, Move
  <2>2. ASSUME NEW j \in Ids, NEW k \in Kinds, ChildMerges(j, k) \/ ChildPushes(j, k)
        PROVE  landed'[i] = landed[i] \/ landed[i] = 0
    BY <2>2 DEF ChildMerges, ChildPushes
  <2>3. ASSUME OthersPush PROVE landed'[i] = landed[i] \/ landed[i] = 0
    BY <2>3 DEF OthersPush
  <2>4. ASSUME NEW j \in Ids, RollbackCommits(j) PROVE landed'[i] = landed[i]
    BY <2>4 DEF RollbackCommits
  <2> QED BY <1>3, <2>1, <2>2, <2>3, <2>4, RepoMoves DEF repo, InRelease
<1> QED BY <1>2, <1>3

(***************************************************************************)
(* Stages and rollbacks that speak of the running release speak true.      *)
(***************************************************************************)
LEMMA StagesTellTheReleaseStep ==
  ASSUME TypeOK, StagesTellTheRelease, HistoryGrows, UntouchedBeforePublish,
  RollbackShaNamesRevert,
         StageStep, [Next]_vars
  PROVE  StagesTellTheRelease'
<1> USE DEF TypeOK, RowsTypeOK
<1> SUFFICES ASSUME NEW i \in Ids
             PROVE  /\ stage'[i] \in {"VERIFYING", "GREEN", "SUPERSEDED"} => InRelease(landed[i])'
                    /\ loop'[i].pc \in LoopStates \ {"off", "probe"} => InRelease(landed[i])'
                    /\ stage'[i] \in {"ROLLBACK_VERIFYING", "ROLLED_BACK"} => InRelease(rollbackSha[i])'
  BY DEF StagesTellTheRelease, LoopStates
<1>1. stage'[i] = stage[i] \/ MayMove(i, stage'[i]) \/ MayAppear(i, stage'[i])
  BY DEF StageStep, Move
<1>2. ASSUME stage'[i] \in {"VERIFYING", "GREEN", "SUPERSEDED"} PROVE InRelease(landed[i])'
  <2>1. InRelease(landed[i])
    BY <1>1, <1>2 DEF StagesTellTheRelease, MayMove, MayAppear, Evidence, ServedHas,
       ExpectedAt, InRelease
  <2> QED BY <1>2, <2>1, ReleaseKeepsLanded
<1>3. ASSUME loop'[i].pc \in LoopStates \ {"off", "probe"} PROVE InRelease(landed[i])'
  <2>1. loop[i].pc \in LoopStates \ {"off", "probe"} \/ stage[i] = "VERIFYING"
    BY <1>3, LoopSteps DEF LoopStates, RollbackBegins, RollbackCommits, RollbackPublished,
       RollbackRestart
  <2>2. InRelease(landed[i])
    BY <2>1 DEF StagesTellTheRelease
  <2>3. stage[i] # "PREPARING"
    BY <2>1 DEF LoopStates, UntouchedBeforePublish, Unpublished, GateStages
  <2> QED BY <2>2, <2>3, ReleaseKeepsLanded
<1>4. ASSUME stage'[i] \in {"ROLLBACK_VERIFYING", "ROLLED_BACK"} PROVE InRelease(rollbackSha[i])'
  <2>1. InRelease(rollbackSha[i])
    BY <1>1, <1>4 DEF StagesTellTheRelease, MayMove, MayAppear, Evidence, ServedHas,
       ExpectedAt, InRelease
  <2>2. rollbackSha'[i] = rollbackSha[i]
    <3>1. ASSUME NEW j \in Ids, RollbackPublished(j) PROVE rollbackSha'[i] = rollbackSha[i]
      <4>1. rollbackSha[j] = 0
        BY <3>1 DEF RollbackPublished, RollbackShaNamesRevert
      <4>2. i # j
        BY <2>1, <4>1 DEF InRelease
      <4> QED BY <3>1, <4>2 DEF RollbackPublished, SafeHold, Patch, KeepRow, rows
    <3> QED BY <3>1, RollbackShaMoves
  <2>3. served <= served' /\ served' \in Nat
    BY ServedMoves DEF HistoryGrows, ProcessTypeOK, RepoTypeOK
  <2> QED BY <2>1, <2>2, <2>3 DEF InRelease, ProcessTypeOK, RepoTypeOK
<1> QED BY <1>2, <1>3, <1>4

(***************************************************************************)
(* Each worker is about to spawn the first deploy of its kind.             *)
(***************************************************************************)
LEMMA SpawnsAreFirstStep ==
  ASSUME TypeOK, SpawnsAreFirst, WorkerOwnsItsRow, UntouchedBeforePublish,
  RollbackShaNamesRevert,
         RollbackShaNamesRevert', [Next]_vars
  PROVE  SpawnsAreFirst'
<1> USE DEF TypeOK, RepoTypeOK, ProcessTypeOK
<1>1. ASSUME NEW i \in Ids, NEW k \in Kinds
      PROVE  \/ child'[i][k] = child[i][k]
             \/ child[i][k] # "none"
             \/ k = "forward" /\ SpawnDeploy(i)
             \/ k = "rollback" /\ RollbackSpawn(i)
  <2>1. ASSUME NEW j \in Ids, SpawnDeploy(j)
        PROVE  child'[i][k] = child[i][k] \/ (k = "forward" /\ i = j)
    BY <2>1 DEF SpawnDeploy
  <2>2. ASSUME NEW j \in Ids, RollbackSpawn(j)
        PROVE  child'[i][k] = child[i][k] \/ (k = "rollback" /\ i = j)
    BY <2>2 DEF RollbackSpawn
  <2>3. ASSUME NEW j \in Ids, NEW l \in Kinds, Deploy(j, l)
        PROVE  child'[i][k] = child[i][k] \/ child[i][k] # "none"
    <3>1. child[j][l] # "none" /\ \E p : SetChild(j, l, p)
      BY <2>3 DEF Deploy, ChildMerges, ChildPushes, ChildDies, DeployRestart
    <3> QED BY <3>1 DEF SetChild
  <2> QED BY <2>1, <2>2, <2>3, DeployMoves
<1>2. ASSUME orc'.pc \in {"publishing", "main", "restart"}
      PROVE  child'[orc'.row]["forward"] = "none"
  <2>1. orc'.row \in Ids /\ child[orc'.row]["forward"] = "none" /\ ~SpawnDeploy(orc'.row)
    <3>1. CASE UNCHANGED orc
      <4>1. \A i \in Ids : SpawnDeploy(i) => orc' = OrcIdle
        BY DEF SpawnDeploy
      <4>2. ~SpawnDeploy(orc.row) 
        BY <1>2, <3>1, <4>1 DEF OrcIdle, WorkerOwnsItsRow
      <4> QED BY <1>2, <3>1, <4>2 DEF SpawnsAreFirst, WorkerOwnsItsRow
    <3>2. CASE orc' = OrcIdle
      BY <1>2, <3>2 DEF OrcIdle
    <3>3. ASSUME NEW i \in Ids, Orchestrator(i), orc' # OrcIdle
          PROVE  orc'.row = i /\ child[i]["forward"] = "none" /\ ~SpawnDeploy(i)
      <4>0. ~SpawnDeploy(i)
        BY <3>3 DEF SpawnDeploy
      <4>1. PublishIntent(i) \/ PublishMain(i) \/ PublishRestart(i)
        BY <1>2, <3>3, <4>0 DEF Orchestrator, Dequeue, RefuseClaim, ClaimGate, GateStops,
           GatePrepared,
           GateApproves, PublishRefused, OrcMove, OrcGoes, OrcIdle
      <4>2. CASE PublishIntent(i)
        BY <3>3, <4>0, <4>2 DEF PublishIntent, OrcGoes, UntouchedBeforePublish, Unpublished,
           GateStages, Kinds
      <4>3. CASE PublishMain(i) \/ PublishRestart(i)
        BY <3>3, <4>0, <4>3 DEF PublishMain, PublishRestart, OrcMove, OrcGoes, SpawnsAreFirst
      <4> QED BY <4>1, <4>2, <4>3
    <3> QED BY <3>1, <3>2, <3>3, OrcMoves
  <2> QED BY <1>1, <2>1 DEF Kinds
<1>3. ASSUME NEW i \in Ids, child'[i]["rollback"] # "none"
      PROVE  rollbackSha'[i] # 0 /\ loop'[i].pc \in {"off", "probe", "diff"}
  <2>1. CASE child[i]["rollback"] # "none"
    <3>1. rollbackSha[i] # 0 /\ loop[i].pc \in {"off", "probe", "diff"}
      BY <2>1 DEF SpawnsAreFirst
    <3>2. ~RollbackPublished(i) /\ rollbackSha'[i] = rollbackSha[i]
      <4>1. ASSUME NEW j \in Ids, RollbackPublished(j) PROVE rollbackSha'[i] = rollbackSha[i] /\ i # j
        BY <3>1, <4>1 DEF RollbackPublished, SafeHold, Patch, KeepRow, rows, RowsTypeOK
      <4> QED BY <4>1, RollbackShaMoves
    <3>3. stage[i] \notin ForwardPath
      BY <3>1 DEF RollbackShaNamesRevert
    <3> QED BY <3>1, <3>2, <3>3, LoopSteps DEF RollbackCommits, RollbackRestart
  <2>2. CASE child[i]["rollback"] = "none"
    <3>1. RollbackSpawn(i)
      BY <1>1, <1>3, <2>2 DEF Kinds
    <3>2. rollbackSha[i] # 0 /\ loop'[i].pc = "off"
      BY <3>1 DEF RollbackSpawn, RollbackShaNamesRevert, StopLoop, LoopOff
    <3>3. UNCHANGED rollbackSha
      BY <3>1 DEF RollbackSpawn, SafeHold, Patch, KeepRow, rows
    <3> QED BY <3>2, <3>3
  <2> QED BY <2>1, <2>2
<1> QED BY <1>2, <1>3 DEF SpawnsAreFirst

(***************************************************************************)
(* A waiting row is taken up, or refused, by the orchestrator only.        *)
(***************************************************************************)
LEMMA WaitingRow ==
  ASSUME TypeOK, UntouchedBeforePublish, StageStep, [Next]_vars,
         NEW j \in Ids, stage[j] = "QUEUED"
  PROVE  stage'[j] \in {"QUEUED", "SUPERSEDED"} \/ \E i \in Ids : Orchestrator(i)
<1> USE DEF TypeOK, RowsTypeOK
<1>0. stage'[j] \in {"QUEUED", "SUPERSEDED", "PREPARING", "REJECTED"}
  <2>1. stage'[j] = stage[j] \/ MayMove(j, stage'[j]) \/ MayAppear(j, stage'[j])
    BY DEF StageStep, Move
  <2> QED BY <2>1 DEF MayMove, MayAppear, NextStages, Active, GateStages, ForwardPath,
             RollbackPath
<1>1. \A i, ft, c : SafeHold(i, ft, c) => stage'[j] \in {"QUEUED", "HELD"}
  BY DEF SafeHold, Patch, Move, rows
<1>2. ASSUME NEW i \in Ids, Soak(i) \/ Rollback(i) PROVE stage'[j] \notin {"PREPARING", "REJECTED"}
  <2>1. CASE Soak(i)
    BY <1>1, <2>1 DEF Soak, LoopEnds, SoakPasses, ProbeCounts, SoakTimesOut, SuccessStage,
                      Patch, Move, rows
  <2>2. CASE Rollback(i)
    BY <1>1, <2>2 DEF Rollback, RollbackRefused, RollbackBegins, RollbackConflicts,
                      RollbackCommits, RollbackPublished, RollbackRestart, RollbackSpawn,
                      Patch, Move, rows
  <2> QED BY <1>2, <2>1, <2>2
<1>3. ASSUME NEW i \in Ids, Reconcile(i) \/ Retire(i) \/ Watchdog(i)
      PROVE  stage'[j] \notin {"PREPARING", "REJECTED"}
  <2>1. CASE Reconcile(i)
    BY <1>1, <2>1 DEF Reconcile, ReconcileResumes, ReconcileWalks, ReconcileHolds, Walkable,
                      WalkStep, Patch, Move, rows
  <2>2. CASE Retire(i)
    BY <2>2 DEF Retire, RetireQueued, RecoverHeld, Patch, Move
  <2>3. CASE Watchdog(i)
    BY <1>1, <2>3 DEF Watchdog, WatchdogHolds, WatchdogReleases, Patch, Move
  <2> QED BY <1>3, <2>1, <2>2, <2>3
<1>4. RecoverOnBoot => stage'[j] \notin {"PREPARING", "REJECTED"}
  BY DEF RecoverOnBoot
<1>5. ASSUME NEW i \in Ids, NEW k \in Kinds, Deploy(i, k)
      PROVE  stage'[j] \notin {"PREPARING", "REJECTED"}
  BY <1>4, <1>5 DEF Deploy, ChildMerges, ChildPushes, ChildDies, DeployRestart, Reborn, rows
<1>6. ASSUME \/ \E i \in Ids : Enqueue(i) \/ DeadlinePasses(i)
             \/ ReconcileNothing \/ CrashRestart \/ SecondStart \/ OthersPush \/ UNCHANGED vars
      PROVE  stage'[j] \notin {"PREPARING", "REJECTED"}
  BY <1>4, <1>6 DEF Enqueue, Move, DeadlinePasses, ReconcileNothing, CrashRestart, Reborn,
                    SecondStart, OthersPush, vars, rows
<1> QED BY <1>0, <1>2, <1>3, <1>5, <1>6 DEF Next

(***************************************************************************)
(* A token is bumped under a gate worker only by a boot, which parks its   *)
(* row in the same step.                                                   *)
(***************************************************************************)
LEMMA GateRow ==
  ASSUME TypeOK, [Next]_vars, NEW j \in Ids, stage[j] \in GateStages \cup {"QUEUED"}
  PROVE  fence'[j] = fence[j] \/ stage'[j] = "HELD"
<1>1. CASE fence'[j] = fence[j]
  BY <1>1
<1>2. CASE Occupies(j) /\ RecoverOnBoot
  BY <1>2 DEF RecoverOnBoot, Occupant, Occupies, Active, GateStages, ForwardPath, RollbackPath
<1>3. stage[j] # "ABSENT"
  BY DEF GateStages
<1> QED BY <1>1, <1>2, <1>3, FenceMoves

(***************************************************************************)
(* The worker's row stays its own, or is retired or parked under it.       *)
(***************************************************************************)
LEMMA WorkerOwnsItsRowStep ==
  ASSUME TypeOK, WorkerOwnsItsRow, EnqueuedInOrder, UntouchedBeforePublish, StageStep, [Next]_vars
  PROVE  WorkerOwnsItsRow'
<1> USE DEF TypeOK, RowsTypeOK, ProcessTypeOK
<1>1. CASE orc' = OrcIdle
  BY <1>1 DEF OrcIdle, WorkerOwnsItsRow
<1>2. ASSUME UNCHANGED orc, orc.pc # "idle", ~\E i \in Ids : Orchestrator(i)
      PROVE  WorkerOwnsItsRow'
  <2>0. orc.row \in Ids
    BY <1>2 DEF WorkerOwnsItsRow
  <2>1. ASSUME orc.pc = "claimed"
        PROVE  /\ stage'[orc.row] \in {"QUEUED", "SUPERSEDED"}
               /\ stage'[orc.row] = "QUEUED" => orc.ft = fence'[orc.row]
               /\ \A j \in Ids : j < orc.row => stage'[j] \notin {"ABSENT", "QUEUED"}
    <3>1. CASE stage[orc.row] = "QUEUED"
      BY <1>2, <2>0, <2>1, <3>1, WaitingRow, GateRow, NoWayBack DEF WorkerOwnsItsRow
    <3>2. CASE stage[orc.row] = "SUPERSEDED"
      <4>1. stage'[orc.row] = "SUPERSEDED"
        BY <2>0, <3>2 DEF StageStep, Move, MayMove, MayAppear, NextStages
      <4> QED BY <2>0, <2>1, <4>1, NoWayBack DEF WorkerOwnsItsRow
    <3> QED BY <2>1, <3>1, <3>2 DEF WorkerOwnsItsRow
  <2>2. orc.pc # "claimed" => stage'[orc.row] \notin {"ABSENT", "QUEUED"}
    BY <1>2, <2>0, NoWayBack DEF WorkerOwnsItsRow
  <2>3. orc.pc \in {"publishing", "main", "restart"} => stage'[orc.row] \notin Unpublished
    BY <2>0, NoWayBack DEF WorkerOwnsItsRow
  <2>4. ASSUME orc.pc \in {"prepare", "check", "approved"}, stage'[orc.row] \in GateStages
        PROVE  orc.ft = fence'[orc.row]
    <3>1. stage[orc.row] \in GateStages
      BY <2>0, <2>4, NoWayBack DEF WorkerOwnsItsRow, Unpublished
    <3>2. fence'[orc.row] = fence[orc.row]
      BY <2>0, <2>4, <3>1, GateRow DEF GateStages
    <3> QED BY <2>4, <3>1, <3>2 DEF WorkerOwnsItsRow
  <2> QED BY <1>2, <2>0, <2>1, <2>2, <2>3, <2>4 DEF WorkerOwnsItsRow, Unpublished, GateStages
<1>3. ASSUME NEW i \in Ids, Orchestrator(i), orc' # OrcIdle
      PROVE  WorkerOwnsItsRow'
  <2> USE DEF OrcGoes, OrcMove, Patch, Move, CanTransition, FenceOk, KeepRow, SetDeadline
  <2>1. CASE Dequeue(i)
    BY <2>1 DEF Dequeue, NextQueued, EnqueuedInOrder, rows, WorkerOwnsItsRow
  <2>2. CASE ClaimGate(i)
    BY <1>3, <2>2 DEF ClaimGate, WorkerOwnsItsRow
  <2>3. CASE GatePrepared(i)
    BY <1>3, <2>3 DEF GatePrepared, WorkerOwnsItsRow
  <2>4. CASE GateApproves(i)
    BY <1>3, <2>4 DEF GateApproves, WorkerOwnsItsRow
  <2>5. CASE PublishIntent(i)
    BY <1>3, <2>5 DEF PublishIntent, WorkerOwnsItsRow, Unpublished, GateStages
  <2>6. CASE PublishMain(i) \/ PublishRestart(i)
    BY <1>3, <2>6 DEF PublishMain, PublishRestart, WorkerOwnsItsRow, Unpublished, GateStages
  <2>7. CASE RefuseClaim(i) \/ GateStops(i) \/ PublishRefused(i) \/ SpawnDeploy(i)
    BY <1>3, <2>7 DEF RefuseClaim, GateStops, PublishRefused, SpawnDeploy
  <2> QED BY <1>3, <2>1, <2>2, <2>3, <2>4, <2>5, <2>6, <2>7 DEF Orchestrator
<1>4. CASE UNCHANGED orc /\ orc.pc = "idle"
  BY <1>4 DEF WorkerOwnsItsRow
<1>5. ASSUME NEW i \in Ids, Orchestrator(i) PROVE orc' # orc
  BY <1>5 DEF Orchestrator, Dequeue, RefuseClaim, ClaimGate, GateStops, GatePrepared,
     GateApproves,
              PublishRefused, PublishIntent, PublishMain, PublishRestart, SpawnDeploy,
              OrcMove, OrcGoes, OrcIdle
<1> QED BY <1>1, <1>2, <1>3, <1>4, <1>5, OrcMoves

-----------------------------------------------------------------------------
(***************************************************************************)
(* A stage step is a step of the release queue, or leaves it alone.        *)
(***************************************************************************)
LEMMA ImplementsStep ==
  ASSUME TypeOK, SingleOccupant, StageStep
  PROVE  [Queue!RQNext]_([i \in Ids |-> PhaseOf(stage[i])])
<1> DEFINE phase == [i \in Ids |-> PhaseOf(stage[i])]
<1>1. CASE stage' = stage
  BY <1>1
<1>2. ASSUME NEW i \in Ids, NEW to \in Stages, Move(i, to), MayMove(i, to) \/ MayAppear(i, to)
      PROVE  phase' = phase \/ Queue!RQNext
  <2>0. Queue!Ids = Ids
    BY DEF Queue!Ids, Ids
  <2>1. phase' = [phase EXCEPT ![i] = PhaseOf(to)]
    BY <1>2 DEF Move, TypeOK, RowsTypeOK
  <2>2. \A j \in Ids : phase[j] = PhaseOf(stage[j])
    OBVIOUS
  <2> HIDE DEF phase
  <2>3. CASE MayAppear(i, to)
    <3>1. Queue!Submit(i)
      BY <2>0, <2>1, <2>2, <2>3 DEF phase, MayAppear, Queue!Submit, Queue!Become, PhaseOf,
         Ids, Active, GateStages, ForwardPath, RollbackPath
    <3> QED BY <2>0, <3>1 DEF Queue!RQNext
  <2>4. CASE MayMove(i, to)
    <3>0. /\ to \in Active => PhaseOf(to) = "working"
          /\ to = "HELD" => PhaseOf(to) = "parked"
          /\ to = "REJECTED" => PhaseOf(to) = "refused"
          /\ to = "SUPERSEDED" => PhaseOf(to) = "retired"
          /\ to \in Terminal => PhaseOf(to) \in Queue!Outcomes
      BY DEF PhaseOf, Active, GateStages, ForwardPath, RollbackPath, Terminal, Queue!Outcomes
    <3>1. CASE stage[i] = "QUEUED" /\ to = "PREPARING"
      <4>1. Queue!PipelineFree
        <5>1. \A j \in Ids : ~Occupies(j)
          BY <2>4, <3>1 DEF MayMove, Occupies, Active, GateStages, ForwardPath, RollbackPath
        <5> QED BY <2>0, <2>2, <5>1 DEF phase, Queue!PipelineFree, Queue!Holds, PhaseOf,
                   Occupies
      <4>2. Queue!OldestWaiting(i)
        BY <2>0, <2>2, <2>4, <3>1 DEF phase, MayMove, Queue!OldestWaiting, PhaseOf, Active,
           GateStages, ForwardPath, RollbackPath, Ids
      <4>3. phase' = [phase EXCEPT ![i] = "working"]
        BY <2>1, <3>0, <3>1 DEF Active, GateStages
      <4>4. Queue!TakeUp(i)
        BY <4>1, <4>2, <4>3 DEF phase, Queue!TakeUp, Queue!Become
      <4> QED BY <2>0, <4>4 DEF Queue!RQNext
    <3>2. CASE stage[i] = "QUEUED" /\ to # "PREPARING"
      <4>1. to \in {"REJECTED", "SUPERSEDED"} /\ phase[i] = "waiting"
        BY <2>2, <2>4, <3>2 DEF MayMove, NextStages, Active, GateStages, ForwardPath,
           RollbackPath, PhaseOf
      <4>2. Queue!Dismiss(i)
        BY <2>1, <3>0, <4>1 DEF phase, Queue!Dismiss, Queue!Become
      <4> QED BY <2>0, <4>2 DEF Queue!RQNext
    <3>3. CASE stage[i] \in Active
      <4>1. phase[i] = "working" /\ phase \in [Ids -> Queue!Phases]
        BY <2>2, <3>3 DEF phase, PhaseOf, Queue!Phases, Queue!Outcomes, Active, GateStages,
           ForwardPath, RollbackPath
      <4>2. CASE to \in Active
        BY <2>1, <3>0, <4>1, <4>2
      <4>3. CASE to = "HELD"
        <5>1. Queue!Park(i)
          BY <2>1, <3>0, <4>1, <4>3 DEF phase, Queue!Park, Queue!Become
        <5> QED BY <2>0, <5>1 DEF Queue!RQNext
      <4>4. CASE to \in Terminal
        <5>1. Queue!Settle(i)
          BY <2>1, <3>0, <4>1, <4>4 DEF phase, Queue!Settle, Queue!Become
        <5> QED BY <2>0, <5>1 DEF Queue!RQNext
      <4> QED
        BY <2>4, <3>3, <4>2, <4>3, <4>4 DEF MayMove, NextStages, Active, GateStages,
           ForwardPath, RollbackPath, Terminal
    <3>4. CASE stage[i] = "HELD"
      <4>1. phase[i] = "parked" /\ to \in {"REJECTED", "VERIFYING"}
        BY <2>2, <2>4, <3>4 DEF MayMove, Evidence, PhaseOf, Active, GateStages, ForwardPath,
           RollbackPath
      <4>2. Queue!Unpark(i) \/ Queue!Abandon(i)
        BY <2>1, <3>0, <4>1 DEF phase, Queue!Unpark, Queue!Abandon, Queue!Become, Active,
           ForwardPath
      <4> QED BY <2>0, <4>2 DEF Queue!RQNext
    <3> QED
      BY <2>4, <3>1, <3>2, <3>3, <3>4 DEF MayMove, NextStages, Active, GateStages,
         ForwardPath, RollbackPath
  <2> QED BY <1>2, <2>3, <2>4
<1> QED BY <1>1, <1>2 DEF StageStep

-----------------------------------------------------------------------------
(***************************************************************************)
(* An empty table satisfies the invariant.                                 *)
(***************************************************************************)
LEMMA InitInv == Init => PipelineInv
<1> SUFFICES ASSUME Init PROVE PipelineInv
  OBVIOUS
<1>1. TypeOK
  BY PipelineAssumption
     DEF Init, TypeOK, RowsTypeOK, RepoTypeOK, ProcessTypeOK, Codes, OrcIdle, OrcStates,
         LoopOff, LoopStates, Episodes, ChildPhases
<1>2. SingleOccupant /\ EnqueuedInOrder
  BY DEF Init, SingleOccupant, InFlight, EnqueuedInOrder, Active, GateStages, ForwardPath,
         RollbackPath
<1>3. UntouchedBeforePublish /\ RollbackShaNamesRevert /\ RevertOnlyShipped
  BY DEF Init, UntouchedBeforePublish, RollbackShaNamesRevert, RevertOnlyShipped, LoopOff
<1>4. StagesTellTheRelease
  BY DEF Init, StagesTellTheRelease, LoopOff, LoopStates
<1>5. HistoryGrows
  BY DEF Init, HistoryGrows
<1>6. SpawnsAreFirst /\ WorkerOwnsItsRow
  BY DEF Init, SpawnsAreFirst, WorkerOwnsItsRow, OrcIdle, Kinds
<1> QED BY <1>1, <1>2, <1>3, <1>4, <1>5, <1>6 DEF PipelineInv

(***************************************************************************)
(* Every step preserves the invariant, conjunct by conjunct.               *)
(***************************************************************************)
LEMMA PipelineInvStep ==
  ASSUME PipelineInv, [Next]_vars
  PROVE  PipelineInv'
<1> USE DEF PipelineInv
<1>1. TypeOK'
  BY TypeOKStep
<1>2. StageStep
  BY NextStageStep
<1>3. SingleOccupant'
  BY <1>2, SingleOccupantStep
<1>4. UntouchedBeforePublish'
  BY <1>2, UntouchedBeforePublishStep
<1>5. RollbackShaNamesRevert'
  BY <1>2, RollbackShaNamesRevertStep
<1>6. StagesTellTheRelease'
  BY <1>2, StagesTellTheReleaseStep
<1>7. HistoryGrows'
  BY HistoryGrowsStep
<1>8. RevertOnlyShipped'
  BY RevertOnlyShippedStep
<1>9. SpawnsAreFirst'
  BY <1>5, SpawnsAreFirstStep
<1>10. WorkerOwnsItsRow'
  BY <1>2, WorkerOwnsItsRowStep
<1>11. EnqueuedInOrder'
  BY <1>2, EnqueuedInOrderStep
<1> QED
  BY <1>1, <1>3, <1>4, <1>5, <1>6, <1>7, <1>8, <1>9, <1>10, <1>11

(***************************************************************************)
(* The inductive invariant holds in every state of every behaviour.        *)
(***************************************************************************)
THEOREM PipelineInvariant == Spec => []PipelineInv
  BY InitInv, PipelineInvStep, PTL DEF Spec

(***************************************************************************)
(* Type correctness: no sequence of gates, crashes and recoveries puts a   *)
(* row into a stage, or a worker into a state, that the code does not know.*)
(***************************************************************************)
THEOREM TypeCorrect == Spec => []TypeOK
<1>1. PipelineInv => TypeOK
  BY DEF PipelineInv
<1> QED BY <1>1, PipelineInvariant, PTL

(***************************************************************************)
(* SINGLE ACTIVE, for any number of integrations and server restarts.      *)
(***************************************************************************)
THEOREM OneIntegrationAtATime == Spec => []SingleOccupant
<1>1. PipelineInv => SingleOccupant
  BY DEF PipelineInv
<1> QED BY <1>1, PipelineInvariant, PTL

(***************************************************************************)
(* No false green: the outcome of an integration is true of the release    *)
(* that runs.                                                              *)
(***************************************************************************)
THEOREM NoFalseGreen == Spec => []SettledMeansServed
<1>1. PipelineInv => SettledMeansServed
  BY DEF PipelineInv, StagesTellTheRelease, RollbackShaNamesRevert, InRelease,
         SettledMeansServed, TypeOK, RowsTypeOK, RepoTypeOK, ProcessTypeOK
<1> QED BY <1>1, PipelineInvariant, PTL

(***************************************************************************)
(* The forward revert undoes only a candidate that main holds.             *)
(***************************************************************************)
THEOREM RevertsOnlyShipped == Spec => []RevertOnlyShipped
<1>1. PipelineInv => RevertOnlyShipped
  BY DEF PipelineInv
<1> QED BY <1>1, PipelineInvariant, PTL

(***************************************************************************)
(* A spawn finds no earlier deploy of its kind.                            *)
(***************************************************************************)
LEMMA DeployedOnceStep ==
  ASSUME PipelineInv, [Next]_vars, NEW i \in Ids, NEW k \in Kinds, child'[i][k] = "spawned"
  PROVE  child[i][k] \in {"none", "spawned"}
<1> USE DEF PipelineInv, TypeOK, RepoTypeOK
<1>1. ASSUME NEW j \in Ids, SpawnDeploy(j) PROVE child[i][k] \in {"none", "spawned"}
  <2>1. child[j]["forward"] = "none"
    BY <1>1 DEF SpawnDeploy, SpawnsAreFirst
  <2> QED BY <1>1, <2>1 DEF SpawnDeploy, Kinds
<1>2. ASSUME NEW j \in Ids, RollbackSpawn(j) PROVE child[i][k] \in {"none", "spawned"}
  <2>1. child[j]["rollback"] = "none"
    BY <1>2 DEF RollbackSpawn, SpawnsAreFirst
  <2> QED BY <1>2, <2>1 DEF RollbackSpawn, Kinds
<1>3. ASSUME NEW j \in Ids, NEW l \in Kinds, Deploy(j, l)
      PROVE  child[i][k] \in {"none", "spawned"}
  <2>1. \E p \in {"merged", "pushed", "over"} : SetChild(j, l, p)
    BY <1>3 DEF Deploy, ChildMerges, ChildPushes, ChildDies, DeployRestart
  <2> QED BY <2>1 DEF SetChild
<1> QED BY <1>1, <1>2, <1>3, DeployMoves

(***************************************************************************)
(* At most one deploy per integration and direction, however often the     *)
(* server restarts around the spawn.                                       *)
(***************************************************************************)
THEOREM DeploysOnce == Spec => DeployedOnce
<1>1. PipelineInv /\ [Next]_vars =>
        [\A i \in Ids, k \in Kinds :
           child'[i][k] = "spawned" => child[i][k] \in {"none", "spawned"}]_vars
  BY DeployedOnceStep
<1> QED BY <1>1, PipelineInvariant, PTL DEF Spec, DeployedOnce

(***************************************************************************)
(* A worker with a bumped token finds every guard of its writes false.     *)
(***************************************************************************)
LEMMA StaleOrchestratorStep ==
  ASSUME PipelineInv, [Next]_vars,
         orc.pc # "idle", orc.ft # fence[orc.row], orc' # orc
  PROVE  stage'[orc.row] = stage[orc.row]
<1> USE DEF PipelineInv, TypeOK, RowsTypeOK
<1>0. orc.row \in Ids
  BY DEF WorkerOwnsItsRow
<1>1. stage[orc.row] \notin GateStages \cup {"QUEUED"}
  BY DEF WorkerOwnsItsRow, Unpublished, ProcessTypeOK, OrcStates, GateStages
<1>2. \A to, c, pc : OrcMove(orc.row, to, c, pc) => UNCHANGED stage
  BY DEF OrcMove, CanTransition, FenceOk, rows
<1>3. \A c : SafeHold(orc.row, orc.ft, c) => UNCHANGED stage
  BY DEF SafeHold, CanTransition, FenceOk, rows
<1>4. ASSUME NEW i \in Ids, Orchestrator(i) PROVE UNCHANGED stage
  <2>1. CASE Dequeue(i)
    BY <2>1 DEF Dequeue, rows
  <2>2. CASE RefuseClaim(i) \/ ClaimGate(i)
    <3>1. stage[i] = "SUPERSEDED"
      BY <1>1, <2>2 DEF RefuseClaim, ClaimGate, WorkerOwnsItsRow
    <3>2. \A to, ft : ~CanTransition(i, to, ft)
      BY <3>1 DEF CanTransition, NextStages
    <3> QED BY <2>2, <3>2 DEF RefuseClaim, ClaimGate, rows
  <2>3. CASE GateStops(i) \/ GateApproves(i) \/ PublishRestart(i)
    BY <1>2, <2>3 DEF GateStops, GateApproves, PublishRestart
  <2>4. CASE GatePrepared(i)
    BY <2>4 DEF GatePrepared, CanTransition, FenceOk, rows
  <2>5. CASE PublishRefused(i) \/ PublishIntent(i)
    BY <1>1, <2>5 DEF PublishRefused, PublishIntent, GateStages, rows
  <2>6. CASE PublishMain(i) \/ SpawnDeploy(i)
    BY <1>2, <1>3, <2>6 DEF PublishMain, SpawnDeploy, rows
  <2> QED BY <1>4, <2>1, <2>2, <2>3, <2>4, <2>5, <2>6 DEF Orchestrator
<1>5. RecoverOnBoot => stage'[orc.row] = stage[orc.row]
  BY <1>0, <1>1 DEF RecoverOnBoot
<1>6. ASSUME NEW i \in Ids, NEW k \in Kinds, Deploy(i, k) PROVE RecoverOnBoot \/ orc' = orc
  BY <1>6 DEF Deploy, ChildMerges, ChildPushes, ChildDies, DeployRestart, Reborn, memory
<1>7. ASSUME NEW i \in Ids, \/ Enqueue(i) \/ Soak(i) \/ Reconcile(i) \/ Retire(i) \/ Watchdog(i)
                            \/ DeadlinePasses(i)
      PROVE  orc' = orc
  BY <1>7 DEF Enqueue, Soak, LoopEnds, SoakPasses, ProbeCounts, SoakTimesOut, LoopRest,
              Reconcile, ReconcileResumes, ReconcileWalks, ReconcileHolds, ReconcileRest,
              Retire, RetireQueued, RecoverHeld, RetireRest,
              Watchdog, WatchdogHolds, WatchdogReleases, WatchdogRest, DeadlinePasses, memory
<1>8. ASSUME NEW i \in Ids, Rollback(i) PROVE orc' = orc
  BY <1>8 DEF Rollback, RollbackRefused, RollbackBegins, RollbackConflicts, RollbackCommits,
              RollbackPublished, RollbackRestart, RollbackSpawn, LoopRest
<1>9. CrashRestart => RecoverOnBoot
  BY DEF CrashRestart, Reborn
<1>10. ReconcileNothing \/ SecondStart \/ OthersPush \/ UNCHANGED vars => orc' = orc
  BY DEF ReconcileNothing, ReconcileRest, SecondStart, OthersPush, vars, memory
<1> QED BY <1>4, <1>5, <1>6, <1>7, <1>8, <1>9, <1>10 DEF Next

(***************************************************************************)
(* FENCING, for the gate and publish worker.                               *)
(***************************************************************************)
THEOREM StaleOrchestratorIsFenced == Spec => StaleOrchestratorWritesNothing
<1>1. PipelineInv /\ [Next]_vars =>
        [orc.pc # "idle" /\ orc.ft # fence[orc.row] /\ orc' # orc
           => stage'[orc.row] = stage[orc.row]]_vars
  BY StaleOrchestratorStep
<1> QED BY <1>1, PipelineInvariant, PTL DEF Spec, StaleOrchestratorWritesNothing

(***************************************************************************)
(* The pipeline implements the release queue.                              *)
(***************************************************************************)
THEOREM PipelineImplementsReleaseQueue == Spec => ImplementsReleaseQueue
<1>1. Init => Queue!RQInit
  <2>1. PhaseOf("ABSENT") = "absent"
    BY DEF PhaseOf, Active, GateStages, ForwardPath, RollbackPath
  <2>2. Init => \A i \in Ids : PhaseOf(stage[i]) = "absent"
    BY <2>1 DEF Init
  <2>3. Queue!Ids = Ids
    BY DEF Queue!Ids, Ids
  <2> QED BY <2>2, <2>3 DEF Queue!RQInit
<1>2. PipelineInv /\ [Next]_vars => [Queue!RQNext]_([i \in Ids |-> PhaseOf(stage[i])])
  BY NextStageStep, ImplementsStep DEF PipelineInv
<1> QED
  BY <1>1, <1>2, PipelineInvariant, PTL DEF Spec, ImplementsReleaseQueue, Queue!RQSpec

=============================================================================
