------------------------ MODULE ReleaseRequestsProofs ------------------------
(***************************************************************************)
(* What requests and breaker promise for any number of integrations,       *)
(* callers and commits, any threshold and any window.                      *)
(***************************************************************************)
EXTENDS ReleaseRequests, FiniteSetTheorems, TLAPS

Asking == [pc : {"asked", "basing"}, session : Sessions, candidate : Shas]

-----------------------------------------------------------------------------
(* Types.                                                                  *)

\* What the rows of the queue do, whatever the action that does it.
QueueMoves(i) == \/ Submit(i) \/ Dismiss(i) \/ TakeUp(i) \/ Become(i, "refused")
                 \/ Park(i) \/ Unpark(i) \/ Abandon(i) \/ Settle(i)

LEMMA PhasesHaveTypes ==
    ASSUME PhaseTypeOK, NEW i \in Ids, Become(i, "retired") \/ QueueMoves(i)
    PROVE  PhaseTypeOK'
<1>1. \E p \in Phases : Become(i, p)
  BY DEF QueueMoves, Submit, Dismiss, TakeUp, Park, Unpark, Abandon, Settle, Phases, Outcomes
<1> QED
  BY <1>1 DEF PhaseTypeOK, Become

\* A call that is under way is one of the two kinds.
LEMMA AskingIs ==
    ASSUME RequestsTypeOK, NEW r \in Requests, request[r].pc \in {"asked", "basing"}
    PROVE  request[r] \in Asking
<1>1. request[r] \in {IdleRequest} \cup Asking
  BY DEF RequestsTypeOK, RequestStates, Asking
<1>2. IdleRequest.pc = "idle"
  BY DEF IdleRequest
<1> QED
  BY <1>1, <1>2

LEMMA InitTypes == Init => RequestsTypeOK
<1> SUFFICES ASSUME Init PROVE RequestsTypeOK
  OBVIOUS
<1>1. MaxClock \in Nat /\ MaxClock > 0 /\ 0 \in Shas /\ "absent" \in Phases
  BY BreakerAssumption DEF Shas, Phases
<1>2. clock \in 1..MaxClock /\ updatedAt \in [Ids -> 0..clock] /\ head \in [Sessions -> Shas]
  BY <1>1 DEF Init
<1>3. breaker \in [open : BOOLEAN, clearedAt : 0..clock]
  BY <1>2 DEF Init
<1>4. PhaseTypeOK
  BY <1>1 DEF Init, RQInit, PhaseTypeOK
<1> QED
  BY <1>2, <1>3, <1>4 DEF Init, RequestsTypeOK, RequestStates

LEMMA CallersHaveTypes ==
    ASSUME RequestsTypeOK, NEW r \in Requests,
           \/ \E s \in Sessions : Ask(r, s)
           \/ CheckPrior(r) \/ BaseFails(r)
    PROVE  RequestsTypeOK'
<1>1. request' \in [Requests -> RequestStates]
  <2>1. CASE \E s \in Sessions : Ask(r, s)
    <3>1. PICK s \in Sessions : Ask(r, s)
      BY <2>1
    <3>2. [pc |-> "asked", session |-> s, candidate |-> head[s]] \in RequestStates
      BY DEF RequestsTypeOK, RequestStates
    <3> QED
      BY <3>1, <3>2 DEF Ask, RequestsTypeOK
  <2>2. CASE request' = [request EXCEPT ![r] = IdleRequest]
    BY <2>2 DEF RequestsTypeOK, RequestStates
  <2>3. CASE request[r].pc = "asked" /\ request' = [request EXCEPT ![r].pc = "basing"]
    <3> DEFINE a == request[r]
               x == [a EXCEPT !.pc = "basing"]
    <3>1. a \in Asking
      BY <2>3, AskingIs
    <3>2. request' = [request EXCEPT ![r] = x]
      BY <2>3
    <3> HIDE DEF a
    <3>3. x \in RequestStates
      BY <3>1 DEF Asking, RequestStates
    <3> HIDE DEF x
    <3> QED
      BY <3>2, <3>3 DEF RequestsTypeOK
  <2> QED
    BY <2>1, <2>2, <2>3 DEF CheckPrior, BaseFails
<1>2. UNCHANGED <<phase, head, row, updatedAt, breaker, clock>>
  BY DEF Ask, CheckPrior, BaseFails
<1> QED
  BY <1>1, <1>2 DEF RequestsTypeOK, PhaseTypeOK

LEMMA RowsHaveTypes ==
    ASSUME RequestsTypeOK, NEW i \in Ids,
           \/ \E r \in Requests : Enqueue(r, i)
           \/ Dequeue(i) \/ RetireQueued(i) \/ Rebase(i) \/ Advance(i)
    PROVE  RequestsTypeOK'
<1> USE DEF RequestsTypeOK
<1>1. updatedAt' \in [Ids -> 0..clock] /\ UNCHANGED <<head, clock>>
  <2>1. clock \in 0..clock
    BY BreakerAssumption
  <2> QED
    BY <2>1 DEF Enqueue, Dequeue, RetireQueued, Rebase, Advance, Touch
<1>2. PhaseTypeOK'
  BY PhasesHaveTypes DEF Enqueue, Dequeue, RetireQueued, Rebase, Advance, QueueMoves, PhaseTypeOK
<1>3. breaker' \in [open : BOOLEAN, clearedAt : 0..clock]
  <2>1. CASE Evaluate
    <3> DEFINE b == breaker
               v == Evaluated
    <3>1. b \in [open : BOOLEAN, clearedAt : 0..clock] /\ breaker' = [b EXCEPT !.open = v]
      BY <2>1 DEF Evaluate
    <3>2. v \in BOOLEAN
      BY DEF Evaluated, Tripped
    <3> HIDE DEF b, v
    <3> QED
      BY <3>1, <3>2
  <2>2. CASE UNCHANGED breaker
    BY <2>2
  <2> QED
    BY <2>1, <2>2 DEF Enqueue, Dequeue, RetireQueued, Rebase, Advance
<1>4. row' \in [Ids -> Rows]
  <2>1. ASSUME NEW r \in Requests, Enqueue(r, i) PROVE row' \in [Ids -> Rows]
    <3>1. request[r] \in Asking
      BY <2>1, AskingIs DEF Enqueue
    <3>2. [session |-> request[r].session, source |-> request[r].candidate,
           rewritten |-> FALSE] \in Rows
      BY <3>1 DEF Asking, Rows
    <3> QED
      BY <2>1, <3>2 DEF Enqueue
  <2>2. CASE Rebase(i)
    <3> DEFINE w == row[i]
               x == [w EXCEPT !.rewritten = TRUE]
    <3>1. w \in Rows /\ row' = [row EXCEPT ![i] = x]
      BY <2>2 DEF Rebase
    <3> HIDE DEF w
    <3>2. x \in Rows
      BY <3>1 DEF Rows
    <3> HIDE DEF x
    <3> QED
      BY <3>1, <3>2
  <2> QED
    BY <2>1, <2>2 DEF Dequeue, RetireQueued, Advance
<1>5. request' \in [Requests -> RequestStates]
  BY DEF Enqueue, Dequeue, RetireQueued, Rebase, Advance, RequestStates
<1> QED
  BY <1>1, <1>2, <1>3, <1>4, <1>5

LEMMA OthersHaveTypes ==
    ASSUME RequestsTypeOK,
           \/ \E s \in Sessions : Commit(s)
           \/ ReadBreaker \/ ClearBreaker \/ Restart \/ Tick
    PROVE  RequestsTypeOK'
<1> USE DEF RequestsTypeOK
<1>0. MaxClock \in Nat /\ MaxCommits \in Nat /\ clock \in Nat /\ clock \in 0..clock
  BY BreakerAssumption
<1>1. CASE \E s \in Sessions : Commit(s)
  <2>1. PICK s \in Sessions : Commit(s)
    BY <1>1
  <2>2. head[s] + 1 \in Shas
    BY <1>0, <2>1 DEF Commit, Shas
  <2> QED
    BY <2>1, <2>2 DEF Commit, PhaseTypeOK
<1>2. CASE ReadBreaker
  <2> DEFINE b == breaker
             v == Evaluated
  <2>1. b \in [open : BOOLEAN, clearedAt : 0..clock] /\ breaker' = [b EXCEPT !.open = v]
    BY <1>2 DEF ReadBreaker, Evaluate
  <2>2. v \in BOOLEAN
    BY DEF Evaluated, Tripped
  <2> HIDE DEF b, v
  <2>3. breaker' \in [open : BOOLEAN, clearedAt : 0..clock]
    BY <2>1, <2>2
  <2> QED
    BY <1>2, <2>3 DEF ReadBreaker, PhaseTypeOK
<1>3. CASE ClearBreaker
  BY <1>0, <1>3 DEF ClearBreaker, PhaseTypeOK
<1>4. CASE Restart
  <2>1. PhaseTypeOK'
    BY <1>4, PhasesHaveTypes DEF Restart, QueueMoves, PhaseTypeOK
  <2>2. updatedAt' \in [Ids -> 0..clock]
    BY <1>0, <1>4 DEF Restart, Touch
  <2>3. request' \in [Requests -> RequestStates]
    BY <1>4 DEF Restart, RequestStates
  <2> QED
    BY <1>4, <2>1, <2>2, <2>3 DEF Restart
<1>5. CASE Tick
  <2>1. clock' \in 1..MaxClock /\ \A x \in 0..clock : x \in 0..clock'
    BY <1>0, <1>5 DEF Tick
  <2>2. updatedAt \in [Ids -> 0..clock'] /\ breaker \in [open : BOOLEAN, clearedAt : 0..clock']
    BY <2>1
  <2> QED
    BY <1>5, <2>1, <2>2 DEF Tick, PhaseTypeOK
<1> QED
  BY <1>1, <1>2, <1>3, <1>4, <1>5

LEMMA StepsKeepTypes ==
    ASSUME RequestsTypeOK, [Next]_vars
    PROVE  RequestsTypeOK'
<1>1. CASE Next
  BY <1>1, CallersHaveTypes, RowsHaveTypes, OthersHaveTypes DEF Next
<1>2. CASE UNCHANGED vars
  BY <1>2 DEF vars, RequestsTypeOK, PhaseTypeOK
<1> QED
  BY <1>1, <1>2

(***************************************************************************)
(* Every value of the variables is of its type, and no row is stamped with *)
(* a time that has not come.                                               *)
(***************************************************************************)
THEOREM RequestTypes == Spec => []RequestsTypeOK
  BY InitTypes, StepsKeepTypes, PTL DEF Spec

-----------------------------------------------------------------------------
(***************************************************************************)
(* The breaker.  A step takes an integration up, clears the breaker, or is *)
(* harmless: nobody comes to hold the pipeline, and what is undone was, or *)
(* held the pipeline.                                                      *)
(***************************************************************************)
Takes(i) ==
  /\ ~breaker.open
  /\ RecentFailures < FailThreshold
  /\ PipelineFree
  /\ Become(i, "working")
  /\ Touch(i)
  /\ clock' = clock
  /\ breaker'.clearedAt = breaker.clearedAt

Harmless ==
  /\ clock' \in Nat /\ clock <= clock'
  /\ breaker'.clearedAt = breaker.clearedAt
  /\ breaker.open => breaker'.open
  /\ \A j \in Ids : Holds(j)' => Holds(j)
  /\ \A j \in Ids : phase'[j] = "undone" =>
       Holds(j) \/ (phase[j] = "undone" /\ updatedAt'[j] = updatedAt[j])

\* What a row does, if it is not to be taken up.
LEMMA RowsAreHarmless ==
    ASSUME RequestsTypeOK, NEW i \in Ids, NEW p \in Phases,
           Become(i, p), Touch(i),
           Holds(i) \/ p \in {"waiting", "refused", "retired"}
    PROVE  /\ \A j \in Ids : Holds(j)' => Holds(j)
           /\ \A j \in Ids : phase'[j] = "undone" =>
                Holds(j) \/ (phase[j] = "undone" /\ updatedAt'[j] = updatedAt[j])
<1>1. \A j \in Ids : phase'[j] = IF j = i THEN p ELSE phase[j]
  BY DEF RequestsTypeOK, PhaseTypeOK, Become
<1>2. \A j \in Ids : j # i => updatedAt'[j] = updatedAt[j]
  BY DEF RequestsTypeOK, Touch
<1> QED
  BY <1>1, <1>2 DEF Holds

LEMMA StepShape ==
    ASSUME RequestsTypeOK, [Next]_vars
    PROVE  (\E i \in Ids : Takes(i)) \/ ClearBreaker \/ Harmless
<1>0. clock \in Nat /\ clock <= clock
  BY BreakerAssumption DEF RequestsTypeOK
<1>1. ASSUME Evaluate
      PROVE  breaker'.clearedAt = breaker.clearedAt /\ breaker'.open = Evaluated
  <2> DEFINE b == breaker
             v == Evaluated
  <2>1. b \in [open : BOOLEAN, clearedAt : 0..clock] /\ breaker' = [b EXCEPT !.open = v]
    BY <1>1 DEF Evaluate, RequestsTypeOK
  <2> HIDE DEF b, v
  <2>2. breaker'.clearedAt = b.clearedAt /\ breaker'.open = v
    BY <2>1
  <2> QED
    BY <2>2 DEF b, v
<1>2. ASSUME UNCHANGED <<phase, updatedAt, breaker>>, clock' \in Nat, clock <= clock'
      PROVE  Harmless
  BY <1>2 DEF Harmless, Holds
<1>3. ASSUME NEW i \in Ids, Dequeue(i)
      PROVE  Takes(i) \/ Harmless
  <2>1. Evaluate /\ Touch(i) /\ clock' = clock /\ PipelineFree
    BY <1>3 DEF Dequeue
  <2>2. CASE ~Evaluated /\ TakeUp(i)
    <3>1. ~breaker.open /\ ~(RecentFailures >= FailThreshold)
      BY <2>2 DEF Evaluated, Tripped
    <3>2. RecentFailures \in Nat
      <4> DEFINE F == {j \in Ids : phase[j] \in {"parked", "undone"} /\ updatedAt[j] > Since}
      <4>1. IsFiniteSet(Ids)
        BY FS_Interval, MaxIntegrationsAssumption DEF Ids
      <4>2. IsFiniteSet(F)
        BY <4>1, FS_Subset
      <4> QED
        BY <4>2, FS_CardinalityType DEF RecentFailures
    <3>3. RecentFailures < FailThreshold
      BY <3>1, <3>2, BreakerAssumption
    <3> QED
      BY <1>1, <2>1, <2>2, <3>1, <3>3 DEF Takes, TakeUp
  <2>3. CASE Become(i, "refused")
    <3>1. breaker.open => breaker'.open
      BY <1>1, <2>1 DEF Evaluated, Tripped
    <3>2. /\ \A j \in Ids : Holds(j)' => Holds(j)
          /\ \A j \in Ids : phase'[j] = "undone" =>
               Holds(j) \/ (phase[j] = "undone" /\ updatedAt'[j] = updatedAt[j])
      BY <2>1, <2>3, RowsAreHarmless DEF Phases, Outcomes
    <3> QED
      BY <1>0, <1>1, <2>1, <3>1, <3>2 DEF Harmless
  <2> QED
    BY <1>3, <2>2, <2>3 DEF Dequeue
<1>4. ASSUME NEW i \in Ids, NEW p \in Phases, Become(i, p), Touch(i),
             Holds(i) \/ p \in {"waiting", "refused", "retired"},
             UNCHANGED <<breaker, clock>>
      PROVE  Harmless
  BY <1>0, <1>4, RowsAreHarmless DEF Harmless
<1>5. ASSUME NEW i \in Ids, Touch(i), Holds(i), UNCHANGED <<phase, breaker, clock>>
      PROVE  Harmless
  <2>1. \A j \in Ids : j # i => updatedAt'[j] = updatedAt[j]
    BY <1>5 DEF RequestsTypeOK, Touch
  <2> QED
    BY <1>0, <1>5, <2>1 DEF Harmless, Holds
<1>6. ASSUME NEW i \in Ids, Advance(i) \/ (Park(i) /\ Touch(i) /\ UNCHANGED <<breaker, clock>>)
      PROVE  Harmless
  <2>1. Holds(i) /\ Touch(i) /\ UNCHANGED <<breaker, clock>> /\ \E p \in Phases : Become(i, p)
    BY <1>6 DEF Advance, Park, Unpark, Abandon, Settle, Holds, Phases, Outcomes
  <2> QED
    BY <1>4, <2>1
<1>7. CASE \E r \in Requests :
             \/ \E s \in Sessions : Ask(r, s)
             \/ CheckPrior(r)
             \/ BaseFails(r)
  BY <1>0, <1>2, <1>7 DEF Ask, CheckPrior, BaseFails
<1>8. CASE \E r \in Requests : \E i \in Ids : Enqueue(r, i)
  <2>1. PICK r \in Requests, i \in Ids : Enqueue(r, i)
    BY <1>8
  <2>2. Become(i, "waiting") /\ Touch(i) /\ UNCHANGED <<breaker, clock>>
    BY <2>1 DEF Enqueue, Submit, Touch
  <2> QED
    BY <1>4, <2>2 DEF Phases
<1>9. CASE \E s \in Sessions : Commit(s)
  BY <1>0, <1>2, <1>9 DEF Commit
<1>10. CASE \E i \in Ids : RetireQueued(i)
  BY <1>4, <1>10 DEF RetireQueued, Phases, Outcomes
<1>11. CASE \E i \in Ids : Rebase(i)
  BY <1>5, <1>11 DEF Rebase, Holds
<1>12. CASE ReadBreaker
  <2>1. breaker.open => breaker'.open
    BY <1>1, <1>12 DEF ReadBreaker, Evaluated, Tripped
  <2> QED
    BY <1>0, <1>1, <1>12, <2>1 DEF ReadBreaker, Harmless, Holds
<1>13. CASE Restart
  BY <1>0, <1>2, <1>5, <1>6, <1>13 DEF Restart
<1>14. CASE Tick
  <2>1. clock' \in Nat /\ clock <= clock'
    BY <1>0, <1>14 DEF Tick
  <2> QED
    BY <1>2, <1>14, <2>1 DEF Tick
<1>15. CASE UNCHANGED vars
  BY <1>0, <1>2, <1>15 DEF vars
<1>16. CASE \E i \in Ids : Dequeue(i) \/ Advance(i)
  BY <1>3, <1>6, <1>16
<1> QED
  BY <1>7, <1>8, <1>9, <1>10, <1>11, <1>12, <1>13, <1>14, <1>15, <1>16 DEF Next

(***************************************************************************)
(* Whatever opened it, an open breaker stays open and lets nothing be      *)
(* taken up until an operator clears it.                                   *)
(***************************************************************************)
THEOREM OpenBreakerBlocks == Spec => BlockedUntilCleared
<1>1. ASSUME RequestsTypeOK, [Next]_vars, breaker.open
      PROVE  \/ breaker'.open /\ \A i \in Ids : ~TakeUp(i)
             \/ breaker'.clearedAt = clock /\ phase' = phase
  <2>1. CASE \E i \in Ids : Takes(i)
    BY <1>1, <2>1 DEF Takes
  <2>2. CASE ClearBreaker
    BY <2>2 DEF ClearBreaker
  <2>3. CASE Harmless
    <3>1. ASSUME NEW i \in Ids, TakeUp(i) PROVE FALSE
      <4>1. phase[i] = "waiting" /\ phase'[i] = "working"
        BY <1>1, <3>1 DEF TakeUp, OldestWaiting, Become, RequestsTypeOK, PhaseTypeOK
      <4> QED
        BY <2>3, <4>1 DEF Harmless, Holds
    <3> QED
      BY <1>1, <2>3, <3>1 DEF Harmless
  <2> QED
    BY <1>1, <2>1, <2>2, <2>3, StepShape
<1> QED
  BY <1>1, RequestTypes, PTL DEF Spec, BlockedUntilCleared

(***************************************************************************)
(* With one holder at a time and the count taken when it is let in, the    *)
(* failures the count saw and the one holder are at most the threshold.    *)
(***************************************************************************)
Holders == {i \in Ids : Holds(i)}

OneHolder == \A i, j \in Ids : Holds(i) /\ Holds(j) => i = j

ThrashInv == RequestsTypeOK /\ OneHolder /\ DeployThrashBounded

LEMMA IdsAreFinite == \A S \in SUBSET Ids : IsFiniteSet(S) /\ Cardinality(S) \in Nat
<1>1. IsFiniteSet(Ids)
  BY FS_Interval, MaxIntegrationsAssumption DEF Ids
<1>2. \A S \in SUBSET Ids : IsFiniteSet(S)
  BY <1>1, FS_Subset
<1> QED
  BY <1>2, FS_CardinalityType

LEMMA FewerThrash ==
    ASSUME NEW S \in SUBSET Ids, NEW T \in SUBSET S, Cardinality(S) <= FailThreshold
    PROVE  Cardinality(T) <= FailThreshold
<1>1. IsFiniteSet(S) /\ Cardinality(S) \in Nat /\ Cardinality(T) \in Nat
  BY IdsAreFinite
<1>2. Cardinality(T) <= Cardinality(S)
  BY <1>1, FS_Subset
<1> QED
  BY <1>1, <1>2, BreakerAssumption

\* One integration let in on top of failures below the threshold.
LEMMA OneMoreThrash ==
    ASSUME NEW S \in SUBSET Ids, NEW i \in Ids, Cardinality(S) < FailThreshold
    PROVE  Cardinality(S \cup {i}) <= FailThreshold
<1>1. IsFiniteSet(S) /\ Cardinality(S) \in Nat
  BY IdsAreFinite
<1>2. Cardinality(S \cup {i}) <= Cardinality(S) + 1
  BY <1>1, FS_AddElement
<1>3. Cardinality(S \cup {i}) \in Nat
  BY IdsAreFinite
<1> QED
  BY <1>1, <1>2, <1>3, BreakerAssumption

LEMMA InitThrash == Init => ThrashInv
<1> SUFFICES ASSUME Init PROVE ThrashInv
  OBVIOUS
<1>1. \A i \in Ids : phase[i] = "absent"
  BY DEF Init, RQInit
<1>2. RolledBackSinceClear \cup Holders = {}
  BY <1>1 DEF RolledBackSinceClear, Holders, Holds
<1>3. DeployThrashBounded
  BY <1>2, FS_EmptySet, BreakerAssumption DEF DeployThrashBounded, Holders
<1> QED
  BY <1>1, <1>3, InitTypes DEF ThrashInv, OneHolder, Holds

LEMMA StepThrash ==
    ASSUME ThrashInv, [Next]_vars
    PROVE  ThrashInv'
<1> USE DEF ThrashInv
<1> DEFINE S == RolledBackSinceClear \cup Holders
<1>0. RequestsTypeOK' /\ Cardinality(S) <= FailThreshold /\ S \in SUBSET Ids
  BY StepsKeepTypes DEF DeployThrashBounded, Holders, RolledBackSinceClear
<1>t. /\ clock \in Nat /\ Window \in Nat /\ Window > 0 /\ breaker.clearedAt \in Nat
      /\ \A i \in Ids : updatedAt[i] \in Nat /\ updatedAt[i] <= clock
  BY BreakerAssumption DEF RequestsTypeOK
<1>1. ASSUME NEW i \in Ids, Takes(i)
      PROVE  OneHolder' /\ DeployThrashBounded'
  <2> DEFINE F == {j \in Ids : phase[j] \in {"parked", "undone"} /\ updatedAt[j] > Since}
  <2>1. /\ \A j \in Ids : phase'[j] = IF j = i THEN "working" ELSE phase[j]
        /\ \A j \in Ids : j # i => updatedAt'[j] = updatedAt[j]
    BY <1>1 DEF RequestsTypeOK, PhaseTypeOK, Takes, Become, Touch
  <2>2. \A j \in Ids : Holds(j)' <=> j = i
    BY <1>1, <2>1 DEF Takes, PipelineFree, Holds
  <2>3. RolledBackSinceClear' \subseteq F
    BY <1>1, <1>t, <2>1 DEF RolledBackSinceClear, Takes, Since
  <2>4. (RolledBackSinceClear \cup Holders)' \in SUBSET (F \cup {i})
    BY <2>2, <2>3 DEF Holders
  <2>5. Cardinality(F \cup {i}) <= FailThreshold
    <3>1. F \in SUBSET Ids /\ Cardinality(F) < FailThreshold
      BY <1>1 DEF Takes, RecentFailures
    <3> HIDE DEF F
    <3> QED
      BY <3>1, OneMoreThrash
  <2>6. Cardinality((RolledBackSinceClear \cup Holders)') <= FailThreshold
    <3>1. F \cup {i} \in SUBSET Ids
      OBVIOUS
    <3> HIDE DEF F
    <3> QED
      BY <2>4, <2>5, <3>1, FewerThrash
  <2> QED
    BY <2>2, <2>6 DEF OneHolder, DeployThrashBounded, Holders
<1>2. CASE ClearBreaker
  <2>1. /\ \A j \in Ids : Holds(j)' <=> Holds(j)
        /\ RolledBackSinceClear' = {}
    BY <1>2, <1>t DEF ClearBreaker, Holds, RolledBackSinceClear
  <2>2. (RolledBackSinceClear \cup Holders)' \in SUBSET S
    BY <2>1 DEF Holders
  <2> QED
    BY <1>0, <2>1, <2>2, FewerThrash DEF OneHolder, DeployThrashBounded, Holders
<1>3. CASE Harmless
  <2>1. \A j \in Ids : Holds(j)' => Holds(j)
    BY <1>3 DEF Harmless
  <2>2. RolledBackSinceClear' \subseteq S
    BY <1>3, <1>t DEF Harmless, RolledBackSinceClear, Holders
  <2>3. (RolledBackSinceClear \cup Holders)' \in SUBSET S
    BY <2>1, <2>2 DEF Holders
  <2> QED
    BY <1>0, <2>1, <2>3, FewerThrash DEF OneHolder, DeployThrashBounded, Holders
<1> QED
  BY <1>0, <1>1, <1>2, <1>3, StepShape

(***************************************************************************)
(* Within one window and with no clear, at most FailThreshold releases are *)
(* rolled back, the one being worked on included.                          *)
(***************************************************************************)
THEOREM ThrashIsBounded == Spec => []DeployThrashBounded
<1>1. Spec => []ThrashInv
  BY InitThrash, StepThrash, PTL DEF Spec
<1>2. ThrashInv => DeployThrashBounded
  BY DEF ThrashInv
<1> QED
  BY <1>1, <1>2, PTL

-----------------------------------------------------------------------------
(***************************************************************************)
(* Repeated requests.  A call past the look for prior rows is as good as a *)
(* row: both together are never more than the callers.                     *)
(***************************************************************************)
Basing(s, c) ==
  {r \in Requests :
     /\ request[r].pc = "basing"
     /\ request[r].session = s
     /\ request[r].candidate = c}

RepeatsInv ==
  /\ RequestsTypeOK
  /\ \A s \in Sessions, c \in Shas :
       Cardinality(PriorRows(s, c)) + Cardinality(Basing(s, c))
         <= Cardinality(Requests)

LEMMA CallersAreFinite ==
    /\ Cardinality(Requests) \in Nat
    /\ \A B \in SUBSET Requests :
         /\ IsFiniteSet(B) /\ Cardinality(B) \in Nat
         /\ Cardinality(B) <= Cardinality(Requests)
<1>1. \A B \in SUBSET Requests : IsFiniteSet(B) /\ Cardinality(B) <= Cardinality(Requests)
  BY BreakerAssumption, FS_Subset
<1> QED
  BY <1>1, BreakerAssumption, FS_CardinalityType

LEMMA PriorRowsAreRows == \A s, c : PriorRows(s, c) \in SUBSET Ids
  BY DEF PriorRows, Submitted

\* Neither rows nor calls come to a commit.
LEMMA FewerRepeats ==
    ASSUME RepeatsInv, NEW s \in Sessions, NEW c \in Shas,
           PriorRows(s, c)' \subseteq PriorRows(s, c),
           Basing(s, c)' \subseteq Basing(s, c)
    PROVE  Cardinality(PriorRows(s, c)') + Cardinality(Basing(s, c)')
             <= Cardinality(Requests)
<1>1. PriorRows(s, c) \in SUBSET Ids /\ Basing(s, c) \in SUBSET Requests
  BY PriorRowsAreRows DEF Basing
<1>2. IsFiniteSet(PriorRows(s, c)) /\ IsFiniteSet(Basing(s, c))
  BY <1>1, IdsAreFinite, CallersAreFinite
<1>3. Cardinality(PriorRows(s, c)') <= Cardinality(PriorRows(s, c))
  BY <1>2, FS_Subset
<1>4. Cardinality(Basing(s, c)') <= Cardinality(Basing(s, c))
  BY <1>2, FS_Subset
<1>5. Cardinality(PriorRows(s, c)) + Cardinality(Basing(s, c)) <= Cardinality(Requests)
  BY DEF RepeatsInv
<1>6. /\ Cardinality(PriorRows(s, c)) \in Nat /\ Cardinality(PriorRows(s, c)') \in Nat
      /\ Cardinality(Basing(s, c)) \in Nat /\ Cardinality(Basing(s, c)') \in Nat
  <2>1. PriorRows(s, c)' \in SUBSET Ids /\ Basing(s, c)' \in SUBSET Requests
    BY <1>1
  <2> QED
    BY <1>1, <2>1, IdsAreFinite, CallersAreFinite
<1> QED
  BY <1>3, <1>4, <1>5, <1>6, CallersAreFinite

LEMMA InitRepeats == Init => RepeatsInv
<1> SUFFICES ASSUME Init PROVE RepeatsInv
  OBVIOUS
<1>1. ASSUME NEW s \in Sessions, NEW c \in Shas
      PROVE  Cardinality(PriorRows(s, c)) + Cardinality(Basing(s, c)) <= Cardinality(Requests)
  <2>1. PriorRows(s, c) = {} /\ Basing(s, c) = {}
    BY DEF Init, RQInit, PriorRows, Submitted, Basing, IdleRequest
  <2> QED
    BY <2>1, FS_EmptySet, CallersAreFinite
<1> QED
  BY <1>1, InitTypes DEF RepeatsInv

\* A call that finds no prior row is the first, with those beside it.
LEMMA CheckRepeats ==
    ASSUME RepeatsInv, NEW r \in Requests, CheckPrior(r),
           NEW s \in Sessions, NEW c \in Shas
    PROVE  Cardinality(PriorRows(s, c)') + Cardinality(Basing(s, c)')
             <= Cardinality(Requests)
<1>1. PriorRows(s, c)' = PriorRows(s, c)
  BY DEF CheckPrior, PriorRows, Submitted
<1>2. CASE request' = [request EXCEPT ![r] = IdleRequest]
  <2>1. Basing(s, c)' \subseteq Basing(s, c)
    BY <1>2 DEF RepeatsInv, RequestsTypeOK, Basing, IdleRequest
  <2> QED
    BY <1>1, <2>1, FewerRepeats
<1>3. CASE /\ request[r].pc = "asked"
           /\ Prior(request[r].session, request[r].candidate) = {}
           /\ request' = [request EXCEPT ![r].pc = "basing"]
  <2> DEFINE a == request[r]
             x == [a EXCEPT !.pc = "basing"]
  <2>1. a \in Asking
    BY <1>3, AskingIs DEF RepeatsInv
  <2>2. request' = [request EXCEPT ![r] = x]
    BY <1>3
  <2>3. Prior(a.session, a.candidate) = {}
    BY <1>3
  <2>4. a = request[r]
    OBVIOUS
  <2> HIDE DEF a
  <2>5. x.session = a.session /\ x.candidate = a.candidate
    BY <2>1 DEF Asking
  <2> HIDE DEF x
  <2>6. CASE a.session = s /\ a.candidate = c
    <3>1. PriorRows(s, c) = {}
      BY <2>3, <2>6 DEF Prior
    <3>2. Cardinality(PriorRows(s, c)') = 0
      BY <1>1, <3>1, FS_EmptySet
    <3>3. Basing(s, c)' \in SUBSET Requests
      BY DEF Basing
    <3> QED
      BY <3>2, <3>3, CallersAreFinite
  <2>7. CASE ~(a.session = s /\ a.candidate = c)
    <3>1. \A q \in Requests : request'[q] = IF q = r THEN x ELSE request[q]
      BY <2>2 DEF RepeatsInv, RequestsTypeOK
    <3>2. Basing(s, c)' \subseteq Basing(s, c)
      BY <2>5, <2>7, <3>1 DEF Basing
    <3> QED
      BY <1>1, <3>2, FewerRepeats
  <2> QED
    BY <2>6, <2>7
<1> QED
  BY <1>2, <1>3 DEF CheckPrior

\* The call becomes the row.
LEMMA EnqueueRepeats ==
    ASSUME RepeatsInv, NEW r \in Requests, NEW i \in Ids, Enqueue(r, i),
           NEW s \in Sessions, NEW c \in Shas
    PROVE  Cardinality(PriorRows(s, c)') + Cardinality(Basing(s, c)')
             <= Cardinality(Requests)
<1> DEFINE a == request[r]
           w == [session |-> a.session, source |-> a.candidate, rewritten |-> FALSE]
<1>1. a \in Asking /\ a.pc = "basing"
  BY AskingIs DEF RepeatsInv, Enqueue
<1>2. /\ \A j \in Ids : phase'[j] = IF j = i THEN "waiting" ELSE phase[j]
      /\ \A j \in Ids : row'[j] = IF j = i THEN w ELSE row[j]
      /\ \A q \in Requests : request'[q] = IF q = r THEN IdleRequest ELSE request[q]
      /\ phase[i] = "absent"
  BY DEF RepeatsInv, RequestsTypeOK, PhaseTypeOK, Enqueue, Submit, Become
<1>3. w.session = a.session /\ w.source = a.candidate
  OBVIOUS
<1>4. a = request[r]
  OBVIOUS
<1> HIDE DEF w, a
<1>5. CASE a.session = s /\ a.candidate = c
  <2>1. r \in Basing(s, c)
    BY <1>1, <1>4, <1>5 DEF Basing
  <2>2. Basing(s, c)' \subseteq Basing(s, c) \ {r}
    BY <1>2 DEF Basing, IdleRequest
  <2>3. PriorRows(s, c)' \subseteq PriorRows(s, c) \cup {i}
    BY <1>2 DEF PriorRows, Submitted
  <2> DEFINE P == PriorRows(s, c)
             B == Basing(s, c)
             P1 == PriorRows(s, c)'
             B1 == Basing(s, c)'
  <2>4. P \in SUBSET Ids /\ P1 \in SUBSET Ids /\ B \in SUBSET Requests /\ B1 \in SUBSET Requests
    <3>1. P \in SUBSET Ids /\ B \in SUBSET Requests
      BY PriorRowsAreRows DEF Basing
    <3> QED
      BY <2>2, <2>3, <3>1
  <2>5. Cardinality(P) + Cardinality(B) <= Cardinality(Requests)
    BY DEF RepeatsInv
  <2> HIDE DEF P, B, P1, B1
  <2>6. /\ IsFiniteSet(P) /\ IsFiniteSet(B)
        /\ Cardinality(P) \in Nat /\ Cardinality(B) \in Nat
        /\ Cardinality(P1) \in Nat /\ Cardinality(B1) \in Nat
    BY <2>4, IdsAreFinite, CallersAreFinite
  <2>7. Cardinality(P1) <= Cardinality(P) + 1
    <3>1. IsFiniteSet(P \cup {i}) /\ Cardinality(P \cup {i}) <= Cardinality(P) + 1
      <4>1. /\ IsFiniteSet(P \cup {i})
            /\ Cardinality(P \cup {i}) = IF i \in P THEN Cardinality(P) ELSE Cardinality(P) + 1
        BY <2>6, FS_AddElement
      <4> QED
        BY <2>6, <4>1
    <3>2. P1 \in SUBSET (P \cup {i})
      BY <2>3 DEF P, P1
    <3>3. Cardinality(P1) <= Cardinality(P \cup {i})
      BY <3>1, <3>2, FS_Subset
    <3>4. Cardinality(P \cup {i}) \in Nat
      BY <3>1, FS_CardinalityType
    <3> QED
      BY <2>6, <3>1, <3>3, <3>4
  <2>8. Cardinality(B1) <= Cardinality(B) - 1
    <3>1. IsFiniteSet(B \ {r}) /\ Cardinality(B \ {r}) = Cardinality(B) - 1
      BY <2>1, <2>6, FS_RemoveElement DEF B
    <3>2. B1 \in SUBSET (B \ {r})
      BY <2>2 DEF B, B1
    <3> QED
      BY <3>1, <3>2, FS_Subset
  <2>9. Cardinality(P1) + Cardinality(B1) <= Cardinality(Requests)
    BY <2>5, <2>6, <2>7, <2>8, CallersAreFinite
  <2> QED
    BY <2>9 DEF P1, B1
<1>6. CASE ~(a.session = s /\ a.candidate = c)
  <2>1. PriorRows(s, c)' \subseteq PriorRows(s, c)
    BY <1>2, <1>3, <1>6 DEF PriorRows, Submitted
  <2>2. Basing(s, c)' \subseteq Basing(s, c)
    BY <1>2 DEF Basing, IdleRequest
  <2> QED
    BY <2>1, <2>2, FewerRepeats
<1> QED
  BY <1>5, <1>6

\* Every other step leaves the rows and calls of a commit what they were.
LEMMA OtherRepeats ==
    ASSUME RepeatsInv, NEW s \in Sessions, NEW c \in Shas,
           \/ \E r \in Requests : (\E z \in Sessions : Ask(r, z)) \/ BaseFails(r)
           \/ \E z \in Sessions : Commit(z)
           \/ \E i \in Ids : Dequeue(i) \/ RetireQueued(i) \/ Rebase(i) \/ Advance(i)
           \/ ReadBreaker \/ ClearBreaker \/ Restart \/ Tick
           \/ UNCHANGED vars
    PROVE  Cardinality(PriorRows(s, c)') + Cardinality(Basing(s, c)')
             <= Cardinality(Requests)
<1> USE DEF RepeatsInv, RequestsTypeOK
<1>1. \A j \in Ids : phase[j] = "absent" => phase'[j] = "absent"
  <2>1. ASSUME NEW i \in Ids, QueueMoves(i) \/ Become(i, "retired"), phase[i] # "absent"
        PROVE  \A j \in Ids : phase[j] = "absent" => phase'[j] = "absent"
    BY <2>1 DEF QueueMoves, Submit, Dismiss, TakeUp, Park, Unpark, Abandon, Settle,
                Become, PhaseTypeOK
  <2>2. CASE UNCHANGED phase
    BY <2>2
  <2>3. CASE \E i \in Ids : Dequeue(i) \/ RetireQueued(i) \/ Advance(i)
    BY <2>1, <2>3 DEF Dequeue, RetireQueued, Advance, QueueMoves, OldestWaiting,
                      Park, Unpark, Abandon, Settle
  <2>4. CASE Restart
    BY <2>1, <2>2, <2>4 DEF Restart, QueueMoves, Park
  <2> QED
    BY <2>2, <2>3, <2>4 DEF Ask, BaseFails, Commit, Rebase, ReadBreaker, ClearBreaker, Tick, vars
<1>2. \A j \in Ids : row'[j] = row[j] \/ row'[j].rewritten
  <2>1. CASE UNCHANGED row
    BY <2>1
  <2>2. ASSUME NEW i \in Ids, Rebase(i)
        PROVE  \A j \in Ids : row'[j] = row[j] \/ row'[j].rewritten
    <3> DEFINE w == row[i]
               x == [w EXCEPT !.rewritten = TRUE]
    <3>1. w \in Rows /\ row' = [row EXCEPT ![i] = x]
      BY <2>2 DEF Rebase
    <3> HIDE DEF w
    <3>2. x.rewritten
      BY <3>1 DEF Rows
    <3> HIDE DEF x
    <3> QED
      BY <3>1, <3>2
  <2> QED
    BY <2>1, <2>2 DEF Ask, BaseFails, Commit, Dequeue, RetireQueued, Advance, ReadBreaker,
                      ClearBreaker, Restart, Tick, vars
<1>3. PriorRows(s, c)' \subseteq PriorRows(s, c)
  BY <1>1, <1>2 DEF PriorRows, Submitted
<1>4. \A q \in Requests : request'[q] = request[q] \/ request'[q].pc # "basing"
  BY DEF Ask, BaseFails, Commit, Dequeue, RetireQueued, Rebase, Advance, ReadBreaker,
         ClearBreaker, Restart, Tick, vars, IdleRequest
<1>5. Basing(s, c)' \subseteq Basing(s, c)
  BY <1>4 DEF Basing
<1> QED
  BY <1>3, <1>5, FewerRepeats

LEMMA StepRepeats ==
    ASSUME RepeatsInv, [Next]_vars
    PROVE  RepeatsInv'
<1>1. RequestsTypeOK'
  BY StepsKeepTypes DEF RepeatsInv
<1>2. ASSUME NEW s \in Sessions, NEW c \in Shas
      PROVE  Cardinality(PriorRows(s, c)') + Cardinality(Basing(s, c)') <= Cardinality(Requests)
  BY CheckRepeats, EnqueueRepeats, OtherRepeats DEF Next
<1>3. Sessions' = Sessions /\ Shas' = Shas /\ Requests' = Requests
  BY DEF Shas
<1> QED
  BY <1>1, <1>2 DEF RepeatsInv, Shas

(***************************************************************************)
(* Asking again never makes more rows for a commit than there are callers, *)
(* as long as the gate has not rewritten them.                             *)
(***************************************************************************)
THEOREM RepeatsAreBounded == Spec => []RepeatsBounded
<1>1. Spec => []RepeatsInv
  BY InitRepeats, StepRepeats, PTL DEF Spec
<1>2. RepeatsInv => RepeatsBounded
  <2> SUFFICES ASSUME RepeatsInv, NEW s \in Sessions, NEW c \in Shas
               PROVE  Cardinality(PriorRows(s, c)) <= Cardinality(Requests)
    BY DEF RepeatsBounded
  <2>1. Cardinality(PriorRows(s, c)) + Cardinality(Basing(s, c)) <= Cardinality(Requests)
    BY DEF RepeatsInv
  <2>2. Cardinality(PriorRows(s, c)) \in Nat /\ Cardinality(Basing(s, c)) \in Nat
    BY PriorRowsAreRows, IdsAreFinite, CallersAreFinite DEF Basing
  <2> QED
    BY <2>1, <2>2, CallersAreFinite
<1> QED
  BY <1>1, <1>2, PTL

=============================================================================
