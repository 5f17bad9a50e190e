--------------------------- MODULE ReleaseRequests ---------------------------
(***************************************************************************)
(* The two ends of the deploy queue that DeployPipeline leaves open: who   *)
(* puts integrations in (integration_request.js) and what stops them being *)
(* taken out (deploy_breaker.js).  In between stands what DeployPipeline   *)
(* is shown to implement: ReleaseQueue, whose actions move the rows.       *)
(*                                                                         *)
(* One project: integrationReadiness refuses any project whose path is not *)
(* the server's own checkout.  Refusals of a request that change nothing   *)
(* (no worktree, wrong branch, dirty tree, a git error) are one step back  *)
(* to idle.                                                                *)
(*                                                                         *)
(* Bounds: MaxIntegrations rows, MaxClock units of time, MaxCommits        *)
(* commits per session branch, the requests in Requests in flight at once. *)
(***************************************************************************)
EXTENDS ReleaseQueue, Integers, FiniteSets

CONSTANTS
  Sessions,
  Requests,       \* callers: HTTP route, supervisor capability, operator
  FailThreshold,  \* FAIL_THRESHOLD
  Window,         \* WINDOW_MS, in units of the clock
  MaxClock,
  MaxCommits

ASSUME BreakerAssumption ==
  /\ FailThreshold \in Nat \ {0}
  /\ Window \in Nat \ {0}
  /\ MaxClock \in Nat \ {0}
  /\ MaxCommits \in Nat
  /\ IsFiniteSet(Requests)

VARIABLES
  head,        \* session -> HEAD of its worktree
  row,         \* integration -> session, source_sha, candidate_sha rewritten?
  updatedAt,   \* integrations.updated_at
  request,     \* caller -> where its requestSessionIntegration call is
  breaker,     \* the deploy_breaker row: open, cleared_at
  clock

vars == <<phase, head, row, updatedAt, request, breaker, clock>>

Shas == 0 .. MaxCommits

Rows == [session : Sessions, source : Shas, rewritten : BOOLEAN]

IdleRequest == [pc |-> "idle"]

(***************************************************************************)
(* "asked" has read the worktree HEAD and awaits git status; "basing" has  *)
(* found no prior row and awaits git rev-parse of the base.                *)
(***************************************************************************)
RequestStates ==
  {IdleRequest}
    \cup [pc : {"asked", "basing"}, session : Sessions, candidate : Shas]

Submitted == {i \in Ids : phase[i] # "absent"}

Init ==
  /\ RQInit
  /\ head = [s \in Sessions |-> 0]
  /\ row \in [Ids -> Rows]
  /\ \A i \in Ids : row[i].source = 0 /\ ~row[i].rewritten
  /\ \A i, j \in Ids : row[i] = row[j]
  /\ updatedAt = [i \in Ids |-> 0]
  /\ request = [r \in Requests |-> IdleRequest]
  /\ breaker = [open |-> FALSE, clearedAt |-> 0]
  /\ clock = 1

-----------------------------------------------------------------------------
(***************************************************************************)
(* integration_request.js                                                  *)
(***************************************************************************)

(***************************************************************************)
(* The exact-candidate match of list(200).find(...).  driveGate overwrites *)
(* candidate_sha with the rebased commit, so a rewritten row matches no    *)
(* later question about the commit it was made from.                       *)
(***************************************************************************)
PriorRows(s, c) ==
  {i \in Submitted :
     row[i].session = s /\ row[i].source = c /\ ~row[i].rewritten}

(***************************************************************************)
(* Faulty: only a row still in the pipeline counts as prior.               *)
(***************************************************************************)
PriorLiveRows(s, c) ==
  {i \in PriorRows(s, c) : phase[i] \in {"waiting", "working", "parked"}}

Prior(s, c) == PriorRows(s, c)

Ask(r, s) ==
  /\ request[r] = IdleRequest
  /\ request' =
       [request EXCEPT ![r] =
          [pc |-> "asked", session |-> s, candidate |-> head[s]]]
  /\ UNCHANGED <<phase, head, row, updatedAt, breaker, clock>>

(***************************************************************************)
(* The branch and cleanliness checks, a refusal among them, and the check  *)
(* for a prior row, which answers with that row.                           *)
(***************************************************************************)
CheckPrior(r) ==
  /\ request[r].pc = "asked"
  /\ \/ request' = [request EXCEPT ![r] = IdleRequest]
     \/ /\ Prior(request[r].session, request[r].candidate) = {}
        /\ request' = [request EXCEPT ![r].pc = "basing"]
  /\ UNCHANGED <<phase, head, row, updatedAt, breaker, clock>>

(***************************************************************************)
(* enqueue, after the await on the base: no second look at the rows.       *)
(***************************************************************************)
Enqueue(r, i) ==
  /\ request[r].pc = "basing"
  /\ Submit(i)
  /\ row' =
       [row EXCEPT ![i] =
          [session |-> request[r].session, source |-> request[r].candidate,
           rewritten |-> FALSE]]
  /\ updatedAt' = [updatedAt EXCEPT ![i] = clock]
  /\ request' = [request EXCEPT ![r] = IdleRequest]
  /\ UNCHANGED <<head, breaker, clock>>

BaseFails(r) ==
  /\ request[r].pc = "basing"
  /\ request' = [request EXCEPT ![r] = IdleRequest]
  /\ UNCHANGED <<phase, head, row, updatedAt, breaker, clock>>

(***************************************************************************)
(* The session's agent commits, at any time.                               *)
(***************************************************************************)
Commit(s) ==
  /\ head[s] < MaxCommits
  /\ head' = [head EXCEPT ![s] = @ + 1]
  /\ UNCHANGED <<phase, row, updatedAt, request, breaker, clock>>

-----------------------------------------------------------------------------
(***************************************************************************)
(* deploy_breaker.js                                                       *)
(***************************************************************************)

(***************************************************************************)
(* The later of the start of the window and the last clear.                *)
(***************************************************************************)
Since ==
  IF clock - Window > breaker.clearedAt
  THEN clock - Window ELSE breaker.clearedAt

(***************************************************************************)
(* HELD is "parked", ROLLED_BACK is "undone".                              *)
(***************************************************************************)
RecentFailures ==
  Cardinality({i \in Ids :
    phase[i] \in {"parked", "undone"} /\ updatedAt[i] > Since})

(***************************************************************************)
(* What evaluate leaves: an open breaker stays open, a closed one opens at *)
(* the threshold.                                                          *)
(***************************************************************************)
Tripped == breaker.open \/ RecentFailures >= FailThreshold

(***************************************************************************)
(* Faulty: one failure too many is tolerated.                              *)
(***************************************************************************)
TrippedLate == breaker.open \/ RecentFailures > FailThreshold

(***************************************************************************)
(* Faulty: the count decides, whatever was recorded when it was higher.    *)
(***************************************************************************)
TrippedNow == RecentFailures >= FailThreshold

Evaluated == Tripped

Evaluate == breaker' = [breaker EXCEPT !.open = Evaluated]

(***************************************************************************)
(* GET /api/deploy/breaker evaluates, and so may open, the breaker.        *)
(***************************************************************************)
ReadBreaker ==
  /\ Evaluate
  /\ UNCHANGED <<phase, head, row, updatedAt, request, clock>>

(***************************************************************************)
(* Faulty: the clear is dated ahead, to forgive the window to come too.    *)
(***************************************************************************)
ClearBreakerAhead ==
  /\ breaker' = [open |-> FALSE, clearedAt |-> clock + Window]
  /\ UNCHANGED <<phase, head, row, updatedAt, request, clock>>

ClearBreaker ==
  /\ breaker' = [open |-> FALSE, clearedAt |-> clock]
  /\ UNCHANGED <<phase, head, row, updatedAt, request, clock>>

-----------------------------------------------------------------------------
(***************************************************************************)
(* orchestrateOnce and what follows, as the queue's observer sees it       *)
(***************************************************************************)

Touch(i) == updatedAt' = [updatedAt EXCEPT ![i] = clock]

(***************************************************************************)
(* The breaker is evaluated for the row about to be taken up, and only     *)
(* then; nothing is awaited between its answer and PREPARING.              *)
(***************************************************************************)
Dequeue(i) ==
  /\ OldestWaiting(i)
  /\ PipelineFree
  /\ Evaluate
  /\ \/ ~Evaluated /\ TakeUp(i)
     \/ Become(i, "refused")     \* breaker open, or the project opted out
  /\ Touch(i)
  /\ UNCHANGED <<head, row, request, clock>>

(***************************************************************************)
(* reconcilePublishedWork: the running release has the candidate already.  *)
(***************************************************************************)
RetireQueued(i) ==
  /\ phase[i] = "waiting"
  /\ Become(i, "retired")
  /\ Touch(i)
  /\ UNCHANGED <<head, row, request, breaker, clock>>

(***************************************************************************)
(* CHECKING: candidate_sha becomes the rebased commit, which is another    *)
(* one when the default branch has moved.                                  *)
(***************************************************************************)
Rebase(i) ==
  /\ phase[i] = "working"
  /\ row' = [row EXCEPT ![i].rewritten = TRUE]
  /\ Touch(i)
  /\ UNCHANGED <<phase, head, request, breaker, clock>>

Advance(i) ==
  /\ Park(i) \/ Unpark(i) \/ Abandon(i) \/ Settle(i)
  /\ Touch(i)
  /\ UNCHANGED <<head, row, request, breaker, clock>>

(***************************************************************************)
(* The requests in flight die with the process; recoverOnBoot stamps the   *)
(* row that holds the pipeline, and recoverGateOnBoot may park it.         *)
(***************************************************************************)
Restart ==
  /\ request' = [r \in Requests |-> IdleRequest]
  /\ \/ PipelineFree /\ UNCHANGED <<phase, updatedAt>>
     \/ \E i \in Ids :
          /\ Holds(i)
          /\ Touch(i)
          /\ UNCHANGED phase \/ Park(i)
  /\ UNCHANGED <<head, row, breaker, clock>>

Tick ==
  /\ clock < MaxClock
  /\ clock' = clock + 1
  /\ UNCHANGED <<phase, head, row, updatedAt, request, breaker>>

Next ==
  \/ \E r \in Requests :
       \/ \E s \in Sessions : Ask(r, s)
       \/ CheckPrior(r)
       \/ \E i \in Ids : Enqueue(r, i)
       \/ BaseFails(r)
  \/ \E s \in Sessions : Commit(s)
  \/ \E i \in Ids : Dequeue(i) \/ RetireQueued(i) \/ Rebase(i) \/ Advance(i)
  \/ ReadBreaker \/ ClearBreaker \/ Restart \/ Tick

Spec == Init /\ [][Next]_vars

-----------------------------------------------------------------------------
(***************************************************************************)
(* Properties                                                              *)
(***************************************************************************)

(***************************************************************************)
(* The type invariant; a row's updated_at is never in the future.          *)
(***************************************************************************)
RequestsTypeOK ==
  /\ PhaseTypeOK
  /\ head \in [Sessions -> Shas]
  /\ row \in [Ids -> Rows]
  /\ request \in [Requests -> RequestStates]
  /\ breaker \in [open : BOOLEAN, clearedAt : 0 .. clock]
  /\ clock \in 1 .. MaxClock
  /\ updatedAt \in [Ids -> 0 .. clock]

(***************************************************************************)
(* A deploy, roll back, redeploy loop is stopped: within one window and    *)
(* with no clear by an operator, at most FailThreshold releases are rolled *)
(* back, the one now being worked on included (header of                   *)
(* deploy_breaker.js).  It takes the count at dequeue, one integration at  *)
(* a time and a count that misses no kind of failure.                      *)
(***************************************************************************)
RolledBackSinceClear ==
  {i \in Ids :
     /\ phase[i] = "undone"
     /\ updatedAt[i] > breaker.clearedAt
     /\ updatedAt[i] > clock - Window}

DeployThrashBounded ==
  Cardinality(RolledBackSinceClear \cup {i \in Ids : Holds(i)})
    <= FailThreshold

(***************************************************************************)
(* An open breaker outlives the window that opened it: until an operator   *)
(* clears it nothing is taken up ("it never auto-closes", header of        *)
(* deploy_breaker.js).                                                     *)
(***************************************************************************)
BlockedUntilCleared ==
  [][breaker.open =>
       \/ breaker'.open /\ \A i \in Ids : ~TakeUp(i)
       \/ breaker'.clearedAt = clock /\ phase' = phase]_vars

(***************************************************************************)
(* Asking again is answered with the row there is: as long as the gate has *)
(* not rewritten them, the rows for one commit of one session are never    *)
(* more than the requests that can be in flight together, however often,   *)
(* and after whatever outcome, it is asked for again.                      *)
(***************************************************************************)
RepeatsBounded ==
  \A s \in Sessions, c \in Shas :
    Cardinality(PriorRows(s, c)) <= Cardinality(Requests)

(***************************************************************************)
(* "it must observe the durable row, never enqueue duplicate deployments"  *)
(* (integration_request.js, above the search for a prior row): no commit   *)
(* of a session has two rows.  The code does not keep this.                *)
(***************************************************************************)
NeverEnqueuedTwice ==
  \A i, j \in Submitted :
    row[i].session = row[j].session /\ row[i].source = row[j].source => i = j

=============================================================================
