---------------------------- MODULE ReleaseQueue ----------------------------
(***************************************************************************)
(* What the autonomous deploy pipeline promises to somebody who only sees  *)
(* the list of integrations (GET /api/deploy/integrations): integrations   *)
(* are taken up one at a time, oldest first; the one that was taken up     *)
(* holds the pipeline, also while it is parked, until it reaches one of    *)
(* the four outcomes; and an outcome is final.                             *)
(*                                                                         *)
(* How an integration is gated, published, soaked and rolled back, and     *)
(* what restarts and dead deploys do to it, is in DeployPipeline, which    *)
(* implements this module.  ReleaseRequests builds on this one.            *)
(***************************************************************************)
EXTENDS Naturals

CONSTANT MaxIntegrations    \* how many integrations are ever requested

ASSUME MaxIntegrationsAssumption == MaxIntegrations \in Nat

(***************************************************************************)
(* Integrations are numbered in the order of integrations.created_at.      *)
(***************************************************************************)
Ids == 1 .. MaxIntegrations

VARIABLE phase

(***************************************************************************)
(* "waiting" is QUEUED, "parked" is HELD, "working" is every active stage. *)
(***************************************************************************)
Outcomes == {"shipped", "refused", "undone", "retired"}
Phases == {"absent", "waiting", "working", "parked"} \cup Outcomes

Holds(i) == phase[i] \in {"working", "parked"}

PipelineFree == \A i \in Ids : ~Holds(i)

OldestWaiting(i) ==
  /\ phase[i] = "waiting"
  /\ \A j \in Ids : j < i => phase[j] # "waiting"

Become(i, p) == phase' = [phase EXCEPT ![i] = p]

PhaseTypeOK == phase \in [Ids -> Phases]

RQInit == phase = [i \in Ids |-> "absent"]

Submit(i) ==
  /\ phase[i] = "absent"
  /\ \A j \in Ids : j < i => phase[j] # "absent"
  /\ Become(i, "waiting")

(***************************************************************************)
(* Not taken up at all: the project opted out or its breaker is open, or   *)
(* the running release already contains the candidate.                     *)
(***************************************************************************)
Dismiss(i) ==
  /\ phase[i] = "waiting"
  /\ \/ Become(i, "refused")
     \/ Become(i, "retired")

TakeUp(i) ==
  /\ OldestWaiting(i)
  /\ PipelineFree
  /\ Become(i, "working")

Park(i) == phase[i] = "working" /\ Become(i, "parked")

Unpark(i) == phase[i] = "parked" /\ Become(i, "working")

Abandon(i) == phase[i] = "parked" /\ Become(i, "refused")

Settle(i) ==
  /\ phase[i] = "working"
  /\ \E o \in Outcomes : Become(i, o)

RQNext ==
  \E i \in Ids :
    \/ Submit(i) \/ Dismiss(i) \/ TakeUp(i)
    \/ Park(i) \/ Unpark(i) \/ Abandon(i) \/ Settle(i)

RQSpec == RQInit /\ [][RQNext]_phase

=============================================================================
