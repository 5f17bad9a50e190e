-------------------------- MODULE ExecutionHandoff --------------------------
(***************************************************************************)
(* The handoff of one paused session from the controller to an execution   *)
(* device, and the launch of a new one there: src/execution_nodes.js and   *)
(* execution_routing.js on the controller, execution_worker.js and         *)
(* execution_state.js on the device, archive_lock.js and the parts of      *)
(* sessions.js that start and stop the session's agent.                    *)
(*                                                                         *)
(* Controller and devices have a database and a disk each, which survive   *)
(* their crashes, as do the agents (in tmux).  A request is lost on the    *)
(* way, or its answer is: the controller cannot tell, and the device goes  *)
(* on with what it has received.                                           *)
(*                                                                         *)
(* Content is abstracted to versions: of the conversation, which every     *)
(* turn advances, and of the checkout, which some turns advance.  That the *)
(* checkout arrives as it was sent is verified by the device (gitEvidence) *)
(* and taken as given.  A device mirrors its sessions to the controller;   *)
(* that copy decides nothing here and is left out.                         *)
(*                                                                         *)
(* Bounds: MaxOps operations, MaxTurns versions, MaxCrashes crashes.       *)
(***************************************************************************)
EXTENDS Naturals, FiniteSets

CONSTANTS Nodes, Local, MaxOps, MaxTurns, MaxCrashes

ASSUME HandoffAssumption ==
  /\ Local \notin Nodes
  /\ MaxOps \in Nat
  /\ MaxTurns \in Nat \ {0}
  /\ MaxCrashes \in Nat

Ops == 1 .. MaxOps      \* in the order of created_at

VARIABLES
  \* the controller's database
  phase,       \* execution_operations.phase, "absent" before the insert
  kind, node,  \* its other columns
  bound,       \* detail.spec: the checkout version it names, 0 before
  owner,       \* sessions.execution_node
  \* the controller's disk and tmux
  local,       \* the local copy: state, conversation and checkout version
  \* the controller's memory
  flight,      \* performOperation, per operation (the flights map)
  asking,      \* POST /move requests past their checks, per device
  resuming,    \* resume() (the pendingResumes map)
  \* a device's record of an operation: phase, conversation version received
  import,
  \* a device's database, disk and tmux
  copy,        \* its row of the session
  transcript,  \* the version of its conversation file, 0 for none
  \* a device's memory
  work,        \* finalizations and activations, per operation
  launches,    \* completeLaunch calls under way
  crashes

rows == <<phase, kind, node, bound, owner>>
memory == <<flight, asking, resuming>>
device == <<import, copy, transcript, work, launches>>
vars == <<rows, local, memory, device, crashes>>

-----------------------------------------------------------------------------
Unfinished == {"queued", "copying", "importing"}
Ended == {"complete", "failed", "cancelled"}
OpPhases == {"absent", "activating"} \cup Unfinished \cup Ended

Inserted == {o \in Ops : phase[o] # "absent"}
InProgress == {o \in Inserted : phase[o] \notin Ended}

(***************************************************************************)
(* assertExecutionAvailable                                                *)
(***************************************************************************)
Available == InProgress = {}

(***************************************************************************)
(* The archive lock: a flock that does not wait, and dies with its holder. *)
(***************************************************************************)
Unlocked == {"off", "locking", "retry", "retrying"}
\* Faulty: a resume takes no lock.
LockOfFlights == \A o \in Ops : flight[o] \in Unlocked

LockFree ==
  /\ resuming # "relaunching"
  /\ \A o \in Ops : flight[o] \in Unlocked

(***************************************************************************)
(* updateOperation throws when the operation was cancelled.                *)
(***************************************************************************)
\* Faulty: it does not look.
AlwaysUpdates(o) == TRUE

MayUpdate(o) == phase[o] # "cancelled"

SetPhase(o, p) == phase' = [phase EXCEPT ![o] = p]
FlightGoes(o, pc) == flight' = [flight EXCEPT ![o] = pc]

Init ==
  /\ phase = [o \in Ops |-> "absent"]
  /\ kind = [o \in Ops |-> "move"]
  /\ node = [o \in Ops |-> Local]
  /\ bound = [o \in Ops |-> 0]
  /\ owner = Local
  /\ local \in [state : {"none", "running"}, turns : {1}, tree : {1}]
  /\ flight = [o \in Ops |-> "off"]
  /\ asking = [n \in Nodes |-> 0]
  /\ resuming = "no"
  /\ import = [o \in Ops |-> [phase |-> "absent", native |-> 0]]
  /\ copy = [n \in Nodes |-> [state |-> "none", by |-> 0, dormant |-> FALSE]]
  /\ transcript = [n \in Nodes |-> 0]
  /\ work = [o \in Ops |-> "off"]
  /\ launches = [n \in Nodes |-> 0]
  /\ crashes = 0

-----------------------------------------------------------------------------
(***************************************************************************)
(* The session on the controller (sessions.js).                            *)
(***************************************************************************)
Turn ==
  /\ local.state = "running"
  /\ local.turns < MaxTurns
  /\ \E t \in {local.tree, local.tree + 1} :
       local' = [local EXCEPT !.turns = @ + 1, !.tree = t]
  /\ UNCHANGED <<rows, memory, device, crashes>>

(***************************************************************************)
(* resume() checks, then waits for the lock: busy ends it.                 *)
(***************************************************************************)
ResumeAsked ==
  /\ resuming = "no"
  /\ Available /\ owner = Local /\ local.state = "stopped"
  /\ resuming' = "asked"
  /\ UNCHANGED <<rows, local, flight, asking, device, crashes>>

ResumeLocks ==
  /\ resuming = "asked"
  /\ resuming' = IF LockFree THEN "relaunching" ELSE "no"
  /\ UNCHANGED <<rows, local, flight, asking, device, crashes>>

ResumeEnds ==
  /\ resuming = "relaunching"
  /\ local' \in {local, [local EXCEPT !.state = "running"]}
  /\ resuming' = "no"
  /\ UNCHANGED <<rows, flight, asking, device, crashes>>

(***************************************************************************)
(* POST stop or kill: the newest operation in progress is cancelled unless *)
(* it has committed, when the request is refused.  Else the session is     *)
(* stopped where it is.                                                    *)
(***************************************************************************)
StopTransfer(o) ==
  /\ o \in InProgress
  /\ \A p \in InProgress : p <= o
  /\ phase[o] # "activating"
  /\ SetPhase(o, "cancelled")
  /\ UNCHANGED <<kind, node, bound, owner, local, memory, device, crashes>>

StopLocal ==
  /\ Available /\ owner = Local /\ local.state = "running"
  /\ local' = [local EXCEPT !.state = "stopped"]
  /\ UNCHANGED <<rows, memory, device, crashes>>

-----------------------------------------------------------------------------
(***************************************************************************)
(* assertStoppedForMove: it also refuses while resume() is pending.        *)
(***************************************************************************)
\* Faulty: a pending resume is not looked for.
StoppedInDatabase == owner = Local /\ local.state = "stopped"

StoppedForMove == owner = Local /\ local.state = "stopped" /\ resuming = "no"

(***************************************************************************)
(* POST move: the checks, the awaited health request, the insert.          *)
(***************************************************************************)
MoveAsked(n) ==
  /\ Available
  /\ StoppedForMove
  /\ \E o \in Ops : phase[o] = "absent"
  /\ asking[n] < MaxOps
  /\ asking' = [asking EXCEPT ![n] = @ + 1]
  /\ UNCHANGED <<rows, local, flight, resuming, device, crashes>>

NextOp(o) == phase[o] = "absent" /\ \A p \in Ops : p < o => phase[p] # "absent"

MoveInserted(o, n) ==
  /\ asking[n] > 0
  /\ asking' = [asking EXCEPT ![n] = @ - 1]
  /\ \/ UNCHANGED rows      \* the device is unreachable
     \/ /\ NextOp(o)
        /\ SetPhase(o, "queued")
        /\ node' = [node EXCEPT ![o] = n]
        /\ UNCHANGED <<kind, bound, owner>>
  /\ UNCHANGED <<local, flight, resuming, device, crashes>>

(***************************************************************************)
(* queueExecutionLaunch: a new session, fenced from local recovery by its  *)
(* owner from the first.                                                   *)
(***************************************************************************)
LaunchQueued(o, n) ==
  /\ local.state = "none"
  /\ owner = Local
  /\ NextOp(o)
  /\ SetPhase(o, "queued")
  /\ kind' = [kind EXCEPT ![o] = "launch"]
  /\ node' = [node EXCEPT ![o] = n]
  /\ owner' = n
  /\ UNCHANGED <<bound, local, memory, device, crashes>>

(***************************************************************************)
(* POST retry; an operation that is activating is only run again.          *)
(***************************************************************************)
Retry(o) ==
  /\ phase[o] = "failed"
  /\ SetPhase(o, "queued")
  /\ UNCHANGED <<kind, node, bound, owner, local, memory, device, crashes>>

-----------------------------------------------------------------------------
(***************************************************************************)
(* performOperation, one step from one request to the next.  An error ends *)
(* the flight: what has not committed fails, what has committed goes on    *)
(* being "activating".                                                     *)
(***************************************************************************)
\* Faulty: the flight stays in the map.
FailsAndStays(o) ==
  /\ FlightGoes(o, "stuck")
  /\ IF phase[o] \in Unfinished THEN SetPhase(o, "failed") ELSE UNCHANGED phase

\* Faulty: every error is a failure.
FailsAlways(o) ==
  /\ FlightGoes(o, "off")
  /\ IF MayUpdate(o) THEN SetPhase(o, "failed") ELSE UNCHANGED phase

Fails(o) ==
  /\ FlightGoes(o, "off")
  /\ IF phase[o] \in Unfinished THEN SetPhase(o, "failed") ELSE UNCHANGED phase

KeepBut == UNCHANGED <<kind, node, local, asking, resuming, crashes>>
Keep == KeepBut /\ UNCHANGED <<bound, owner>>

FlightStarts(o) ==
  /\ flight[o] = "off"
  /\ \/ phase[o] \in Unfinished /\ FlightGoes(o, "locking")
     \/ phase[o] = "activating" /\ FlightGoes(o, "retry")
  /\ UNCHANGED <<phase, device>> /\ Keep

LockTried(o) ==
  /\ flight[o] = "locking"
  /\ IF LockFree THEN FlightGoes(o, "locked") /\ UNCHANGED phase ELSE Fails(o)
  /\ UNCHANGED device /\ Keep

(***************************************************************************)
(* A move names the checkout it was made for the first time, and refuses   *)
(* any other from then on.                                                 *)
(***************************************************************************)
\* Faulty: an operation that was bound before is not compared.
SourceNotCompared(o) == TRUE

SourceUnchanged(o) == bound[o] = local.tree

MoveBegins(o) ==
  /\ flight[o] = "locked" /\ kind[o] = "move"
  /\ IF StoppedForMove /\ (bound[o] # 0 => SourceUnchanged(o)) /\ MayUpdate(o)
     THEN /\ SetPhase(o, "copying")
          /\ bound' = [bound EXCEPT ![o] = IF @ = 0 THEN local.tree ELSE @]
          /\ FlightGoes(o, "status")
     ELSE Fails(o) /\ UNCHANGED bound
  /\ UNCHANGED <<owner, device>> /\ KeepBut

LaunchBegins(o) ==
  /\ flight[o] = "locked" /\ kind[o] = "launch"
  /\ IF MayUpdate(o) THEN SetPhase(o, "copying") /\ FlightGoes(o, "status") ELSE Fails(o)
  /\ UNCHANGED device /\ Keep

StatusAnswered(o) ==
  /\ flight[o] = "status"
  /\ CASE import[o].phase = "absent" -> FlightGoes(o, "prepare") /\ UNCHANGED phase
       [] import[o].phase = "active" -> Fails(o)
       [] import[o].phase = "receiving" -> FlightGoes(o, "upload") /\ UNCHANGED phase
       [] OTHER -> FlightGoes(o, "ready") /\ UNCHANGED phase
  /\ UNCHANGED device /\ Keep

(***************************************************************************)
(* prepareWorkerImport refuses a session it has or a checkout that exists. *)
(***************************************************************************)
RoomFor(o) ==
  /\ copy[node[o]].state = "none"
  /\ \A p \in Ops :
       node[p] = node[o] => import[p].phase \in {"absent", "receiving"}

Prepared(o) ==
  /\ flight[o] = "prepare"
  /\ IF RoomFor(o)
     THEN /\ import' = [import EXCEPT ![o].phase = "receiving"]
          /\ \/ FlightGoes(o, "upload") /\ UNCHANGED phase
             \/ Fails(o)      \* the answer is lost
     ELSE Fails(o) /\ UNCHANGED import
  /\ UNCHANGED <<copy, transcript, work, launches>> /\ Keep

(***************************************************************************)
(* The conversation is sent whenever the device is still receiving.        *)
(***************************************************************************)
Uploaded(o) ==
  /\ flight[o] = "upload"
  /\ import' = [import EXCEPT ![o].native = IF kind[o] = "move" THEN local.turns ELSE 0]
  /\ \/ FlightGoes(o, "uploaded") /\ UNCHANGED phase
     \/ Fails(o)
  /\ UNCHANGED <<copy, transcript, work, launches>> /\ Keep

(***************************************************************************)
(* After uploading, the source is checked once more.                       *)
(***************************************************************************)
Importing(o) ==
  /\ flight[o] \in {"uploaded", "ready"}
  /\ IF /\ MayUpdate(o)
        /\ kind[o] = "move" /\ flight[o] = "uploaded"
             => StoppedForMove /\ SourceUnchanged(o)
     THEN SetPhase(o, "importing") /\ FlightGoes(o, "finalize")
     ELSE Fails(o)
  /\ UNCHANGED device /\ Keep

(***************************************************************************)
(* The answer to finalize, then the transaction that hands over.           *)
(***************************************************************************)
Committed(o) ==
  /\ flight[o] = "finalizing"
  /\ work[o] = "off" /\ import[o].phase = "imported"
  /\ IF MayUpdate(o)
     THEN /\ owner' = node[o]
          /\ SetPhase(o, "activating")
          /\ FlightGoes(o, "activate")
     ELSE Fails(o) /\ UNCHANGED owner
  /\ UNCHANGED <<bound, device>> /\ KeepBut

Completed(o) ==
  /\ flight[o] \in {"activating", "retrying"}
  /\ work[o] = "off" /\ import[o].phase = "active"
  /\ SetPhase(o, "complete")
  /\ FlightGoes(o, "off")
  /\ UNCHANGED device /\ Keep

(***************************************************************************)
(* A request or its answer is lost, or the device answers with an error.   *)
(***************************************************************************)
Awaiting == {"status", "prepare", "upload", "finalize", "finalizing",
             "activate", "activating", "retry", "retrying"}

RequestFails(o) ==
  /\ flight[o] \in Awaiting
  /\ Fails(o)
  /\ UNCHANGED device /\ Keep

-----------------------------------------------------------------------------
(***************************************************************************)
(* The device (execution_worker.js).  A finalization or an activation runs *)
(* on when its request is gone, and a repeated request joins it.           *)
(***************************************************************************)
Controller == <<rows, local, asking, resuming, crashes>>

FinalizeArrives(o) ==
  /\ flight[o] = "finalize"
  /\ FlightGoes(o, "finalizing")
  /\ \/ /\ work[o] = "off" /\ import[o].phase \in {"receiving", "unpacking"}
        /\ work' = [work EXCEPT ![o] = "unpacking"]
        /\ import' = [import EXCEPT ![o].phase = "unpacking"]
     \/ /\ work[o] = "off" /\ import[o].phase = "files-ready"
        /\ work' = [work EXCEPT ![o] = "importing"]
        /\ UNCHANGED import
     \/ /\ work[o] # "off" \/ import[o].phase = "imported"
        /\ UNCHANGED <<work, import>>
  /\ UNCHANGED <<Controller, copy, transcript, launches>>

(***************************************************************************)
(* The conversation is placed under the name of its UUID, where another    *)
(* version of it is not overwritten (copyIdentical).                       *)
(***************************************************************************)
Unpacked(o) ==
  /\ work[o] = "unpacking"
  /\ transcript[node[o]] \in {0, import[o].native}
  /\ transcript' = [transcript EXCEPT ![node[o]] = import[o].native]
  /\ import' = [import EXCEPT ![o].phase = "files-ready"]
  /\ work' = [work EXCEPT ![o] = "importing"]
  /\ UNCHANGED <<Controller, flight, copy, launches>>

FinalizeFails(o) ==
  /\ work[o] \in {"unpacking", "importing", "recording"}
  /\ work' = [work EXCEPT ![o] = "off"]
  /\ UNCHANGED <<Controller, flight, import, copy, transcript, launches>>

(***************************************************************************)
(* importExecutionState: a new dormant row, or the one this operation made *)
(* before; any other is a conflict.                                        *)
(***************************************************************************)
\* Faulty: a dormant row of another operation will do.
ImportableAnyDormant(o) ==
  copy[node[o]].state = "none" \/ copy[node[o]].dormant

Importable(o) ==
  \/ copy[node[o]].state = "none"
  \/ copy[node[o]].by = o /\ copy[node[o]].dormant

\* Faulty: the row is not fenced.
StateImportedAwake(o) ==
  /\ work[o] = "importing"
  /\ Importable(o)
  /\ copy' = [copy EXCEPT ![node[o]] =
                IF @.state = "none"
                THEN [state |-> "staged", by |-> o, dormant |-> FALSE] ELSE @]
  /\ work' = [work EXCEPT ![o] = "recording"]
  /\ UNCHANGED <<Controller, flight, import, transcript, launches>>

StateImported(o) ==
  /\ work[o] = "importing"
  /\ Importable(o)
  /\ copy' = [copy EXCEPT ![node[o]] =
                IF @.state = "none"
                THEN [state |-> "staged", by |-> o, dormant |-> TRUE] ELSE @]
  /\ work' = [work EXCEPT ![o] = "recording"]
  /\ UNCHANGED <<Controller, flight, import, transcript, launches>>

Recorded(o) ==
  /\ work[o] = "recording"
  /\ import' = [import EXCEPT ![o].phase = "imported"]
  /\ work' = [work EXCEPT ![o] = "off"]
  /\ UNCHANGED <<Controller, flight, copy, transcript, launches>>

(***************************************************************************)
(* activateImport; not more than two launches overlap (a bound).           *)
(***************************************************************************)
ActivateArrives(o) ==
  /\ flight[o] \in {"activate", "retry"}
  /\ FlightGoes(o, IF flight[o] = "retry" THEN "retrying" ELSE "activating")
  /\ import[o].phase \in {"imported", "active"}
  /\ launches[node[o]] < 2
  /\ copy' = [copy EXCEPT ![node[o]].dormant = FALSE]
  /\ work' = [work EXCEPT ![o] = "marking"]
  /\ UNCHANGED <<Controller, import, transcript, launches>>

Marked(o) ==
  /\ work[o] = "marking"
  /\ import' = [import EXCEPT ![o].phase = "active"]
  /\ work' = [work EXCEPT ![o] = "off"]
  /\ IF kind[o] = "launch" /\ copy[node[o]].state \in {"staged", "starting"}
     THEN /\ copy' = [copy EXCEPT ![node[o]].state = "starting"]
          /\ launches' = [launches EXCEPT ![node[o]] = @ + 1]
     ELSE UNCHANGED <<copy, launches>>
  /\ UNCHANGED <<Controller, flight, transcript>>

(***************************************************************************)
(* completeLaunch: status_reason is 'execution-staged' until it is done.   *)
(* One that finds the session not starting gives up and kills its pane.    *)
(***************************************************************************)
LaunchDone(n) ==
  /\ launches[n] > 0
  /\ launches' = [launches EXCEPT ![n] = @ - 1]
  /\ \E s \in {"running", "paused"} :
       /\ s = "running" => copy[n].state = "starting"
       /\ copy' = [copy EXCEPT ![n].state = s]
  /\ UNCHANGED <<Controller, flight, import, transcript, work>>

(***************************************************************************)
(* Resume and stop of a session of the device, proxied to it.              *)
(***************************************************************************)
RemoteResume(n) ==
  /\ Available /\ owner = n
  /\ copy[n].state \in {"staged", "paused"}
  /\ copy' = [copy EXCEPT ![n].state = "running"]
  /\ UNCHANGED <<Controller, flight, import, transcript, work, launches>>

RemoteStop(n) ==
  /\ Available /\ owner = n
  /\ copy[n].state \in {"starting", "running"}
  /\ copy' = [copy EXCEPT ![n].state = "paused"]
  /\ UNCHANGED <<Controller, flight, import, transcript, work, launches>>

-----------------------------------------------------------------------------
(***************************************************************************)
(* The controller dies: its locks with it, not the agents.  A device dies; *)
(* on its way up it gives up on a session that was starting.               *)
(***************************************************************************)
ControllerCrash ==
  /\ crashes < MaxCrashes
  /\ crashes' = crashes + 1
  /\ flight' = [o \in Ops |-> "off"]
  /\ asking' = [n \in Nodes |-> 0]
  /\ resuming' = "no"
  /\ \/ UNCHANGED local
     \/ resuming = "relaunching" /\ local' = [local EXCEPT !.state = "running"]
  /\ UNCHANGED <<rows, device>>

DeviceCrash(n) ==
  /\ crashes < MaxCrashes
  /\ crashes' = crashes + 1
  /\ work' = [o \in Ops |-> IF node[o] = n THEN "off" ELSE work[o]]
  /\ launches' = [launches EXCEPT ![n] = 0]
  /\ copy' = [copy EXCEPT ![n].state = IF @ = "starting" THEN "paused" ELSE @]
  /\ UNCHANGED <<rows, local, memory, import, transcript>>

-----------------------------------------------------------------------------
Session ==
  \/ Turn \/ ResumeAsked \/ ResumeLocks \/ ResumeEnds \/ StopLocal
  \/ \E n \in Nodes : MoveAsked(n) \/ RemoteResume(n) \/ RemoteStop(n)

Flight(o) ==
  \/ FlightStarts(o) \/ LockTried(o) \/ MoveBegins(o) \/ LaunchBegins(o)
  \/ StatusAnswered(o) \/ Prepared(o) \/ Uploaded(o) \/ Importing(o)
  \/ Committed(o) \/ Completed(o) \/ RequestFails(o)

Device(o) ==
  \/ FinalizeArrives(o) \/ Unpacked(o) \/ FinalizeFails(o)
  \/ StateImported(o) \/ Recorded(o) \/ ActivateArrives(o) \/ Marked(o)

Next ==
  \/ Session
  \/ \E o \in Ops :
       \/ \E n \in Nodes : MoveInserted(o, n) \/ LaunchQueued(o, n)
       \/ StopTransfer(o) \/ Retry(o) \/ Flight(o) \/ Device(o)
  \/ \E n \in Nodes : LaunchDone(n) \/ DeviceCrash(n)
  \/ ControllerCrash

Spec == Init /\ [][Next]_vars

(***************************************************************************)
(* The controller polls every 5 s and each of its requests is answered or  *)
(* times out; a device works on what it received.  For the activation the  *)
(* device must be reachable, and in time with its answer, again and again. *)
(* Crashes are finitely many.                                              *)
(***************************************************************************)
Fairness ==
  /\ \A o \in Ops :
       /\ WF_vars(Flight(o))
       /\ WF_vars(Unpacked(o) \/ FinalizeFails(o) \/ StateImported(o)
                    \/ Recorded(o) \/ Marked(o))
       /\ SF_vars(ActivateArrives(o))
       /\ SF_vars(flight[o] \in {"activating", "retrying"} /\ Marked(o))
       /\ SF_vars(Completed(o))
  /\ \A n \in Nodes : WF_vars(LaunchDone(n))

FairSpec == Spec /\ Fairness

-----------------------------------------------------------------------------
(***************************************************************************)
(* Every variable has its type.                                            *)
(***************************************************************************)
FlightStates == Unlocked \cup Awaiting \cup {"locked", "uploaded", "ready"}
ImportPhases == {"absent", "receiving", "unpacking", "files-ready", "imported", "active"}
CopyStates == {"none", "staged", "starting", "running", "paused"}
WorkStates == {"off", "unpacking", "importing", "recording", "marking"}

TypeOK ==
  /\ phase \in [Ops -> OpPhases]
  /\ kind \in [Ops -> {"move", "launch"}]
  /\ node \in [Ops -> Nodes \cup {Local}]
  /\ bound \in [Ops -> Nat]
  /\ owner \in Nodes \cup {Local}
  /\ local \in [state : {"none", "stopped", "running"}, turns : Nat, tree : Nat]
  /\ flight \in [Ops -> FlightStates]
  /\ asking \in [Nodes -> Nat]
  /\ resuming \in {"no", "asked", "relaunching"}
  /\ import \in [Ops -> [phase : ImportPhases, native : Nat]]
  /\ copy \in [Nodes -> [state : CopyStates, by : Ops \cup {0}, dormant : BOOLEAN]]
  /\ transcript \in [Nodes -> Nat]
  /\ work \in [Ops -> WorkStates]
  /\ launches \in [Nodes -> 0 .. 2]
  /\ crashes \in 0 .. MaxCrashes

(***************************************************************************)
(* "Commit central ownership only after import succeeds" (execution-       *)
(* devices.md): who owns the session has its row and, of a move, its       *)
(* conversation, made by the operation that handed it over.                *)
(***************************************************************************)
HandedOverBy(o) == phase[o] \in {"activating", "complete"}

OwnerHasImport ==
  \A o \in Ops :
    HandedOverBy(o) =>
      /\ owner = node[o]
      /\ copy[owner].state # "none" /\ copy[owner].by = o
      /\ transcript[owner] = import[o].native

(***************************************************************************)
(* A session that has not been handed over by an operation is not awake on *)
(* a device: a cancelled, failed or unfinished transfer leaves it dormant, *)
(* "only the destination owner may activate" (execution-devices.md).       *)
(***************************************************************************)
AwakeOnlyAfterCommit ==
  \A n \in Nodes :
    copy[n].state # "none" /\ ~copy[n].dormant => HandedOverBy(copy[n].by)

(***************************************************************************)
(* No file is left behind: the checkout a move has handed over is the last *)
(* one the session worked on here, whatever failed, was retried, resumed   *)
(* and changed in between (the evidence compared at execution_nodes.js).   *)
(***************************************************************************)
CheckoutIsCurrent ==
  \A o \in Ops :
    HandedOverBy(o) /\ kind[o] = "move" => bound[o] = local.tree

(***************************************************************************)
(* "Stop always wins before ownership commits" (execution_nodes.js): a     *)
(* cancelled operation stays so, whatever its flight was doing.            *)
(***************************************************************************)
StopIsFinal ==
  [][\A o \in Ops : phase[o] = "cancelled" => phase'[o] = "cancelled"]_vars

(***************************************************************************)
(* One owner, one live copy, handed over once while nothing runs.          *)
(***************************************************************************)
LiveAt ==
  {p \in Nodes \cup {Local} :
     IF p = Local THEN local.state = "running" ELSE copy[p].state \in {"starting", "running"}}

Ownership == INSTANCE SessionOwnership WITH live <- LiveAt

ImplementsSessionOwnership == Ownership!SOSpec

(***************************************************************************)
(* The inductive invariant behind the safety properties.                   *)
(***************************************************************************)
Transferring == {"status", "prepare", "upload", "uploaded", "ready", "finalize", "finalizing"}
Activating == {"activate", "activating", "retry", "retrying"}

\* An operation that does not exist yet has left no trace.
AbsentIsBlank ==
  \A o \in Ops :
    IF phase[o] = "absent"
    THEN /\ flight[o] = "off" /\ work[o] = "off" /\ kind[o] = "move"
         /\ import[o] = [phase |-> "absent", native |-> 0]
    ELSE node[o] \in Nodes

\* A flight and the phase of its operation agree.
FlightFollowsPhase ==
  \A o \in Ops :
    /\ flight[o] \in {"locking", "locked"} \cup Transferring
         => phase[o] \in Unfinished \cup {"cancelled"}
    /\ flight[o] \in Activating => phase[o] = "activating"

\* The archive lock has one holder.
LockIsExclusive ==
  \A o \in Ops :
    flight[o] \notin Unlocked =>
      /\ resuming # "relaunching"
      /\ \A p \in Ops : flight[p] \notin Unlocked => p = o

\* The source of a move stands still from its check under the lock on, and
\* only the cancelling of the move lets a resume wait for it.
SourceStandsStill ==
  \A o \in Ops :
    flight[o] \in Transferring /\ kind[o] = "move" =>
      /\ owner = Local /\ local.state = "stopped"
      /\ bound[o] = local.tree
      /\ phase[o] # "cancelled" => resuming = "no"

\* Whatever runs, runs where the owner is.
RunsAtOwner ==
  /\ resuming # "no" => owner = Local /\ local.state = "stopped"
  /\ local.state = "running" => owner = Local
  /\ \A n \in Nodes : copy[n].state \in {"starting", "running"} => owner = n
  /\ local.turns > 0

\* A session that is launched elsewhere is moved by nobody.
LaunchIsAlone ==
  /\ \A o \in Ops :
       kind[o] = "launch" =>
         /\ owner = node[o] /\ local.state = "none"
         /\ \A p \in Ops : kind[p] = "launch" => p = o
  /\ local.state = "none" =>
       /\ \A n \in Nodes : asking[n] = 0
       /\ \A o \in Ops : phase[o] # "absent" => kind[o] = "launch"

\* A flight and the record of its operation on the device agree.
RecordFollowsFlight ==
  \A o \in Ops :
    LET received == import[o].phase IN
      /\ flight[o] = "prepare" => received = "absent"
      /\ flight[o] \in {"upload", "uploaded"} => received = "receiving"
      /\ flight[o] = "ready" => received \in {"unpacking", "files-ready", "imported"}
      /\ flight[o] \in {"finalize", "finalizing"} =>
           received \in {"receiving", "unpacking", "files-ready", "imported"}
      /\ HandedOverBy(o) => received \in {"imported", "active"} /\ owner = node[o]
      /\ work[o] = "unpacking" => received = "unpacking"
      /\ work[o] \in {"importing", "recording"} => received = "files-ready"
      /\ work[o] = "marking" =>
           /\ HandedOverBy(o)
           /\ kind[o] = "launch" => launches[node[o]] # 2

\* What was received is what was sent, and what was placed is what was received.
RecordTellsTheFiles ==
  \A o \in Ops :
    LET received == import[o].phase IN
      /\ kind[o] = "launch" => import[o].native = 0
      /\ \/ received \notin {"absent", "receiving"}
         \/ flight[o] \in {"uploaded", "finalize", "finalizing"}
         => (kind[o] = "move" => import[o].native > 0)
      /\ received \in {"files-ready", "imported", "active"}
           => transcript[node[o]] = import[o].native
      /\ received \in {"imported", "active"} \/ work[o] = "recording"
           => copy[node[o]].state # "none" /\ copy[node[o]].by = o

\* A row on a device was made by an operation, and is launched if there is one.
RowsAreMade ==
  \A n \in Nodes :
    /\ copy[n].state # "none" => copy[n].by \in Ops
    /\ launches[n] # 0 => copy[n].state # "none"

HandoffInv ==
  /\ TypeOK
  /\ AbsentIsBlank
  /\ FlightFollowsPhase
  /\ LockIsExclusive
  /\ SourceStandsStill
  /\ RunsAtOwner
  /\ LaunchIsAlone
  /\ RecordFollowsFlight
  /\ RecordTellsTheFiles
  /\ RowsAreMade
  /\ AwakeOnlyAfterCommit
  /\ CheckoutIsCurrent

(***************************************************************************)
(* A transfer ends: it commits, fails or is cancelled.                     *)
(***************************************************************************)
TransferEnds == \A o \in Ops : phase[o] \in Unfinished ~> phase[o] \notin Unfinished

(***************************************************************************)
(* What was handed over becomes usable: through lost answers and crashes   *)
(* on either side, the same operation is driven to its activation.         *)
(***************************************************************************)
CommittedCompletes == \A o \in Ops : phase[o] = "activating" ~> phase[o] = "complete"

(***************************************************************************)
(* "A crash before it keeps the source authoritative" (execution_nodes.js, *)
(* above the transaction): what is handed over is the conversation as the  *)
(* source has it.  The code does not keep this.                            *)
(***************************************************************************)
ConversationIsCurrent ==
  \A o \in Ops :
    HandedOverBy(o) /\ kind[o] = "move" => import[o].native = local.turns

(***************************************************************************)
(* "duplicate activation is idempotent" (execution_devices.test.js): a     *)
(* repeated activation does not launch again.  The code does not keep it.  *)
(***************************************************************************)
LaunchedOnce == \A n \in Nodes : launches[n] <= 1

=============================================================================
