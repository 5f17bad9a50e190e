------------------------ MODULE ExecutionHandoffProofs ------------------------
(***************************************************************************)
(* What holds of ExecutionHandoff for any number of devices, operations,   *)
(* turns and crashes.  First the lemmas: every step keeps the inductive    *)
(* invariant, one lemma for the moves of a flight before the commit, one   *)
(* for each other action.  Then what follows from it.                      *)
(***************************************************************************)
EXTENDS ExecutionHandoff, TLAPS

USE HandoffAssumption
USE DEF Unfinished, Ended, OpPhases, Unlocked, Awaiting, Transferring, Activating, FlightStates

(***************************************************************************)
(* Where a flight with checkout b may be, once its operation is in phase p *)
(* and the device's record of it is r.                                     *)
(***************************************************************************)
Undecided == Unfinished \cup {"cancelled"}

MayBeAt(o, pc, p, b, r) ==
  /\ pc \in {"locking", "locked"} \cup Transferring
  /\ p \in Undecided
  /\ pc # "locking" => flight[o] \notin Unlocked \/ LockFree
  /\ pc \in Transferring /\ kind[o] = "move" =>
       /\ owner = Local /\ local.state = "stopped" /\ b = local.tree
       /\ p # "cancelled" => resuming = "no"
  /\ pc = "prepare" => r.phase = "absent"
  /\ pc \in {"upload", "uploaded"} => r.phase = "receiving"
  /\ pc = "ready" => r.phase \in {"unpacking", "files-ready", "imported"}
  /\ pc \in {"finalize", "finalizing"} =>
       r.phase \in {"receiving", "unpacking", "files-ready", "imported"}
  /\ pc \in {"uploaded", "finalize", "finalizing"} => (kind[o] = "move" => r.native > 0)

(***************************************************************************)
(* A step of a flight before the commit: of its operation's row, of its    *)
(* place, and of the record while the device is receiving.                 *)
(***************************************************************************)
FlightMoves(o, p, pc, b, r) ==
  /\ phase' = [phase EXCEPT ![o] = p]
  /\ flight' = [flight EXCEPT ![o] = pc]
  /\ bound' = [bound EXCEPT ![o] = b]
  /\ import' = [import EXCEPT ![o] = r]
  /\ UNCHANGED <<kind, node, owner, local, asking, resuming, copy, transcript,
                 work, launches, crashes>>

Receives(o, r) ==
  \/ r = import[o]
  \/ /\ import[o].phase \in {"absent", "receiving"}
     /\ r.phase = "receiving"
     /\ kind[o] = "launch" => r.native = 0

LEMMA BeforeCommit ==
  ASSUME HandoffInv, NEW o \in Ops,
         NEW p \in Undecided \cup {"failed"}, NEW pc \in FlightStates, NEW b \in Nat,
         NEW r \in [phase : ImportPhases, native : Nat],
         phase[o] \in Undecided, Receives(o, r), FlightMoves(o, p, pc, b, r),
         pc = "off" \/ MayBeAt(o, pc, p, b, r)
  PROVE  HandoffInv'
<1> USE DEF Undecided
<1>1. /\ \A q \in Ops : q # o => /\ phase'[q] = phase[q] /\ flight'[q] = flight[q]
                                 /\ bound'[q] = bound[q] /\ import'[q] = import[q]
      /\ phase'[o] = p /\ flight'[o] = pc /\ bound'[o] = b /\ import'[o] = r
  BY DEF HandoffInv, TypeOK, FlightMoves
<1>2. UNCHANGED <<kind, node, owner, local, asking, resuming, copy, transcript,
                  work, launches, crashes>>
  BY DEF FlightMoves
<1>3. \A q \in Ops : HandedOverBy(q)' <=> HandedOverBy(q)
  BY <1>1 DEF HandedOverBy
<1>4. import[o].phase \in {"absent", "receiving"} => work[o] = "off"
  BY DEF HandoffInv, RecordFollowsFlight, TypeOK, WorkStates
<1>5. TypeOK'
  BY <1>2 DEF HandoffInv, TypeOK, FlightMoves
<1>6. AbsentIsBlank'
  BY <1>1, <1>2 DEF HandoffInv, AbsentIsBlank
<1>7. FlightFollowsPhase'
  BY <1>1 DEF HandoffInv, FlightFollowsPhase, MayBeAt
<1>8. LockIsExclusive'
  <2>1. CASE pc \in Unlocked
    BY <1>1, <1>2, <2>1 DEF HandoffInv, LockIsExclusive
  <2>2. CASE pc \notin Unlocked /\ flight[o] \notin Unlocked
    BY <1>1, <1>2, <2>2 DEF HandoffInv, LockIsExclusive
  <2>3. CASE pc \notin Unlocked /\ LockFree
    BY <1>1, <1>2, <2>3 DEF LockIsExclusive, LockFree
  <2> QED BY <2>1, <2>2, <2>3 DEF MayBeAt
<1>9. SourceStandsStill'
  BY <1>1, <1>2 DEF HandoffInv, SourceStandsStill, MayBeAt
<1>10. RunsAtOwner'
  BY <1>2 DEF HandoffInv, RunsAtOwner
<1>11. LaunchIsAlone'
  BY <1>1, <1>2 DEF HandoffInv, LaunchIsAlone
<1>12. RecordFollowsFlight'
  BY <1>1, <1>2, <1>3, <1>4 DEF HandoffInv, RecordFollowsFlight, Receives, MayBeAt, HandedOverBy
<1>13. RecordTellsTheFiles'
  BY <1>1, <1>2, <1>4 DEF HandoffInv, RecordTellsTheFiles, Receives, MayBeAt
<1>14. RowsAreMade'
  BY <1>2 DEF HandoffInv, RowsAreMade
<1>15. AwakeOnlyAfterCommit'
  BY <1>2, <1>3 DEF HandoffInv, AwakeOnlyAfterCommit, RowsAreMade
<1>16. CheckoutIsCurrent'
  BY <1>1, <1>2, <1>3 DEF HandoffInv, CheckoutIsCurrent, HandedOverBy
<1> QED BY <1>5, <1>6, <1>7, <1>8, <1>9, <1>10, <1>11, <1>12, <1>13, <1>14, <1>15, <1>16
        DEF HandoffInv

(***************************************************************************)
(* An error before the commit, whatever reached the device.                *)
(***************************************************************************)
LEMMA FailsKeeps ==
  ASSUME HandoffInv, NEW o \in Ops, NEW r \in [phase : ImportPhases, native : Nat],
         phase[o] \in Undecided, Fails(o), Receives(o, r), import' = [import EXCEPT ![o] = r],
         UNCHANGED <<bound, owner, copy, transcript, work, launches>>, KeepBut
  PROVE  HandoffInv'
<1> DEFINE p == IF phase[o] \in Unfinished THEN "failed" ELSE phase[o]
<1>1. p \in Undecided \cup {"failed"}
  BY DEF Undecided
<1>2. bound[o] \in Nat
  BY DEF HandoffInv, TypeOK
<1>3. FlightMoves(o, p, "off", bound[o], r)
  BY DEF HandoffInv, TypeOK, Fails, SetPhase, FlightGoes, KeepBut, FlightMoves
<1> QED BY <1>1, <1>2, <1>3, BeforeCommit

(***************************************************************************)
(* The record as it is: nothing is received.                               *)
(***************************************************************************)
LEMMA NothingReceived ==
  ASSUME TypeOK, NEW o \in Ops
  PROVE  /\ import[o] \in [phase : ImportPhases, native : Nat]
         /\ Receives(o, import[o])
         /\ bound[o] \in Nat
         /\ UNCHANGED import => import' = [import EXCEPT ![o] = import[o]]
         /\ UNCHANGED bound => bound' = [bound EXCEPT ![o] = bound[o]]
         /\ UNCHANGED phase => phase' = [phase EXCEPT ![o] = phase[o]]
  BY DEF TypeOK, Receives

(***************************************************************************)
(* The flight, request by request.                                         *)
(***************************************************************************)
LEMMA FlightStartsKeeps ==
  ASSUME HandoffInv, NEW o \in Ops, FlightStarts(o), phase[o] \in Unfinished
  PROVE  HandoffInv'
<1>1. FlightMoves(o, phase[o], "locking", bound[o], import[o])
  BY NothingReceived DEF HandoffInv, FlightStarts, FlightGoes, Keep, KeepBut, device, FlightMoves
<1>2. MayBeAt(o, "locking", phase[o], bound[o], import[o])
  BY DEF MayBeAt, Undecided
<1> QED BY <1>1, <1>2, BeforeCommit, NothingReceived DEF HandoffInv, Undecided

LEMMA LockTriedKeeps ==
  ASSUME HandoffInv, NEW o \in Ops, LockTried(o)
  PROVE  HandoffInv'
<1>1. phase[o] \in Undecided /\ flight[o] = "locking"
  BY DEF HandoffInv, FlightFollowsPhase, LockTried, Undecided
<1>2. CASE LockFree
  <2>1. FlightMoves(o, phase[o], "locked", bound[o], import[o])
    BY <1>2, NothingReceived DEF HandoffInv, LockTried, FlightGoes, Keep, KeepBut, device,
       FlightMoves
  <2>2. MayBeAt(o, "locked", phase[o], bound[o], import[o])
    BY <1>1, <1>2 DEF MayBeAt
  <2> QED BY <1>1, <2>1, <2>2, BeforeCommit, NothingReceived DEF HandoffInv
<1>3. CASE ~LockFree
  BY <1>1, <1>3, FailsKeeps, NothingReceived DEF HandoffInv, LockTried, Keep, device
<1> QED BY <1>2, <1>3

LEMMA MoveBeginsKeeps ==
  ASSUME HandoffInv, NEW o \in Ops, MoveBegins(o)
  PROVE  HandoffInv'
<1>1. phase[o] \in Undecided /\ flight[o] = "locked"
  BY DEF HandoffInv, FlightFollowsPhase, MoveBegins, Undecided
<1>2. CASE StoppedForMove /\ (bound[o] # 0 => SourceUnchanged(o)) /\ MayUpdate(o)
  <2>1. local.tree \in Nat
    BY DEF HandoffInv, TypeOK
  <2>2. FlightMoves(o, "copying", "status", local.tree, import[o])
    BY <1>2, NothingReceived DEF HandoffInv, TypeOK, MoveBegins, SourceUnchanged, SetPhase,
       FlightGoes, KeepBut, device, FlightMoves
  <2>3. MayBeAt(o, "status", "copying", local.tree, import[o])
    BY <1>1, <1>2 DEF MayBeAt, StoppedForMove, Undecided
  <2> QED BY <1>1, <2>1, <2>2, <2>3, BeforeCommit, NothingReceived DEF HandoffInv, Undecided
<1>3. CASE ~(StoppedForMove /\ (bound[o] # 0 => SourceUnchanged(o)) /\ MayUpdate(o))
  BY <1>1, <1>3, FailsKeeps, NothingReceived DEF HandoffInv, MoveBegins, device
<1> QED BY <1>2, <1>3

LEMMA LaunchBeginsKeeps ==
  ASSUME HandoffInv, NEW o \in Ops, LaunchBegins(o)
  PROVE  HandoffInv'
<1>1. phase[o] \in Undecided /\ flight[o] = "locked"
  BY DEF HandoffInv, FlightFollowsPhase, LaunchBegins, Undecided
<1>2. CASE MayUpdate(o)
  <2>1. FlightMoves(o, "copying", "status", bound[o], import[o])
    BY <1>2, NothingReceived DEF HandoffInv, LaunchBegins, SetPhase, FlightGoes, Keep, KeepBut,
       device, FlightMoves
  <2>2. MayBeAt(o, "status", "copying", bound[o], import[o])
    BY <1>1 DEF MayBeAt, LaunchBegins, Undecided
  <2> QED BY <1>1, <2>1, <2>2, BeforeCommit, NothingReceived DEF HandoffInv, Undecided
<1>3. CASE ~MayUpdate(o)
  BY <1>1, <1>3, FailsKeeps, NothingReceived DEF HandoffInv, LaunchBegins, Keep, device
<1> QED BY <1>2, <1>3

(***************************************************************************)
(* From the check of the source to the commit the flight holds the lock.   *)
(***************************************************************************)
LEMMA WhileTransferring ==
  ASSUME HandoffInv, NEW o \in Ops, flight[o] \in Transferring
  PROVE  /\ phase[o] \in Undecided
         /\ flight[o] \notin Unlocked
         /\ kind[o] = "move" =>
              /\ owner = Local /\ local.state = "stopped" /\ bound[o] = local.tree
              /\ phase[o] # "cancelled" => resuming = "no"
  BY DEF HandoffInv, FlightFollowsPhase, SourceStandsStill, Undecided

LEMMA StatusAnsweredKeeps ==
  ASSUME HandoffInv, NEW o \in Ops, StatusAnswered(o)
  PROVE  HandoffInv'
<1>1. flight[o] = "status" /\ phase[o] \in Undecided
  BY WhileTransferring DEF StatusAnswered
<1>2. ASSUME NEW pc \in {"prepare", "upload", "ready"}, FlightGoes(o, pc), UNCHANGED phase,
             MayBeAt(o, pc, phase[o], bound[o], import[o])
      PROVE  HandoffInv'
  <2>1. FlightMoves(o, phase[o], pc, bound[o], import[o])
    BY <1>2, NothingReceived DEF HandoffInv, StatusAnswered, FlightGoes, Keep, KeepBut, device,
       FlightMoves
  <2> QED BY <1>1, <1>2, <2>1, BeforeCommit, NothingReceived DEF HandoffInv
<1>3. CASE import[o].phase = "active"
  BY <1>1, <1>3, FailsKeeps, NothingReceived DEF HandoffInv, StatusAnswered, Keep, device
<1>4. CASE import[o].phase = "absent"
  BY <1>1, <1>2, <1>4, WhileTransferring DEF StatusAnswered, MayBeAt
<1>5. CASE import[o].phase = "receiving"
  BY <1>1, <1>2, <1>5, WhileTransferring DEF StatusAnswered, MayBeAt
<1>6. CASE import[o].phase \notin {"absent", "active", "receiving"}
  <2>1. import[o].phase \in {"unpacking", "files-ready", "imported"}
    BY <1>6, NothingReceived DEF HandoffInv, ImportPhases
  <2> QED BY <1>1, <1>2, <1>6, <2>1, WhileTransferring DEF StatusAnswered, MayBeAt
<1> QED BY <1>3, <1>4, <1>5, <1>6

LEMMA PreparedKeeps ==
  ASSUME HandoffInv, NEW o \in Ops, Prepared(o)
  PROVE  HandoffInv'
<1> DEFINE r == [import[o] EXCEPT !.phase = "receiving"]
<1>1. flight[o] = "prepare" /\ phase[o] \in Undecided /\ import[o].phase = "absent"
  BY WhileTransferring DEF Prepared, HandoffInv, RecordFollowsFlight
<1>2. CASE RoomFor(o)
  <2>1. /\ r \in [phase : ImportPhases, native : Nat] /\ r.phase = "receiving"
        /\ Receives(o, r)
    BY <1>1, NothingReceived DEF HandoffInv, RecordTellsTheFiles, ImportPhases, Receives
  <2>2. import' = [import EXCEPT ![o] = r]
    BY <1>2 DEF Prepared, HandoffInv, TypeOK
  <2>3. CASE Fails(o)
    BY <1>1, <2>1, <2>2, <2>3, FailsKeeps DEF Prepared, Keep
  <2>4. CASE FlightGoes(o, "upload") /\ UNCHANGED phase
    <3>1. FlightMoves(o, phase[o], "upload", bound[o], r)
      BY <2>2, <2>4, NothingReceived DEF HandoffInv, Prepared, FlightGoes, Keep, KeepBut,
         FlightMoves
    <3>2. MayBeAt(o, "upload", phase[o], bound[o], r)
      BY <1>1, <2>1, WhileTransferring DEF MayBeAt
    <3> QED BY <1>1, <2>1, <3>1, <3>2, BeforeCommit, NothingReceived DEF HandoffInv
  <2> QED BY <1>2, <2>3, <2>4 DEF Prepared
<1>3. CASE ~RoomFor(o)
  BY <1>1, <1>3, FailsKeeps, NothingReceived DEF HandoffInv, Prepared, Keep
<1> QED BY <1>2, <1>3

LEMMA UploadedKeeps ==
  ASSUME HandoffInv, NEW o \in Ops, Uploaded(o)
  PROVE  HandoffInv'
<1> DEFINE r == [import[o] EXCEPT !.native = IF kind[o] = "move" THEN local.turns ELSE 0]
<1>1. flight[o] = "upload" /\ phase[o] \in Undecided /\ import[o].phase = "receiving"
  BY WhileTransferring DEF Uploaded, HandoffInv, RecordFollowsFlight
<1>2. local.turns \in Nat /\ local.turns > 0
  BY DEF HandoffInv, TypeOK, RunsAtOwner
<1>3. /\ r \in [phase : ImportPhases, native : Nat] /\ r.phase = "receiving"
      /\ kind[o] = "move" => r.native > 0
      /\ Receives(o, r)
  BY <1>1, <1>2, NothingReceived DEF HandoffInv, Receives
<1>4. import' = [import EXCEPT ![o] = r]
  BY DEF Uploaded, HandoffInv, TypeOK
<1>5. CASE Fails(o)
  BY <1>1, <1>3, <1>4, <1>5, FailsKeeps DEF Uploaded, Keep
<1>6. CASE FlightGoes(o, "uploaded") /\ UNCHANGED phase
  <2>1. FlightMoves(o, phase[o], "uploaded", bound[o], r)
    BY <1>4, <1>6, NothingReceived DEF HandoffInv, Uploaded, FlightGoes, Keep, KeepBut,
       FlightMoves
  <2>2. MayBeAt(o, "uploaded", phase[o], bound[o], r)
    BY <1>1, <1>3, WhileTransferring DEF MayBeAt
  <2> QED BY <1>1, <1>3, <2>1, <2>2, BeforeCommit, NothingReceived DEF HandoffInv
<1> QED BY <1>5, <1>6 DEF Uploaded

LEMMA ImportingKeeps ==
  ASSUME HandoffInv, NEW o \in Ops, Importing(o)
  PROVE  HandoffInv'
<1>1. flight[o] \in {"uploaded", "ready"} /\ phase[o] \in Undecided
  BY WhileTransferring DEF Importing
<1>2. CASE Fails(o) /\ UNCHANGED device
  BY <1>1, <1>2, FailsKeeps, NothingReceived DEF HandoffInv, Importing, Keep, device
<1>3. CASE MayUpdate(o) /\ SetPhase(o, "importing") /\ FlightGoes(o, "finalize")
  <2>1. FlightMoves(o, "importing", "finalize", bound[o], import[o])
    BY <1>3, NothingReceived DEF HandoffInv, Importing, SetPhase, FlightGoes, Keep, KeepBut,
       device, FlightMoves
  <2>2. /\ import[o].phase \in {"receiving", "unpacking", "files-ready", "imported"}
        /\ kind[o] = "move" => import[o].native > 0
    BY <1>1 DEF HandoffInv, RecordFollowsFlight, RecordTellsTheFiles
  <2>3. MayBeAt(o, "finalize", "importing", bound[o], import[o])
    BY <1>1, <1>3, <2>2, WhileTransferring DEF MayUpdate, MayBeAt, Undecided
  <2> QED BY <1>1, <2>1, <2>3, BeforeCommit, NothingReceived DEF HandoffInv, Undecided
<1> QED BY <1>2, <1>3 DEF Importing

LEMMA RequestFailsKeeps ==
  ASSUME HandoffInv, NEW o \in Ops, RequestFails(o), flight[o] \in Transferring
  PROVE  HandoffInv'
  BY WhileTransferring, FailsKeeps, NothingReceived DEF HandoffInv, RequestFails, Keep, device

(***************************************************************************)
(* From the commit on.                                                     *)
(***************************************************************************)
LEMMA CommittedKeeps ==
  ASSUME HandoffInv, NEW o \in Ops, Committed(o)
  PROVE  HandoffInv'
<1>1. flight[o] = "finalizing" /\ phase[o] \in Undecided /\ import[o].phase = "imported"
  BY WhileTransferring DEF Committed
<1>2. CASE ~MayUpdate(o)
  BY <1>1, <1>2, FailsKeeps, NothingReceived DEF HandoffInv, Committed, device
<1>3. CASE MayUpdate(o)
  <2>1. phase' = [phase EXCEPT ![o] = "activating"] /\ flight' = [flight EXCEPT ![o] = "activate"]
        /\ owner' = node[o]
        /\ UNCHANGED <<kind, node, bound, local, asking, resuming, import, copy, transcript,
                       work, launches, crashes>>
    BY <1>3 DEF Committed, SetPhase, FlightGoes, KeepBut, device
  <2>2. /\ \A q \in Ops : q # o => phase'[q] = phase[q] /\ flight'[q] = flight[q]
        /\ phase'[o] = "activating" /\ flight'[o] = "activate"
    BY <2>1 DEF HandoffInv, TypeOK
  <2>3. node[o] \in Nodes
    BY <1>1 DEF HandoffInv, AbsentIsBlank, Undecided
  \* Nobody else's transfer is under way, and nothing waits to resume.
  <2>4. \A q \in Ops : flight[q] \notin Unlocked => q = o
    BY <1>1 DEF HandoffInv, LockIsExclusive
  <2>5. kind[o] \in {"move", "launch"}
    BY DEF HandoffInv, TypeOK
  <2>6. resuming = "no" /\ local.state # "running" /\ (owner = Local \/ owner = node[o])
        /\ \A n \in Nodes : copy[n].state \in {"starting", "running"} => n = node[o]
    <3>1. CASE kind[o] = "move"
      BY <1>1, <1>3, <3>1, WhileTransferring DEF MayUpdate, HandoffInv, RunsAtOwner
    <3>2. CASE kind[o] = "launch"
      BY <2>3, <3>2 DEF HandoffInv, LaunchIsAlone, RunsAtOwner
    <3> QED BY <2>5, <3>1, <3>2
  <2>7. \A q \in Ops : kind[q] = "launch" => owner = node[q] /\ node[q] \in Nodes
    BY DEF HandoffInv, LaunchIsAlone, AbsentIsBlank
  <2>8. \A q \in Ops : HandedOverBy(q) => owner = node[q] /\ node[q] \in Nodes
    BY DEF HandoffInv, RecordFollowsFlight, AbsentIsBlank, HandedOverBy
  <2>9. TypeOK'
    BY <2>1, <2>3 DEF HandoffInv, TypeOK
  <2>10. AbsentIsBlank'
    BY <1>1, <2>1, <2>2 DEF HandoffInv, AbsentIsBlank, Undecided
  <2>11. FlightFollowsPhase'
    BY <2>2 DEF HandoffInv, FlightFollowsPhase
  <2>12. LockIsExclusive'
    BY <2>2, <2>4, <2>6, <2>1 DEF LockIsExclusive
  <2>13. SourceStandsStill'
    BY <2>2, <2>4 DEF SourceStandsStill
  <2>14. RunsAtOwner'
    BY <2>1, <2>6 DEF HandoffInv, RunsAtOwner
  <2>15. LaunchIsAlone'
    <3>1. \A q \in Ops : kind[q] = "launch" => owner' = node[q]
      BY <2>1, <2>6, <2>7
    <3>2. kind[o] = "move" => local.state # "none"
      BY <1>1, WhileTransferring
    <3>3. local.state = "none" => \A q \in Ops : phase'[q] # "absent" => kind[q] = "launch"
      BY <2>2, <2>5, <3>2 DEF HandoffInv, LaunchIsAlone
    <3>4. \A q \in Ops : kind[q] = "launch" =>
            local.state = "none" /\ \A k \in Ops : kind[k] = "launch" => k = q
      BY DEF HandoffInv, LaunchIsAlone
    <3>5. local.state = "none" => \A n \in Nodes : asking[n] = 0
      BY DEF HandoffInv, LaunchIsAlone
    <3> QED BY <2>1, <3>1, <3>3, <3>4, <3>5 DEF LaunchIsAlone
  <2>16. RecordFollowsFlight'
    <3>1. \A q \in Ops : HandedOverBy(q) => owner' = node[q]
      BY <2>1, <2>6, <2>8
    <3> QED BY <1>1, <2>1, <2>2, <3>1 DEF HandoffInv, RecordFollowsFlight, HandedOverBy
  <2>17. RecordTellsTheFiles'
    BY <2>1, <2>2 DEF HandoffInv, RecordTellsTheFiles
  <2>18. RowsAreMade' /\ AwakeOnlyAfterCommit'
    BY <2>1, <2>2 DEF HandoffInv, RowsAreMade, AwakeOnlyAfterCommit, HandedOverBy
  <2>19. CheckoutIsCurrent'
    <3>1. kind[o] = "move" => bound[o] = local.tree
      BY <1>1, WhileTransferring
    <3> QED BY <2>1, <2>2, <3>1 DEF HandoffInv, CheckoutIsCurrent, HandedOverBy
  <2> QED BY <2>9, <2>10, <2>11, <2>12, <2>13, <2>14, <2>15, <2>16, <2>17, <2>18, <2>19
          DEF HandoffInv
<1> QED BY <1>2, <1>3

(***************************************************************************)
(* After the commit the flight asks for the activation until it is done.   *)
(***************************************************************************)
LEMMA AfterCommit ==
  ASSUME HandoffInv, NEW o \in Ops, HandedOverBy(o), NEW p \in {"activating", "complete"},
         NEW pc \in {"off"} \cup Activating,
         phase' = [phase EXCEPT ![o] = p], flight' = [flight EXCEPT ![o] = pc],
         pc = "off" \/ p = "activating",
         pc \notin Unlocked => flight[o] \notin Unlocked,
         Keep, UNCHANGED device
  PROVE  HandoffInv'
<1>1. /\ \A q \in Ops : q # o => phase'[q] = phase[q] /\ flight'[q] = flight[q]
      /\ phase'[o] = p /\ flight'[o] = pc
      /\ phase[o] \in {"activating", "complete"}
  BY DEF HandoffInv, TypeOK, HandedOverBy
<1>2. UNCHANGED <<kind, node, bound, owner, local, asking, resuming, import, copy, transcript,
                  work, launches, crashes>>
  BY DEF Keep, KeepBut, device
<1>3. \A q \in Ops : HandedOverBy(q)' <=> HandedOverBy(q)
  BY <1>1 DEF HandedOverBy
<1>4. TypeOK'
  BY <1>2 DEF HandoffInv, TypeOK
<1>5. AbsentIsBlank' /\ FlightFollowsPhase'
  BY <1>1, <1>2 DEF HandoffInv, AbsentIsBlank, FlightFollowsPhase
<1>6. LockIsExclusive' /\ SourceStandsStill'
  BY <1>1, <1>2 DEF HandoffInv, LockIsExclusive, SourceStandsStill
<1>7. RunsAtOwner' /\ LaunchIsAlone' /\ RowsAreMade'
  BY <1>1, <1>2 DEF HandoffInv, RunsAtOwner, LaunchIsAlone, RowsAreMade
<1>8. RecordFollowsFlight'
  BY <1>1, <1>2, <1>3 DEF HandoffInv, RecordFollowsFlight
<1>9. RecordTellsTheFiles'
  BY <1>1, <1>2 DEF HandoffInv, RecordTellsTheFiles
<1>10. AwakeOnlyAfterCommit' /\ CheckoutIsCurrent'
  BY <1>1, <1>2, <1>3 DEF HandoffInv, AwakeOnlyAfterCommit, RowsAreMade, CheckoutIsCurrent
<1> QED BY <1>4, <1>5, <1>6, <1>7, <1>8, <1>9, <1>10 DEF HandoffInv

LEMMA CompletedKeeps ==
  ASSUME HandoffInv, NEW o \in Ops, Completed(o)
  PROVE  HandoffInv'
<1>1. phase[o] = "activating"
  BY DEF HandoffInv, FlightFollowsPhase, Completed
<1> QED BY <1>1, AfterCommit DEF Completed, SetPhase, FlightGoes, HandedOverBy

LEMMA ActivationFailsKeeps ==
  ASSUME HandoffInv, NEW o \in Ops, RequestFails(o), flight[o] \in Activating
  PROVE  HandoffInv'
<1>1. phase[o] = "activating"
  BY DEF HandoffInv, FlightFollowsPhase
<1>2. phase' = [phase EXCEPT ![o] = "activating"] /\ flight' = [flight EXCEPT ![o] = "off"]
  BY <1>1, NothingReceived DEF HandoffInv, RequestFails, Fails, FlightGoes
<1> QED BY <1>1, <1>2, AfterCommit DEF RequestFails, HandedOverBy

LEMMA ActivationStartsKeeps ==
  ASSUME HandoffInv, NEW o \in Ops, FlightStarts(o), phase[o] = "activating"
  PROVE  HandoffInv'
<1>1. phase' = [phase EXCEPT ![o] = "activating"] /\ flight' = [flight EXCEPT ![o] = "retry"]
  BY NothingReceived DEF HandoffInv, FlightStarts, FlightGoes
<1> QED BY <1>1, AfterCommit DEF FlightStarts, HandedOverBy

(***************************************************************************)
(* Every step of a flight keeps the invariant.                             *)
(***************************************************************************)
LEMMA FlightKeeps ==
  ASSUME HandoffInv, NEW o \in Ops, Flight(o)
  PROVE  HandoffInv'
<1>1. CASE FlightStarts(o)
  BY <1>1, FlightStartsKeeps, ActivationStartsKeeps DEF FlightStarts
<1>2. CASE RequestFails(o)
  BY <1>2, RequestFailsKeeps, ActivationFailsKeeps DEF RequestFails
<1> QED BY <1>1, <1>2, LockTriedKeeps, MoveBeginsKeeps, LaunchBeginsKeeps, StatusAnsweredKeeps,
           PreparedKeeps, UploadedKeeps, ImportingKeeps, CommittedKeeps, CompletedKeeps DEF Flight

(***************************************************************************)
(* The device.                                                             *)
(***************************************************************************)
LEMMA FinalizeArrivesKeeps ==
  ASSUME HandoffInv, NEW o \in Ops, FinalizeArrives(o)
  PROVE  HandoffInv'
<1>1. flight[o] = "finalize" /\ phase[o] \in Undecided
  BY WhileTransferring DEF FinalizeArrives
<1>2. /\ flight' = [flight EXCEPT ![o] = "finalizing"]
      /\ UNCHANGED <<phase, kind, node, bound, owner, local, asking, resuming, copy, transcript,
                     launches, crashes>>
  BY DEF FinalizeArrives, FlightGoes, Controller, rows
<1>3. /\ \A q \in Ops : q # o => flight'[q] = flight[q]
      /\ flight'[o] = "finalizing"
  BY <1>2 DEF HandoffInv, TypeOK
<1>4. \/ /\ work[o] = "off" /\ import[o].phase \in {"receiving", "unpacking"}
         /\ work' = [work EXCEPT ![o] = "unpacking"]
         /\ import' = [import EXCEPT ![o].phase = "unpacking"]
      \/ /\ work[o] = "off" /\ import[o].phase = "files-ready"
         /\ work' = [work EXCEPT ![o] = "importing"] /\ import' = import
      \/ work' = work /\ import' = import
  BY DEF FinalizeArrives
<1>5. TypeOK'
  <2>1. work' \in [Ops -> WorkStates]
    BY <1>4 DEF HandoffInv, TypeOK, WorkStates
  <2>2. import' \in [Ops -> [phase : ImportPhases, native : Nat]]
    <3>1. import \in [Ops -> [phase : ImportPhases, native : Nat]]
      BY DEF HandoffInv, TypeOK
    <3>2. "unpacking" \in ImportPhases
      BY DEF ImportPhases
    <3>3. CASE import' = import
      BY <3>1, <3>3
    <3>4. CASE import' = [import EXCEPT ![o].phase = "unpacking"]
      BY <3>1, <3>2, <3>4
    <3> QED BY <1>4, <3>3, <3>4
  <2>3. flight' \in [Ops -> FlightStates]
    BY <1>2 DEF HandoffInv, TypeOK
  <2> QED BY <1>2, <2>1, <2>2, <2>3 DEF HandoffInv, TypeOK
<1>6. \A q \in Ops : q # o => work'[q] = work[q] /\ import'[q] = import[q]
  BY <1>4 DEF HandoffInv, TypeOK
<1>7. \/ /\ work'[o] = "unpacking" /\ import'[o].phase = "unpacking"
         /\ import'[o].native = import[o].native
         /\ import[o].phase \in {"receiving", "unpacking"}
      \/ /\ work'[o] = "importing" /\ import'[o] = import[o]
         /\ import[o].phase = "files-ready"
      \/ work'[o] = work[o] /\ import'[o] = import[o]
  BY <1>4 DEF HandoffInv, TypeOK
<1>8. /\ import[o].phase \in {"receiving", "unpacking", "files-ready", "imported"}
      /\ kind[o] = "move" => import[o].native > 0
      /\ kind[o] = "launch" => import[o].native = 0
  BY <1>1 DEF HandoffInv, RecordFollowsFlight, RecordTellsTheFiles
<1>9. AbsentIsBlank' /\ FlightFollowsPhase'
  BY <1>1, <1>2, <1>3, <1>6 DEF HandoffInv, AbsentIsBlank, FlightFollowsPhase, Undecided
<1>10. LockIsExclusive' /\ SourceStandsStill'
  BY <1>1, <1>2, <1>3 DEF HandoffInv, LockIsExclusive, SourceStandsStill
<1>11. RunsAtOwner' /\ LaunchIsAlone' /\ RowsAreMade' /\ AwakeOnlyAfterCommit' /\ CheckoutIsCurrent'
  BY <1>2 DEF HandoffInv, RunsAtOwner, LaunchIsAlone, RowsAreMade, AwakeOnlyAfterCommit,
     CheckoutIsCurrent, HandedOverBy
<1>12. RecordFollowsFlight'
  BY <1>1, <1>2, <1>3, <1>6, <1>7, <1>8 DEF HandoffInv, RecordFollowsFlight, HandedOverBy, Undecided
<1>13. RecordTellsTheFiles'
  BY <1>1, <1>2, <1>3, <1>6, <1>7, <1>8 DEF HandoffInv, RecordTellsTheFiles
<1> QED BY <1>5, <1>9, <1>10, <1>11, <1>12, <1>13 DEF HandoffInv

LEMMA UnpackedKeeps ==
  ASSUME HandoffInv, NEW o \in Ops, Unpacked(o)
  PROVE  HandoffInv'
<1>1. /\ UNCHANGED <<phase, kind, node, bound, owner, local, flight, asking, resuming, copy,
                     launches, crashes>>
      /\ work[o] = "unpacking" /\ import[o].phase = "unpacking"
  <2>1. UNCHANGED <<phase, kind, node, bound, owner, local, flight, asking, resuming, copy,
                    launches, crashes>>
    BY DEF Unpacked, Controller, rows
  <2>2. work[o] = "unpacking"
    BY DEF Unpacked
  <2>3. import[o].phase = "unpacking"
    BY <2>2 DEF HandoffInv, RecordFollowsFlight
  <2> QED BY <2>1, <2>2, <2>3
<1>2. phase[o] # "absent" /\ node[o] \in Nodes
  BY <1>1 DEF HandoffInv, AbsentIsBlank
<1>3. TypeOK'
  <2>1. import \in [Ops -> [phase : ImportPhases, native : Nat]]
    BY DEF HandoffInv, TypeOK
  <2>2. import' \in [Ops -> [phase : ImportPhases, native : Nat]]
    BY <2>1 DEF Unpacked, ImportPhases
  <2>3. transcript' \in [Nodes -> Nat]
    BY <1>2, <2>1 DEF Unpacked, HandoffInv, TypeOK
  <2>4. work' \in [Ops -> WorkStates]
    BY DEF Unpacked, HandoffInv, TypeOK, WorkStates
  <2> QED BY <1>1, <2>2, <2>3, <2>4 DEF HandoffInv, TypeOK
<1>4. /\ \A q \in Ops : q # o => work'[q] = work[q] /\ import'[q] = import[q]
      /\ work'[o] = "importing" /\ import'[o].phase = "files-ready"
      /\ import'[o].native = import[o].native
      /\ \A n \in Nodes : transcript'[n] =
            IF n = node[o] THEN import[o].native ELSE transcript[n]
      /\ transcript[node[o]] \in {0, import[o].native}
  BY <1>2 DEF Unpacked, HandoffInv, TypeOK
<1>5. AbsentIsBlank' /\ FlightFollowsPhase' /\ LockIsExclusive'
  BY <1>1, <1>2, <1>4 DEF HandoffInv, AbsentIsBlank, FlightFollowsPhase, LockIsExclusive
<1>6. SourceStandsStill' /\ RunsAtOwner' /\ LaunchIsAlone' /\ RowsAreMade'
      /\ AwakeOnlyAfterCommit' /\ CheckoutIsCurrent'
  BY <1>1 DEF HandoffInv, SourceStandsStill, RunsAtOwner, LaunchIsAlone, RowsAreMade,
     AwakeOnlyAfterCommit, CheckoutIsCurrent, HandedOverBy
<1>7. RecordFollowsFlight'
  BY <1>1, <1>4 DEF HandoffInv, RecordFollowsFlight, HandedOverBy

\* No conversation is replaced by another version of it.
<1>8. ASSUME NEW q \in Ops, q # o, node[q] = node[o],
             import[q].phase \in {"files-ready", "imported", "active"}
      PROVE  import[q].native = import[o].native
  <2>1. transcript[node[o]] = import[q].native
    BY <1>8 DEF HandoffInv, RecordTellsTheFiles
  <2>2. CASE import[q].native # 0
    BY <1>4, <2>1, <2>2
  <2>3. CASE import[q].native = 0
    <3>1. kind[q] = "launch"
      BY <1>8, <2>3 DEF HandoffInv, RecordTellsTheFiles, TypeOK
    <3>2. kind[o] = "launch"
      BY <1>2, <3>1 DEF HandoffInv, LaunchIsAlone
    <3> QED BY <2>3, <3>2 DEF HandoffInv, RecordTellsTheFiles
  <2> QED BY <2>2, <2>3
<1>9. RecordTellsTheFiles'
  <2>1. \A q \in Ops : import'[q].phase \in {"files-ready", "imported", "active"} =>
          node[q] \in Nodes
    BY <1>2, <1>4 DEF HandoffInv, AbsentIsBlank
  <2>2. \A q \in Ops : import'[q].phase \in {"files-ready", "imported", "active"} =>
          transcript'[node[q]] = import'[q].native
    BY <1>4, <1>8, <2>1 DEF HandoffInv, RecordTellsTheFiles
  <2>3. \A q \in Ops : import'[q].phase \in {"imported", "active"} \/ work'[q] = "recording" =>
          copy[node[q]].state # "none" /\ copy[node[q]].by = q
    BY <1>4 DEF HandoffInv, RecordTellsTheFiles
  <2>4. \A q \in Ops : kind[q] = "launch" => import'[q].native = 0
    BY <1>4 DEF HandoffInv, RecordTellsTheFiles
  <2>5. \A q \in Ops :
          import'[q].phase \notin {"absent", "receiving"}
            \/ flight[q] \in {"uploaded", "finalize", "finalizing"}
          => (kind[q] = "move" => import'[q].native > 0)
    BY <1>1, <1>4 DEF HandoffInv, RecordTellsTheFiles
  <2> QED BY <1>1, <2>2, <2>3, <2>4, <2>5 DEF RecordTellsTheFiles
<1> QED BY <1>3, <1>5, <1>6, <1>7, <1>9 DEF HandoffInv

LEMMA FinalizeFailsKeeps ==
  ASSUME HandoffInv, NEW o \in Ops, FinalizeFails(o)
  PROVE  HandoffInv'
<1>1. UNCHANGED <<phase, kind, node, bound, owner, local, flight, asking, resuming, import, copy,
                  transcript, launches, crashes>>
  BY DEF FinalizeFails, Controller, rows
<1>2. \A q \in Ops : work'[q] = IF q = o THEN "off" ELSE work[q]
  BY DEF FinalizeFails, HandoffInv, TypeOK
<1>3. TypeOK'
  BY <1>1 DEF FinalizeFails, HandoffInv, TypeOK, WorkStates
<1>4. AbsentIsBlank' /\ FlightFollowsPhase' /\ LockIsExclusive' /\ SourceStandsStill'
  BY <1>1, <1>2 DEF HandoffInv, AbsentIsBlank, FlightFollowsPhase, LockIsExclusive,
     SourceStandsStill
<1>5. RunsAtOwner' /\ LaunchIsAlone' /\ RowsAreMade' /\ AwakeOnlyAfterCommit' /\ CheckoutIsCurrent'
  BY <1>1 DEF HandoffInv, RunsAtOwner, LaunchIsAlone, RowsAreMade, AwakeOnlyAfterCommit,
     CheckoutIsCurrent, HandedOverBy
<1>6. RecordFollowsFlight' /\ RecordTellsTheFiles'
  BY <1>1, <1>2 DEF HandoffInv, RecordFollowsFlight, RecordTellsTheFiles, HandedOverBy
<1> QED BY <1>3, <1>4, <1>5, <1>6 DEF HandoffInv

LEMMA StateImportedKeeps ==
  ASSUME HandoffInv, NEW o \in Ops, StateImported(o)
  PROVE  HandoffInv'
<1>1. /\ UNCHANGED <<phase, kind, node, bound, owner, local, flight, asking, resuming, import,
                     transcript, launches, crashes>>
      /\ work[o] = "importing"
  BY DEF StateImported, Controller, rows
<1>2. phase[o] # "absent" /\ node[o] \in Nodes
  BY <1>1 DEF HandoffInv, AbsentIsBlank
<1>3. \A q \in Ops : work'[q] = IF q = o THEN "recording" ELSE work[q]
  BY DEF StateImported, HandoffInv, TypeOK
<1>4. copy' = copy \/ copy' = [copy EXCEPT ![node[o]] = [state |-> "staged", by |-> o, dormant |-> TRUE]]
  BY <1>2 DEF StateImported, HandoffInv, TypeOK
<1>5. /\ \A n \in Nodes : copy[n].state # "none" => copy'[n] = copy[n]
      /\ \A n \in Nodes : copy[n].state = "none" =>
           copy'[n] = copy[n] \/ copy'[n] = [state |-> "staged", by |-> o, dormant |-> TRUE]
      /\ copy'[node[o]].state # "none" /\ copy'[node[o]].by = o
  BY <1>2 DEF StateImported, Importable, HandoffInv, TypeOK
<1>6. TypeOK'
  <2>1. copy' \in [Nodes -> [state : CopyStates, by : Ops \cup {0}, dormant : BOOLEAN]]
    <3>1. CASE copy' = copy
      BY <3>1 DEF HandoffInv, TypeOK
    <3>2. CASE copy' = [copy EXCEPT ![node[o]] = [state |-> "staged", by |-> o, dormant |-> TRUE]]
      BY <3>2 DEF HandoffInv, TypeOK, CopyStates
    <3> QED BY <1>4, <3>1, <3>2
  <2>2. work' \in [Ops -> WorkStates]
    BY DEF StateImported, HandoffInv, TypeOK, WorkStates
  <2> QED BY <1>1, <2>1, <2>2 DEF HandoffInv, TypeOK
<1>7. AbsentIsBlank' /\ FlightFollowsPhase' /\ LockIsExclusive' /\ SourceStandsStill'
      /\ LaunchIsAlone' /\ CheckoutIsCurrent'
  BY <1>1, <1>2, <1>3 DEF HandoffInv, AbsentIsBlank, FlightFollowsPhase, LockIsExclusive,
     SourceStandsStill, LaunchIsAlone, CheckoutIsCurrent, HandedOverBy
<1>8. RunsAtOwner' /\ RowsAreMade' /\ AwakeOnlyAfterCommit'
  BY <1>1, <1>5 DEF HandoffInv, RunsAtOwner, RowsAreMade, AwakeOnlyAfterCommit, HandedOverBy
<1>9. RecordFollowsFlight'
  BY <1>1, <1>3 DEF HandoffInv, RecordFollowsFlight, HandedOverBy
<1>10. RecordTellsTheFiles'
  <2>1. \A q \in Ops : work[q] = "recording" \/ import[q].phase \in {"imported", "active"} =>
          node[q] \in Nodes
    BY DEF HandoffInv, AbsentIsBlank
  <2>2. \A q \in Ops : import[q].phase \in {"imported", "active"} \/ work'[q] = "recording" =>
          copy'[node[q]].state # "none" /\ copy'[node[q]].by = q
    BY <1>3, <1>5, <2>1 DEF HandoffInv, RecordTellsTheFiles
  <2> QED BY <1>1, <2>2 DEF HandoffInv, RecordTellsTheFiles
<1> QED BY <1>6, <1>7, <1>8, <1>9, <1>10 DEF HandoffInv

LEMMA RecordedKeeps ==
  ASSUME HandoffInv, NEW o \in Ops, Recorded(o)
  PROVE  HandoffInv'
<1>1. /\ UNCHANGED <<phase, kind, node, bound, owner, local, flight, asking, resuming, copy,
                     transcript, launches, crashes>>
      /\ work[o] = "recording" /\ import[o].phase = "files-ready"
  BY DEF Recorded, Controller, rows, HandoffInv, RecordFollowsFlight
<1>2. /\ \A q \in Ops : q # o => work'[q] = work[q] /\ import'[q] = import[q]
      /\ work'[o] = "off" /\ import'[o].phase = "imported" /\ import'[o].native = import[o].native
  BY DEF Recorded, HandoffInv, TypeOK
<1>3. TypeOK'
  BY <1>1 DEF Recorded, HandoffInv, TypeOK, ImportPhases, WorkStates
<1>4. AbsentIsBlank' /\ FlightFollowsPhase' /\ LockIsExclusive' /\ SourceStandsStill'
  BY <1>1, <1>2 DEF HandoffInv, AbsentIsBlank, FlightFollowsPhase, LockIsExclusive,
     SourceStandsStill
<1>5. RunsAtOwner' /\ LaunchIsAlone' /\ RowsAreMade' /\ AwakeOnlyAfterCommit' /\ CheckoutIsCurrent'
  BY <1>1 DEF HandoffInv, RunsAtOwner, LaunchIsAlone, RowsAreMade, AwakeOnlyAfterCommit,
     CheckoutIsCurrent, HandedOverBy
<1>6. RecordFollowsFlight'
  BY <1>1, <1>2 DEF HandoffInv, RecordFollowsFlight, HandedOverBy
<1>7. RecordTellsTheFiles'
  BY <1>1, <1>2 DEF HandoffInv, RecordTellsTheFiles
<1> QED BY <1>3, <1>4, <1>5, <1>6, <1>7 DEF HandoffInv

LEMMA ActivateArrivesKeeps ==
  ASSUME HandoffInv, NEW o \in Ops, ActivateArrives(o)
  PROVE  HandoffInv'
<1>1. /\ UNCHANGED <<phase, kind, node, bound, owner, local, asking, resuming, import,
                     transcript, launches, crashes>>
      /\ flight[o] \in {"activate", "retry"} /\ import[o].phase \in {"imported", "active"}
  BY DEF ActivateArrives, Controller, rows
<1>2. phase[o] = "activating" /\ HandedOverBy(o) /\ node[o] \in Nodes
      /\ copy[node[o]].by = o
  BY <1>1 DEF HandoffInv, FlightFollowsPhase, HandedOverBy, AbsentIsBlank, RecordTellsTheFiles
<1>3. flight' = [flight EXCEPT ![o] = IF flight[o] = "retry" THEN "retrying" ELSE "activating"]
  BY DEF ActivateArrives, FlightGoes
<1>4. /\ \A q \in Ops : q # o => flight'[q] = flight[q] /\ work'[q] = work[q]
      /\ flight'[o] \in {"activating", "retrying"} /\ work'[o] = "marking"
      /\ flight'[o] \notin Unlocked => flight[o] \notin Unlocked
      /\ \A n \in Nodes : copy'[n].state = copy[n].state /\ copy'[n].by = copy[n].by
      /\ \A n \in Nodes : n # node[o] => copy'[n] = copy[n]
  BY <1>1, <1>3 DEF ActivateArrives, HandoffInv, TypeOK
<1>5. launches[node[o]] # 2
  <2>1. launches[node[o]] \in Nat /\ launches[node[o]] < 2
    BY <1>2 DEF ActivateArrives, HandoffInv, TypeOK
  <2> QED BY <2>1
<1>6. TypeOK'
  <2>1. flight' \in [Ops -> FlightStates]
    BY <1>3 DEF HandoffInv, TypeOK
  <2>2. copy' \in [Nodes -> [state : CopyStates, by : Ops \cup {0}, dormant : BOOLEAN]]
    BY DEF ActivateArrives, HandoffInv, TypeOK
  <2>3. work' \in [Ops -> WorkStates]
    BY DEF ActivateArrives, HandoffInv, TypeOK, WorkStates
  <2> QED BY <1>1, <2>1, <2>2, <2>3 DEF HandoffInv, TypeOK
<1>7. AbsentIsBlank' /\ FlightFollowsPhase' /\ LockIsExclusive' /\ SourceStandsStill'
  BY <1>1, <1>2, <1>4 DEF HandoffInv, AbsentIsBlank, FlightFollowsPhase, LockIsExclusive,
     SourceStandsStill
<1>8. RunsAtOwner' /\ LaunchIsAlone' /\ RowsAreMade' /\ CheckoutIsCurrent'
  BY <1>1, <1>4 DEF HandoffInv, RunsAtOwner, LaunchIsAlone, RowsAreMade, CheckoutIsCurrent,
     HandedOverBy
<1>9. AwakeOnlyAfterCommit'
  BY <1>1, <1>2, <1>4 DEF HandoffInv, AwakeOnlyAfterCommit, HandedOverBy
<1>10. RecordFollowsFlight'
  BY <1>1, <1>2, <1>4, <1>5 DEF HandoffInv, RecordFollowsFlight, HandedOverBy
<1>11. RecordTellsTheFiles'
  <2>1. \A q \in Ops : work[q] = "recording" \/ import[q].phase \in {"imported", "active"} =>
          node[q] \in Nodes
    BY DEF HandoffInv, AbsentIsBlank
  <2> QED BY <1>1, <1>4, <2>1 DEF HandoffInv, RecordTellsTheFiles
<1> QED BY <1>6, <1>7, <1>8, <1>9, <1>10, <1>11 DEF HandoffInv

LEMMA MarkedKeeps ==
  ASSUME HandoffInv, NEW o \in Ops, Marked(o)
  PROVE  HandoffInv'
<1>1. /\ UNCHANGED <<phase, kind, node, bound, owner, local, flight, asking, resuming,
                     transcript, crashes>>
      /\ work[o] = "marking" /\ HandedOverBy(o) /\ import[o].phase \in {"imported", "active"}
  BY DEF Marked, Controller, rows, HandoffInv, RecordFollowsFlight
<1>2. phase[o] # "absent" /\ node[o] \in Nodes
  BY <1>1 DEF HandoffInv, AbsentIsBlank
<1>3. flight[o] \notin Transferring
  BY <1>1 DEF HandoffInv, FlightFollowsPhase, HandedOverBy
<1>4. /\ import' = [import EXCEPT ![o].phase = "active"]
      /\ work' = [work EXCEPT ![o] = "off"]
  BY DEF Marked
<1>5. /\ \A q \in Ops : q # o => work'[q] = work[q] /\ import'[q] = import[q]
      /\ work'[o] = "off" /\ import'[o].phase = "active" /\ import'[o].native = import[o].native
  BY <1>4 DEF HandoffInv, TypeOK
<1>6. \/ UNCHANGED <<copy, launches>>
      \/ /\ kind[o] = "launch" /\ copy[node[o]].state \in {"staged", "starting"}
         /\ copy' = [copy EXCEPT ![node[o]].state = "starting"]
         /\ launches' = [launches EXCEPT ![node[o]] = @ + 1]
         /\ launches[node[o]] # 2
  BY <1>1 DEF Marked, HandoffInv, RecordFollowsFlight
<1>7. /\ \A n \in Nodes : copy'[n].by = copy[n].by /\ copy'[n].dormant = copy[n].dormant
      /\ \A n \in Nodes :
           \/ copy'[n].state = copy[n].state /\ launches'[n] = launches[n]
           \/ /\ n = node[o] /\ kind[o] = "launch"
              /\ copy[n].state # "none" /\ copy'[n].state = "starting"
  <2>1. CASE UNCHANGED <<copy, launches>>
    BY <2>1
  <2>2. CASE copy' = [copy EXCEPT ![node[o]].state = "starting"]
             /\ launches' = [launches EXCEPT ![node[o]] = @ + 1]
             /\ kind[o] = "launch" /\ copy[node[o]].state \in {"staged", "starting"}
    BY <2>2 DEF HandoffInv, TypeOK
  <2> QED BY <1>6, <2>1, <2>2
<1>8. TypeOK'
  <2>1. import' \in [Ops -> [phase : ImportPhases, native : Nat]] /\ work' \in [Ops -> WorkStates]
    BY <1>4 DEF HandoffInv, TypeOK, ImportPhases, WorkStates
  <2>2. CASE UNCHANGED <<copy, launches>>
    BY <1>1, <2>1, <2>2 DEF HandoffInv, TypeOK
  <2>3. CASE copy' = [copy EXCEPT ![node[o]].state = "starting"]
             /\ launches' = [launches EXCEPT ![node[o]] = @ + 1] /\ launches[node[o]] # 2
    <3> DEFINE Row == [state : CopyStates, by : Ops \cup {0}, dormant : BOOLEAN]
    <3>1. copy \in [Nodes -> Row] /\ copy[node[o]] \in Row
      BY <1>2 DEF HandoffInv, TypeOK
    <3>2. [copy[node[o]] EXCEPT !.state = "starting"] \in Row
      BY <3>1 DEF CopyStates
    <3>3. copy' = [copy EXCEPT ![node[o]] = [copy[node[o]] EXCEPT !.state = "starting"]]
      BY <2>3
    <3>4. copy' \in [Nodes -> Row]
      BY <3>1, <3>2, <3>3
    <3>5. launches \in [Nodes -> 0 .. 2] /\ launches[node[o]] # 2
      BY <2>3 DEF HandoffInv, TypeOK
    <3>6. launches[node[o]] + 1 \in 0 .. 2
      BY <1>2, <3>5
    <3>7. launches' = [launches EXCEPT ![node[o]] = launches[node[o]] + 1]
      BY <2>3
    <3>8. launches' \in [Nodes -> 0 .. 2]
      BY <3>5, <3>6, <3>7
    <3> QED BY <1>1, <2>1, <3>4, <3>8 DEF HandoffInv, TypeOK
  <2> QED BY <1>6, <2>2, <2>3
<1>9. AbsentIsBlank' /\ FlightFollowsPhase' /\ LockIsExclusive' /\ SourceStandsStill'
      /\ LaunchIsAlone' /\ CheckoutIsCurrent'
  BY <1>1, <1>2, <1>5 DEF HandoffInv, AbsentIsBlank, FlightFollowsPhase, LockIsExclusive,
     SourceStandsStill, LaunchIsAlone, CheckoutIsCurrent, HandedOverBy
<1>10. RunsAtOwner'
  BY <1>1, <1>7 DEF HandoffInv, RunsAtOwner, LaunchIsAlone
<1>11. RowsAreMade' /\ AwakeOnlyAfterCommit'
  BY <1>1, <1>7 DEF HandoffInv, RowsAreMade, AwakeOnlyAfterCommit, HandedOverBy
<1>12. RecordFollowsFlight'
  <2>1. ASSUME NEW q \in Ops, work'[q] = "marking", kind[q] = "launch"
        PROVE  launches'[node[q]] # 2
    <3>1. q # o /\ kind[o] # "launch"
      BY <1>5, <2>1 DEF HandoffInv, LaunchIsAlone
    <3>2. launches' = launches
      BY <1>6, <3>1
    <3>3. work[q] = "marking"
      BY <1>5, <2>1, <3>1
    <3> QED BY <2>1, <3>2, <3>3 DEF HandoffInv, RecordFollowsFlight
  <2> QED BY <1>1, <1>5, <1>3, <2>1 DEF HandoffInv, RecordFollowsFlight, HandedOverBy
<1>13. RecordTellsTheFiles'
  <2>1. \A q \in Ops : import[q].phase \in {"imported", "active"} \/ work[q] = "recording" =>
          node[q] \in Nodes
    BY DEF HandoffInv, AbsentIsBlank
  <2>2. \A n \in Nodes : copy[n].state # "none" => copy'[n].state # "none"
    BY <1>7
  <2>3. \A q \in Ops : import'[q].phase \in {"imported", "active"} \/ work'[q] = "recording" =>
          copy'[node[q]].state # "none" /\ copy'[node[q]].by = q
    BY <1>1, <1>5, <1>7, <2>1, <2>2 DEF HandoffInv, RecordTellsTheFiles
  <2> QED BY <1>1, <1>5, <2>3 DEF HandoffInv, RecordTellsTheFiles
<1> QED BY <1>8, <1>9, <1>10, <1>11, <1>12, <1>13 DEF HandoffInv

(***************************************************************************)
(* The rows of the session on the devices change their state, launches end *)
(* and finalizations and activations break off; nothing else moves.        *)
(***************************************************************************)
LEMMA SessionsOnDevices ==
  ASSUME HandoffInv, TypeOK',
         UNCHANGED <<phase, kind, node, bound, owner, local, flight, asking, resuming, import,
                     transcript>>,
         \A o \in Ops : work'[o] \in {work[o], "off"},
         \A n \in Nodes :
           /\ copy'[n].by = copy[n].by /\ copy'[n].dormant = copy[n].dormant
           /\ launches'[n] # 0 => launches[n] # 0
           /\ launches[n] # 2 => launches'[n] # 2
           /\ (copy[n].state # "none") <=> (copy'[n].state # "none")
           /\ copy'[n].state \in {"starting", "running"} =>
                copy[n].state \in {"starting", "running"} \/ owner = n
  PROVE  HandoffInv'
<1>1. AbsentIsBlank' /\ FlightFollowsPhase' /\ LockIsExclusive' /\ SourceStandsStill'
      /\ LaunchIsAlone' /\ CheckoutIsCurrent'
  BY DEF HandoffInv, AbsentIsBlank, FlightFollowsPhase, LockIsExclusive,
     SourceStandsStill, LaunchIsAlone, CheckoutIsCurrent, HandedOverBy
<1>2. RunsAtOwner'
  BY DEF HandoffInv, RunsAtOwner
<1>3. RowsAreMade' /\ AwakeOnlyAfterCommit'
  <2>1. RowsAreMade'
    <3> SUFFICES ASSUME NEW n \in Nodes
                 PROVE  /\ copy'[n].state # "none" => copy'[n].by \in Ops
                        /\ launches'[n] # 0 => copy'[n].state # "none"
      BY DEF RowsAreMade
    <3>1. /\ copy[n].state # "none" => copy[n].by \in Ops
          /\ launches[n] # 0 => copy[n].state # "none"
      BY DEF HandoffInv, RowsAreMade
    <3> QED BY <3>1
  <2>2. \A n \in Nodes : copy'[n].state # "none" /\ ~copy'[n].dormant =>
          phase'[copy'[n].by] \in {"activating", "complete"}
    BY DEF HandoffInv, AwakeOnlyAfterCommit, HandedOverBy
  <2>3. AwakeOnlyAfterCommit'
    BY <2>2 DEF AwakeOnlyAfterCommit, HandedOverBy
  <2> QED BY <2>1, <2>3
<1>4. \A o \in Ops : work[o] # "off" \/ import[o].phase # "absent" => node[o] \in Nodes
  BY DEF HandoffInv, AbsentIsBlank
<1>5. RecordFollowsFlight'
  <2>1. \A o \in Ops : work'[o] = "marking" /\ kind[o] = "launch" => launches'[node[o]] # 2
    <3> SUFFICES ASSUME NEW o \in Ops, work'[o] = "marking", kind[o] = "launch"
                 PROVE  launches'[node[o]] # 2
      OBVIOUS
    <3>1. work[o] = "marking" /\ node[o] \in Nodes
      BY <1>4
    <3> QED BY <3>1 DEF HandoffInv, RecordFollowsFlight
  <2> QED BY <2>1 DEF HandoffInv, RecordFollowsFlight, HandedOverBy
<1>6. RecordTellsTheFiles'
  BY <1>4 DEF HandoffInv, RecordTellsTheFiles
<1> QED BY <1>1, <1>2, <1>3, <1>5, <1>6 DEF HandoffInv

LEMMA LaunchDoneKeeps ==
  ASSUME HandoffInv, NEW n \in Nodes, LaunchDone(n)
  PROVE  HandoffInv'
<1> DEFINE Row == [state : CopyStates, by : Ops \cup {0}, dormant : BOOLEAN]
<1>1. PICK s \in {"running", "paused"} :
        /\ s = "running" => copy[n].state = "starting"
        /\ copy' = [copy EXCEPT ![n].state = s]
  BY DEF LaunchDone
<1>2. /\ UNCHANGED <<phase, kind, node, bound, owner, local, flight, asking, resuming, import,
                     transcript, work, crashes>>
      /\ launches' = [launches EXCEPT ![n] = launches[n] - 1]
  BY DEF LaunchDone, Controller, rows
<1>3. launches \in [Nodes -> 0 .. 2] /\ launches[n] \in 0 .. 2 /\ launches[n] > 0
  BY DEF LaunchDone, HandoffInv, TypeOK
<1>4. launches[n] # 0 /\ copy[n].state # "none"
  BY <1>3 DEF HandoffInv, RowsAreMade
<1>5. launches[n] - 1 \in 0 .. 2 /\ launches[n] - 1 # 2
  BY <1>3
<1>6. launches' \in [Nodes -> 0 .. 2]
  BY <1>2, <1>3, <1>5
<1>7. \A m \in Nodes : /\ launches'[m] # 0 => launches[m] # 0
                       /\ launches[m] # 2 => launches'[m] # 2
  BY <1>2, <1>3, <1>4, <1>5
<1>8. copy \in [Nodes -> Row] /\ copy[n] \in Row
  BY DEF HandoffInv, TypeOK
<1>9. [copy[n] EXCEPT !.state = s] \in Row
  BY <1>8 DEF CopyStates
<1>10. copy' = [copy EXCEPT ![n] = [copy[n] EXCEPT !.state = s]]
  BY <1>1
<1>11. copy' \in [Nodes -> Row]
  BY <1>8, <1>9, <1>10
<1>12. \A m \in Nodes :
         /\ copy'[m].by = copy[m].by /\ copy'[m].dormant = copy[m].dormant
         /\ (copy[m].state # "none") <=> (copy'[m].state # "none")
         /\ copy'[m].state \in {"starting", "running"} => copy[m].state \in {"starting", "running"}
  BY <1>1, <1>4, <1>8, <1>10
<1>13. TypeOK'
  BY <1>2, <1>6, <1>11 DEF HandoffInv, TypeOK
<1> QED BY <1>2, <1>7, <1>12, <1>13, SessionsOnDevices

(***************************************************************************)
(* One row of the session on a device changes its state.                   *)
(***************************************************************************)
LEMMA RowChanges ==
  ASSUME HandoffInv, NEW n \in Nodes, NEW s \in CopyStates \ {"none"},
         copy[n].state # "none",
         s \in {"starting", "running"} => owner = n,
         copy' = [copy EXCEPT ![n].state = s],
         UNCHANGED <<phase, kind, node, bound, owner, local, flight, asking, resuming, import,
                     transcript, work, launches, crashes>>
  PROVE  HandoffInv'
<1> DEFINE Row == [state : CopyStates, by : Ops \cup {0}, dormant : BOOLEAN]
<1>1. copy \in [Nodes -> Row] /\ copy[n] \in Row
  BY DEF HandoffInv, TypeOK
<1>2. [copy[n] EXCEPT !.state = s] \in Row
  BY <1>1
<1>3. copy' = [copy EXCEPT ![n] = [copy[n] EXCEPT !.state = s]]
  OBVIOUS
<1>4. copy' \in [Nodes -> Row]
  BY <1>1, <1>2, <1>3
<1>5. \A m \in Nodes :
        /\ copy'[m].by = copy[m].by /\ copy'[m].dormant = copy[m].dormant
        /\ (copy[m].state # "none") <=> (copy'[m].state # "none")
        /\ copy'[m].state \in {"starting", "running"} =>
             copy[m].state \in {"starting", "running"} \/ owner = m
  BY <1>1, <1>3
<1>6. TypeOK'
  BY <1>4 DEF HandoffInv, TypeOK
<1> QED BY <1>5, <1>6, SessionsOnDevices

LEMMA RemoteResumeKeeps ==
  ASSUME HandoffInv, NEW n \in Nodes, RemoteResume(n)
  PROVE  HandoffInv'
<1>1. UNCHANGED <<phase, kind, node, bound, owner, local, flight, asking, resuming, import,
                  transcript, work, launches, crashes>>
  BY DEF RemoteResume, Controller, rows
<1>2. copy[n].state # "none" /\ owner = n /\ copy' = [copy EXCEPT ![n].state = "running"]
  BY DEF RemoteResume
<1> QED BY <1>1, <1>2, RowChanges DEF CopyStates

LEMMA RemoteStopKeeps ==
  ASSUME HandoffInv, NEW n \in Nodes, RemoteStop(n)
  PROVE  HandoffInv'
<1>1. UNCHANGED <<phase, kind, node, bound, owner, local, flight, asking, resuming, import,
                  transcript, work, launches, crashes>>
  BY DEF RemoteStop, Controller, rows
<1>2. copy[n].state # "none" /\ copy' = [copy EXCEPT ![n].state = "paused"]
  BY DEF RemoteStop
<1>3. "paused" \in CopyStates \ {"none"} /\ "paused" \notin {"starting", "running"}
  BY DEF CopyStates
<1> QED BY <1>1, <1>2, <1>3, RowChanges

LEMMA DeviceCrashKeeps ==
  ASSUME HandoffInv, NEW n \in Nodes, DeviceCrash(n)
  PROVE  HandoffInv'
<1> DEFINE Row == [state : CopyStates, by : Ops \cup {0}, dormant : BOOLEAN]
           s == IF copy[n].state = "starting" THEN "paused" ELSE copy[n].state
<1>1. /\ UNCHANGED <<phase, kind, node, bound, owner, local, flight, asking, resuming, import,
                     transcript>>
      /\ launches' = [launches EXCEPT ![n] = 0]
      /\ work' = [o \in Ops |-> IF node[o] = n THEN "off" ELSE work[o]]
  BY DEF DeviceCrash, rows, memory
<1>2. \A o \in Ops : work'[o] \in {work[o], "off"}
  BY <1>1
<1>3. \A m \in Nodes : /\ launches'[m] # 0 => launches[m] # 0
                       /\ launches[m] # 2 => launches'[m] # 2
  BY <1>1 DEF HandoffInv, TypeOK
<1>4. copy \in [Nodes -> Row] /\ copy[n] \in Row
  BY DEF HandoffInv, TypeOK
<1>5. [copy[n] EXCEPT !.state = s] \in Row
  BY <1>4 DEF CopyStates
<1>6. copy' = [copy EXCEPT ![n] = [copy[n] EXCEPT !.state = s]]
  BY DEF DeviceCrash
<1>7. copy' \in [Nodes -> Row]
  BY <1>4, <1>5, <1>6
<1>8. \A m \in Nodes :
        /\ copy'[m].by = copy[m].by /\ copy'[m].dormant = copy[m].dormant
        /\ (copy[m].state # "none") <=> (copy'[m].state # "none")
        /\ copy'[m].state \in {"starting", "running"} => copy[m].state \in {"starting", "running"}
  BY <1>4, <1>6
<1>9. TypeOK'
  <2>1. work' \in [Ops -> WorkStates]
    BY <1>1 DEF HandoffInv, TypeOK, WorkStates
  <2>2. launches' \in [Nodes -> 0 .. 2]
    BY <1>1 DEF HandoffInv, TypeOK
  <2>3. crashes' \in 0 .. MaxCrashes
    <3>1. crashes \in 0 .. MaxCrashes
      BY DEF HandoffInv, TypeOK
    <3>2. crashes < MaxCrashes /\ crashes' = crashes + 1
      BY DEF DeviceCrash
    <3> QED BY <3>1, <3>2
  <2> QED BY <1>1, <1>7, <2>1, <2>2, <2>3 DEF HandoffInv, TypeOK
<1> QED BY <1>1, <1>2, <1>3, <1>8, <1>9, SessionsOnDevices

(***************************************************************************)
(* The session on the controller and the operations that are asked for.    *)
(***************************************************************************)
LEMMA ControllerCrashKeeps ==
  ASSUME HandoffInv, ControllerCrash
  PROVE  HandoffInv'
<1>1. /\ UNCHANGED <<phase, kind, node, bound, owner, import, copy, transcript, work, launches>>
      /\ flight' = [o \in Ops |-> "off"] /\ asking' = [n \in Nodes |-> 0] /\ resuming' = "no"
  BY DEF ControllerCrash, rows, device
<1>2. \/ UNCHANGED local
      \/ resuming = "relaunching" /\ local' = [local EXCEPT !.state = "running"]
  BY DEF ControllerCrash
<1>3. local \in [state : {"none", "stopped", "running"}, turns : Nat, tree : Nat]
  BY DEF HandoffInv, TypeOK
<1>4. local'.turns = local.turns /\ local'.tree = local.tree
  BY <1>2, <1>3
<1>5. local'.state # local.state => resuming = "relaunching" /\ local'.state = "running"
  BY <1>2, <1>3
<1>6. resuming = "relaunching" => owner = Local /\ local.state = "stopped"
  BY DEF HandoffInv, RunsAtOwner
<1>7. TypeOK'
  <2>1. local' \in [state : {"none", "stopped", "running"}, turns : Nat, tree : Nat]
    BY <1>2 DEF HandoffInv, TypeOK
  <2>2. crashes' \in 0 .. MaxCrashes
    <3>1. crashes \in 0 .. MaxCrashes
      BY DEF HandoffInv, TypeOK
    <3>2. crashes < MaxCrashes /\ crashes' = crashes + 1
      BY DEF ControllerCrash
    <3> QED BY <3>1, <3>2
  <2> QED BY <1>1, <2>1, <2>2 DEF HandoffInv, TypeOK
<1>8. AbsentIsBlank' /\ FlightFollowsPhase' /\ LockIsExclusive' /\ SourceStandsStill'
  BY <1>1 DEF HandoffInv, AbsentIsBlank, FlightFollowsPhase, LockIsExclusive, SourceStandsStill
<1>9. RunsAtOwner'
  BY <1>1, <1>5, <1>6, <1>4 DEF HandoffInv, RunsAtOwner
<1>10. LaunchIsAlone'
  BY <1>1, <1>5, <1>6 DEF HandoffInv, LaunchIsAlone
<1>11. RecordFollowsFlight'
  BY <1>1 DEF HandoffInv, RecordFollowsFlight, HandedOverBy
<1>12. RecordTellsTheFiles'
  BY <1>1 DEF HandoffInv, RecordTellsTheFiles
<1>13. RowsAreMade' /\ AwakeOnlyAfterCommit'
  BY <1>1 DEF HandoffInv, RowsAreMade, AwakeOnlyAfterCommit, HandedOverBy
<1>14. CheckoutIsCurrent'
  BY <1>1, <1>4 DEF HandoffInv, CheckoutIsCurrent, HandedOverBy
<1> QED BY <1>7, <1>8, <1>9, <1>10, <1>11, <1>12, <1>13, <1>14 DEF HandoffInv

(***************************************************************************)
(* While the controller owns the session, nothing has been handed over.    *)
(***************************************************************************)
LEMMA OwnedHere ==
  ASSUME HandoffInv, owner = Local
  PROVE  /\ \A o \in Ops : ~HandedOverBy(o)
         /\ \A n \in Nodes : copy[n].state \notin {"starting", "running"}
         /\ \A o \in Ops : phase[o] # "absent" => kind[o] = "move"
<1>1. \A o \in Ops : HandedOverBy(o) => node[o] \in Nodes /\ owner = node[o]
  BY DEF HandoffInv, AbsentIsBlank, RecordFollowsFlight, HandedOverBy
<1>2. \A n \in Nodes : copy[n].state \notin {"starting", "running"}
  BY DEF HandoffInv, RunsAtOwner
<1>3. \A o \in Ops : phase[o] # "absent" => kind[o] = "move"
  <2>1. \A o \in Ops : phase[o] # "absent" => node[o] \in Nodes
    BY DEF HandoffInv, AbsentIsBlank
  <2>2. \A o \in Ops : kind[o] = "launch" => owner = node[o]
    BY DEF HandoffInv, LaunchIsAlone
  <2>3. \A o \in Ops : kind[o] \in {"move", "launch"}
    BY DEF HandoffInv, TypeOK
  <2> QED BY <2>1, <2>2, <2>3
<1> QED BY <1>1, <1>2, <1>3

(***************************************************************************)
(* The agent on the controller works, starts or stops.                     *)
(***************************************************************************)
LEMMA LocalKeeps ==
  ASSUME HandoffInv, owner = Local, local.state # "none",
         local' \in [state : {"stopped", "running"}, turns : Nat, tree : Nat], local'.turns > 0,
         resuming' \in {resuming, "no"}, resuming' # "no" => local'.state = "stopped",
         \A o \in Ops : flight[o] \in Transferring => local' = local,
         UNCHANGED <<phase, kind, node, bound, owner, flight, asking, import, copy, transcript,
                     work, launches, crashes>>
  PROVE  HandoffInv'
<1>1. TypeOK'
  <2>1. local' \in [state : {"none", "stopped", "running"}, turns : Nat, tree : Nat]
    OBVIOUS
  <2>2. resuming' \in {"no", "asked", "relaunching"}
    BY DEF HandoffInv, TypeOK
  <2> QED BY <2>1, <2>2 DEF HandoffInv, TypeOK
<1>2. AbsentIsBlank' /\ FlightFollowsPhase' /\ LockIsExclusive'
  BY DEF HandoffInv, AbsentIsBlank, FlightFollowsPhase, LockIsExclusive
<1>3. SourceStandsStill'
  BY DEF HandoffInv, SourceStandsStill
<1>4. RunsAtOwner'
  BY DEF HandoffInv, RunsAtOwner
<1>5. LaunchIsAlone'
  <2>1. \A o \in Ops : phase[o] # "absent" => kind[o] = "move"
    BY OwnedHere
  <2>2. \A o \in Ops : kind[o] # "launch"
    BY <2>1 DEF HandoffInv, AbsentIsBlank
  <2>3. local'.state # "none"
    OBVIOUS
  <2> QED BY <2>2, <2>3 DEF LaunchIsAlone
<1>6. RecordFollowsFlight' /\ RecordTellsTheFiles'
  BY DEF HandoffInv, RecordFollowsFlight, RecordTellsTheFiles, HandedOverBy
<1>7. RowsAreMade' /\ AwakeOnlyAfterCommit'
  BY DEF HandoffInv, RowsAreMade, AwakeOnlyAfterCommit, HandedOverBy
<1>8. CheckoutIsCurrent'
  BY OwnedHere DEF CheckoutIsCurrent, HandedOverBy
<1> QED BY <1>1, <1>2, <1>3, <1>4, <1>5, <1>6, <1>7, <1>8 DEF HandoffInv

LEMMA TurnKeeps ==
  ASSUME HandoffInv, Turn
  PROVE  HandoffInv'
<1>1. PICK t \in {local.tree, local.tree + 1} :
        local' = [local EXCEPT !.turns = local.turns + 1, !.tree = t]
  BY DEF Turn
<1>2. local \in [state : {"none", "stopped", "running"}, turns : Nat, tree : Nat]
      /\ local.state = "running"
  BY DEF Turn, HandoffInv, TypeOK
<1>3. t \in Nat /\ local.turns + 1 \in Nat /\ local.turns + 1 > 0
  BY <1>2
<1>4. local' \in [state : {"stopped", "running"}, turns : Nat, tree : Nat]
      /\ local'.turns > 0
  BY <1>1, <1>2, <1>3
<1>5. owner = Local /\ resuming = "no"
  BY <1>2 DEF HandoffInv, RunsAtOwner
<1>6. \A o \in Ops : flight[o] \notin Transferring
  <2>1. \A o \in Ops : flight[o] \in Transferring => phase[o] # "absent" /\ kind[o] # "move"
    BY <1>2 DEF HandoffInv, SourceStandsStill, FlightFollowsPhase
  <2> QED BY <1>5, <2>1, OwnedHere
<1>7. UNCHANGED <<phase, kind, node, bound, owner, flight, asking, resuming, import, copy,
                  transcript, work, launches, crashes>>
  BY DEF Turn, rows, memory, device
<1> QED BY <1>2, <1>4, <1>5, <1>6, <1>7, LocalKeeps

LEMMA StopLocalKeeps ==
  ASSUME HandoffInv, StopLocal
  PROVE  HandoffInv'
<1>1. local \in [state : {"none", "stopped", "running"}, turns : Nat, tree : Nat]
      /\ local.state = "running" /\ local' = [local EXCEPT !.state = "stopped"]
  BY DEF StopLocal, HandoffInv, TypeOK
<1>2. owner = Local /\ local.turns > 0
  BY <1>1 DEF HandoffInv, RunsAtOwner
<1>3. local' \in [state : {"stopped", "running"}, turns : Nat, tree : Nat]
      /\ local'.turns > 0 /\ local'.state = "stopped"
  BY <1>1, <1>2
<1>4. \A o \in Ops : flight[o] \notin Transferring
  <2>1. \A o \in Ops : flight[o] \in Transferring => phase[o] # "absent" /\ kind[o] # "move"
    BY <1>1 DEF HandoffInv, SourceStandsStill, FlightFollowsPhase
  <2> QED BY <1>2, <2>1, OwnedHere
<1>5. UNCHANGED <<phase, kind, node, bound, owner, flight, asking, resuming, import, copy,
                  transcript, work, launches, crashes>>
  BY DEF StopLocal, rows, memory, device
<1> QED BY <1>1, <1>2, <1>3, <1>4, <1>5, LocalKeeps

LEMMA ResumeEndsKeeps ==
  ASSUME HandoffInv, ResumeEnds
  PROVE  HandoffInv'
<1>1. /\ resuming = "relaunching" /\ resuming' = "no"
      /\ local' \in {local, [local EXCEPT !.state = "running"]}
      /\ UNCHANGED <<phase, kind, node, bound, owner, flight, asking, import, copy, transcript,
                     work, launches, crashes>>
  BY DEF ResumeEnds, rows, device
<1>2. owner = Local /\ local.state = "stopped" /\ local.turns > 0
  BY <1>1 DEF HandoffInv, RunsAtOwner
<1>3. local' \in [state : {"stopped", "running"}, turns : Nat, tree : Nat] /\ local'.turns > 0
  <2>1. local \in [state : {"none", "stopped", "running"}, turns : Nat, tree : Nat]
    BY DEF HandoffInv, TypeOK
  <2> QED BY <1>1, <1>2, <2>1
<1>4. \A o \in Ops : flight[o] \notin Transferring
  BY <1>1 DEF HandoffInv, LockIsExclusive
<1> QED BY <1>1, <1>2, <1>3, <1>4, LocalKeeps

(***************************************************************************)
(* A resume asks while no operation is in progress: flights that are still *)
(* under way are of cancelled ones.                                        *)
(***************************************************************************)
LEMMA ResumeAskedKeeps ==
  ASSUME HandoffInv, ResumeAsked
  PROVE  HandoffInv'
<1>1. /\ owner = Local /\ local.state = "stopped" /\ resuming' = "asked"
      /\ UNCHANGED <<phase, kind, node, bound, owner, local, flight, asking, import, copy,
                     transcript, work, launches, crashes>>
  BY DEF ResumeAsked, rows, device
<1>2. \A o \in Ops : flight[o] \in Transferring => phase[o] = "cancelled"
  <2> SUFFICES ASSUME NEW o \in Ops, flight[o] \in Transferring
               PROVE  phase[o] = "cancelled"
    OBVIOUS
  <2>1. phase[o] \in Undecided
    BY WhileTransferring
  <2>2. phase[o] \notin {"queued", "copying", "importing"}
    BY DEF ResumeAsked, Available, InProgress, Inserted
  <2> QED BY <2>1, <2>2 DEF Undecided
<1>3. TypeOK'
  BY <1>1 DEF HandoffInv, TypeOK
<1>4. AbsentIsBlank' /\ FlightFollowsPhase' /\ LockIsExclusive'
  BY <1>1 DEF HandoffInv, AbsentIsBlank, FlightFollowsPhase, LockIsExclusive
<1>5. SourceStandsStill'
  BY <1>1, <1>2 DEF HandoffInv, SourceStandsStill
<1>6. RunsAtOwner' /\ LaunchIsAlone'
  BY <1>1 DEF HandoffInv, RunsAtOwner, LaunchIsAlone
<1>7. RecordFollowsFlight' /\ RecordTellsTheFiles'
  BY <1>1 DEF HandoffInv, RecordFollowsFlight, RecordTellsTheFiles, HandedOverBy
<1>8. RowsAreMade' /\ AwakeOnlyAfterCommit' /\ CheckoutIsCurrent'
  BY <1>1 DEF HandoffInv, RowsAreMade, AwakeOnlyAfterCommit, CheckoutIsCurrent, HandedOverBy
<1> QED BY <1>3, <1>4, <1>5, <1>6, <1>7, <1>8 DEF HandoffInv

LEMMA ResumeLocksKeeps ==
  ASSUME HandoffInv, ResumeLocks
  PROVE  HandoffInv'
<1>1. /\ resuming = "asked" /\ resuming' = IF LockFree THEN "relaunching" ELSE "no"
      /\ UNCHANGED <<phase, kind, node, bound, owner, local, flight, asking, import, copy,
                     transcript, work, launches, crashes>>
  BY DEF ResumeLocks, rows, device
<1>2. TypeOK'
  BY <1>1 DEF HandoffInv, TypeOK
<1>3. AbsentIsBlank' /\ FlightFollowsPhase'
  BY <1>1 DEF HandoffInv, AbsentIsBlank, FlightFollowsPhase
<1>4. LockIsExclusive'
  BY <1>1 DEF HandoffInv, LockIsExclusive, LockFree
<1>5. SourceStandsStill'
  BY <1>1 DEF HandoffInv, SourceStandsStill
<1>6. RunsAtOwner' /\ LaunchIsAlone'
  BY <1>1 DEF HandoffInv, RunsAtOwner, LaunchIsAlone
<1>7. RecordFollowsFlight' /\ RecordTellsTheFiles'
  BY <1>1 DEF HandoffInv, RecordFollowsFlight, RecordTellsTheFiles, HandedOverBy
<1>8. RowsAreMade' /\ AwakeOnlyAfterCommit' /\ CheckoutIsCurrent'
  BY <1>1 DEF HandoffInv, RowsAreMade, AwakeOnlyAfterCommit, CheckoutIsCurrent, HandedOverBy
<1> QED BY <1>2, <1>3, <1>4, <1>5, <1>6, <1>7, <1>8 DEF HandoffInv

(***************************************************************************)
(* The row of an operation changes its phase outside of its flight.        *)
(***************************************************************************)
LEMMA PhaseChanges ==
  ASSUME HandoffInv, NEW o \in Ops, NEW p \in Undecided,
         phase[o] \in Undecided \cup {"failed"},
         p # "cancelled" => flight[o] \notin Transferring,
         phase' = [phase EXCEPT ![o] = p],
         UNCHANGED <<kind, node, bound, owner, local, flight, asking, resuming, import, copy,
                     transcript, work, launches, crashes>>
  PROVE  HandoffInv'
<1> USE DEF Undecided
<1>1. \A q \in Ops : phase'[q] = IF q = o THEN p ELSE phase[q]
  BY DEF HandoffInv, TypeOK
<1>2. \A q \in Ops : HandedOverBy(q)' <=> HandedOverBy(q)
  BY <1>1 DEF HandedOverBy
<1>3. TypeOK'
  BY DEF HandoffInv, TypeOK
<1>4. AbsentIsBlank' /\ FlightFollowsPhase' /\ LockIsExclusive' /\ SourceStandsStill'
  BY <1>1 DEF HandoffInv, AbsentIsBlank, FlightFollowsPhase, LockIsExclusive, SourceStandsStill
<1>5. RunsAtOwner' /\ LaunchIsAlone'
  BY <1>1 DEF HandoffInv, RunsAtOwner, LaunchIsAlone
<1>6. RecordFollowsFlight' /\ RecordTellsTheFiles'
  BY <1>2 DEF HandoffInv, RecordFollowsFlight, RecordTellsTheFiles
<1>7. RowsAreMade' /\ AwakeOnlyAfterCommit' /\ CheckoutIsCurrent'
  BY <1>1, <1>2 DEF HandoffInv, RowsAreMade, AwakeOnlyAfterCommit, CheckoutIsCurrent, HandedOverBy
<1> QED BY <1>3, <1>4, <1>5, <1>6, <1>7 DEF HandoffInv

LEMMA StopTransferKeeps ==
  ASSUME HandoffInv, NEW o \in Ops, StopTransfer(o)
  PROVE  HandoffInv'
<1>1. /\ phase[o] \notin Ended \cup {"absent", "activating"}
      /\ phase' = [phase EXCEPT ![o] = "cancelled"]
      /\ UNCHANGED <<kind, node, bound, owner, local, flight, asking, resuming, import, copy,
                     transcript, work, launches, crashes>>
  BY DEF StopTransfer, InProgress, Inserted, SetPhase, memory, device
<1>2. phase[o] \in Unfinished
  BY <1>1 DEF HandoffInv, TypeOK
<1> QED BY <1>1, <1>2, PhaseChanges DEF Undecided

LEMMA RetryKeeps ==
  ASSUME HandoffInv, NEW o \in Ops, Retry(o)
  PROVE  HandoffInv'
<1>1. /\ phase[o] = "failed" /\ phase' = [phase EXCEPT ![o] = "queued"]
      /\ UNCHANGED <<kind, node, bound, owner, local, flight, asking, resuming, import, copy,
                     transcript, work, launches, crashes>>
  BY DEF Retry, SetPhase, memory, device
<1>2. flight[o] \notin Transferring
  BY <1>1, WhileTransferring DEF Undecided
<1> QED BY <1>1, <1>2, PhaseChanges DEF Undecided

LEMMA MoveAskedKeeps ==
  ASSUME HandoffInv, NEW n \in Nodes, MoveAsked(n)
  PROVE  HandoffInv'
<1>1. /\ owner = Local /\ local.state = "stopped"
      /\ asking' = [asking EXCEPT ![n] = asking[n] + 1]
      /\ UNCHANGED <<phase, kind, node, bound, owner, local, flight, resuming, import, copy,
                     transcript, work, launches, crashes>>
  BY DEF MoveAsked, StoppedForMove, rows, device
<1>2. TypeOK'
  <2>1. asking \in [Nodes -> Nat] /\ asking[n] + 1 \in Nat
    BY DEF HandoffInv, TypeOK
  <2>2. asking' \in [Nodes -> Nat]
    BY <1>1, <2>1
  <2> QED BY <1>1, <2>2 DEF HandoffInv, TypeOK
<1>3. AbsentIsBlank' /\ FlightFollowsPhase' /\ LockIsExclusive' /\ SourceStandsStill'
  BY <1>1 DEF HandoffInv, AbsentIsBlank, FlightFollowsPhase, LockIsExclusive, SourceStandsStill
<1>4. RunsAtOwner'
  BY <1>1 DEF HandoffInv, RunsAtOwner
<1>5. LaunchIsAlone'
  BY <1>1 DEF HandoffInv, LaunchIsAlone
<1>6. RecordFollowsFlight' /\ RecordTellsTheFiles'
  BY <1>1 DEF HandoffInv, RecordFollowsFlight, RecordTellsTheFiles, HandedOverBy
<1>7. RowsAreMade' /\ AwakeOnlyAfterCommit' /\ CheckoutIsCurrent'
  BY <1>1 DEF HandoffInv, RowsAreMade, AwakeOnlyAfterCommit, CheckoutIsCurrent, HandedOverBy
<1> QED BY <1>2, <1>3, <1>4, <1>5, <1>6, <1>7 DEF HandoffInv

(***************************************************************************)
(* An operation is inserted: it has left no trace.                         *)
(***************************************************************************)
LEMMA InsertedBlank ==
  ASSUME HandoffInv, NEW o \in Ops, NEW n \in Nodes, phase[o] = "absent",
         phase' = [phase EXCEPT ![o] = "queued"], node' = [node EXCEPT ![o] = n]
  PROVE  /\ \A q \in Ops : q # o => phase'[q] = phase[q] /\ node'[q] = node[q]
         /\ phase'[o] = "queued" /\ node'[o] = n
         /\ flight[o] = "off" /\ work[o] = "off" /\ kind[o] = "move"
         /\ import[o].phase = "absent" /\ import[o].native = 0
         /\ \A q \in Ops : (phase'[q] \in {"activating", "complete"}) <=> HandedOverBy(q)
         /\ phase' \in [Ops -> OpPhases] /\ node' \in [Ops -> Nodes \cup {Local}]
<1>1. phase \in [Ops -> OpPhases] /\ node \in [Ops -> Nodes \cup {Local}]
  BY DEF HandoffInv, TypeOK
<1>2. flight[o] = "off" /\ work[o] = "off" /\ kind[o] = "move"
      /\ import[o] = [phase |-> "absent", native |-> 0]
  BY DEF HandoffInv, AbsentIsBlank
<1>3. \A q \in Ops : q # o => phase'[q] = phase[q] /\ node'[q] = node[q]
  BY <1>1
<1>4. phase'[o] = "queued" /\ node'[o] = n
  BY <1>1
<1>5. \A q \in Ops : (phase'[q] \in {"activating", "complete"}) <=> HandedOverBy(q)
  BY <1>3, <1>4 DEF HandedOverBy
<1>6. phase' \in [Ops -> OpPhases] /\ node' \in [Ops -> Nodes \cup {Local}]
  BY <1>1
<1> QED BY <1>2, <1>3, <1>4, <1>5, <1>6

LEMMA MoveInsertedKeeps ==
  ASSUME HandoffInv, NEW o \in Ops, NEW n \in Nodes, MoveInserted(o, n)
  PROVE  HandoffInv'
<1>1. /\ UNCHANGED <<kind, bound, owner, local, flight, resuming, import, copy, transcript,
                     work, launches, crashes>>
      /\ asking[n] > 0 /\ asking' = [asking EXCEPT ![n] = asking[n] - 1]
  BY DEF MoveInserted, rows, device
<1>2. asking \in [Nodes -> Nat] /\ asking[n] \in Nat
  BY DEF HandoffInv, TypeOK
<1>3. asking' \in [Nodes -> Nat]
  <2>1. asking[n] - 1 \in Nat
    BY <1>1, <1>2
  <2> QED BY <1>1, <1>2, <2>1
<1>4. local.state # "none"
  <2>1. asking[n] # 0
    BY <1>1, <1>2
  <2> QED BY <2>1 DEF HandoffInv, LaunchIsAlone
<1>5. CASE UNCHANGED rows
  <2>1. UNCHANGED <<phase, node>>
    BY <1>5 DEF rows
  <2>2. TypeOK'
    BY <1>1, <1>3, <2>1 DEF HandoffInv, TypeOK
  <2>3. AbsentIsBlank' /\ FlightFollowsPhase' /\ LockIsExclusive' /\ SourceStandsStill'
    BY <1>1, <2>1 DEF HandoffInv, AbsentIsBlank, FlightFollowsPhase, LockIsExclusive,
       SourceStandsStill
  <2>4. RunsAtOwner' /\ LaunchIsAlone'
    BY <1>1, <1>4, <2>1 DEF HandoffInv, RunsAtOwner, LaunchIsAlone
  <2>5. RecordFollowsFlight' /\ RecordTellsTheFiles'
    BY <1>1, <2>1 DEF HandoffInv, RecordFollowsFlight, RecordTellsTheFiles, HandedOverBy
  <2>6. RowsAreMade' /\ AwakeOnlyAfterCommit' /\ CheckoutIsCurrent'
    BY <1>1, <2>1 DEF HandoffInv, RowsAreMade, AwakeOnlyAfterCommit, CheckoutIsCurrent,
       HandedOverBy
  <2> QED BY <2>2, <2>3, <2>4, <2>5, <2>6 DEF HandoffInv
<1>6. CASE ~UNCHANGED rows
  <2>1. /\ phase[o] = "absent"
        /\ phase' = [phase EXCEPT ![o] = "queued"] /\ node' = [node EXCEPT ![o] = n]
    BY <1>6 DEF MoveInserted, NextOp, SetPhase
  <2>2. TypeOK'
    BY <1>1, <1>3, <2>1, InsertedBlank DEF HandoffInv, TypeOK
  <2>3. AbsentIsBlank'
    BY <1>1, <2>1, InsertedBlank DEF HandoffInv, AbsentIsBlank
  <2>4. FlightFollowsPhase' /\ LockIsExclusive' /\ SourceStandsStill'
    BY <1>1, <2>1, InsertedBlank DEF HandoffInv, FlightFollowsPhase,
       LockIsExclusive, SourceStandsStill
  <2>5. RunsAtOwner'
    BY <1>1 DEF HandoffInv, RunsAtOwner
  <2>6. LaunchIsAlone'
    BY <1>1, <1>4, <2>1, InsertedBlank DEF HandoffInv, LaunchIsAlone
  <2>7. RecordFollowsFlight'
    BY <1>1, <2>1, InsertedBlank DEF HandoffInv, RecordFollowsFlight, HandedOverBy
  <2>8. /\ flight[o] = "off" /\ work[o] = "off" /\ import[o].phase = "absent"
        /\ import[o].native = 0
        /\ \A q \in Ops : q # o => node'[q] = node[q]
    BY <2>1, InsertedBlank
  <2>9. RecordTellsTheFiles'
    BY <1>1, <2>8 DEF HandoffInv, RecordTellsTheFiles
  <2>10. RowsAreMade' /\ AwakeOnlyAfterCommit' /\ CheckoutIsCurrent'
    BY <1>1, <2>1, InsertedBlank DEF HandoffInv, RowsAreMade, AwakeOnlyAfterCommit,
       CheckoutIsCurrent, HandedOverBy
  <2> QED BY <2>2, <2>3, <2>4, <2>5, <2>6, <2>7, <2>9, <2>10 DEF HandoffInv
<1> QED BY <1>5, <1>6

LEMMA LaunchQueuedKeeps ==
  ASSUME HandoffInv, NEW o \in Ops, NEW n \in Nodes, LaunchQueued(o, n)
  PROVE  HandoffInv'
<1>1. /\ UNCHANGED <<bound, local, flight, asking, resuming, import, copy, transcript, work,
                     launches, crashes>>
      /\ local.state = "none" /\ owner = Local /\ owner' = n /\ phase[o] = "absent"
      /\ kind' = [kind EXCEPT ![o] = "launch"]
      /\ phase' = [phase EXCEPT ![o] = "queued"] /\ node' = [node EXCEPT ![o] = n]
  BY DEF LaunchQueued, NextOp, SetPhase, memory, device
<1>2. /\ kind' \in [Ops -> {"move", "launch"}]
      /\ \A q \in Ops : kind'[q] = IF q = o THEN "launch" ELSE kind[q]
  BY <1>1 DEF HandoffInv, TypeOK

\* No operation has been inserted before.
<1>3. \A q \in Ops : phase[q] = "absent" /\ kind[q] = "move"
  <2>1. \A q \in Ops : phase[q] # "absent" => kind[q] = "launch" /\ kind[q] = "move"
    BY <1>1, OwnedHere DEF HandoffInv, LaunchIsAlone
  <2> QED BY <2>1 DEF HandoffInv, AbsentIsBlank
<1>4. \A q \in Ops : /\ flight[q] = "off" /\ work[q] = "off"
                     /\ import[q].phase = "absent" /\ import[q].native = 0
  BY <1>3 DEF HandoffInv, AbsentIsBlank
<1>5. resuming = "no" /\ \A m \in Nodes : copy[m].state \notin {"starting", "running"}
  BY <1>1, OwnedHere DEF HandoffInv, RunsAtOwner, TypeOK
<1>6. TypeOK'
  BY <1>1, <1>2, InsertedBlank DEF HandoffInv, TypeOK
<1>7. /\ phase'[o] = "queued" /\ node'[o] = n
      /\ \A q \in Ops : q # o => phase'[q] = phase[q]
  BY <1>1, InsertedBlank
<1>8. AbsentIsBlank'
  <2>1. \A q \in Ops : q # o => /\ flight[q] = "off" /\ work[q] = "off" /\ kind'[q] = "move"
                                /\ import[q] = [phase |-> "absent", native |-> 0]
    BY <1>2, <1>3 DEF HandoffInv, AbsentIsBlank
  <2>2. phase'[o] # "absent" /\ node'[o] \in Nodes
    BY <1>7
  <2>3. \A q \in Ops : q # o => phase'[q] = "absent"
    BY <1>3, <1>7
  <2> QED BY <1>1, <2>1, <2>2, <2>3 DEF AbsentIsBlank
<1>9. FlightFollowsPhase' /\ LockIsExclusive' /\ SourceStandsStill'
  BY <1>1, <1>4 DEF FlightFollowsPhase, LockIsExclusive, SourceStandsStill
<1>10. RunsAtOwner'
  BY <1>1, <1>5 DEF HandoffInv, RunsAtOwner
<1>11. LaunchIsAlone'
  <2>1. \A m \in Nodes : asking[m] = 0
    BY <1>1 DEF HandoffInv, LaunchIsAlone
  <2>2. \A q \in Ops : kind'[q] = "launch" <=> q = o
    BY <1>2, <1>3
  <2>3. \A q \in Ops : phase'[q] # "absent" => q = o
    BY <1>3, <1>7
  <2> QED BY <1>1, <1>7, <2>1, <2>2, <2>3 DEF LaunchIsAlone
<1>12. \A q \in Ops : phase'[q] \notin {"activating", "complete"}
  BY <1>1, <1>3, InsertedBlank DEF HandedOverBy
<1>13. RecordFollowsFlight'
  BY <1>1, <1>4, <1>12 DEF RecordFollowsFlight, HandedOverBy
<1>14. RecordTellsTheFiles'
  BY <1>1, <1>4 DEF RecordTellsTheFiles
<1>15. RowsAreMade'
  BY <1>1 DEF HandoffInv, RowsAreMade
<1>16. AwakeOnlyAfterCommit'
  <2>1. \A m \in Nodes : copy[m].state # "none" => copy[m].dormant
    BY <1>3 DEF HandoffInv, RowsAreMade, AwakeOnlyAfterCommit, HandedOverBy
  <2> QED BY <1>1, <2>1 DEF AwakeOnlyAfterCommit
<1>17. CheckoutIsCurrent'
  BY <1>12 DEF CheckoutIsCurrent, HandedOverBy
<1> QED BY <1>6, <1>8, <1>9, <1>10, <1>11, <1>13, <1>14, <1>15, <1>16, <1>17 DEF HandoffInv

(***************************************************************************)
(* All together.                                                           *)
(***************************************************************************)

LEMMA DeviceKeeps ==
  ASSUME HandoffInv, NEW o \in Ops, Device(o)
  PROVE  HandoffInv'
  BY FinalizeArrivesKeeps, UnpackedKeeps, FinalizeFailsKeeps, StateImportedKeeps, RecordedKeeps,
     ActivateArrivesKeeps, MarkedKeeps DEF Device

LEMMA SessionKeeps ==
  ASSUME HandoffInv, Session
  PROVE  HandoffInv'
  BY TurnKeeps, ResumeAskedKeeps, ResumeLocksKeeps, ResumeEndsKeeps, StopLocalKeeps,
     MoveAskedKeeps, RemoteResumeKeeps, RemoteStopKeeps DEF Session

LEMMA StutterKeeps ==
  ASSUME HandoffInv, UNCHANGED vars
  PROVE  HandoffInv'
<1> USE DEF vars, rows, memory, device
<1>1. TypeOK'
  BY DEF HandoffInv, TypeOK
<1>2. AbsentIsBlank' /\ FlightFollowsPhase' /\ LockIsExclusive' /\ SourceStandsStill'
  BY DEF HandoffInv, AbsentIsBlank, FlightFollowsPhase, LockIsExclusive, SourceStandsStill
<1>3. RunsAtOwner' /\ LaunchIsAlone'
  BY DEF HandoffInv, RunsAtOwner, LaunchIsAlone
<1>4. RecordFollowsFlight' /\ RecordTellsTheFiles'
  BY DEF HandoffInv, RecordFollowsFlight, RecordTellsTheFiles, HandedOverBy
<1>5. RowsAreMade' /\ AwakeOnlyAfterCommit' /\ CheckoutIsCurrent'
  BY DEF HandoffInv, RowsAreMade, AwakeOnlyAfterCommit, CheckoutIsCurrent, HandedOverBy
<1> QED BY <1>1, <1>2, <1>3, <1>4, <1>5 DEF HandoffInv

LEMMA NextKeeps ==
  ASSUME HandoffInv, [Next]_vars
  PROVE  HandoffInv'
  BY SessionKeeps, FlightKeeps, DeviceKeeps, MoveInsertedKeeps, LaunchQueuedKeeps,
     StopTransferKeeps, RetryKeeps, LaunchDoneKeeps, DeviceCrashKeeps, ControllerCrashKeeps,
     StutterKeeps DEF Next

LEMMA InitHolds == Init => HandoffInv
<1> SUFFICES ASSUME Init PROVE HandoffInv
  OBVIOUS
<1>1. TypeOK
  BY DEF Init, TypeOK, ImportPhases, CopyStates, WorkStates
<1>2. AbsentIsBlank /\ FlightFollowsPhase /\ LockIsExclusive /\ SourceStandsStill
  BY DEF Init, AbsentIsBlank, FlightFollowsPhase, LockIsExclusive, SourceStandsStill
<1>3. RunsAtOwner /\ LaunchIsAlone
  BY DEF Init, RunsAtOwner, LaunchIsAlone
<1>4. RecordFollowsFlight /\ RecordTellsTheFiles
  BY DEF Init, RecordFollowsFlight, RecordTellsTheFiles, HandedOverBy
<1>5. RowsAreMade /\ AwakeOnlyAfterCommit /\ CheckoutIsCurrent
  BY DEF Init, RowsAreMade, AwakeOnlyAfterCommit, CheckoutIsCurrent, HandedOverBy
<1> QED BY <1>1, <1>2, <1>3, <1>4, <1>5 DEF HandoffInv

-----------------------------------------------------------------------------
(* The theorems.                                                           *)

(***************************************************************************)
(* The controller's rows and flights, the session here and the records and *)
(* rows of the devices fit together in every state, HandoffInv.            *)
(***************************************************************************)
THEOREM HandoffInvariant == Spec => []HandoffInv
<1>1. HandoffInv /\ [Next]_vars => HandoffInv'
  BY NextKeeps
<1> QED BY <1>1, InitHolds, PTL DEF Spec

(***************************************************************************)
(* Every variable has its type: no more than two launches overlap, and no  *)
(* phase or place of a flight is reached that the code does not know.      *)
(***************************************************************************)
THEOREM HandoffTypes == Spec => []TypeOK
<1>1. HandoffInv => TypeOK
  BY DEF HandoffInv
<1> QED BY <1>1, HandoffInvariant, PTL

(***************************************************************************)
(* Who owns the session after a handover has its row and the conversation  *)
(* it received (OwnerHasImport): the transaction of performOperation comes *)
(* after the device has answered "imported".                               *)
(***************************************************************************)
THEOREM OwnersHaveTheirImport == Spec => []OwnerHasImport
<1>1. HandoffInv => OwnerHasImport
  <2> SUFFICES ASSUME HandoffInv, NEW o \in Ops, HandedOverBy(o)
               PROVE  /\ owner = node[o]
                      /\ copy[owner].state # "none" /\ copy[owner].by = o
                      /\ transcript[owner] = import[o].native
    BY DEF OwnerHasImport
  <2>1. import[o].phase \in {"imported", "active"} /\ owner = node[o]
    BY DEF HandoffInv, RecordFollowsFlight
  <2> QED BY <2>1 DEF HandoffInv, RecordTellsTheFiles
<1> QED BY <1>1, HandoffInvariant, PTL

(***************************************************************************)
(* Before its operation has committed, a session is not awake on a device  *)
(* (AwakeOnlyAfterCommit), whatever was lost, retried or restarted.        *)
(***************************************************************************)
THEOREM TransfersStayDormant == Spec => []AwakeOnlyAfterCommit
<1>1. HandoffInv => AwakeOnlyAfterCommit
  BY DEF HandoffInv
<1> QED BY <1>1, HandoffInvariant, PTL

(***************************************************************************)
(* The checkout a move has handed over is the last one the session worked  *)
(* on here (CheckoutIsCurrent), although the archive lock is given up      *)
(* between two attempts.                                                   *)
(***************************************************************************)
THEOREM NoFileLeftBehind == Spec => []CheckoutIsCurrent
<1>1. HandoffInv => CheckoutIsCurrent
  BY DEF HandoffInv
<1> QED BY <1>1, HandoffInvariant, PTL

-----------------------------------------------------------------------------
(***************************************************************************)
(* A cancelled operation stays cancelled (StopIsFinal), whatever its       *)
(* flight does next.                                                       *)
(***************************************************************************)
LEMMA StopsStay ==
  ASSUME HandoffInv, [Next]_vars, NEW o \in Ops, phase[o] = "cancelled"
  PROVE  phase'[o] = "cancelled"
<1> SUFFICES ASSUME phase' # phase
             PROVE  phase'[o] = "cancelled"
  OBVIOUS
<1>1. phase \in [Ops -> OpPhases]
  BY DEF HandoffInv, TypeOK

\* Who writes the phase of q does not find it cancelled.
<1>2. ASSUME NEW q \in Ops, NEW p \in OpPhases, phase' = [phase EXCEPT ![q] = p],
             phase[q] # "cancelled"
      PROVE  phase'[o] = "cancelled"
  BY <1>1, <1>2
<1>3. ASSUME NEW q \in Ops, Fails(q)
      PROVE  phase'[o] = "cancelled"
  <2>1. phase[q] \in Unfinished /\ phase' = [phase EXCEPT ![q] = "failed"]
    BY <1>3 DEF Fails, SetPhase
  <2>2. phase[q] # "cancelled" /\ "failed" \in OpPhases
    BY <2>1
  <2> QED BY <1>2, <2>1, <2>2
<1>4. ASSUME NEW q \in Ops, Flight(q)
      PROVE  phase'[o] = "cancelled"
  <2> SUFFICES \/ Fails(q) \/ UNCHANGED phase
               \/ \E p \in OpPhases : phase[q] # "cancelled" /\ phase' = [phase EXCEPT ![q] = p]
    BY <1>2, <1>3
  <2>1. CASE FlightStarts(q)
    BY <2>1 DEF FlightStarts
  <2>2. CASE LockTried(q)
    BY <2>2 DEF LockTried
  <2>3. CASE MoveBegins(q)
    BY <2>3 DEF MoveBegins, SetPhase, MayUpdate
  <2>4. CASE LaunchBegins(q)
    BY <2>4 DEF LaunchBegins, SetPhase, MayUpdate
  <2>5. CASE StatusAnswered(q)
    BY <2>5 DEF StatusAnswered
  <2>6. CASE Prepared(q)
    BY <2>6 DEF Prepared
  <2>7. CASE Uploaded(q)
    BY <2>7 DEF Uploaded
  <2>8. CASE Importing(q)
    BY <2>8 DEF Importing, SetPhase, MayUpdate
  <2>9. CASE Committed(q)
    BY <2>9 DEF Committed, SetPhase, MayUpdate
  <2>10. CASE Completed(q)
    <3>1. phase[q] = "activating" /\ phase' = [phase EXCEPT ![q] = "complete"]
      BY <2>10 DEF Completed, SetPhase, HandoffInv, FlightFollowsPhase, Activating
    <3> QED BY <3>1
  <2>11. CASE RequestFails(q)
    BY <2>11 DEF RequestFails
  <2> QED BY <1>4, <2>1, <2>2, <2>3, <2>4, <2>5, <2>6, <2>7, <2>8, <2>9, <2>10, <2>11 DEF Flight
<1>5. ASSUME NEW q \in Ops, Device(q)
      PROVE  phase'[o] = "cancelled"
  BY <1>5 DEF Device, FinalizeArrives, Unpacked, FinalizeFails, StateImported, Recorded,
     ActivateArrives, Marked, Controller, rows
<1>6. CASE Session
  BY <1>6 DEF Session, Turn, ResumeAsked, ResumeLocks, ResumeEnds, StopLocal, MoveAsked,
     RemoteResume, RemoteStop, Controller, rows
<1>7. ASSUME NEW q \in Ops, NEW n \in Nodes, MoveInserted(q, n) \/ LaunchQueued(q, n)
      PROVE  phase'[o] = "cancelled"
  <2>1. phase[q] = "absent" /\ phase' = [phase EXCEPT ![q] = "queued"]
    BY <1>7 DEF MoveInserted, LaunchQueued, NextOp, SetPhase, rows
  <2> QED BY <1>2, <2>1
<1>8. ASSUME NEW q \in Ops, StopTransfer(q)
      PROVE  phase'[o] = "cancelled"
  BY <1>2, <1>8 DEF StopTransfer, InProgress, SetPhase
<1>9. ASSUME NEW q \in Ops, Retry(q)
      PROVE  phase'[o] = "cancelled"
  BY <1>2, <1>9 DEF Retry, SetPhase
<1>10. ASSUME NEW n \in Nodes, LaunchDone(n) \/ DeviceCrash(n)
      PROVE  phase'[o] = "cancelled"
  BY <1>10 DEF LaunchDone, DeviceCrash, Controller, rows
<1>11. CASE ControllerCrash
  BY <1>11 DEF ControllerCrash, rows
<1>12. CASE UNCHANGED vars
  BY <1>12 DEF vars, rows
<1> QED BY <1>4, <1>5, <1>6, <1>7, <1>8, <1>9, <1>10, <1>11, <1>12 DEF Next

THEOREM StopsAreFinal == Spec => StopIsFinal
<1>1. HandoffInv /\ [Next]_vars =>
        [\A o \in Ops : phase[o] = "cancelled" => phase'[o] = "cancelled"]_vars
  BY StopsStay
<1> QED BY <1>1, HandoffInvariant, PTL DEF Spec, StopIsFinal

-----------------------------------------------------------------------------
(***************************************************************************)
(* Whatever runs, runs where the owner is: nowhere or there.               *)
(***************************************************************************)
LEMMA LiveIsAtOwner ==
  ASSUME HandoffInv
  PROVE  LiveAt \in {{}, {owner}}
<1>1. LiveAt \subseteq {owner}
  <2> SUFFICES ASSUME NEW p \in Nodes \cup {Local},
                      IF p = Local THEN local.state = "running"
                                   ELSE copy[p].state \in {"starting", "running"}
               PROVE  p = owner
    BY DEF LiveAt
  <2> QED BY DEF HandoffInv, RunsAtOwner
<1> QED BY <1>1

(***************************************************************************)
(* The session changes hands once, while it rests.                         *)
(***************************************************************************)
LEMMA HandsOver ==
  ASSUME HandoffInv, Next, owner' # owner
  PROVE  /\ owner = Local /\ owner' \in Nodes
         /\ local.state # "running" /\ UNCHANGED <<local, copy>>
<1>1. ASSUME NEW o \in Ops, Flight(o)
      PROVE  Committed(o) /\ owner' = node[o]
  <2>1. Committed(o)
    BY <1>1 DEF Flight, FlightStarts, LockTried, MoveBegins, LaunchBegins, StatusAnswered, Prepared,
       Uploaded, Importing, Completed, RequestFails, Keep
  <2> QED BY <2>1 DEF Committed
<1>2. ASSUME NEW o \in Ops, Committed(o), owner' = node[o]
      PROVE  /\ owner = Local /\ owner' \in Nodes
             /\ local.state # "running" /\ UNCHANGED <<local, copy>>
  <2>1. flight[o] \in Transferring /\ UNCHANGED <<local, copy>>
    BY <1>2 DEF Committed, KeepBut, device, Transferring
  <2>2. kind[o] = "move"
    BY <1>2 DEF HandoffInv, TypeOK, LaunchIsAlone
  <2>3. owner = Local /\ local.state = "stopped"
    BY <2>1, <2>2, WhileTransferring
  <2>4. node[o] \in Nodes
    BY <2>1, WhileTransferring DEF HandoffInv, AbsentIsBlank, Undecided
  <2> QED BY <1>2, <2>1, <2>3, <2>4
<1>3. ASSUME NEW o \in Ops, NEW n \in Nodes, LaunchQueued(o, n)
      PROVE  /\ owner = Local /\ owner' \in Nodes
             /\ local.state # "running" /\ UNCHANGED <<local, copy>>
  BY <1>3 DEF LaunchQueued, device
<1>4. ~Session
  BY DEF Session, Turn, ResumeAsked, ResumeLocks, ResumeEnds, StopLocal, MoveAsked, RemoteResume,
     RemoteStop, Controller, rows
<1>5. \A o \in Ops : ~Device(o)
  BY DEF Device, FinalizeArrives, Unpacked, FinalizeFails, StateImported, Recorded,
     ActivateArrives, Marked, Controller, rows
<1>6. \A o \in Ops, n \in Nodes : ~MoveInserted(o, n)
  BY DEF MoveInserted, rows
<1>7. \A o \in Ops : ~StopTransfer(o) /\ ~Retry(o)
  BY DEF StopTransfer, Retry
<1>8. \A n \in Nodes : ~LaunchDone(n) /\ ~DeviceCrash(n)
  BY DEF LaunchDone, DeviceCrash, Controller, rows
<1>9. ~ControllerCrash
  BY DEF ControllerCrash, rows
<1> QED BY <1>1, <1>2, <1>3, <1>4, <1>5, <1>6, <1>7, <1>8, <1>9 DEF Next

(***************************************************************************)
(* The handoff keeps its promise to the user (SessionOwnership): one owner *)
(* at a time, its agent there and nowhere else, handed over while nothing  *)
(* runs.                                                                   *)
(***************************************************************************)
THEOREM HandoffImplementsOwnership == Spec => ImplementsSessionOwnership
<1>1. Init => Ownership!SOInit
  BY DEF Init, Ownership!SOInit, LiveAt
<1>2. HandoffInv /\ HandoffInv' /\ [Next]_vars => [Ownership!SONext]_<<owner, LiveAt>>
  <2> SUFFICES ASSUME HandoffInv, HandoffInv', [Next]_vars
               PROVE  [Ownership!SONext]_<<owner, LiveAt>>
    OBVIOUS
  <2>1. LiveAt \in {{}, {owner}}
    BY LiveIsAtOwner
  <2>2. LiveAt' \in {{}, {owner'}}
    <3>1. LiveAt' \subseteq {owner'}
      <4> SUFFICES ASSUME NEW p \in Nodes \cup {Local},
                          IF p = Local THEN local'.state = "running"
                                       ELSE copy'[p].state \in {"starting", "running"}
                   PROVE  p = owner'
        BY DEF LiveAt
      <4> QED BY DEF HandoffInv, RunsAtOwner
    <3> QED BY <3>1
  <2>3. CASE owner' = owner
    <3>1. CASE LiveAt' = LiveAt
      BY <2>3, <3>1
    <3>2. CASE LiveAt = {} /\ LiveAt' = {owner}
      BY <2>3, <3>2 DEF Ownership!SONext, Ownership!Start
    <3>3. CASE LiveAt # {} /\ LiveAt' = {}
      BY <2>3, <3>3 DEF Ownership!SONext, Ownership!Stop
    <3> QED BY <2>1, <2>2, <2>3, <3>1, <3>2, <3>3
  <2>4. CASE owner' # owner
    <3>1. /\ owner = Local /\ owner' \in Nodes
          /\ local.state # "running" /\ UNCHANGED <<local, copy>>
      BY <2>4, HandsOver DEF vars, rows
    <3>2. LiveAt' = LiveAt
      BY <3>1 DEF LiveAt
    <3>3. Local \notin LiveAt
      BY <3>1 DEF LiveAt
    <3>4. LiveAt = {}
      BY <2>1, <3>1, <3>3
    <3> QED BY <3>1, <3>2, <3>4 DEF Ownership!SONext, Ownership!HandOver
  <2> QED BY <2>3, <2>4
<1> QED BY <1>1, <1>2, HandoffInvariant, PTL DEF Spec, ImplementsSessionOwnership, Ownership!SOSpec

=============================================================================
