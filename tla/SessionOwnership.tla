-------------------------- MODULE SessionOwnership --------------------------
(***************************************************************************)
(* What the handoff between execution devices promises to the user of one  *)
(* session: one device owns it, its agent runs on that device and nowhere  *)
(* else, and it changes hands once, from this controller to a device,      *)
(* while nothing runs.  ExecutionHandoff implements it.                    *)
(***************************************************************************)
CONSTANTS
  Nodes,    \* the execution devices
  Local     \* the controller's own node id, 'local', not one of Nodes

VARIABLES
  owner,    \* who owns the session
  live      \* where an agent of it runs

SOInit ==
  /\ owner = Local
  /\ live \in SUBSET {Local}

Start ==
  /\ live = {}
  /\ live' = {owner}
  /\ UNCHANGED owner

Stop ==
  /\ live # {}
  /\ live' = {}
  /\ UNCHANGED owner

HandOver(n) ==
  /\ owner = Local
  /\ live = {}
  /\ owner' = n
  /\ UNCHANGED live

SONext == Start \/ Stop \/ \E n \in Nodes : HandOver(n)

SOSpec == SOInit /\ [][SONext]_<<owner, live>>

=============================================================================
