----------------------------- MODULE InputDelivery -----------------------------
(***************************************************************************)
(* How an operator's message reaches the agent in a tmux pane              *)
(* (src/src/sessions.js: deliverReply, sendText; src/src/agent_submit.js;  *)
(* src/src/codex_input_receipt.js).  A browser that lost the answer sends  *)
(* the same message again under the same client_message_id; the pane       *)
(* accepts keys without saying whether the agent took them; the agent's    *)
(* own history tells, some time later.                                     *)
(*                                                                         *)
(* One Codex session.  Messages have different words, so the identity of a *)
(* message stands for its words.  Keys wait in the pane until the agent    *)
(* reads them.  A screen is read when the operator's keys and a clearing   *)
(* C-u before it have been echoed; pastes and Enters may take any time.    *)
(*                                                                         *)
(* An operator whose comment calls it faulty is a variant that plays no    *)
(* part in Spec: a slip the code could have made, which breaks a property. *)
(***************************************************************************)
EXTENDS Integers, Sequences, Functions

CONSTANTS
    Messages,      \* client_message_id's
    maxAttempts,   \* Enters of one call of a submission
    MaxPane,       \* bound: keys that wait in the pane
    MaxTroubles    \* bound: keys in the terminal, sends of agents, restarts, pastes that fail,
                   \* histories that cannot be opened

Typed == "typed"        \* what the operator types in the terminal
Brain == "brain"        \* what an agent of the server says
Words == Messages \cup {Typed, Brain}
None == -1              \* no cursor

ASSUME DeliveryAssumption ==
    /\ Messages \cap {Typed, Brain} = {}
    /\ {maxAttempts, MaxPane, MaxTroubles} \subseteq Nat
    /\ maxAttempts > 0

VARIABLES
    composer,   \* the pieces of the agent's input line
    pane,       \* keys the agent has not read
    whole,      \* history: how often the agent was given just this message
    got,        \* history: how often the message was in what the agent was given
    mixed,      \* history: the server's Enter has submitted something that is not one message
    logged,     \* how often the agent's own history has the message
    row,        \* messages of direction 'in': the durable receipts
    deferred,   \* the cursor of the input-unconfirmed event, or None
    run,        \* the delivery or the retry of a submission in flight
    line,       \* serializeAgentInput: who holds the pane, and who waits for it
    tx,         \* the submission a run or pendingSubmissionRetries holds
    retained,   \* keys of pendingSubmissionRetries
    loose,      \* history: deliveries that left their words in the pane and no record of it
    troubles    \* the troubles of MaxTroubles that have happened

vars == <<composer, pane, whole, got, mixed, logged, row, deferred, run, line, tx, retained,
          loose, troubles>>
agent == <<composer, whole, got, mixed, logged>>
memory == <<run, line, tx, retained>>

Off == [pc |-> "off", left |-> 0]
\* createAgentSubmission; `own`: inputUnchanged, `cursor`: None without a native receipt.
NoTx == [own |-> FALSE, tried |-> FALSE, observed |-> FALSE, empties |-> 0, cursor |-> None]
Trouble == troubles < MaxTroubles /\ troubles' = troubles + 1
Cursors == Nat \cup {None}

\* Types; a send past the queue holds the pane, and only an unconfirmed message can be taken up
\* again.
TypeOK ==
    /\ composer \in Seq(Words)
    /\ pane \in Seq([key : {"paste"}, word : Words] \cup [key : {"enter", "return", "kill"}])
    /\ Len(pane) <= MaxPane
    /\ {whole, got, logged, loose} \subseteq [Messages -> Nat]
    /\ \A m \in Messages : logged[m] <= whole[m] /\ whole[m] <= got[m]
    /\ mixed \in BOOLEAN
    /\ row \in [Messages -> BOOLEAN]
    /\ deferred \in [Messages -> Cursors]
    /\ run \in [Messages -> [pc : {"off", "wait", "look", "clear", "paste", "confirm", "screen"},
                             left : 0..maxAttempts]]
    /\ line \in Seq(Messages)
    /\ \A m \in Messages : run[m].pc \notin {"off", "wait"} => line # <<>> /\ Head(line) = m
    /\ tx \in [Messages -> [own : BOOLEAN, tried : BOOLEAN, observed : BOOLEAN, empties : 0..1,
                            cursor : Cursors]]
    /\ retained \subseteq {m \in Messages : deferred[m] # None}
    /\ troubles \in 0..MaxTroubles

-----------------------------------------------------------------------------
(* The pane and the agent in it.                                           *)

Paste(w) == [key |-> "paste", word |-> w]
Enter == [key |-> "enter"]
Return == [key |-> "return"]      \* the operator's own
Kill == [key |-> "kill"]          \* C-u

Into(keys) == Len(pane) + Len(keys) <= MaxPane /\ pane' = pane \o keys

\* markRawInput: whoever pasted before does not own the input line any more.
Disowned == [m \in Messages |-> [tx[m] EXCEPT !.own = FALSE]]

Submitted(by) ==
    /\ composer' = <<>>
    /\ whole' = [m \in Messages |-> IF composer = <<m>> THEN whole[m] + 1 ELSE whole[m]]
    /\ got' = [m \in Messages |-> IF m \in Range(composer) THEN got[m] + 1 ELSE got[m]]
    /\ mixed' = (mixed \/ (by = Enter /\ Len(composer) # 1 /\ Range(composer) \cap Messages # {}))

\* An Enter on an empty line is nothing, and one that follows a paste too closely may be ignored.
Reads ==
    /\ pane # <<>>
    /\ pane' = Tail(pane)
    /\ LET k == Head(pane) IN
       \/ /\ k.key = "paste" /\ composer' = Append(composer, k.word)
          /\ UNCHANGED <<whole, got, mixed>>
       \/ /\ k = Kill /\ composer' = <<>>
          /\ UNCHANGED <<whole, got, mixed>>
       \/ /\ k \in {Enter, Return} /\ composer # <<>> /\ Submitted(k)
       \/ /\ k \in {Enter, Return} /\ UNCHANGED <<composer, whole, got, mixed>>
    /\ UNCHANGED <<logged, row, deferred, memory, loose, troubles>>

\* The agent writes its history when it comes to it.
Logs(m) ==
    /\ logged[m] < whole[m]
    /\ logged' = [logged EXCEPT ![m] = @ + 1]
    /\ UNCHANGED <<composer, pane, whole, got, mixed, row, deferred, memory, loose, troubles>>

\* The operator types in the terminal (sendRaw, sendKey).
TypesKey(k) ==
    /\ Trouble
    /\ Into(<<k>>)
    /\ tx' = Disowned
    /\ UNCHANGED <<agent, row, deferred, run, line, retained, loose>>

\* An agent of the server sends (kernelCtx.send): no look at the line, no receipt.
AgentSends ==
    /\ Trouble
    /\ line = <<>>
    /\ Into(<<Kill, Paste(Brain), Enter>>)
    /\ tx' = Disowned
    /\ UNCHANGED <<agent, row, deferred, run, line, retained, loose>>

-----------------------------------------------------------------------------
(* deliverReply up to the pane.                                            *)

Move(m, pc) == run' = [run EXCEPT ![m].pc = pc] /\ UNCHANGED line
Ends(m) == run' = [run EXCEPT ![m] = Off] /\ line' = Tail(line)

\* Faulty: the input-unconfirmed event is not looked for.
FreshUnlessRow(m) == ~row[m]
\* No durable trace of an earlier delivery: paste.
Fresh(m) == ~row[m] /\ deferred[m] = None
\* An unconfirmed one is never pasted again, but its submission may be taken up again.
Again(m) == ~row[m] /\ deferred[m] # None /\ m \in retained

\* POST /input of a pane that lives, in line for the pane; another POST of the same identity joins
\* the promise in pendingOperatorInputs.
Post(m) ==
    /\ run[m] = Off
    /\ Fresh(m) \/ Again(m)
    /\ run' = [run EXCEPT ![m] = [pc |-> "wait", left |-> maxAttempts]]
    /\ line' = Append(line, m)
    /\ UNCHANGED <<agent, pane, row, deferred, tx, retained, loose, troubles>>

\* GET /input-receipt, and the first thing a POST does for an unconfirmed message.
Confirms(m) ==
    /\ deferred[m] # None /\ ~row[m]
    /\ logged[m] > deferred[m]
    /\ row' = [row EXCEPT ![m] = TRUE]
    /\ retained' = retained \ {m}
    /\ UNCHANGED <<agent, pane, deferred, run, line, tx, loose, troubles>>

\* More than 128 submissions are retained: the oldest is dropped.
Evict(m) ==
    /\ m \in retained /\ run[m] = Off
    /\ retained' = retained \ {m} /\ tx' = [tx EXCEPT ![m] = NoTx]
    /\ UNCHANGED <<agent, pane, row, deferred, run, line, loose, troubles>>

-----------------------------------------------------------------------------
(* sendTextUnlocked.                                                       *)

\* Faulty: a send does not wait for the one before it.
Unserialized(m) == TRUE
\* serializeAgentInput: one send at a time has the pane.
MyTurn(m) == Head(line) = m

\* A retry goes on with its submission.  A new send takes the line from the others, opens the
\* agent's history at the watermark where it stands, and reads the revision of the input.
Turn(m) ==
    /\ run[m].pc = "wait" /\ MyTurn(m)
    /\ \/ /\ ~Fresh(m) /\ Move(m, "confirm")
          /\ UNCHANGED <<tx, troubles>>
       \/ /\ Fresh(m) /\ Move(m, "look")
          /\ tx' = [Disowned EXCEPT ![m] = [NoTx EXCEPT !.own = TRUE, !.cursor = logged[m]]]
          /\ UNCHANGED troubles
       \/ /\ Fresh(m) /\ Move(m, "look")
          /\ Trouble
          /\ tx' = [Disowned EXCEPT ![m] = [NoTx EXCEPT !.own = TRUE]]
    /\ UNCHANGED <<agent, pane, row, deferred, retained, loose>>

\* The operator's keys and the C-u have been echoed.
Echoed == Range(pane) \cap {Return, Kill, Paste(Typed)} = {}

\* operatorInputPlan: the same words left on the line are submitted as they are; an empty line, a
\* draft to displace, or a working agent without a composer goes on; else the message is refused.
Look(m) ==
    /\ run[m].pc = "look" /\ Echoed
    /\ \/ composer = <<m>> /\ Move(m, "confirm") /\ UNCHANGED tx
       \/ Move(m, "clear") /\ UNCHANGED tx
       \/ composer # <<>> /\ Ends(m) /\ tx' = [tx EXCEPT ![m] = NoTx]
    /\ UNCHANGED <<agent, pane, row, deferred, retained, loose, troubles>>

\* Faulty: the input may change between the C-u and the paste.
Unwatched(m) == TRUE
\* inputUnchanged.
Unchanged(m) == tx[m].own

\* The input has changed: nothing is sent any more.
InputChanged(m) ==
    /\ run[m].pc \in {"clear", "paste"} /\ ~Unchanged(m)
    /\ Ends(m) /\ tx' = [tx EXCEPT ![m] = NoTx]
    /\ UNCHANGED <<agent, pane, row, deferred, retained, loose, troubles>>

Clear(m) ==
    /\ run[m].pc = "clear" /\ Unchanged(m)
    /\ Into(<<Kill>>) /\ Move(m, "paste")
    /\ UNCHANGED <<agent, row, deferred, tx, retained, loose, troubles>>

\* A tmux that fails may have pasted all the same.
PasteWords(m) ==
    /\ run[m].pc = "paste" /\ Unchanged(m)
    /\ Into(<<Paste(m)>>)
    /\ \/ /\ Move(m, "confirm")
          /\ UNCHANGED <<tx, loose, troubles>>
       \/ /\ Trouble
          /\ Ends(m) /\ tx' = [tx EXCEPT ![m] = NoTx]
          /\ loose' = [loose EXCEPT ![m] = @ + 1]
    /\ UNCHANGED <<agent, row, deferred, retained>>

-----------------------------------------------------------------------------
(* submit, the loop of createAgentSubmission, and what deliverReply makes  *)
(* of its answer.                                                          *)

Accepted(m) ==
    /\ row' = [row EXCEPT ![m] = TRUE]
    /\ retained' = retained \ {m}
    /\ Ends(m) /\ tx' = [tx EXCEPT ![m] = NoTx]
    /\ UNCHANGED <<deferred, loose>>

\* Faulty: the cursor of the event is where the history has got to.
DeferredCursorNow(m) == logged[m]
DeferredCursor(m) == tx[m].cursor

\* Not confirmed: an event with the cursor, and the submission `t` for a retry; a blind one
\* leaves nothing.
Unconfirmed(m, t) ==
    /\ Ends(m)
    /\ UNCHANGED row
    /\ IF t.cursor = None
       THEN /\ loose' = [loose EXCEPT ![m] = @ + 1]
            /\ tx' = [tx EXCEPT ![m] = NoTx]
            /\ UNCHANGED <<deferred, retained>>
       ELSE /\ deferred' = [deferred EXCEPT ![m] = IF @ = None THEN DeferredCursor(m) ELSE @]
            /\ retained' = retained \cup {m}
            /\ tx' = [tx EXCEPT ![m] = t]
            /\ UNCHANGED loose

\* The agent's history first.
Confirm(m) ==
    /\ run[m].pc = "confirm"
    /\ IF tx[m].cursor # None /\ logged[m] > tx[m].cursor THEN Accepted(m)
       ELSE IF ~Unchanged(m) THEN Unconfirmed(m, tx[m])
       ELSE Move(m, "screen") /\ UNCHANGED <<row, deferred, tx, retained, loose>>
    /\ UNCHANGED <<agent, pane, troubles>>

\* Faulty: one observation of an empty line will do, whether a draft was seen before or not.
ClearedAtOnce(t) == t.tried
\* A draft was seen, and after an Enter the line is seen empty twice.
Cleared(t) == t.observed /\ t.tried /\ t.empties = 1

\* What the composer looks like: it may not be made out.
Views == {IF composer = <<>> THEN "empty" ELSE "draft", "unknown"}
Seen(t, view) == [t EXCEPT !.observed = @ \/ view = "draft",
                           !.empties = IF view = "empty" THEN 1 ELSE 0]

\* The input has changed, or a question has replaced the composer: the submission is over.
Interrupted(m) ==
    /\ run[m].pc = "screen"
    /\ Unconfirmed(m, [tx[m] EXCEPT !.own = FALSE])
    /\ UNCHANGED <<agent, pane, troubles>>

\* One look at the composer: the line has been cleared, an Enter, or patience till the deadline.
\* The first Enter comes in any case, another one on a draft that stays.
Screen(m) ==
    /\ run[m].pc = "screen" /\ Unchanged(m) /\ Echoed
    /\ \E view \in Views :
         LET t == tx[m]
             cleared == view = "empty" /\ Cleared(t)
         IN \/ /\ cleared /\ Accepted(m)
               /\ UNCHANGED pane
            \/ /\ ~cleared
               /\ ~t.tried \/ (view = "draft" /\ run[m].left > 0)
               /\ Into(<<Enter>>)
               /\ tx' = [tx EXCEPT ![m] = [Seen(t, view) EXCEPT !.tried = TRUE, !.empties = 0]]
               /\ run' = [run EXCEPT ![m] = [pc |-> "confirm", left |-> @.left - 1]]
               /\ UNCHANGED <<row, deferred, line, retained, loose>>
            \/ /\ ~cleared /\ t.tried
               /\ tx' = [tx EXCEPT ![m] = Seen(t, view)] /\ Move(m, "confirm")
               /\ UNCHANGED <<pane, row, deferred, retained, loose>>
            \/ /\ ~cleared /\ t.tried
               /\ Unconfirmed(m, Seen(t, view))
               /\ UNCHANGED pane
    /\ UNCHANGED <<agent, troubles>>

-----------------------------------------------------------------------------
\* The server restarts: the pane and the database stay.
Crash ==
    /\ Trouble
    /\ loose' = [m \in Messages |-> IF run[m].pc \in {"confirm", "screen"}
                                         /\ deferred[m] = None
                                      THEN loose[m] + 1 ELSE loose[m]]
    /\ run' = [m \in Messages |-> Off]
    /\ line' = <<>>
    /\ tx' = [m \in Messages |-> NoTx]
    /\ retained' = {}
    /\ UNCHANGED <<agent, pane, row, deferred>>

Init ==
    /\ composer = <<>> /\ pane = <<>>
    /\ whole = [m \in Messages |-> 0] /\ got = whole /\ logged = whole /\ loose = whole
    /\ mixed = FALSE
    /\ row = [m \in Messages |-> FALSE]
    /\ deferred = [m \in Messages |-> None]
    /\ run = [m \in Messages |-> Off]
    /\ line = <<>>
    /\ tx = [m \in Messages |-> NoTx]
    /\ retained = {}
    /\ troubles = 0

Sending(m) == Turn(m) \/ Look(m) \/ InputChanged(m) \/ Clear(m) \/ PasteWords(m)
Submitting(m) == Confirm(m) \/ Interrupted(m) \/ Screen(m)

Next ==
    \/ \E m \in Messages : Post(m) \/ Sending(m) \/ Submitting(m) \/ Confirms(m) \/ Evict(m) \/ Logs(m)
    \/ \E k \in {Paste(Typed), Return, Kill} : TypesKey(k)
    \/ Reads \/ AgentSends \/ Crash

Spec == Init /\ [][Next]_vars

\* The agent reads its keys and writes its history, the open page asks for the receipt again
\* (scheduleComposerReceipt).
FairSpec == Spec /\ WF_vars(Reads) /\ \A m \in Messages : WF_vars(Logs(m)) /\ WF_vars(Confirms(m))

-----------------------------------------------------------------------------
(* Properties.                                                             *)

\* A message is given to the agent once, however often the browser sends it again, whatever is
\* typed and wherever the server is cut off: a second time needs an earlier delivery that left its
\* words in the pane and no record of them.  What the server calls delivered was submitted, on its
\* own: its Enter never sends a message mixed with other words.
ExactlyOnce ==
    \A m \in Messages :
        /\ got[m] <= 1 + loose[m]
        /\ row[m] => whole[m] > 0
        /\ ~mixed

\* A message the server could not confirm in time and the agent took all the same (late, or by the
\* operator's own Enter) is recorded as delivered in the end, by way of a restart too.
DeliveredIsAcknowledged ==
    \A m \in Messages : (deferred[m] # None /\ whole[m] > loose[m]) ~> row[m]

=============================================================================
