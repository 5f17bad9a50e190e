------------------------------ MODULE SendKernel ------------------------------
(***************************************************************************)
(* The send kernel (src/src/agents/send_kernel.js): the code that decides  *)
(* whether the text an agent's brain proposes reaches a session's pane,    *)
(* with its wrapper mediateSend and resumeSession (agents/context.js) and  *)
(* the capabilities an operator mints (capabilities.js).                   *)
(*                                                                         *)
(* One session.  The pane is its signature: the hash the poll keeps of a   *)
(* stabilised screen, or Unread when the poll has none yet.  A work item   *)
(* is the budget key of the texts in Keyed, a reserved class that of the   *)
(* texts in Reserved.  Left out: the operator's own words, which pass the  *)
(* kernel and leave no trace in it, and the notifications of a reserved or *)
(* exhausted refusal, which change nothing that is sent.                   *)
(*                                                                         *)
(* An operator whose comment calls it faulty is a variant that plays no    *)
(* part in Spec: a slip the code could have made, which breaks a property. *)
(***************************************************************************)
EXTENDS Integers, Sequences, FiniteSets

CONSTANTS
    Texts,            \* what brains propose, up to normText
    Reserved,         \* the texts of the reserved action class
    Keyed,            \* the texts that serve the work item
    Sigs,             \* signatures of a screen
    MinGap, Hour, HourlyCap, DedupeWindow, BreakerN, RingSize, ReceiptTimeout,
    BudgetCap, BudgetWindow,                           \* KERNEL_DEFAULTS
    Uses, TTL,        \* uses and life of a minted capability
    MaxTime,          \* bound: the clock
    MaxMints,         \* bound: capabilities the operator mints
    MaxUpheavals      \* bound: resumes and restarts

Unread == 0

ASSUME KernelAssumption ==
    /\ Reserved \subseteq Texts /\ Keyed \subseteq Texts
    /\ Unread \notin Sigs
    /\ {MinGap, Hour, HourlyCap, DedupeWindow, BreakerN, RingSize, ReceiptTimeout, BudgetCap,
        BudgetWindow, Uses, TTL, MaxTime, MaxMints, MaxUpheavals} \subseteq Nat
    /\ 0 < Hour /\ 0 < HourlyCap /\ 0 < BreakerN /\ 0 < BudgetCap /\ BreakerN <= RingSize

VARIABLES
    now,        \* the clock
    sig,        \* paneSig(session_id)
    kernel,     \* kernelStates.get(session_id)
    resume,     \* resumeSession in flight: the state it read before its await
    caps,       \* the capabilities table, oldest first
    sent,       \* history: the sends this process let through, but for those a resume has lost
    answered,   \* history: the sends of this process that have a receipt
    streak,     \* history: how many of the latest sends saw the one signature `sig`
    alarms,     \* history: circuit notifications since the latest send
    reserved,   \* history: reserved texts let through, ever
    upheavals   \* resumes and restarts so far

vars == <<now, sig, kernel, resume, caps, sent, answered, streak, alarms, reserved,
          upheavals>>

Screens == Sigs \cup {Unread}
Times == 0..MaxTime
NoPending == [id |-> 0, sig |-> Unread, ts |-> 0]
Closed == [open |-> FALSE, sig |-> Unread]
NoBudget == [count |-> 0, first |-> 0]
NoStreak == [sig |-> Unread, n |-> 0]
emptyKernelState == [last |-> 0, hour |-> {}, ring |-> << >>, circuit |-> Closed,
                     pending |-> NoPending, budget |-> NoBudget]
Kernels == [last : Times, hour : SUBSET Nat, ring : Seq([text : Texts, sig : Screens, ts : Times]),
            circuit : [open : BOOLEAN, sig : Screens],
            pending : [id : Nat, sig : Screens, ts : Times],
            budget : [count : Nat, first : Times]]
Idle == [pc |-> "idle"]
\* A kernel state that speaks of the first n sends.
Fits(k, n) == /\ k.hour \cup {k.pending.id} \subseteq 0..n
              /\ Len(k.ring) <= RingSize
              /\ k.budget.count <= BudgetCap

TypeOK ==
    /\ now \in 1..MaxTime + 1
    /\ sig \in Screens
    /\ kernel \in Kernels /\ Fits(kernel, Len(sent))
    /\ \/ resume = Idle
       \/ /\ resume \in [pc : {"resuming"}, prior : Kernels, mark : 0..Len(sent)]
          /\ Fits(resume.prior, resume.mark)
    /\ caps \in Seq([uses : 0..Uses, expires : Nat])
    /\ sent \in Seq([ts : Times, keyed : BOOLEAN])
    /\ answered \subseteq 0..Len(sent)
    /\ streak \in [sig : Screens, n : Nat]
    /\ alarms \in Nat
    /\ reserved \in Nat
    /\ upheavals \in 0..MaxUpheavals

-----------------------------------------------------------------------------
(* evaluateSend: a proposal is [text, declared, lease]; `declared` says    *)
(* that its kind is allowlisted and it names an intent, `lease` is the     *)
(* signature its brain reasoned about, Unread if it took none.             *)

\* Receipt resolution: the pane has moved since the pending send, or the timeout is over.
Resolved(st) ==
    /\ st.pending # NoPending
    /\ \/ sig # Unread /\ st.pending.sig # Unread /\ sig # st.pending.sig
       \/ now - st.pending.ts > ReceiptTimeout
Base(st) == IF Resolved(st) THEN [st EXCEPT !.pending = NoPending] ELSE st

LeaseExpired(p) == p.lease # Unread /\ sig # Unread /\ p.lease # sig

\* The pane changing is the only thing that closes an open circuit.
Circuit(st) == IF st.circuit.open /\ sig # Unread /\ sig # st.circuit.sig THEN Closed ELSE st.circuit

\* Faulty: one send too many.
NoEffectLate(st) == /\ sig # Unread
                    /\ Len(st.ring) > BreakerN
                    /\ \A k \in DOMAIN st.ring : st.ring[k].sig = sig
\* The latest BreakerN sends all went into the screen that is still there.
NoEffect(st) == /\ sig # Unread
                /\ Len(st.ring) >= BreakerN
                /\ \A k \in (Len(st.ring) - BreakerN + 1)..Len(st.ring) : st.ring[k].sig = sig

Duplicate(st, text) ==
    \E k \in DOMAIN st.ring : /\ st.ring[k].text = text
                              /\ \/ sig # Unread /\ st.ring[k].sig = sig
                                 \/ now - st.ring[k].ts < DedupeWindow

\* Faulty: a pause in the sends makes the budget a fresh one.
BudgetAfterPause(st) == IF now - st.last > MinGap THEN NoBudget ELSE st.budget
\* The budget of the work item: its window starts with its first send.
Budget(st) == IF now - st.budget.first > BudgetWindow THEN NoBudget ELSE st.budget
Exhausted(st, text) == text \in Keyed /\ Budget(st).count >= BudgetCap

ThisHour(st) == {i \in st.hour : now - sent[i].ts < Hour}

\* The refusals, in the order of the early returns.
Reason(st, p, waived) ==
    IF ~p.declared THEN "not-allowlisted"
    ELSE IF LeaseExpired(p) THEN "lease-expired"
    ELSE IF p.text \in Reserved /\ ~waived THEN "reserved"
    ELSE IF Circuit(st).open THEN "circuit-open"
    ELSE IF NoEffect(st) THEN "circuit-opens"
    ELSE IF Duplicate(st, p.text) THEN "duplicate"
    ELSE IF Exhausted(st, p.text) THEN "budget-exhausted"
    ELSE IF st.last # 0 /\ now - st.last < MinGap THEN "min-gap"
    ELSE IF Cardinality(ThisHour(st)) >= HourlyCap THEN "hourly-cap"
    ELSE "allowed"

Opened(st) == [Base(st) EXCEPT !.circuit = [open |-> TRUE, sig |-> sig]]

\* Faulty: the ring is never cut.
RememberedAll(ring) == ring
\* The latest RingSize entries.
Remembered(ring) == SubSeq(ring, IF Len(ring) > RingSize THEN Len(ring) - RingSize + 1 ELSE 1, Len(ring))

\* The state after an allowed send, which gets the number id.
Recorded(st, text, id) ==
    [last    |-> now,
     hour    |-> ThisHour(st) \cup {id},
     ring    |-> Remembered(Append(st.ring, [text |-> text, sig |-> sig, ts |-> now])),
     circuit |-> Circuit(st),
     pending |-> [id |-> id, sig |-> sig, ts |-> now],
     budget  |-> IF text \notin Keyed THEN st.budget
                 ELSE IF Budget(st).count > 0 THEN [st.budget EXCEPT !.count = @ + 1]
                 ELSE [count |-> 1, first |-> now]]

\* A refusal leaves everything but the receipt and, when the breaker trips, the circuit.
Refused(st, reason) == IF reason = "circuit-opens" THEN Opened(st) ELSE Base(st)

-----------------------------------------------------------------------------
(* mediateSend: evaluate, consult the capabilities if the text is reserved *)
(* and evaluate again from the same state, store what comes out.  Nothing  *)
(* is awaited in between.                                                  *)

\* Faulty: the capability is looked up and not used.
ConsultOnly(c) == caps
\* consumeCapability: a use of the newest that has one left and has not expired.
Consumable == {c \in DOMAIN caps : caps[c].uses > 0 /\ caps[c].expires > now}
Consume(c) == [caps EXCEPT ![c].uses = @ - 1]

Propose(p) ==
    LET consulted == Reason(kernel, p, FALSE) = "reserved" /\ Consumable # {}
        reason == Reason(kernel, p, consulted)
        id == Len(sent) + 1
    IN  /\ now <= MaxTime
        /\ IF consulted THEN \E c \in Consumable : /\ \A d \in Consumable : d <= c
                                                  /\ caps' = Consume(c)
                        ELSE UNCHANGED caps
        /\ answered' = IF Resolved(kernel) THEN answered \cup {kernel.pending.id} ELSE answered
        /\ IF reason = "allowed"
           THEN /\ kernel' = Recorded(kernel, p.text, id)
                /\ sent' = Append(sent, [ts |-> now, keyed |-> p.text \in Keyed])
                /\ streak' = [sig |-> sig, n |-> IF sig = streak.sig THEN streak.n + 1 ELSE 1]
                /\ alarms' = 0
                /\ reserved' = IF p.text \in Reserved THEN reserved + 1 ELSE reserved
           ELSE /\ kernel' = Refused(kernel, reason)
                /\ alarms' = IF reason = "circuit-opens" THEN alarms + 1 ELSE alarms
                /\ UNCHANGED <<sent, streak, reserved>>
        /\ UNCHANGED <<now, sig, resume, upheavals>>

-----------------------------------------------------------------------------
(* resumeSession, minting, the pane, the clock, a restart of the server.   *)

ResumeStarts ==
    /\ resume = Idle
    /\ upheavals < MaxUpheavals /\ upheavals' = upheavals + 1
    /\ resume' = [pc |-> "resuming", prior |-> kernel, mark |-> Len(sent)]
    /\ UNCHANGED <<now, sig, kernel, caps, sent, answered, streak, alarms, reserved>>

\* Faulty: a new pane starts from nothing.
ForgottenForNewPane(st) == emptyKernelState
\* rebaseKernelForNewPane keeps the hour and the budgets.
rebaseKernelForNewPane(st) ==
    [st EXCEPT !.last = 0, !.ring = << >>, !.circuit = Closed, !.pending = NoPending]

\* The state read before the await is written after it: what was sent in between is forgotten.
ResumeEnds ==
    /\ resume # Idle
    /\ resume' = Idle
    /\ kernel' = rebaseKernelForNewPane(resume.prior)
    /\ sent' = SubSeq(sent, 1, resume.mark)
    /\ answered' = (answered \cup {resume.prior.pending.id}) \cap 0..resume.mark
    /\ sig' = Unread
    /\ streak' = NoStreak
    /\ alarms' = 0
    /\ UNCHANGED <<now, caps, reserved, upheavals>>

ResumeFails ==
    /\ resume # Idle
    /\ resume' = Idle
    /\ UNCHANGED <<now, sig, kernel, caps, sent, answered, streak, alarms, reserved, upheavals>>

\* The operator taps the notification of a reserved refusal.
mintCapability ==
    /\ Len(caps) < MaxMints
    /\ caps' = Append(caps, [uses |-> Uses, expires |-> now + TTL])
    /\ UNCHANGED <<now, sig, kernel, resume, sent, answered, streak, alarms, reserved, upheavals>>

PaneMoves ==
    /\ sig' \in Screens \ {sig}
    /\ UNCHANGED <<now, kernel, resume, caps, sent, answered, streak, alarms, reserved, upheavals>>

Tick ==
    /\ now <= MaxTime
    /\ now' = now + 1
    /\ UNCHANGED <<sig, kernel, resume, caps, sent, answered, streak, alarms, reserved, upheavals>>

\* kernelStates lives in memory; the capabilities in the database.
Restart ==
    /\ upheavals < MaxUpheavals /\ upheavals' = upheavals + 1
    /\ kernel' = emptyKernelState
    /\ resume' = Idle
    /\ sig' = Unread
    /\ sent' = << >> /\ answered' = {} /\ streak' = NoStreak /\ alarms' = 0
    /\ UNCHANGED <<now, caps, reserved>>

Init ==
    /\ now = 1
    /\ sig = Unread
    /\ kernel = emptyKernelState
    /\ resume = Idle
    /\ caps = << >>
    /\ sent = << >> /\ answered = {} /\ streak = NoStreak /\ alarms = 0
    /\ reserved = 0
    /\ upheavals = 0

\* The lease of an undeclared proposal is not looked at.
Proposals == {p \in [text : Texts, declared : BOOLEAN, lease : Screens] :
                  p.declared \/ p.lease = Unread}
Next ==
    \/ \E p \in Proposals : Propose(p)
    \/ ResumeStarts \/ ResumeEnds \/ ResumeFails
    \/ mintCapability \/ PaneMoves \/ Tick \/ Restart

Spec == Init /\ [][Next]_vars

-----------------------------------------------------------------------------
(* Properties.                                                             *)

\* Whatever brains propose, at whatever moments, through refusals, pane changes and
\* relaunches, no more than HourlyCap sends fall into any rolling hour of a process -- but for
\* those let through while a resume is in flight, which its end wipes out of the record.
HourlyBound ==
    Cardinality({i \in DOMAIN sent : now - sent[i].ts < Hour}) <= HourlyCap

\* The window of a budget is not rolling: it starts with its first send.  So a work item is
\* bothered less than twice BudgetCap times within any BudgetWindow, relaunches included.
BudgetBound ==
    Cardinality({i \in DOMAIN sent : sent[i].keyed /\ now - sent[i].ts <= BudgetWindow}) < 2 * BudgetCap

\* Into a pane that does not move go at most BreakerN sends, and its operator is told once,
\* however often the signature is lost and found again and whatever is refused in between.
FrozenPaneLeftAlone ==
    /\ streak.sig # Unread => streak.n <= BreakerN
    /\ alarms <= 1

\* A reserved action reaches the pane at most once per use the operator minted: the second
\* evaluation neither lets a text through that used nothing nor lets two through on one use.
Spent == {right \in (DOMAIN caps) \X (1..Uses) : right[2] > caps[right[1]].uses}
AuthorityIsSpent == reserved <= Cardinality(Spent)

=============================================================================
