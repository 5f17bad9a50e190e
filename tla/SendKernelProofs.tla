--------------------------- MODULE SendKernelProofs ---------------------------
(***************************************************************************)
(* What SendKernel promises for every value of its constants: its types,   *)
(* the hourly bound, that a pane which does not move is left alone, the    *)
(* budget of a work item, and that authority is spent once.                *)
(***************************************************************************)
EXTENDS SendKernel, FiniteSetTheorems, TLAPS

Entries == [text : Texts, sig : Screens, ts : Times]

\* A kernel state knows every one of the first n sends that is not an hour old.
HourKnown(k, n) == \A i \in 1..n : i \in DOMAIN sent /\ now - sent[i].ts < Hour => i \in k.hour
HourRemembered ==
    /\ \A i \in DOMAIN sent : sent[i].ts <= now
    /\ HourKnown(kernel, Len(sent))
    /\ resume # Idle => HourKnown(resume.prior, resume.mark)

\* The ring ends with the sends of the streak.
TailRemembered ==
    streak.sig # Unread =>
        /\ streak.n <= Len(kernel.ring)
        /\ \A k \in (Len(kernel.ring) - streak.n + 1)..Len(kernel.ring) :
               kernel.ring[k].sig = streak.sig

\* Once its operator was told, the circuit is open for the screen of the latest send.
ToldIsOpen ==
    alarms > 0 => /\ kernel.circuit.open
                  /\ kernel.circuit.sig # Unread
                  /\ Len(kernel.ring) > 0
                  /\ kernel.ring[Len(kernel.ring)].sig = kernel.circuit.sig

-----------------------------------------------------------------------------
(* The ring, and what a verdict says.                                      *)

\* An entry added to the ring is its last one, behind the latest of those before it.
LEMMA RingGrows ==
    ASSUME NEW S, NEW ring \in Seq(S), NEW x \in S, Len(ring) <= RingSize
    PROVE  LET r == Remembered(Append(ring, x))
           IN  /\ r \in Seq(S)
               /\ Len(r) = IF Len(ring) < RingSize THEN Len(ring) + 1 ELSE RingSize
               /\ r[Len(r)] = x
               /\ \A k \in 1..(Len(r) - 1) : r[k] = ring[k + (Len(ring) + 1 - Len(r))]
<1> DEFINE long == Append(ring, x)
<1>1. RingSize \in Nat /\ RingSize > 0 /\ Len(ring) \in Nat
  BY KernelAssumption
<1>2. /\ long \in Seq(S) /\ Len(long) = Len(ring) + 1
      /\ long[Len(ring) + 1] = x /\ \A k \in 1..Len(ring) : long[k] = ring[k]
  OBVIOUS
<1>3. CASE Len(ring) < RingSize
  <2> HIDE DEF long
  <2>0. ~(Len(long) > RingSize)
    BY <1>1, <1>2, <1>3
  <2>1. Remembered(long) = SubSeq(long, 1, Len(long))
    BY <2>0 DEF Remembered
  <2>2. /\ SubSeq(long, 1, Len(long)) \in Seq(S)
        /\ Len(SubSeq(long, 1, Len(long))) = Len(ring) + 1
        /\ \A k \in 1..(Len(ring) + 1) : SubSeq(long, 1, Len(long))[k] = long[k]
    BY <1>1, <1>2
  <2> DEFINE r == Remembered(long)
  <2>3. r \in Seq(S) /\ Len(r) = Len(ring) + 1 /\ r[Len(ring) + 1] = x
    BY <1>1, <1>2, <2>1, <2>2
  <2>4. \A k \in 1..Len(ring) : r[k] = ring[k]
    BY <1>1, <1>2, <2>1, <2>2
  <2> HIDE DEF r
  <2>5. /\ r[Len(r)] = x /\ Len(ring) + 1 - Len(r) = 0
        /\ \A k \in 1..(Len(r) - 1) : r[k] = ring[k + 0]
    BY <1>1, <2>3, <2>4
  <2> QED
    BY <1>3, <2>3, <2>5 DEF r, long
<1>4. CASE Len(ring) = RingSize
  <2>1. Remembered(long) = SubSeq(long, 2, Len(long))
    BY <1>1, <1>2, <1>4 DEF Remembered
  <2> HIDE DEF long
  <2>2. /\ SubSeq(long, 2, Len(long)) \in Seq(S)
        /\ Len(SubSeq(long, 2, Len(long))) = Len(ring)
        /\ \A k \in 1..Len(ring) : SubSeq(long, 2, Len(long))[k] = long[k + 1]
    BY <1>1, <1>2
  <2>3. /\ SubSeq(long, 2, Len(long))[Len(ring)] = x
        /\ \A k \in 1..(Len(ring) - 1) : SubSeq(long, 2, Len(long))[k] = ring[k + 1]
    BY <1>1, <1>2, <1>4, <2>2
  <2> DEFINE r == Remembered(long)
  <2>4. r \in Seq(S) /\ Len(r) = Len(ring) /\ r[Len(ring)] = x
    BY <2>1, <2>2, <2>3
  <2>5. \A k \in 1..(Len(ring) - 1) : r[k] = ring[k + 1]
    BY <2>1, <2>3
  <2> HIDE DEF r
  <2>6. /\ r[Len(r)] = x /\ Len(ring) + 1 - Len(r) = 1
        /\ \A k \in 1..(Len(r) - 1) : r[k] = ring[k + 1]
    BY <1>1, <2>4, <2>5
  <2> QED
    BY <1>1, <1>4, <2>4, <2>6 DEF r, long
<1> QED
  BY <1>1, <1>3, <1>4

\* A send has passed every check.
LEMMA AllowedMeans ==
    ASSUME NEW st, NEW p, NEW waived, Reason(st, p, waived) = "allowed"
    PROVE  /\ ~Circuit(st).open /\ ~NoEffect(st) /\ ~Exhausted(st, p.text)
           /\ ~(Cardinality(ThisHour(st)) >= HourlyCap)
           /\ p.text \in Reserved => waived
BY DEF Reason

\* The circuit opens only when it is closed and the breaker trips.
LEMMA OpensMeans ==
    ASSUME NEW st, NEW p, NEW waived, Reason(st, p, waived) = "circuit-opens"
    PROVE  ~Circuit(st).open /\ NoEffect(st)
BY DEF Reason

-----------------------------------------------------------------------------
(* Types.                                                                  *)

\* The empty kernel state speaks of no send.
LEMMA EmptyTypes == emptyKernelState \in Kernels /\ Fits(emptyKernelState, 0)
<1>1. 0 \in Times /\ 0 \in Screens /\ MaxTime \in Nat /\ RingSize \in Nat /\ BudgetCap \in Nat
  BY KernelAssumption DEF Times, Screens, Unread
<1>2. /\ NoPending \in [id : Nat, sig : Screens, ts : Times] /\ NoPending.id = 0
      /\ Closed \in [open : BOOLEAN, sig : Screens]
      /\ NoBudget \in [count : Nat, first : Times] /\ NoBudget.count = 0
  BY <1>1 DEF NoPending, Closed, NoBudget, Unread
<1>3. << >> \in Seq([text : Texts, sig : Screens, ts : Times]) /\ Len(<< >>) = 0
  OBVIOUS
<1>4. emptyKernelState \in Kernels
  BY <1>1, <1>2, <1>3 DEF emptyKernelState, Kernels
<1>5. {} \cup {0} \subseteq 0..0
  OBVIOUS
<1> QED
  BY <1>1, <1>2, <1>3, <1>4, <1>5 DEF emptyKernelState, Fits

LEMMA InitTypes == Init => TypeOK
<1> SUFFICES ASSUME Init PROVE TypeOK
  OBVIOUS
<1>1. MaxTime \in Nat /\ MaxUpheavals \in Nat
  BY KernelAssumption
<1>2. now \in 1..MaxTime + 1 /\ sig \in Screens /\ upheavals \in 0..MaxUpheavals
  BY <1>1 DEF Init, Screens
<1>3. Len(sent) = 0 /\ kernel \in Kernels /\ Fits(kernel, Len(sent))
  BY EmptyTypes DEF Init
<1>4. caps \in Seq([uses : 0..Uses, expires : Nat]) /\ sent \in Seq([ts : Times, keyed : BOOLEAN])
  BY DEF Init
<1>5. streak \in [sig : Screens, n : Nat] /\ answered \subseteq 0..Len(sent)
  BY DEF Init, NoStreak, Screens
<1>6. resume = Idle /\ alarms \in Nat /\ reserved \in Nat
  BY DEF Init
<1> QED
  BY <1>2, <1>3, <1>4, <1>5, <1>6 DEF TypeOK

\* What an allowed send leaves is a kernel state that fits the longer history.
LEMMA RecordedTypes ==
    ASSUME NEW st \in Kernels, NEW text \in Texts, NEW id \in Nat \ {0},
           sig \in Screens, now \in Times, now > 0,
           Fits(st, id - 1), ~Exhausted(st, text)
    PROVE  Recorded(st, text, id) \in Kernels /\ Fits(Recorded(st, text, id), id)
<1> DEFINE e == [text |-> text, sig |-> sig, ts |-> now]
           ring == Remembered(Append(st.ring, e))
           budget == Recorded(st, text, id).budget
<1>1. e \in Entries /\ st.ring \in Seq(Entries)
  BY DEF Entries, Kernels
<1>2. RingSize \in Nat /\ Len(st.ring) \in Nat
  BY <1>1, KernelAssumption
<1>3. ring \in Seq(Entries) /\ Len(ring) <= RingSize
  <2>0. Len(st.ring) <= RingSize
    BY DEF Fits
  <2>1. /\ ring \in Seq(Entries)
        /\ Len(ring) = IF Len(st.ring) < RingSize THEN Len(st.ring) + 1 ELSE RingSize
    BY <1>1, <2>0, RingGrows
  <2> QED
    BY <2>1, <1>2
<1>4. Circuit(st) \in [open : BOOLEAN, sig : Screens]
  BY DEF Circuit, Closed, Kernels, Screens
<1>5. budget \in [count : Nat, first : Times] /\ budget.count <= BudgetCap
  <2>1. /\ BudgetCap \in Nat /\ BudgetCap > 0 /\ st.budget \in [count : Nat, first : Times]
      /\ st.budget.count <= BudgetCap
    BY KernelAssumption DEF Kernels, Fits
  <2>2. CASE text \notin Keyed
    BY <2>1, <2>2 DEF Recorded
  <2>3. CASE text \in Keyed /\ Budget(st).count > 0
    <3>1. Budget(st) = st.budget /\ budget = [st.budget EXCEPT !.count = @ + 1]
      BY <2>3 DEF Budget, NoBudget, Recorded
    <3>2. ~(st.budget.count >= BudgetCap)
      BY <2>3, <3>1 DEF Exhausted
    <3> QED
      BY <2>1, <3>1, <3>2
  <2>4. CASE text \in Keyed /\ ~(Budget(st).count > 0)
    <3>1. budget = [count |-> 1, first |-> now]
      BY <2>4 DEF Recorded
    <3> QED
      BY <2>1, <3>1
  <2> QED
    BY <2>2, <2>3, <2>4
<1>6. ThisHour(st) \cup {id} \in SUBSET Nat /\ ThisHour(st) \cup {id} \subseteq 0..id
  BY DEF ThisHour, Kernels, Fits
<1>7. Recorded(st, text, id) = [last |-> now, hour |-> ThisHour(st) \cup {id}, ring |-> ring,
                                circuit |-> Circuit(st),
                                pending |-> [id |-> id, sig |-> sig, ts |-> now], budget |-> budget]
  BY DEF Recorded
<1> HIDE DEF ring, budget
<1> QED
  BY <1>3, <1>4, <1>5, <1>6, <1>7 DEF Kernels, Entries, Fits

\* A refusal leaves a kernel state as good as the one before.
LEMMA RefusedTypes ==
    ASSUME NEW st \in Kernels, NEW reason, NEW n \in Nat, sig \in Screens, Fits(st, n)
    PROVE  LET k == Refused(st, reason)
           IN  /\ k \in Kernels /\ Fits(k, n) /\ k.hour = st.hour /\ k.ring = st.ring
               /\ k.budget = st.budget
               /\ k.circuit = IF reason = "circuit-opens" THEN [open |-> TRUE, sig |-> sig]
                              ELSE st.circuit
<1>1. \/ Base(st) = st
      \/ Base(st) = [st EXCEPT !.pending = NoPending]
  BY DEF Base
<1>2. NoPending \in [id : Nat, sig : Screens, ts : Times] /\ NoPending.id = 0
  BY EmptyTypes DEF emptyKernelState, Kernels, NoPending
<1>3. /\ Base(st) \in Kernels /\ Base(st).hour = st.hour /\ Base(st).ring = st.ring
      /\ Base(st).budget = st.budget /\ Base(st).circuit = st.circuit
      /\ Base(st).pending.id \in {st.pending.id, 0}
  BY <1>1, <1>2 DEF Kernels
<1>4. {0} \subseteq 0..n
  OBVIOUS
<1>5. Fits(Base(st), n)
  <2>1. st.hour \cup {st.pending.id} \subseteq 0..n /\ Len(st.ring) <= RingSize
        /\ st.budget.count <= BudgetCap
    BY DEF Fits
  <2>2. Base(st).hour \cup {Base(st).pending.id} \subseteq 0..n
    BY <1>3, <1>4, <2>1
  <2> QED
    BY <1>3, <2>1, <2>2 DEF Fits
<1>6. CASE reason = "circuit-opens"
  <2> DEFINE b == Base(st)
             k == [b EXCEPT !.circuit = [open |-> TRUE, sig |-> sig]]
  <2>1. Refused(st, reason) = k
    BY <1>6 DEF Refused, Opened
  <2>2. b \in Kernels /\ [open |-> TRUE, sig |-> sig] \in [open : BOOLEAN, sig : Screens]
    BY <1>3
  <2> HIDE DEF b
  <2>3. k \in Kernels
    BY <2>2 DEF Kernels
  <2>4. k.hour = b.hour /\ k.ring = b.ring /\ k.budget = b.budget /\ k.pending = b.pending
        /\ k.circuit = [open |-> TRUE, sig |-> sig]
    BY <2>2 DEF Kernels
  <2> HIDE DEF k
  <2>5. Fits(k, n)
    BY <1>5, <2>4 DEF Fits, b
  <2> QED
    BY <1>3, <1>6, <2>1, <2>3, <2>4, <2>5 DEF b, k
<1>7. CASE reason # "circuit-opens"
  BY <1>3, <1>5, <1>7 DEF Refused
<1> QED
  BY <1>6, <1>7

\* The two ways a proposal ends.
LEMMA ProposeEnds ==
    ASSUME NEW p \in Proposals, Propose(p)
    PROVE  /\ now <= MaxTime
           /\ UNCHANGED <<now, sig, resume, upheavals>>
           /\ UNCHANGED caps \/ \E c \in Consumable : caps' = Consume(c)
           /\ answered' = answered \/ answered' = answered \cup {kernel.pending.id}
           /\ \/ /\ ~Circuit(kernel).open /\ ~NoEffect(kernel) /\ ~Exhausted(kernel, p.text)
                 /\ ~(Cardinality(ThisHour(kernel)) >= HourlyCap)
                 /\ kernel' = Recorded(kernel, p.text, Len(sent) + 1)
                 /\ sent' = Append(sent, [ts |-> now, keyed |-> p.text \in Keyed])
                 /\ streak' = [sig |-> sig, n |-> IF sig = streak.sig THEN streak.n + 1 ELSE 1]
                 /\ alarms' = 0
                 /\ reserved' = IF p.text \in Reserved THEN reserved + 1 ELSE reserved
                 /\ p.text \in Reserved => \E c \in Consumable : caps' = Consume(c)
              \/ \E reason :
                 /\ kernel' = Refused(kernel, reason)
                 /\ reason = "circuit-opens" => ~Circuit(kernel).open /\ NoEffect(kernel)
                 /\ alarms' = IF reason = "circuit-opens" THEN alarms + 1 ELSE alarms
                 /\ UNCHANGED <<sent, streak, reserved>>
<1> DEFINE consulted == Reason(kernel, p, FALSE) = "reserved" /\ Consumable # {}
           reason == Reason(kernel, p, consulted)
<1>1. CASE reason = "allowed"
  <2>1. /\ ~Circuit(kernel).open /\ ~NoEffect(kernel) /\ ~Exhausted(kernel, p.text)
        /\ ~(Cardinality(ThisHour(kernel)) >= HourlyCap)
        /\ p.text \in Reserved => consulted
    BY <1>1, AllowedMeans
  <2> QED
    BY <1>1, <2>1 DEF Propose
<1>2. CASE reason # "allowed"
  <2>1. reason = "circuit-opens" => ~Circuit(kernel).open /\ NoEffect(kernel)
    BY OpensMeans
  <2> QED
    BY <1>2, <2>1 DEF Propose
<1> QED
  BY <1>1, <1>2

\* A use less leaves a table of capabilities.
LEMMA UsedOnce ==
    ASSUME NEW table \in Seq([uses : 0..Uses, expires : Nat]), NEW c \in 1..Len(table),
           table[c].uses > 0
    PROVE  [table EXCEPT ![c].uses = @ - 1] \in Seq([uses : 0..Uses, expires : Nat])
<1> DEFINE Capability == [uses : 0..Uses, expires : Nat]
<1>1. table \in Seq(Capability) /\ Len(table) \in Nat
  OBVIOUS
<1> HIDE DEF Capability
<1>2. table[c] \in Capability
  BY <1>1
<1> DEFINE cap == table[c]
<1>3. cap \in Capability /\ cap.uses > 0
  BY <1>2
<1> HIDE DEF cap
<1>4. Uses \in Nat
  BY KernelAssumption
<1>5. [cap EXCEPT !.uses = @ - 1] \in Capability
  <2>1. cap.uses \in 0..Uses /\ cap.uses > 0 /\ cap \in [uses : 0..Uses, expires : Nat]
    BY <1>3 DEF Capability
  <2>2. cap.uses - 1 \in 0..Uses
    BY <1>4, <2>1
  <2> QED
    BY <2>1, <2>2 DEF Capability
<1>6. \A x \in Capability : [table EXCEPT ![c] = x] \in Seq(Capability)
  BY <1>1
<1> QED
  BY <1>5, <1>6 DEF cap, Capability

\* What a consumed capability leaves is one.
LEMMA ConsumeTypes ==
    ASSUME caps \in Seq([uses : 0..Uses, expires : Nat]),
           UNCHANGED caps \/ \E c \in Consumable : caps' = Consume(c)
    PROVE  caps' \in Seq([uses : 0..Uses, expires : Nat])
<1>1. CASE \E c \in Consumable : caps' = Consume(c)
  <2>1. PICK c \in Consumable : caps' = Consume(c)
    BY <1>1
  <2>2. c \in 1..Len(caps) /\ caps[c].uses > 0
    BY DEF Consumable
  <2> QED
    BY <2>1, <2>2, UsedOnce DEF Consume
<1> QED
  BY <1>1

LEMMA ProposeTypes ==
    ASSUME TypeOK, NEW p \in Proposals, Propose(p)
    PROVE  TypeOK'
<1>0. /\ now <= MaxTime /\ MaxTime \in Nat /\ now \in 1..MaxTime + 1
  BY ProposeEnds, KernelAssumption DEF TypeOK
<1>1. /\ now \in Times /\ now > 0 /\ sig \in Screens
      /\ kernel \in Kernels /\ Fits(kernel, Len(sent)) /\ Len(sent) \in Nat
      /\ p.text \in Texts /\ sent \in Seq([ts : Times, keyed : BOOLEAN])
      /\ kernel.pending.id \in 0..Len(sent)
  BY <1>0 DEF TypeOK, Times, Proposals, Fits
<1>2. caps' \in Seq([uses : 0..Uses, expires : Nat])
  BY ProposeEnds, ConsumeTypes DEF TypeOK
<1>3. UNCHANGED <<now, sig, resume, upheavals>> /\ answered' \subseteq 0..Len(sent)
  BY ProposeEnds, <1>1 DEF TypeOK
<1>4. /\ kernel' \in Kernels /\ Fits(kernel', Len(sent'))
      /\ sent' \in Seq([ts : Times, keyed : BOOLEAN]) /\ Len(sent') \in {Len(sent), Len(sent) + 1}
      /\ streak' \in [sig : Screens, n : Nat] /\ alarms' \in Nat /\ reserved' \in Nat
  <2>1. CASE /\ ~Exhausted(kernel, p.text)
             /\ kernel' = Recorded(kernel, p.text, Len(sent) + 1)
             /\ sent' = Append(sent, [ts |-> now, keyed |-> p.text \in Keyed])
             /\ streak' = [sig |-> sig, n |-> IF sig = streak.sig THEN streak.n + 1 ELSE 1]
             /\ alarms' = 0
             /\ reserved' = IF p.text \in Reserved THEN reserved + 1 ELSE reserved
    <3>1. sent' \in Seq([ts : Times, keyed : BOOLEAN]) /\ Len(sent') = Len(sent) + 1
      BY <1>1, <2>1
    <3>2. Len(sent) + 1 \in Nat \ {0} /\ Len(sent) + 1 - 1 = Len(sent)
      BY <1>1
    <3>3. kernel' \in Kernels /\ Fits(kernel', Len(sent) + 1)
      BY <1>1, <2>1, <3>2, RecordedTypes
    <3>4. streak' \in [sig : Screens, n : Nat] /\ alarms' \in Nat /\ reserved' \in Nat
      BY <1>1, <2>1 DEF TypeOK
    <3> QED
      BY <3>1, <3>3, <3>4
  <2>2. CASE \E reason : /\ kernel' = Refused(kernel, reason)
                         /\ alarms' = IF reason = "circuit-opens" THEN alarms + 1 ELSE alarms
                         /\ UNCHANGED <<sent, streak, reserved>>
    <3>1. PICK reason : /\ kernel' = Refused(kernel, reason)
                        /\ alarms' = IF reason = "circuit-opens" THEN alarms + 1 ELSE alarms
                        /\ UNCHANGED <<sent, streak, reserved>>
      BY <2>2
    <3>2. kernel' \in Kernels /\ Fits(kernel', Len(sent))
      BY <1>1, <3>1, RefusedTypes
    <3>3. alarms' \in Nat
      BY <3>1 DEF TypeOK
    <3> QED
      BY <1>1, <3>1, <3>2, <3>3 DEF TypeOK
  <2> QED
    BY <2>1, <2>2, ProposeEnds
<1>5. 0..Len(sent) \subseteq 0..Len(sent')
  BY <1>1, <1>4
<1> QED
  BY <1>0, <1>1, <1>2, <1>3, <1>4, <1>5 DEF TypeOK

\* A state carried to a new pane.
LEMMA RebasedTypes ==
    ASSUME NEW st \in Kernels, NEW n \in Nat, Fits(st, n)
    PROVE  LET k == rebaseKernelForNewPane(st)
           IN  k \in Kernels /\ Fits(k, n) /\ k.hour = st.hour /\ k.budget = st.budget
<1> DEFINE k == rebaseKernelForNewPane(st)
<1>1. /\ NoPending \in [id : Nat, sig : Screens, ts : Times] /\ NoPending.id = 0
      /\ Closed \in [open : BOOLEAN, sig : Screens] /\ 0 \in Times
  BY EmptyTypes DEF emptyKernelState, Kernels, NoPending
<1>2. k.hour = st.hour /\ k.budget = st.budget /\ k.pending = NoPending /\ k.ring = << >>
  BY DEF rebaseKernelForNewPane, Kernels
<1>3. k \in Kernels
  <2>1. << >> \in Seq([text : Texts, sig : Screens, ts : Times])
    OBVIOUS
  <2> DEFINE k1 == [st EXCEPT !.last = 0]
             k2 == [k1 EXCEPT !.ring = << >>]
             k3 == [k2 EXCEPT !.circuit = Closed]
  <2>2. k1 \in Kernels
    BY <1>1 DEF Kernels
  <2> HIDE DEF k1
  <2>3. k2 \in Kernels
    BY <2>1, <2>2 DEF Kernels
  <2> HIDE DEF k2
  <2>4. k3 \in Kernels
    BY <1>1, <2>3 DEF Kernels
  <2> HIDE DEF k3
  <2>5. [k3 EXCEPT !.pending = NoPending] \in Kernels
    BY <1>1, <2>4 DEF Kernels
  <2>6. k = [k3 EXCEPT !.pending = NoPending]
    BY DEF rebaseKernelForNewPane, k1, k2, k3
  <2> QED
    BY <2>5, <2>6
<1>4. RingSize \in Nat /\ Len(<< >>) = 0 /\ {0} \subseteq 0..n
  BY KernelAssumption
<1> HIDE DEF k
<1>5. Fits(k, n)
  BY <1>1, <1>2, <1>4 DEF Fits
<1> QED
  BY <1>2, <1>3, <1>5 DEF k

LEMMA ResumeTypes ==
    ASSUME TypeOK, ResumeStarts \/ ResumeEnds \/ ResumeFails
    PROVE  TypeOK'
<1>0. Len(sent) \in Nat /\ MaxUpheavals \in Nat
  BY KernelAssumption DEF TypeOK
<1>1. CASE ResumeStarts
  <2>1. UNCHANGED <<now, sig, kernel, caps, sent, answered, streak, alarms, reserved>>
    BY <1>1 DEF ResumeStarts
  <2>2. /\ resume' = [pc |-> "resuming", prior |-> kernel, mark |-> Len(sent)]
        /\ kernel \in Kernels /\ Fits(kernel, Len(sent))
    BY <1>1 DEF ResumeStarts, TypeOK
  <2>3. /\ resume' \in [pc : {"resuming"}, prior : Kernels, mark : 0..Len(sent)]
        /\ Fits(resume'.prior, resume'.mark)
    BY <1>0, <2>2
  <2>4. upheavals' \in 0..MaxUpheavals
    BY <1>0, <1>1 DEF ResumeStarts, TypeOK
  <2> QED
    BY <2>1, <2>3, <2>4 DEF TypeOK
<1>2. CASE ResumeEnds
  <2> DEFINE mark == resume.mark
             cut == SubSeq(sent, 1, mark)
  <2>1. resume \in [pc : {"resuming"}, prior : Kernels, mark : 0..Len(sent)]
        /\ Fits(resume.prior, resume.mark)
    BY <1>2 DEF ResumeEnds, TypeOK
  <2>2. mark \in Nat /\ mark <= Len(sent)
    BY <1>0, <2>1
  <2>3. sent \in Seq([ts : Times, keyed : BOOLEAN])
    BY DEF TypeOK
  <2> HIDE DEF mark
  <2>4. cut \in Seq([ts : Times, keyed : BOOLEAN]) /\ Len(cut) = mark
    <3> DEFINE Sent == [ts : Times, keyed : BOOLEAN]
    <3>1. sent \in Seq(Sent)
      BY <2>3
    <3> HIDE DEF Sent
    <3>2. cut \in Seq(Sent) /\ Len(cut) = mark
      <4>1. \A i \in 1..mark : i \in 1..Len(sent)
        BY <1>0, <2>2
      <4> QED
        BY <1>0, <2>2, <3>1, <4>1
    <3> QED
      BY <3>2 DEF Sent
  <2>5. sent' = cut /\ resume' = Idle /\ alarms' = 0 /\ UNCHANGED <<now, caps, reserved, upheavals>>
    BY <1>2 DEF ResumeEnds, mark
  <2>6. kernel' \in Kernels /\ Fits(kernel', mark)
    BY <1>2, <2>1, <2>2, RebasedTypes DEF ResumeEnds, mark
  <2>7. sig' \in Screens /\ streak' \in [sig : Screens, n : Nat]
    BY <1>2 DEF ResumeEnds, Screens, NoStreak
  <2>8. answered' \subseteq 0..mark
    BY <1>2 DEF ResumeEnds, mark
  <2> HIDE DEF cut
  <2> QED
    BY <2>4, <2>5, <2>6, <2>7, <2>8 DEF TypeOK
<1>3. CASE ResumeFails
  BY <1>3 DEF ResumeFails, TypeOK
<1> QED
  BY <1>1, <1>2, <1>3

LEMMA OtherTypes ==
    ASSUME TypeOK, mintCapability \/ PaneMoves \/ Tick \/ Restart
    PROVE  TypeOK'
<1>0. /\ MaxUpheavals \in Nat /\ MaxTime \in Nat /\ Uses \in Nat /\ TTL \in Nat
      /\ now \in Nat
  <2>1. /\ MaxUpheavals \in Nat /\ MaxTime \in Nat /\ Uses \in Nat /\ TTL \in Nat
    BY KernelAssumption
  <2> QED
    BY <2>1 DEF TypeOK
<1>1. CASE mintCapability
  <2>1. UNCHANGED <<now, sig, kernel, resume, sent, answered, streak, alarms, reserved, upheavals>>
    BY <1>1 DEF mintCapability
  <2>2. now + TTL \in Nat /\ Uses \in 0..Uses
    BY <1>0
  <2>3. [uses |-> Uses, expires |-> now + TTL] \in [uses : 0..Uses, expires : Nat]
    BY <2>2
  <2>4. caps' \in Seq([uses : 0..Uses, expires : Nat])
    BY <1>1, <2>3 DEF mintCapability, TypeOK
  <2> QED
    BY <2>1, <2>4 DEF TypeOK
<1>2. CASE PaneMoves
  BY <1>2 DEF PaneMoves, TypeOK
<1>3. CASE Tick
  <2>1. UNCHANGED <<sig, kernel, resume, caps, sent, answered, streak, alarms, reserved, upheavals>>
    BY <1>3 DEF Tick
  <2>2. now' \in 1..MaxTime + 1
    BY <1>0, <1>3 DEF Tick, TypeOK
  <2> QED
    BY <2>1, <2>2 DEF TypeOK
<1>4. CASE Restart
  <2>1. /\ kernel' = emptyKernelState /\ resume' = Idle /\ sig' = Unread /\ sent' = << >>
        /\ answered' = {} /\ streak' = NoStreak /\ alarms' = 0 /\ UNCHANGED <<now, caps, reserved>>
    BY <1>4 DEF Restart
  <2>2. upheavals' \in 0..MaxUpheavals
    BY <1>0, <1>4 DEF Restart, TypeOK
  <2>3. sent' \in Seq([ts : Times, keyed : BOOLEAN]) /\ Len(sent') = 0
    BY <2>1
  <2>4. kernel' \in Kernels /\ Fits(kernel', Len(sent'))
    BY <2>1, <2>3, EmptyTypes
  <2>5. streak' \in [sig : Screens, n : Nat] /\ sig' \in Screens
    BY <2>1 DEF NoStreak, Screens
  <2> QED
    BY <2>1, <2>2, <2>3, <2>4, <2>5 DEF TypeOK
<1> QED
  BY <1>1, <1>2, <1>3, <1>4

LEMMA StepTypes == TypeOK /\ [Next]_vars => TypeOK'
<1>1. ASSUME TypeOK, UNCHANGED vars
      PROVE  TypeOK'
  BY <1>1 DEF TypeOK, vars
<1> QED
  BY <1>1, ProposeTypes, ResumeTypes, OtherTypes DEF Next

\* SendKernel.TypeOK holds of every reachable state: the ring and the budget never outgrow
\* their bounds, no capability is used more often than minted, and kernelStates and the state a
\* resume carries speak only of sends that were made (send_kernel.js, context.js).
THEOREM TypesHold == Spec => []TypeOK
BY InitTypes, StepTypes, PTL DEF Spec

-----------------------------------------------------------------------------
(* The hour.                                                               *)

Recent == {i \in DOMAIN sent : now - sent[i].ts < Hour}
HourInv == HourRemembered /\ HourlyBound

LEMMA HourBasics ==
    ASSUME TypeOK
    PROVE  /\ Len(sent) \in Nat /\ now \in Nat /\ Hour \in Nat /\ Hour > 0
           /\ HourlyCap \in Nat /\ HourlyCap > 0
           /\ \A i \in 1..Len(sent) : i \in DOMAIN sent /\ sent[i].ts \in Nat
           /\ IsFiniteSet(Recent) /\ Cardinality(Recent) \in Nat
           /\ IsFiniteSet(ThisHour(kernel)) /\ Cardinality(ThisHour(kernel)) \in Nat
<1>1. /\ Hour \in Nat /\ Hour > 0 /\ HourlyCap \in Nat /\ HourlyCap > 0 /\ MaxTime \in Nat
  BY KernelAssumption
<1>2. now \in Nat /\ Len(sent) \in Nat /\ DOMAIN sent = 1..Len(sent)
  BY <1>1 DEF TypeOK
<1>3. \A i \in 1..Len(sent) : sent[i] \in [ts : Times, keyed : BOOLEAN]
  <2> DEFINE Sent == [ts : Times, keyed : BOOLEAN]
  <2>1. sent \in Seq(Sent)
    BY DEF TypeOK
  <2> HIDE DEF Sent
  <2>2. \A i \in 1..Len(sent) : sent[i] \in Sent
    BY <2>1
  <2> QED
    BY <2>2 DEF Sent
<1>4. \A i \in 1..Len(sent) : sent[i].ts \in Nat
  BY <1>3 DEF Times
<1>5. IsFiniteSet(0..Len(sent))
  BY <1>2, FS_Interval
<1>6. Recent \subseteq 0..Len(sent)
  BY <1>2 DEF Recent
<1>7. ThisHour(kernel) \subseteq 0..Len(sent)
  BY DEF ThisHour, TypeOK, Fits
<1> QED
  BY <1>1, <1>2, <1>4, <1>5, <1>6, <1>7, FS_Subset, FS_CardinalityType

\* A history whose recent sends are among those recent before is within the bound.
LEMMA FewerAreBounded ==
    ASSUME TypeOK, HourlyBound, Recent' \subseteq Recent
    PROVE  HourlyBound'
<1>1. /\ IsFiniteSet(Recent) /\ Cardinality(Recent) \in Nat /\ HourlyCap \in Nat
      /\ Cardinality(Recent) <= HourlyCap
  BY HourBasics DEF HourlyBound, Recent
<1>2. IsFiniteSet(Recent') /\ Cardinality(Recent') <= Cardinality(Recent)
  BY <1>1, FS_Subset
<1>3. Cardinality(Recent') \in Nat
  BY <1>2, FS_CardinalityType
<1>4. Cardinality(Recent') <= HourlyCap
  BY <1>1, <1>2, <1>3
<1> QED
  BY <1>4 DEF HourlyBound, Recent

LEMMA SendHour ==
    ASSUME TypeOK, HourInv, NEW text \in Texts, now' = now, resume' = resume,
           ~(Cardinality(ThisHour(kernel)) >= HourlyCap),
           kernel' = Recorded(kernel, text, Len(sent) + 1),
           sent' = Append(sent, [ts |-> now, keyed |-> text \in Keyed])
    PROVE  HourInv'
<1> DEFINE id == Len(sent) + 1
<1>1. /\ Len(sent) \in Nat /\ now \in Nat /\ Hour \in Nat /\ Hour > 0 /\ HourlyCap \in Nat
      /\ \A i \in 1..Len(sent) : i \in DOMAIN sent /\ sent[i].ts \in Nat
      /\ IsFiniteSet(ThisHour(kernel)) /\ Cardinality(ThisHour(kernel)) \in Nat
  BY HourBasics
<1>2. /\ DOMAIN sent' = 1..(Len(sent) + 1) /\ Len(sent') = Len(sent) + 1
      /\ sent'[Len(sent) + 1] = [ts |-> now, keyed |-> text \in Keyed]
      /\ \A i \in 1..Len(sent) : sent'[i] = sent[i]
  BY <1>1 DEF TypeOK
<1>3. kernel'.hour = ThisHour(kernel) \cup {id}
  BY DEF Recorded
<1>4. \A i \in 1..Len(sent) : now - sent[i].ts < Hour => i \in ThisHour(kernel)
  BY <1>1 DEF HourInv, HourRemembered, HourKnown, ThisHour
<1>5. \A i \in 1..Len(sent) : sent[i].ts <= now
  BY <1>1 DEF HourInv, HourRemembered
<1>6. \A i \in DOMAIN sent' : sent'[i].ts <= now
  BY <1>1, <1>2, <1>5
<1>7. \A i \in DOMAIN sent' : now - sent'[i].ts < Hour => i \in ThisHour(kernel) \cup {id}
  BY <1>1, <1>2, <1>4
<1>8. resume # Idle => \A i \in 1..resume.mark :
          i \in DOMAIN sent' /\ now - sent'[i].ts < Hour => i \in resume.prior.hour
  <2> SUFFICES ASSUME resume # Idle, NEW i \in 1..resume.mark, now - sent'[i].ts < Hour
               PROVE  i \in resume.prior.hour
    OBVIOUS
  <2>1. resume.mark \in 0..Len(sent)
    BY DEF TypeOK
  <2>2. i \in 1..Len(sent)
    BY <1>1, <2>1
  <2> QED
    BY <1>1, <1>2, <2>2 DEF HourInv, HourRemembered, HourKnown
<1>9. HourRemembered'
  BY <1>2, <1>3, <1>6, <1>7, <1>8 DEF HourRemembered, HourKnown
<1>10. Recent' \subseteq ThisHour(kernel) \cup {id}
  BY <1>7 DEF Recent
<1>11. /\ IsFiniteSet(ThisHour(kernel) \cup {id})
       /\ Cardinality(ThisHour(kernel) \cup {id}) <= Cardinality(ThisHour(kernel)) + 1
  <2>1. /\ IsFiniteSet(ThisHour(kernel) \cup {id})
        /\ Cardinality(ThisHour(kernel) \cup {id}) =
              IF id \in ThisHour(kernel) THEN Cardinality(ThisHour(kernel))
              ELSE Cardinality(ThisHour(kernel)) + 1
    BY <1>1, FS_AddElement
  <2> QED
    BY <1>1, <2>1
<1>12. /\ IsFiniteSet(Recent') /\ Cardinality(Recent') \in Nat
       /\ Cardinality(Recent') <= Cardinality(ThisHour(kernel) \cup {id})
  BY <1>10, <1>11, FS_Subset, FS_CardinalityType
<1>13. Cardinality(ThisHour(kernel) \cup {id}) \in Nat
  BY <1>11, FS_CardinalityType
<1>14. Cardinality(Recent') <= HourlyCap
  BY <1>1, <1>11, <1>12, <1>13
<1> QED
  BY <1>9, <1>14 DEF HourInv, HourlyBound, Recent

LEMMA ProposeHour ==
    ASSUME TypeOK, HourInv, NEW p \in Proposals, Propose(p)
    PROVE  HourInv'
<1>1. UNCHANGED <<now, resume>> /\ p.text \in Texts
  BY ProposeEnds DEF Proposals
<1>2. CASE /\ ~(Cardinality(ThisHour(kernel)) >= HourlyCap)
           /\ kernel' = Recorded(kernel, p.text, Len(sent) + 1)
           /\ sent' = Append(sent, [ts |-> now, keyed |-> p.text \in Keyed])
  BY <1>1, <1>2, SendHour
<1>3. CASE UNCHANGED sent /\ \E reason : kernel' = Refused(kernel, reason)
  <2>1. kernel'.hour = kernel.hour
    <3>1. PICK reason : kernel' = Refused(kernel, reason)
      BY <1>3
    <3>2. kernel \in Kernels /\ Len(sent) \in Nat /\ sig \in Screens /\ Fits(kernel, Len(sent))
      BY DEF TypeOK
    <3> QED
      BY <3>1, <3>2, RefusedTypes
  <2> QED
    BY <1>1, <1>3, <2>1 DEF HourInv, HourRemembered, HourKnown, HourlyBound
<1> QED
  BY <1>2, <1>3, ProposeEnds

LEMMA OtherHour ==
    ASSUME TypeOK, HourInv,
           \/ ResumeStarts \/ ResumeEnds \/ ResumeFails
           \/ mintCapability \/ PaneMoves \/ Tick \/ Restart
    PROVE  HourInv'
<1>0. /\ Len(sent) \in Nat /\ now \in Nat /\ Hour \in Nat
      /\ \A i \in 1..Len(sent) : i \in DOMAIN sent /\ sent[i].ts \in Nat
      /\ DOMAIN sent = 1..Len(sent)
  BY HourBasics DEF TypeOK
<1>1. CASE ResumeStarts
  <2>1. /\ UNCHANGED <<now, kernel, sent>> /\ resume'.prior = kernel /\ resume'.mark = Len(sent)
    BY <1>1 DEF ResumeStarts
  <2> QED
    BY <2>1 DEF HourInv, HourRemembered, HourKnown, HourlyBound
<1>2. CASE ResumeEnds
  <2> DEFINE mark == resume.mark
             prior == resume.prior
  <2>1. /\ resume \in [pc : {"resuming"}, prior : Kernels, mark : 0..Len(sent)]
        /\ Fits(resume.prior, resume.mark) /\ resume # Idle
    BY <1>2 DEF ResumeEnds, TypeOK
  <2>2. mark \in Nat /\ mark <= Len(sent) /\ prior \in Kernels /\ Fits(prior, mark)
    BY <1>0, <2>1
  <2>3. HourKnown(prior, mark)
    BY <2>1 DEF HourInv, HourRemembered
  <2>4. /\ sent' = SubSeq(sent, 1, mark) /\ now' = now /\ resume' = Idle
        /\ kernel' = rebaseKernelForNewPane(prior)
    BY <1>2 DEF ResumeEnds
  <2> HIDE DEF mark, prior
  <2>5. Len(sent') = mark /\ DOMAIN sent' = 1..mark /\ \A i \in 1..mark : sent'[i] = sent[i]
    BY <1>0, <2>2, <2>4 DEF TypeOK
  <2>6. kernel'.hour = prior.hour
    BY <2>2, <2>4, RebasedTypes
  <2>7. \A i \in 1..mark : i \in DOMAIN sent
    BY <1>0, <2>2
  <2>8. HourRemembered'
    BY <2>3, <2>4, <2>5, <2>6, <2>7 DEF HourInv, HourRemembered, HourKnown
  <2>9. Recent' \subseteq Recent
    BY <2>4, <2>5, <2>7 DEF Recent
  <2> QED
    BY <2>8, <2>9, FewerAreBounded DEF HourInv
<1>3. CASE ResumeFails
  BY <1>3 DEF ResumeFails, HourInv, HourRemembered, HourKnown, HourlyBound
<1>4. CASE mintCapability
  BY <1>4 DEF mintCapability, HourInv, HourRemembered, HourKnown, HourlyBound
<1>5. CASE PaneMoves
  BY <1>5 DEF PaneMoves, HourInv, HourRemembered, HourKnown, HourlyBound
<1>6. CASE Tick
  <2>1. now' = now + 1 /\ UNCHANGED <<kernel, resume, sent>>
    BY <1>6 DEF Tick
  <2>2. \A i \in 1..Len(sent) : /\ sent[i].ts <= now => sent[i].ts <= now + 1
                               /\ (now + 1) - sent[i].ts < Hour => now - sent[i].ts < Hour
    BY <1>0
  <2>3. Recent' \subseteq Recent
    BY <1>0, <2>1, <2>2 DEF Recent
  <2>4. HourRemembered'
    BY <1>0, <2>1, <2>2 DEF HourInv, HourRemembered, HourKnown
  <2> QED
    BY <2>3, <2>4, FewerAreBounded DEF HourInv
<1>7. CASE Restart
  <2>1. sent' = << >> /\ resume' = Idle
    BY <1>7 DEF Restart
  <2>2. DOMAIN sent' = {} /\ Len(sent') = 0
    BY <2>1
  <2>3. Recent' \subseteq Recent
    BY <2>2 DEF Recent
  <2>4. HourRemembered'
    BY <2>1, <2>2 DEF HourRemembered, HourKnown
  <2> QED
    BY <2>3, <2>4, FewerAreBounded DEF HourInv
<1> QED
  BY <1>1, <1>2, <1>3, <1>4, <1>5, <1>6, <1>7

LEMMA InitHour == Init => HourInv
<1> SUFFICES ASSUME Init PROVE HourInv
  OBVIOUS
<1>1. sent = << >> /\ resume = Idle /\ DOMAIN sent = {} /\ Len(sent) = 0
  BY DEF Init
<1>2. HourRemembered
  BY <1>1 DEF HourRemembered, HourKnown
<1>3. Recent = {} /\ Cardinality({}) = 0 /\ HourlyCap > 0 /\ HourlyCap \in Nat
  BY <1>1, FS_EmptySet, KernelAssumption DEF Recent
<1>4. Cardinality(Recent) <= HourlyCap
  BY <1>3
<1> QED
  BY <1>2, <1>4 DEF HourInv, HourlyBound, Recent

LEMMA StepHour == TypeOK /\ HourInv /\ [Next]_vars => HourInv'
<1>1. ASSUME HourInv, UNCHANGED vars
      PROVE  HourInv'
  BY <1>1 DEF HourInv, HourRemembered, HourKnown, HourlyBound, vars
<1> QED
  BY <1>1, ProposeHour, OtherHour DEF Next

\* SendKernel.HourlyBound: no rolling hour of a process holds more than HourlyCap sends but for
\* those a resume in flight wiped out (evaluateSend, resumeSession).
THEOREM HourIsBounded == Spec => []HourlyBound
<1>1. HourInv => HourlyBound
  BY DEF HourInv
<1> QED
  BY <1>1, InitTypes, StepTypes, InitHour, StepHour, PTL DEF Spec

-----------------------------------------------------------------------------
(* The pane that does not move.                                            *)

PaneInv == TailRemembered /\ ToldIsOpen /\ FrozenPaneLeftAlone

LEMMA PaneBasics ==
    ASSUME TypeOK
    PROVE  /\ kernel \in Kernels /\ Fits(kernel, Len(sent)) /\ Len(sent) \in Nat
           /\ kernel.ring \in Seq(Entries) /\ Len(kernel.ring) \in Nat
           /\ Len(kernel.ring) <= RingSize /\ sig \in Screens /\ now \in Nat
           /\ streak.n \in Nat /\ alarms \in Nat
           /\ BreakerN \in Nat /\ BreakerN > 0 /\ RingSize \in Nat /\ BreakerN <= RingSize
<1>1. BreakerN \in Nat /\ BreakerN > 0 /\ RingSize \in Nat /\ BreakerN <= RingSize /\ MaxTime \in Nat
  BY KernelAssumption
<1>2. kernel.ring \in Seq(Entries) /\ Len(kernel.ring) <= RingSize
  BY DEF TypeOK, Kernels, Entries, Fits
<1>3. Len(kernel.ring) \in Nat
  BY <1>2
<1>4. Len(sent) \in Nat /\ now \in Nat
  BY <1>1 DEF TypeOK
<1> QED
  BY <1>1, <1>2, <1>3, <1>4 DEF TypeOK

\* A send into the screen of the streak finds less than BreakerN before it.
LEMMA StreakHasRoom ==
    ASSUME TypeOK, PaneInv, sig # Unread, streak.sig = sig, ~NoEffect(kernel)
    PROVE  streak.n < BreakerN /\ streak.n <= Len(kernel.ring)
<1> DEFINE n == streak.n
           len == Len(kernel.ring)
<1>1. /\ n \in Nat /\ len \in Nat /\ BreakerN \in Nat
      /\ n <= BreakerN /\ n <= len
      /\ \A k \in (len - n + 1)..len : kernel.ring[k].sig = sig
  BY PaneBasics DEF PaneInv, FrozenPaneLeftAlone, TailRemembered
<1>2. n # BreakerN
  <2> SUFFICES ASSUME n = BreakerN PROVE FALSE
    OBVIOUS
  <2>1. len >= BreakerN /\ \A k \in (len - BreakerN + 1)..len : kernel.ring[k].sig = sig
    BY <1>1
  <2> QED
    BY <2>1 DEF NoEffect
<1> QED
  BY <1>1, <1>2

LEMMA SendPane ==
    ASSUME TypeOK, PaneInv, NEW text \in Texts, now <= MaxTime, sig' = sig, ~NoEffect(kernel),
           kernel' = Recorded(kernel, text, Len(sent) + 1),
           streak' = [sig |-> sig, n |-> IF sig = streak.sig THEN streak.n + 1 ELSE 1],
           alarms' = 0
    PROVE  PaneInv'
<1> DEFINE e == [text |-> text, sig |-> sig, ts |-> now]
           ring == kernel.ring
           r == kernel'.ring
           n == streak.n
<1>1. /\ ring \in Seq(Entries) /\ Len(ring) \in Nat /\ Len(ring) <= RingSize /\ sig \in Screens
      /\ n \in Nat /\ BreakerN \in Nat /\ BreakerN > 0 /\ RingSize \in Nat /\ BreakerN <= RingSize
  BY PaneBasics
<1>2. e \in Entries /\ e.sig = sig
  BY <1>1, PaneBasics, KernelAssumption DEF Entries, Times
<1>3. r = Remembered(Append(ring, e))
  BY DEF Recorded
<1>4. /\ r \in Seq(Entries)
      /\ Len(r) = IF Len(ring) < RingSize THEN Len(ring) + 1 ELSE RingSize
      /\ r[Len(r)] = e
      /\ \A k \in 1..(Len(r) - 1) : r[k] = ring[k + (Len(ring) + 1 - Len(r))]
  <2> HIDE DEF ring, r, e
  <2> DEFINE grown == Remembered(Append(ring, e))
  <2>1. /\ grown \in Seq(Entries)
        /\ Len(grown) = IF Len(ring) < RingSize THEN Len(ring) + 1 ELSE RingSize
        /\ grown[Len(grown)] = e
        /\ \A k \in 1..(Len(grown) - 1) : grown[k] = ring[k + (Len(ring) + 1 - Len(grown))]
    BY <1>1, <1>2, RingGrows
  <2>2. grown = r
    BY <1>3
  <2> HIDE DEF grown
  <2> QED
    BY <2>1, <2>2
<1>5. ToldIsOpen'
  BY DEF ToldIsOpen
<1>6. /\ streak'.sig = sig
      /\ streak'.n = IF sig = streak.sig THEN n + 1 ELSE 1
  OBVIOUS
<1>7. CASE sig = Unread
  BY <1>5, <1>6, <1>7 DEF PaneInv, TailRemembered, FrozenPaneLeftAlone
<1>8. CASE sig # Unread /\ sig # streak.sig
  <2> HIDE DEF r, e
  <2>1. streak'.n = 1 /\ 1 <= Len(r) /\ Len(r) \in Nat /\ Len(r) - 1 + 1 = Len(r)
    BY <1>1, <1>4, <1>6, <1>8
  <2>2. \A k \in (Len(r) - streak'.n + 1)..Len(r) : r[k].sig = sig
    BY <1>2, <1>4, <2>1
  <2>3. streak'.n <= BreakerN
    BY <1>1, <2>1
  <2> QED
    BY <1>5, <1>6, <2>1, <2>2, <2>3 DEF PaneInv, TailRemembered, FrozenPaneLeftAlone, r
<1>9. CASE sig # Unread /\ sig = streak.sig
  <2>1. n < BreakerN /\ n <= Len(ring)
    BY <1>9, StreakHasRoom
  <2>2. \A k \in (Len(ring) - n + 1)..Len(ring) : ring[k].sig = sig
    BY <1>9 DEF PaneInv, TailRemembered
  <2> HIDE DEF r, e, ring, n
  <2>3. streak'.n = n + 1 /\ n + 1 <= BreakerN /\ n + 1 <= Len(r) /\ Len(r) \in Nat
    BY <1>1, <1>4, <1>6, <1>9, <2>1
  <2>4. ASSUME NEW k \in (Len(r) - (n + 1) + 1)..Len(r)
        PROVE  r[k].sig = sig
    <3>1. CASE k = Len(r)
      BY <1>2, <1>4, <3>1
    <3>2. CASE k # Len(r)
      <4> DEFINE j == k + (Len(ring) + 1 - Len(r))
      <4>1. k \in 1..(Len(r) - 1) /\ j \in (Len(ring) - n + 1)..Len(ring)
        BY <1>1, <2>3, <2>4, <3>2
      <4> QED
        BY <1>4, <2>2, <4>1
    <3> QED
      BY <3>1, <3>2
  <2> QED
    BY <1>5, <1>6, <2>3, <2>4 DEF PaneInv, TailRemembered, FrozenPaneLeftAlone, r
<1> QED
  BY <1>7, <1>8, <1>9

LEMMA RefusalPane ==
    ASSUME TypeOK, PaneInv, NEW reason, sig' = sig, UNCHANGED streak,
           kernel' = Refused(kernel, reason),
           reason = "circuit-opens" => ~Circuit(kernel).open /\ NoEffect(kernel),
           alarms' = IF reason = "circuit-opens" THEN alarms + 1 ELSE alarms
    PROVE  PaneInv'
<1>1. /\ kernel'.ring = kernel.ring
      /\ kernel'.circuit = IF reason = "circuit-opens" THEN [open |-> TRUE, sig |-> sig]
                           ELSE kernel.circuit
  BY PaneBasics, RefusedTypes
<1>2. TailRemembered'
  BY <1>1 DEF PaneInv, TailRemembered
<1>3. CASE reason # "circuit-opens"
  BY <1>1, <1>2, <1>3 DEF PaneInv, ToldIsOpen, FrozenPaneLeftAlone
<1>4. CASE reason = "circuit-opens"
  <2> DEFINE len == Len(kernel.ring)
  <2>1. /\ sig # Unread /\ len >= BreakerN
        /\ \A k \in (len - BreakerN + 1)..len : kernel.ring[k].sig = sig
    BY <1>4 DEF NoEffect
  <2>2. len > 0 /\ kernel.ring[len].sig = sig
    <3>1. len \in Nat /\ BreakerN \in Nat /\ BreakerN > 0
      BY PaneBasics
    <3>2. len > 0 /\ len \in (len - BreakerN + 1)..len
      BY <2>1, <3>1
    <3> QED
      BY <2>1, <3>2
  <2>3. ToldIsOpen'
    BY <1>1, <1>4, <2>1, <2>2 DEF ToldIsOpen
  <2>4. ~(alarms > 0)
    <3> SUFFICES ASSUME alarms > 0 PROVE FALSE
      OBVIOUS
    <3>1. kernel.circuit.open /\ kernel.circuit.sig = sig
      BY <2>2 DEF PaneInv, ToldIsOpen
    <3>2. Circuit(kernel) = kernel.circuit
      BY <3>1 DEF Circuit
    <3> QED
      BY <1>4, <3>1, <3>2
  <2>5. alarms' = 1
    BY <1>4, <2>4, PaneBasics
  <2> QED
    BY <1>2, <2>3, <2>5 DEF PaneInv, FrozenPaneLeftAlone
<1> QED
  BY <1>3, <1>4

LEMMA ProposePane ==
    ASSUME TypeOK, PaneInv, NEW p \in Proposals, Propose(p)
    PROVE  PaneInv'
<1>1. sig' = sig /\ now <= MaxTime /\ p.text \in Texts
  BY ProposeEnds DEF Proposals
<1> QED
  BY <1>1, ProposeEnds, SendPane, RefusalPane

LEMMA OtherPane ==
    ASSUME PaneInv,
           \/ ResumeStarts \/ ResumeEnds \/ ResumeFails
           \/ mintCapability \/ PaneMoves \/ Tick \/ Restart
    PROVE  PaneInv'
<1>1. CASE UNCHANGED <<kernel, streak, alarms>>
  BY <1>1 DEF PaneInv, TailRemembered, ToldIsOpen, FrozenPaneLeftAlone
<1>2. CASE streak' = NoStreak /\ alarms' = 0
  <2>1. streak'.sig = Unread /\ ~(alarms' > 0) /\ alarms' <= 1
    BY <1>2 DEF NoStreak
  <2> QED
    BY <2>1 DEF PaneInv, TailRemembered, ToldIsOpen, FrozenPaneLeftAlone
<1> QED
  BY <1>1, <1>2 DEF ResumeStarts, ResumeEnds, ResumeFails, mintCapability, PaneMoves, Tick, Restart

LEMMA InitPane == Init => PaneInv
<1> SUFFICES ASSUME Init PROVE PaneInv
  OBVIOUS
<1>1. streak.sig = Unread /\ ~(alarms > 0) /\ alarms <= 1
  BY DEF Init, NoStreak
<1> QED
  BY <1>1 DEF PaneInv, TailRemembered, ToldIsOpen, FrozenPaneLeftAlone

LEMMA StepPane == TypeOK /\ PaneInv /\ [Next]_vars => PaneInv'
<1>1. ASSUME PaneInv, UNCHANGED vars
      PROVE  PaneInv'
  BY <1>1 DEF PaneInv, TailRemembered, ToldIsOpen, FrozenPaneLeftAlone, vars
<1> QED
  BY <1>1, ProposePane, OtherPane DEF Next

\* SendKernel.FrozenPaneLeftAlone: the breaker of evaluateSend, with its ring of sends and the
\* circuit that only a moving pane closes.
THEOREM FrozenPanesAreLeftAlone == Spec => []FrozenPaneLeftAlone
<1>1. PaneInv => FrozenPaneLeftAlone
  BY DEF PaneInv
<1> QED
  BY <1>1, InitTypes, StepTypes, InitPane, StepPane, PTL DEF Spec

-----------------------------------------------------------------------------
(* The budget of the work item.  The helpers speak of a history h, of      *)
(* which a kernel state knows the first n sends.                           *)

Sends == Seq([ts : Times, keyed : BOOLEAN])

\* The sends for the work item; those from the first moment of a window on, those after that
\* moment, and those of a window's length before it.
ForItem(h, n) == {i \in 1..n : h[i].keyed}
Within(h, n, first) == {i \in ForItem(h, n) : h[i].ts >= first}
After(h, n, first) == {i \in ForItem(h, n) : h[i].ts > first}
Before(h, n, first) == {i \in ForItem(h, n) : h[i].ts < first /\ first - h[i].ts <= BudgetWindow}

\* What a budget counts: every send for the work item since its window started; one of them
\* started it, all of them lie in it, and the one before it was not full when it ended.
Counts(b, h, n) ==
    /\ b.count = 0 => ForItem(h, n) = {}
    /\ b.count > 0 => /\ \A i \in ForItem(h, n) : h[i].ts - b.first <= BudgetWindow
                      /\ Cardinality(Within(h, n, b.first)) <= b.count
                      /\ Cardinality(After(h, n, b.first)) < b.count
                      /\ Cardinality(Before(h, n, b.first)) < BudgetCap

BudgetCounts ==
    /\ \A i \in 1..Len(sent) : sent[i].ts <= now
    /\ kernel.budget.first <= now
    /\ Counts(kernel.budget, sent, Len(sent))
    /\ resume # Idle => /\ resume.prior.budget.first <= now
                        /\ Counts(resume.prior.budget, sent, resume.mark)

LEMMA SendsBasics ==
    ASSUME NEW h \in Sends
    PROVE  /\ Len(h) \in Nat /\ DOMAIN h = 1..Len(h)
           /\ \A i \in 1..Len(h) : /\ h[i] \in [ts : Times, keyed : BOOLEAN]
                                   /\ h[i].ts \in Nat /\ h[i].keyed \in BOOLEAN
<1> DEFINE Sent == [ts : Times, keyed : BOOLEAN]
<1>1. h \in Seq(Sent)
  BY DEF Sends
<1> HIDE DEF Sent
<1>2. Len(h) \in Nat /\ DOMAIN h = 1..Len(h) /\ \A i \in 1..Len(h) : h[i] \in Sent
  BY <1>1
<1>3. \A s \in Sent : s.ts \in Nat /\ s.keyed \in BOOLEAN
  BY KernelAssumption DEF Sent, Times
<1> QED
  BY <1>2, <1>3 DEF Sent

\* A part of the first n sends is a finite set.
LEMMA PartIsFinite ==
    ASSUME NEW n \in Nat, NEW part, part \subseteq 1..n
    PROVE  IsFiniteSet(part) /\ Cardinality(part) \in Nat
<1>1. 1 \in Int /\ n \in Int
  OBVIOUS
<1>2. IsFiniteSet(1..n)
  BY <1>1, FS_Interval
<1>3. IsFiniteSet(part)
  BY <1>2, FS_Subset
<1> QED
  BY <1>3, FS_CardinalityType

\* A part of a part is not larger.
LEMMA PartIsSmaller ==
    ASSUME NEW n \in Nat, NEW part, part \subseteq 1..n, NEW less, less \subseteq part
    PROVE  Cardinality(less) <= Cardinality(part)
BY PartIsFinite, FS_Subset

\* One send more adds one at most.
LEMMA PartGrows ==
    ASSUME NEW n \in Nat, NEW part, part \subseteq 1..n,
           NEW more, more \subseteq part \cup {n + 1}
    PROVE  Cardinality(more) \in Nat /\ Cardinality(more) <= Cardinality(part) + 1
<1>1. IsFiniteSet(part) /\ Cardinality(part) \in Nat
  BY PartIsFinite
<1>2. /\ IsFiniteSet(part \cup {n + 1})
      /\ Cardinality(part \cup {n + 1}) <= Cardinality(part) + 1
  <2>1. /\ IsFiniteSet(part \cup {n + 1})
        /\ Cardinality(part \cup {n + 1}) = IF n + 1 \in part THEN Cardinality(part)
                                            ELSE Cardinality(part) + 1
    BY <1>1, FS_AddElement
  <2> QED
    BY <1>1, <2>1
<1>3. IsFiniteSet(more) /\ Cardinality(more) <= Cardinality(part \cup {n + 1})
  BY <1>2, FS_Subset
<1>4. Cardinality(more) \in Nat /\ Cardinality(part \cup {n + 1}) \in Nat
  BY <1>2, <1>3, FS_CardinalityType
<1> QED
  BY <1>1, <1>2, <1>3, <1>4

\* What a budget counts depends on the sends its kernel state knows.
LEMMA SameSendsCount ==
    ASSUME NEW b, NEW h, NEW g, NEW n \in Nat, \A i \in 1..n : g[i] = h[i], Counts(b, h, n)
    PROVE  Counts(b, g, n)
<1>1. ForItem(g, n) = ForItem(h, n)
  BY DEF ForItem
<1>2. /\ Within(g, n, b.first) = Within(h, n, b.first)
      /\ After(g, n, b.first) = After(h, n, b.first)
      /\ Before(g, n, b.first) = Before(h, n, b.first)
  BY <1>1 DEF ForItem, Within, After, Before
<1> QED
  BY <1>1, <1>2 DEF Counts, ForItem

\* Twice the budget is out of reach: the sends of the last BudgetWindow are among those of the
\* budget's window and those of a window's length before it.
LEMMA CountsBound ==
    ASSUME NEW b \in [count : Nat, first : Times], NEW h \in Sends, NEW t \in Nat,
           Counts(b, h, Len(h)), b.first <= t, b.count <= BudgetCap
    PROVE  Cardinality({i \in DOMAIN h : h[i].keyed /\ t - h[i].ts <= BudgetWindow})
               < 2 * BudgetCap
<1> DEFINE n == Len(h)
           late == {i \in DOMAIN h : h[i].keyed /\ t - h[i].ts <= BudgetWindow}
<1>1. /\ n \in Nat /\ DOMAIN h = 1..n /\ \A i \in 1..n : h[i].ts \in Nat
      /\ b.count \in Nat /\ b.first \in Nat
      /\ BudgetCap \in Nat /\ BudgetCap > 0 /\ BudgetWindow \in Nat
  <2>1. n \in Nat /\ DOMAIN h = 1..n /\ \A i \in 1..n : h[i].ts \in Nat
    BY SendsBasics
  <2>2. b.count \in Nat /\ b.first \in Nat
    BY KernelAssumption DEF Times
  <2> QED
    BY <2>1, <2>2, KernelAssumption
<1>2. late \subseteq ForItem(h, n)
  BY <1>1 DEF ForItem
<1>3. CASE b.count = 0
  <2>1. late = {}
    BY <1>2, <1>3 DEF Counts
  <2> HIDE DEF late
  <2>2. Cardinality(late) = 0
    BY <2>1, FS_EmptySet
  <2> QED
    BY <1>1, <2>2 DEF late
<1>4. CASE b.count > 0
  <2> DEFINE inside == Within(h, n, b.first)
             before == Before(h, n, b.first)
  <2>1. late \subseteq inside \cup before
    BY <1>1, <1>2 DEF Within, Before, ForItem
  <2>2. inside \subseteq 1..n /\ before \subseteq 1..n
    BY DEF Within, Before, ForItem
  <2>3. Cardinality(inside) <= b.count /\ Cardinality(before) < BudgetCap
    BY <1>4 DEF Counts
  <2> HIDE DEF late, inside, before, n
  <2>4. /\ IsFiniteSet(inside) /\ Cardinality(inside) \in Nat
        /\ IsFiniteSet(before) /\ Cardinality(before) \in Nat
        /\ Cardinality(inside \cap before) \in Nat
    <3>1. inside \cap before \subseteq 1..n
      BY <2>2
    <3> QED
      BY <1>1, <2>2, <3>1, PartIsFinite
  <2>5. /\ IsFiniteSet(inside \cup before)
        /\ Cardinality(inside \cup before) =
              Cardinality(inside) + Cardinality(before) - Cardinality(inside \cap before)
    BY <2>4, FS_Union
  <2>6. Cardinality(late) <= Cardinality(inside \cup before) /\ Cardinality(late) \in Nat
    BY <2>1, <2>5, FS_Subset, FS_CardinalityType
  <2>7. Cardinality(late) < 2 * BudgetCap
    BY <1>1, <2>3, <2>4, <2>5, <2>6
  <2> QED
    BY <2>7 DEF late, n
<1> QED
  BY <1>1, <1>3, <1>4

\* The budget a send leaves counts that send too, and starts a new window only when the one
\* before it is over.
LEMMA SendCounts ==
    ASSUME NEW st \in Kernels, NEW text \in Texts, NEW h \in Sends, NEW g \in Sends,
           now \in Nat, ~Exhausted(st, text),
           st.budget.first <= now, st.budget.count <= BudgetCap,
           \A i \in 1..Len(h) : h[i].ts <= now,
           Counts(st.budget, h, Len(h)),
           Len(g) = Len(h) + 1, \A i \in 1..Len(h) : g[i] = h[i],
           g[Len(h) + 1] = [ts |-> now, keyed |-> text \in Keyed]
    PROVE  LET b == Recorded(st, text, Len(h) + 1).budget
           IN  b.first <= now /\ Counts(b, g, Len(g))
<1> DEFINE n == Len(h)
           old == st.budget
           b == Recorded(st, text, n + 1).budget
<1>1. /\ n \in Nat /\ \A i \in 1..n : h[i].ts \in Nat /\ h[i].ts <= now /\ g[i] = h[i]
      /\ old.count \in Nat /\ old.first \in Nat /\ old.first <= now
      /\ BudgetCap \in Nat /\ BudgetCap > 0 /\ BudgetWindow \in Nat
  <2>0. MaxTime \in Nat
    BY KernelAssumption
  <2>1. old.count \in Nat /\ old.first \in Nat
    BY <2>0 DEF Kernels, Times
  <2>2. n \in Nat /\ \A i \in 1..n : h[i].ts \in Nat
    BY SendsBasics
  <2>3. BudgetCap \in Nat /\ BudgetCap > 0 /\ BudgetWindow \in Nat
    BY KernelAssumption
  <2>4. old.first <= now /\ \A i \in 1..n : h[i].ts <= now /\ g[i] = h[i]
    OBVIOUS
  <2> QED
    BY ONLY <2>1, <2>2, <2>3, <2>4
<1>2. /\ Len(g) = n + 1 /\ g[n + 1].ts = now /\ g[n + 1].keyed = (text \in Keyed)
      /\ Counts(old, h, n)
  OBVIOUS
<1>3. b = IF text \notin Keyed THEN old
          ELSE IF Budget(st).count > 0 THEN [old EXCEPT !.count = @ + 1]
          ELSE [count |-> 1, first |-> now]
  BY DEF Recorded
<1>4. ForItem(h, n) \subseteq 1..n
  BY DEF ForItem
<1> HIDE DEF n, b
<1>0. 1..(n + 1) = 1..n \cup {n + 1} /\ n + 1 \notin 1..n
  BY <1>1
<1>5. CASE text \notin Keyed
  <2>1. ForItem(g, n + 1) = ForItem(h, n)
    BY <1>0, <1>1, <1>2, <1>5 DEF ForItem
  <2>2. /\ Within(g, n + 1, old.first) = Within(h, n, old.first)
        /\ After(g, n + 1, old.first) = After(h, n, old.first)
        /\ Before(g, n + 1, old.first) = Before(h, n, old.first)
    BY <1>1, <1>4, <2>1 DEF Within, After, Before
  <2>3. Counts(old, g, n + 1)
    BY <1>1, <1>2, <1>4, <2>1, <2>2 DEF Counts
  <2> QED
    BY <1>1, <1>2, <1>3, <1>5, <2>3 DEF n, b
<1>6. ASSUME text \in Keyed
      PROVE  ForItem(g, n + 1) = ForItem(h, n) \cup {n + 1}
  BY <1>0, <1>1, <1>2, <1>6 DEF ForItem
<1>7. CASE text \in Keyed /\ Budget(st).count > 0
  <2>1. /\ Budget(st) = old /\ old.count > 0 /\ now - old.first <= BudgetWindow
    BY <1>1, <1>7 DEF Budget, NoBudget
  <2>2. old.count < BudgetCap
    BY <1>1, <1>7, <2>1 DEF Exhausted
  <2>3. b.count = old.count + 1 /\ b.first = old.first
    <3>1. old \in [count : Nat, first : Times]
      BY DEF Kernels
    <3>2. b = [old EXCEPT !.count = @ + 1]
      BY <1>3, <1>7
    <3> QED
      BY <3>1, <3>2
  <2>4. \A i \in ForItem(g, n + 1) : g[i].ts - old.first <= BudgetWindow
    BY <1>1, <1>2, <1>4, <1>6, <1>7, <2>1 DEF Counts
  <2>5. /\ Within(g, n + 1, old.first) \subseteq Within(h, n, old.first) \cup {n + 1}
        /\ After(g, n + 1, old.first) \subseteq After(h, n, old.first) \cup {n + 1}
        /\ Before(g, n + 1, old.first) \subseteq Before(h, n, old.first)
    BY <1>1, <1>2, <1>4, <1>6, <1>7 DEF Within, After, Before
  <2>6. /\ Within(h, n, old.first) \subseteq 1..n /\ After(h, n, old.first) \subseteq 1..n
        /\ Before(h, n, old.first) \subseteq 1..n
    BY <1>4 DEF Within, After, Before
  <2>7. /\ Cardinality(Within(h, n, old.first)) <= old.count
        /\ Cardinality(After(h, n, old.first)) < old.count
        /\ Cardinality(Before(h, n, old.first)) < BudgetCap
    BY <1>2, <2>1 DEF Counts
  <2>8. /\ Cardinality(Within(h, n, old.first)) \in Nat
        /\ Cardinality(After(h, n, old.first)) \in Nat
        /\ Cardinality(Before(h, n, old.first)) \in Nat
    BY <1>1, <2>6, PartIsFinite
  <2>9. Cardinality(Within(g, n + 1, old.first)) <= old.count + 1
    <3>1. /\ Cardinality(Within(g, n + 1, old.first)) \in Nat
          /\ Cardinality(Within(g, n + 1, old.first)) <= Cardinality(Within(h, n, old.first)) + 1
      BY <1>1, <2>5, <2>6, PartGrows
    <3> QED
      BY <1>1, <2>7, <2>8, <3>1
  <2>10. Cardinality(After(g, n + 1, old.first)) < old.count + 1
    <3>1. /\ Cardinality(After(g, n + 1, old.first)) \in Nat
          /\ Cardinality(After(g, n + 1, old.first)) <= Cardinality(After(h, n, old.first)) + 1
      BY <1>1, <2>5, <2>6, PartGrows
    <3> QED
      BY <1>1, <2>7, <2>8, <3>1
  <2>11. Cardinality(Before(g, n + 1, old.first)) < BudgetCap
    <3>1. /\ Cardinality(Before(g, n + 1, old.first)) <= Cardinality(Before(h, n, old.first))
          /\ Before(g, n + 1, old.first) \subseteq 1..n
      BY <1>1, <2>5, <2>6, PartIsSmaller
    <3>2. Cardinality(Before(g, n + 1, old.first)) \in Nat
      BY <1>1, <3>1, PartIsFinite
    <3> QED
      BY <1>1, <2>7, <2>8, <3>1, <3>2
  <2>12. Counts(b, g, n + 1)
    BY <1>1, <2>3, <2>4, <2>9, <2>10, <2>11 DEF Counts
  <2> QED
    BY <1>1, <1>2, <2>3, <2>12 DEF n, b
<1>8. CASE text \in Keyed /\ ~(Budget(st).count > 0)
  <2>1. b.count = 1 /\ b.first = now
    BY <1>3, <1>8
  <2>2. \A i \in ForItem(h, n) : h[i].ts < now
    <3>1. CASE old.count = 0
      BY <1>2, <3>1 DEF Counts
    <3>2. CASE old.count > 0
      <4>1. now - old.first > BudgetWindow
        BY <1>1, <1>8, <3>2 DEF Budget
      <4>2. \A i \in ForItem(h, n) : h[i].ts - old.first <= BudgetWindow
        BY <1>2, <3>2 DEF Counts
      <4> QED
        BY <1>1, <1>4, <4>1, <4>2
    <3> QED
      BY <1>1, <3>1, <3>2
  <2>3. /\ \A i \in ForItem(g, n + 1) : g[i].ts - now <= BudgetWindow
        /\ Within(g, n + 1, now) \subseteq {} \cup {n + 1}
        /\ After(g, n + 1, now) = {}
    BY <1>1, <1>2, <1>4, <1>6, <1>8, <2>2 DEF Within, After
  <2>4. /\ Cardinality(Within(g, n + 1, now)) <= 1
        /\ Cardinality(After(g, n + 1, now)) < 1
    <3>1. {} \subseteq 1..n /\ Cardinality({}) = 0
      BY FS_EmptySet
    <3>2. Cardinality(Within(g, n + 1, now)) <= Cardinality({}) + 1
      BY <1>1, <2>3, <3>1, PartGrows
    <3>3. Cardinality(Within(g, n + 1, now)) <= 1
      BY <3>1, <3>2
    <3>4. Cardinality(After(g, n + 1, now)) = 0
      BY <2>3, <3>1
    <3> QED
      BY <3>3, <3>4
  <2>5. Cardinality(Before(g, n + 1, now)) < BudgetCap
    <3>1. CASE old.count = 0
      <4>1. ForItem(h, n) = {}
        BY <1>2, <3>1 DEF Counts
      <4>2. Before(g, n + 1, now) = {}
        BY <1>1, <1>2, <1>6, <1>8, <4>1 DEF Before
      <4> QED
        BY <1>1, <4>2, FS_EmptySet
    <3>2. CASE old.count > 0
      <4>1. now - old.first > BudgetWindow
        BY <1>1, <1>8, <3>2 DEF Budget
      <4>2. Before(g, n + 1, now) \subseteq After(h, n, old.first)
        BY <1>1, <1>2, <1>4, <1>6, <1>8, <4>1 DEF Before, After
      <4>3. After(h, n, old.first) \subseteq 1..n
        BY <1>4 DEF After
      <4>4. /\ Cardinality(Before(g, n + 1, now)) <= Cardinality(After(h, n, old.first))
            /\ Before(g, n + 1, now) \subseteq 1..n
        BY <1>1, <4>2, <4>3, PartIsSmaller
      <4>5. /\ Cardinality(Before(g, n + 1, now)) \in Nat
            /\ Cardinality(After(h, n, old.first)) \in Nat
        BY <1>1, <4>3, <4>4, PartIsFinite
      <4>6. /\ Cardinality(After(h, n, old.first)) < old.count
            /\ old.count <= BudgetCap
        <5>1. Cardinality(After(h, n, old.first)) < old.count
          BY <1>2, <3>2 DEF Counts
        <5> QED
          BY <5>1
      <4> QED
        BY <1>1, <4>4, <4>5, <4>6
    <3> QED
      BY <1>1, <3>1, <3>2
  <2>6. Counts(b, g, n + 1)
    BY <2>1, <2>3, <2>4, <2>5 DEF Counts
  <2> QED
    BY <1>1, <1>2, <2>1, <2>6 DEF n, b
<1> QED
  BY <1>5, <1>7, <1>8

LEMMA ProposeBudget ==
    ASSUME TypeOK, BudgetCounts, NEW p \in Proposals, Propose(p)
    PROVE  BudgetCounts'
<1>1. UNCHANGED <<now, resume>> /\ p.text \in Texts
  BY ProposeEnds DEF Proposals
<1>0. MaxTime \in Nat /\ sent \in Sends
  BY KernelAssumption DEF TypeOK, Sends
<1>2. /\ sent \in Sends /\ Len(sent) \in Nat /\ kernel \in Kernels /\ sig \in Screens
      /\ Fits(kernel, Len(sent)) /\ now \in 1..MaxTime + 1 /\ now \in Nat
  BY <1>0, SendsBasics DEF TypeOK
<1>3. /\ \A i \in 1..Len(sent) : sent[i].ts <= now
      /\ kernel.budget.first <= now /\ Counts(kernel.budget, sent, Len(sent))
      /\ kernel.budget.count <= BudgetCap
  BY <1>2 DEF BudgetCounts, Fits
<1>4. CASE /\ ~Exhausted(kernel, p.text)
           /\ kernel' = Recorded(kernel, p.text, Len(sent) + 1)
           /\ sent' = Append(sent, [ts |-> now, keyed |-> p.text \in Keyed])
  <2> DEFINE new == [ts |-> now, keyed |-> p.text \in Keyed]
             n == Len(sent)
  <2>1. now \in Times
    <3>1. now <= MaxTime
      BY ProposeEnds
    <3> QED
      BY <1>0, <1>2, <3>1 DEF Times
  <2>2. /\ sent' \in Sends /\ Len(sent') = n + 1 /\ sent'[n + 1] = new
        /\ \A i \in 1..n : sent'[i] = sent[i]
    BY <1>2, <1>4, <2>1 DEF Sends
  <2>3. kernel'.budget.first <= now /\ Counts(kernel'.budget, sent', Len(sent'))
    BY <1>1, <1>2, <1>3, <1>4, <2>2, SendCounts
  <2>4. \A i \in 1..Len(sent') : sent'[i].ts <= now
    <3>1. new.ts = now
      OBVIOUS
    <3> HIDE DEF new
    <3>2. \A i \in 1..(n + 1) : i \in 1..n \/ i = n + 1
      BY <1>2
    <3> QED
      BY <1>2, <1>3, <2>2, <3>1, <3>2
  <2>5. resume # Idle => /\ resume.prior.budget.first <= now
                         /\ Counts(resume.prior.budget, sent', resume.mark)
    <3> SUFFICES ASSUME resume # Idle
                 PROVE  /\ resume.prior.budget.first <= now
                        /\ Counts(resume.prior.budget, sent', resume.mark)
      OBVIOUS
    <3>1. resume.mark \in 0..n
      BY DEF TypeOK
    <3>2. resume.mark \in Nat /\ \A i \in 1..resume.mark : sent'[i] = sent[i]
      BY <1>2, <2>2, <3>1
    <3>3. Counts(resume.prior.budget, sent, resume.mark)
      BY DEF BudgetCounts
    <3> QED
      BY <3>2, <3>3, SameSendsCount DEF BudgetCounts
  <2> QED
    BY <1>1, <2>3, <2>4, <2>5 DEF BudgetCounts
<1>5. CASE UNCHANGED sent /\ \E reason : kernel' = Refused(kernel, reason)
  <2>1. kernel'.budget = kernel.budget
    BY <1>2, <1>5, RefusedTypes
  <2> QED
    BY <1>1, <1>5, <2>1 DEF BudgetCounts
<1> QED
  BY <1>4, <1>5, ProposeEnds

LEMMA OtherBudget ==
    ASSUME TypeOK, BudgetCounts,
           \/ ResumeStarts \/ ResumeEnds \/ ResumeFails
           \/ mintCapability \/ PaneMoves \/ Tick \/ Restart
    PROVE  BudgetCounts'
<1>0. /\ sent \in Sends /\ Len(sent) \in Nat /\ now \in Nat /\ MaxTime \in Nat
      /\ \A i \in 1..Len(sent) : sent[i].ts \in Nat
  <2>1. MaxTime \in Nat /\ sent \in Sends /\ now \in 1..MaxTime + 1
    BY KernelAssumption DEF TypeOK, Sends
  <2> QED
    BY <2>1, SendsBasics
<1>1. CASE ResumeStarts
  <2>1. /\ UNCHANGED <<now, kernel, sent>> /\ resume'.prior = kernel /\ resume'.mark = Len(sent)
    BY <1>1 DEF ResumeStarts
  <2> QED
    BY <2>1 DEF BudgetCounts
<1>2. CASE ResumeEnds
  <2> DEFINE mark == resume.mark
             prior == resume.prior
  <2>1. /\ resume \in [pc : {"resuming"}, prior : Kernels, mark : 0..Len(sent)]
        /\ Fits(resume.prior, resume.mark) /\ resume # Idle
    BY <1>2 DEF ResumeEnds, TypeOK
  <2>2. mark \in Nat /\ mark <= Len(sent) /\ prior \in Kernels /\ Fits(prior, mark)
    BY <1>0, <2>1
  <2>3. prior.budget.first <= now /\ Counts(prior.budget, sent, mark)
    BY <2>1 DEF BudgetCounts
  <2>4. /\ sent' = SubSeq(sent, 1, mark) /\ now' = now /\ resume' = Idle
        /\ kernel' = rebaseKernelForNewPane(prior)
    BY <1>2 DEF ResumeEnds
  <2> HIDE DEF mark, prior
  <2>5. Len(sent') = mark /\ \A i \in 1..mark : sent'[i] = sent[i]
    BY <1>0, <2>2, <2>4 DEF Sends
  <2>6. kernel'.budget = prior.budget
    BY <2>2, <2>4, RebasedTypes
  <2>7. Counts(prior.budget, sent', mark)
    BY <2>2, <2>3, <2>5, SameSendsCount
  <2>8. \A i \in 1..mark : sent'[i].ts <= now
    BY <1>0, <2>2, <2>5 DEF BudgetCounts
  <2> QED
    BY <2>3, <2>4, <2>5, <2>6, <2>7, <2>8 DEF BudgetCounts
<1>3. CASE ResumeFails
  BY <1>3 DEF ResumeFails, BudgetCounts
<1>4. CASE mintCapability
  BY <1>4 DEF mintCapability, BudgetCounts
<1>5. CASE PaneMoves
  BY <1>5 DEF PaneMoves, BudgetCounts
<1>6. CASE Tick
  <2>1. now' = now + 1 /\ UNCHANGED <<kernel, resume, sent>>
    BY <1>6 DEF Tick
  <2>2. \A t \in Nat : t <= now => t <= now + 1
    BY <1>0
  <2>3. kernel.budget.first \in Nat
    BY <1>0 DEF TypeOK, Kernels, Times
  <2>4. resume # Idle => resume.prior.budget.first \in Nat
    BY <1>0 DEF TypeOK, Kernels, Times
  <2> QED
    BY <1>0, <2>1, <2>2, <2>3, <2>4 DEF BudgetCounts
<1>7. CASE Restart
  <2>1. /\ sent' = << >> /\ resume' = Idle /\ now' = now
        /\ kernel'.budget = [count |-> 0, first |-> 0]
    BY <1>7 DEF Restart, emptyKernelState, NoBudget
  <2>2. Len(sent') = 0
    BY <2>1
  <2>3. ForItem(sent', 0) = {}
    BY DEF ForItem
  <2> QED
    BY <1>0, <2>1, <2>2, <2>3 DEF BudgetCounts, Counts
<1> QED
  BY <1>1, <1>2, <1>3, <1>4, <1>5, <1>6, <1>7

LEMMA InitBudget == Init => BudgetCounts
<1> SUFFICES ASSUME Init PROVE BudgetCounts
  OBVIOUS
<1>1. /\ Len(sent) = 0 /\ resume = Idle /\ now = 1
      /\ kernel.budget = [count |-> 0, first |-> 0]
  BY DEF Init, emptyKernelState, NoBudget
<1>2. ForItem(sent, 0) = {}
  BY DEF ForItem
<1> QED
  BY <1>1, <1>2 DEF BudgetCounts, Counts

LEMMA StepBudget == TypeOK /\ BudgetCounts /\ [Next]_vars => BudgetCounts'
<1>1. ASSUME BudgetCounts, UNCHANGED vars
      PROVE  BudgetCounts'
  BY <1>1 DEF BudgetCounts, vars
<1> QED
  BY <1>1, ProposeBudget, OtherBudget DEF Next

LEMMA BudgetFollows == TypeOK /\ BudgetCounts => BudgetBound
<1> SUFFICES ASSUME TypeOK, BudgetCounts PROVE BudgetBound
  OBVIOUS
<1>1. /\ kernel.budget \in [count : Nat, first : Times] /\ kernel.budget.count <= BudgetCap
      /\ sent \in Sends /\ now \in Nat
  BY KernelAssumption DEF TypeOK, Kernels, Fits, Sends
<1>2. kernel.budget.first <= now /\ Counts(kernel.budget, sent, Len(sent))
  BY DEF BudgetCounts
<1> QED
  BY <1>1, <1>2, CountsBound DEF BudgetBound

\* SendKernel.BudgetBound: a work item is bothered less than twice BudgetCap times within any
\* BudgetWindow (budgetState in evaluateSend), through refusals, relaunches and restarts.
THEOREM BudgetIsBounded == Spec => []BudgetBound
BY InitTypes, StepTypes, InitBudget, StepBudget, BudgetFollows, PTL DEF Spec

-----------------------------------------------------------------------------
(* The authority of a minted capability.                                   *)

\* The table of capabilities, and the uses of it that are spent.
Tables == Seq([uses : 0..Uses, expires : Nat])
SpentOf(table) == {right \in (DOMAIN table) \X (1..Uses) : right[2] > table[right[1]].uses}

LEMMA SpentIsFinite ==
    ASSUME NEW table \in Tables
    PROVE  /\ IsFiniteSet(SpentOf(table)) /\ Cardinality(SpentOf(table)) \in Nat
           /\ Len(table) \in Nat /\ DOMAIN table = 1..Len(table) /\ Uses \in Nat
<1>1. Len(table) \in Nat /\ DOMAIN table = 1..Len(table)
  BY DEF Tables
<1>2. Uses \in Nat
  BY KernelAssumption
<1>3. IsFiniteSet(1..Len(table)) /\ IsFiniteSet(1..Uses)
  BY <1>1, <1>2, FS_Interval
<1>4. IsFiniteSet((1..Len(table)) \X (1..Uses))
  BY <1>3, FS_Product
<1>5. SpentOf(table) \subseteq (1..Len(table)) \X (1..Uses)
  BY <1>1 DEF SpentOf
<1>6. IsFiniteSet(SpentOf(table))
  BY <1>4, <1>5, FS_Subset
<1> QED
  BY <1>1, <1>2, <1>6, FS_CardinalityType

\* A use of a capability that has one left spends one more.
LEMMA UseIsSpent ==
    ASSUME NEW table \in Tables, NEW c \in DOMAIN table, table[c].uses > 0
    PROVE  Cardinality(SpentOf([table EXCEPT ![c].uses = @ - 1])) = Cardinality(SpentOf(table)) + 1
<1> DEFINE left == table[c].uses
           after == [table EXCEPT ![c].uses = @ - 1]
           right == <<c, left>>
<1>1. /\ IsFiniteSet(SpentOf(table)) /\ Uses \in Nat
      /\ Len(table) \in Nat /\ DOMAIN table = 1..Len(table)
  BY SpentIsFinite
<1>2. \A d \in DOMAIN table : table[d] \in [uses : 0..Uses, expires : Nat]
  <2> DEFINE Capability == [uses : 0..Uses, expires : Nat]
  <2>1. table \in Seq(Capability)
    BY DEF Tables
  <2> HIDE DEF Capability
  <2>2. \A d \in DOMAIN table : table[d] \in Capability
    BY <1>1, <2>1
  <2> QED
    BY <2>2 DEF Capability
<1>3. \A d \in DOMAIN table : table[d].uses \in 0..Uses
  BY <1>2
<1>4. /\ DOMAIN after = DOMAIN table /\ after[c].uses = left - 1
      /\ \A d \in DOMAIN table \ {c} : after[d] = table[d]
  <2>1. table[c] \in [uses : 0..Uses, expires : Nat]
    BY <1>2
  <2>2. after = [table EXCEPT ![c] = [table[c] EXCEPT !.uses = left - 1]]
    OBVIOUS
  <2>3. [table[c] EXCEPT !.uses = left - 1].uses = left - 1
    BY <2>1
  <2> QED
    BY <2>2, <2>3
<1>5. left \in 1..Uses
  BY <1>1, <1>3
<1> HIDE DEF after, left
<1>6. right \notin SpentOf(table)
  BY <1>5 DEF SpentOf, left
<1>7. SpentOf(after) = SpentOf(table) \cup {right}
  <2>1. ASSUME NEW d \in DOMAIN table, NEW u \in 1..Uses
        PROVE  u > after[d].uses <=> (u > table[d].uses \/ (d = c /\ u = left))
    <3>1. CASE d = c
      BY <1>4, <1>5, <3>1 DEF left
    <3>2. CASE d # c
      BY <1>4, <3>2
    <3> QED
      BY <3>1, <3>2
  <2>2. ASSUME NEW r \in SpentOf(after)
        PROVE  r \in SpentOf(table) \cup {right}
    <3>1. PICK d \in DOMAIN table, u \in 1..Uses : r = <<d, u>> /\ u > after[d].uses
      BY <1>4 DEF SpentOf
    <3> QED
      BY <2>1, <3>1 DEF SpentOf
  <2>3. ASSUME NEW r \in SpentOf(table)
        PROVE  r \in SpentOf(after)
    <3>1. PICK d \in DOMAIN table, u \in 1..Uses : r = <<d, u>> /\ u > table[d].uses
      BY DEF SpentOf
    <3> QED
      BY <1>4, <2>1, <3>1 DEF SpentOf
  <2>4. right \in SpentOf(after)
    BY <1>4, <1>5, <2>1 DEF SpentOf
  <2> QED
    BY <2>2, <2>3, <2>4
<1>8. Cardinality(SpentOf(after)) = Cardinality(SpentOf(table)) + 1
  BY <1>1, <1>6, <1>7, FS_AddElement
<1> QED
  BY <1>8 DEF after

\* A capability is minted with none of its uses spent.
LEMMA MintSpendsNothing ==
    ASSUME NEW table \in Tables, NEW t
    PROVE  SpentOf(Append(table, [uses |-> Uses, expires |-> t])) = SpentOf(table)
<1> DEFINE fresh == [uses |-> Uses, expires |-> t]
           longer == Append(table, fresh)
<1>1. /\ Uses \in Nat /\ Len(table) \in Nat /\ DOMAIN table = 1..Len(table)
  BY SpentIsFinite
<1>2. fresh.uses = Uses
  OBVIOUS
<1> HIDE DEF fresh
<1>3. /\ DOMAIN longer = 1..Len(table) \cup {Len(table) + 1}
      /\ longer[Len(table) + 1] = fresh
      /\ \A d \in 1..Len(table) : longer[d] = table[d]
  BY <1>1 DEF Tables
<1> HIDE DEF longer
<1>4. \A u \in 1..Uses : ~(u > longer[Len(table) + 1].uses)
  BY <1>1, <1>2, <1>3
<1>5. SpentOf(longer) = SpentOf(table)
  BY <1>1, <1>3, <1>4 DEF SpentOf
<1> QED
  BY <1>5 DEF longer, fresh

LEMMA ProposeAuthority ==
    ASSUME TypeOK, AuthorityIsSpent, NEW p \in Proposals, Propose(p)
    PROVE  AuthorityIsSpent'
<1>1. /\ caps \in Tables /\ reserved \in Nat /\ Cardinality(SpentOf(caps)) \in Nat
      /\ reserved <= Cardinality(SpentOf(caps))
  <2>1. caps \in Tables /\ reserved \in Nat
    BY DEF TypeOK, Tables
  <2> QED
    BY <2>1, SpentIsFinite DEF AuthorityIsSpent, Spent, SpentOf
<1>2. ASSUME NEW c \in Consumable, caps' = Consume(c)
      PROVE  Cardinality(SpentOf(caps')) = Cardinality(SpentOf(caps)) + 1
  BY <1>1, <1>2, UseIsSpent DEF Consumable, Consume
<1>3. /\ UNCHANGED caps \/ \E c \in Consumable : caps' = Consume(c)
      /\ \/ UNCHANGED reserved
         \/ reserved' = reserved + 1 /\ \E c \in Consumable : caps' = Consume(c)
  BY ProposeEnds
<1>4. reserved' <= Cardinality(SpentOf(caps'))
  <2>1. CASE \E c \in Consumable : caps' = Consume(c)
    <3>1. Cardinality(SpentOf(caps')) = Cardinality(SpentOf(caps)) + 1
      BY <1>2, <2>1
    <3> QED
      BY <1>1, <1>3, <3>1
  <2>2. CASE UNCHANGED <<caps, reserved>>
    BY <1>1, <2>2
  <2> QED
    BY <1>3, <2>1, <2>2
<1> QED
  BY <1>4 DEF AuthorityIsSpent, Spent, SpentOf

LEMMA OtherAuthority ==
    ASSUME TypeOK, AuthorityIsSpent,
           \/ ResumeStarts \/ ResumeEnds \/ ResumeFails
           \/ mintCapability \/ PaneMoves \/ Tick \/ Restart
    PROVE  AuthorityIsSpent'
<1>1. CASE mintCapability
  <2>1. caps \in Tables /\ reserved' = reserved
    BY <1>1 DEF TypeOK, Tables, mintCapability
  <2>2. SpentOf(caps') = SpentOf(caps)
    BY <1>1, <2>1, MintSpendsNothing DEF mintCapability
  <2> QED
    BY <2>1, <2>2 DEF AuthorityIsSpent, Spent, SpentOf
<1>2. CASE UNCHANGED <<caps, reserved>>
  BY <1>2 DEF AuthorityIsSpent, Spent
<1> QED
  BY <1>1, <1>2 DEF ResumeStarts, ResumeEnds, ResumeFails, PaneMoves, Tick, Restart

LEMMA InitAuthority == Init => AuthorityIsSpent
<1> SUFFICES ASSUME Init PROVE AuthorityIsSpent
  OBVIOUS
<1>1. reserved = 0 /\ caps \in Tables
  BY DEF Init, Tables
<1>2. Cardinality(SpentOf(caps)) \in Nat
  BY <1>1, SpentIsFinite
<1> QED
  BY <1>1, <1>2 DEF AuthorityIsSpent, Spent, SpentOf

LEMMA StepAuthority == TypeOK /\ AuthorityIsSpent /\ [Next]_vars => AuthorityIsSpent'
<1>1. ASSUME AuthorityIsSpent, UNCHANGED vars
      PROVE  AuthorityIsSpent'
  BY <1>1 DEF AuthorityIsSpent, Spent, vars
<1> QED
  BY <1>1, ProposeAuthority, OtherAuthority DEF Next

\* SendKernel.AuthorityIsSpent: no more reserved texts reach the pane than uses of minted
\* capabilities were consumed (mediateSend, consumeCapability), restarts included.
THEOREM AuthorityIsNeverOverdrawn == Spec => []AuthorityIsSpent
BY InitTypes, StepTypes, InitAuthority, StepAuthority, PTL DEF Spec

=============================================================================
