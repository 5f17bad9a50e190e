-------------------------- MODULE InputDeliveryProofs --------------------------
(***************************************************************************)
(* What InputDelivery promises for any messages, any size of the pane and  *)
(* any number of attempts and troubles: its types, and that a message is   *)
(* given to the agent once, on its own.                                    *)
(***************************************************************************)
EXTENDS InputDelivery, FiniteSetTheorems, TLAPS

Keys == [key : {"paste"}, word : Words] \cup [key : {"enter", "return", "kill"}]
Places == {"off", "wait", "look", "clear", "paste", "confirm", "screen"}
Runs == [pc : Places, left : 0..maxAttempts]
Txs == [own : BOOLEAN, tried : BOOLEAN, observed : BOOLEAN, empties : 0..1, cursor : Cursors]

\* The parts of TypeOK, by the variables they speak of.
PaneTypes == composer \in Seq(Words) /\ pane \in Seq(Keys) /\ Len(pane) <= MaxPane
CountTypes ==
    /\ whole \in [Messages -> Nat] /\ got \in [Messages -> Nat]
    /\ logged \in [Messages -> Nat] /\ loose \in [Messages -> Nat]
    /\ \A m \in Messages : logged[m] <= whole[m] /\ whole[m] <= got[m]
    /\ mixed \in BOOLEAN
RowTypes ==
    /\ row \in [Messages -> BOOLEAN]
    /\ deferred \in [Messages -> Cursors]
    /\ retained \subseteq {m \in Messages : deferred[m] # None}

\* Who waits is in line, who is past that heads it.
RunTypes ==
    /\ run \in [Messages -> Runs]
    /\ line \in Seq(Messages)
    /\ \A m \in Messages : run[m].pc \notin {"off", "wait"} => line # <<>> /\ Head(line) = m
    /\ \A m \in Messages : run[m].pc = "wait" => \E i \in 1..Len(line) : line[i] = m
TxTypes == tx \in [Messages -> Txs]
\* An Enter is left to who has pressed none.
Patience ==
    \A m \in Messages :
        /\ run[m].pc \in {"wait", "look", "clear", "paste"} => run[m].left > 0
        /\ run[m].pc \in {"confirm", "screen"} /\ ~tx[m].tried => run[m].left > 0
Types ==
    /\ PaneTypes /\ CountTypes /\ RowTypes /\ RunTypes /\ TxTypes /\ Patience
    /\ troubles \in 0..MaxTroubles

LEMMA TypesSuffice == Types => TypeOK
BY DEF Types, PaneTypes, CountTypes, RowTypes, RunTypes, TxTypes, TypeOK, Keys, Runs, Places, Txs

-----------------------------------------------------------------------------
(* Keys, and what the steps are made of.                                   *)

LEMMA Assumed ==
    /\ maxAttempts \in Nat /\ MaxPane \in Nat /\ MaxTroubles \in Nat /\ maxAttempts > 0
    /\ Typed \in Words /\ Brain \in Words /\ Messages \subseteq Words
    /\ \A m \in Messages : m # Typed /\ m # Brain
    /\ Brain # Typed
BY DeliveryAssumption DEF Words, Typed, Brain

LEMMA KeyFacts ==
    /\ Kill \in Keys /\ Enter \in Keys /\ Return \in Keys
    /\ Kill # Enter /\ Kill # Return /\ Enter # Return
    /\ Kill.key = "kill" /\ Enter.key = "enter" /\ Return.key = "return"
    /\ \A w \in Words : Paste(w) \in Keys
    /\ \A w : Paste(w).key = "paste" /\ Paste(w).word = w
    /\ \A w : Paste(w) # Kill /\ Paste(w) # Enter /\ Paste(w) # Return
BY DEF Kill, Enter, Return, Paste, Keys

\* A key of the kind "paste" is a paste of its word.
LEMMA PasteKey ==
    ASSUME NEW k \in Keys, k.key = "paste"
    PROVE  k.word \in Words /\ k = Paste(k.word)
BY DEF Keys, Paste

\* The pane behind keys that go into it.
LEMMA Pushed ==
    ASSUME PaneTypes, NEW keys \in Seq(Keys), Into(keys)
    PROVE  /\ pane' \in Seq(Keys) /\ Len(pane') <= MaxPane
           /\ Len(pane) \in Nat /\ Len(pane') = Len(pane) + Len(keys)
           /\ \A i \in 1..Len(pane) : pane'[i] = pane[i]
           /\ \A j \in 1..Len(keys) : pane'[Len(pane) + j] = keys[j]
<1>1. pane \in Seq(Keys) /\ Len(pane) \in Nat /\ Len(keys) \in Nat
  BY DEF PaneTypes
<1>2. pane' = pane \o keys /\ Len(pane) + Len(keys) <= MaxPane
  BY DEF Into
<1> HIDE DEF Keys
<1>3. /\ pane' \in Seq(Keys) /\ Len(pane') = Len(pane) + Len(keys)
      /\ \A i \in 1..Len(pane) : pane'[i] = pane[i]
      /\ \A j \in 1..Len(keys) : pane'[Len(pane) + j] = keys[j]
  BY <1>1, <1>2
<1> QED
  BY <1>1, <1>2, <1>3

LEMMA OnePushed ==
    ASSUME PaneTypes, NEW k \in Keys, Into(<<k>>)
    PROVE  /\ pane' \in Seq(Keys) /\ Len(pane') <= MaxPane
           /\ Len(pane) \in Nat /\ Len(pane') = Len(pane) + 1
           /\ \A i \in 1..Len(pane) : pane'[i] = pane[i]
           /\ pane'[Len(pane) + 1] = k
<1>1. <<k>> \in Seq(Keys) /\ Len(<<k>>) = 1 /\ <<k>>[1] = k
  OBVIOUS
<1>2. /\ pane' \in Seq(Keys) /\ Len(pane') <= MaxPane
      /\ Len(pane) \in Nat /\ Len(pane') = Len(pane) + Len(<<k>>)
      /\ \A i \in 1..Len(pane) : pane'[i] = pane[i]
      /\ \A j \in 1..Len(<<k>>) : pane'[Len(pane) + j] = <<k>>[j]
  BY <1>1, Pushed
<1> QED
  BY <1>1, <1>2

\* The pane when its first key is read.
LEMMA Popped ==
    ASSUME PaneTypes, pane # <<>>, pane' = Tail(pane)
    PROVE  /\ pane' \in Seq(Keys) /\ Len(pane) \in Nat \ {0} /\ Len(pane') = Len(pane) - 1
           /\ \A i \in 1..Len(pane') : pane'[i] = pane[i + 1]
           /\ Head(pane) = pane[1] /\ pane[1] \in Keys
           /\ Len(pane') <= MaxPane
<1>1. pane \in Seq(Keys) /\ Len(pane) <= MaxPane /\ MaxPane \in Nat
  BY Assumed DEF PaneTypes
<1> HIDE DEF Keys
<1>2. /\ pane' \in Seq(Keys) /\ Len(pane) \in Nat \ {0} /\ Len(pane') = Len(pane) - 1
      /\ \A i \in 1..Len(pane') : pane'[i] = pane[i + 1]
      /\ Head(pane) = pane[1] /\ pane[1] \in Keys
  BY <1>1
<1> QED
  BY <1>1, <1>2

LEMMA Moved ==
    ASSUME run \in [Messages -> Runs], NEW m \in Messages, NEW pc \in Places, Move(m, pc)
    PROVE  /\ run' \in [Messages -> Runs] /\ line' = line
           /\ run'[m].pc = pc /\ run'[m].left = run[m].left
           /\ \A n \in Messages : n # m => run'[n] = run[n]
<1>1. run[m] \in Runs
  OBVIOUS
<1>2. [run[m] EXCEPT !.pc = pc] \in Runs
  BY <1>1 DEF Runs
<1>3. [run[m] EXCEPT !.pc = pc].pc = pc /\ [run[m] EXCEPT !.pc = pc].left = run[m].left
  BY <1>1 DEF Runs
<1>4. run' = [run EXCEPT ![m] = [run[m] EXCEPT !.pc = pc]] /\ line' = line
  BY DEF Move
<1> QED
  BY <1>2, <1>3, <1>4

LEMMA Ended ==
    ASSUME run \in [Messages -> Runs], line \in Seq(Messages), line # <<>>,
           NEW m \in Messages, Ends(m)
    PROVE  /\ run' \in [Messages -> Runs] /\ line' \in Seq(Messages)
           /\ Len(line) \in Nat \ {0} /\ Len(line') = Len(line) - 1
           /\ \A i \in 1..Len(line') : line'[i] = line[i + 1]
           /\ run'[m] = Off /\ run'[m].pc = "off"
           /\ \A n \in Messages : n # m => run'[n] = run[n]
<1>1. Off \in Runs /\ Off.pc = "off"
  BY Assumed DEF Off, Runs, Places
<1>2. run' = [run EXCEPT ![m] = Off] /\ line' = Tail(line)
  BY DEF Ends
<1> QED
  BY <1>1, <1>2

LEMMA DisownedTypes ==
    ASSUME TxTypes
    PROVE  /\ Disowned \in [Messages -> Txs]
           /\ \A m \in Messages : /\ Disowned[m].own = FALSE
                                  /\ Disowned[m].tried = tx[m].tried
                                  /\ Disowned[m].observed = tx[m].observed
                                  /\ Disowned[m].cursor = tx[m].cursor
<1>1. \A m \in Messages : tx[m] \in Txs
  BY DEF TxTypes
<1>2. \A m \in Messages : /\ [tx[m] EXCEPT !.own = FALSE] \in Txs
                          /\ [tx[m] EXCEPT !.own = FALSE].own = FALSE
                          /\ [tx[m] EXCEPT !.own = FALSE].tried = tx[m].tried
                          /\ [tx[m] EXCEPT !.own = FALSE].observed = tx[m].observed
                          /\ [tx[m] EXCEPT !.own = FALSE].cursor = tx[m].cursor
  BY <1>1 DEF Txs
<1> QED
  BY <1>2 DEF Disowned

LEMMA NoTxTypes ==
    /\ NoTx \in Txs /\ ~NoTx.own /\ ~NoTx.tried /\ ~NoTx.observed /\ NoTx.cursor = None
BY DEF NoTx, Txs, Cursors, None

-----------------------------------------------------------------------------
(* Types.                                                                  *)

\* The next place of the run that heads the line.
LEMMA MoveKeeps ==
    ASSUME RunTypes, NEW m \in Messages, NEW pc \in Places \ {"off", "wait"}, Move(m, pc),
           line # <<>>, Head(line) = m
    PROVE  RunTypes'
<1>1. /\ run' \in [Messages -> Runs] /\ line' = line /\ run'[m].pc = pc
      /\ \A n \in Messages : n # m => run'[n] = run[n]
  BY Moved DEF RunTypes
<1>2. /\ \A n \in Messages : run'[n].pc \notin {"off", "wait"} => line # <<>> /\ Head(line) = n
      /\ \A n \in Messages : run'[n].pc = "wait" => \E i \in 1..Len(line) : line[i] = n
  BY <1>1 DEF RunTypes
<1> QED
  BY <1>1, <1>2 DEF RunTypes

\* The run that heads the line leaves it.
LEMMA EndKeeps ==
    ASSUME RunTypes, NEW m \in Messages, Ends(m), line # <<>>, Head(line) = m
    PROVE  RunTypes'
<1>1. /\ run \in [Messages -> Runs] /\ line \in Seq(Messages)
      /\ \A n \in Messages : run[n].pc \notin {"off", "wait"} => Head(line) = n
      /\ \A n \in Messages : run[n].pc = "wait" => \E i \in 1..Len(line) : line[i] = n
  BY DEF RunTypes
<1>2. /\ run' \in [Messages -> Runs] /\ line' \in Seq(Messages)
      /\ Len(line) \in Nat \ {0} /\ Len(line') = Len(line) - 1
      /\ \A i \in 1..Len(line') : line'[i] = line[i + 1]
      /\ run'[m].pc = "off"
      /\ \A n \in Messages : n # m => run'[n] = run[n]
  BY <1>1, Ended
<1>3. line[1] = m
  BY <1>1
<1>4. \A n \in Messages : run'[n].pc \in {"off", "wait"}
  BY <1>1, <1>2
<1>5. ASSUME NEW n \in Messages, run'[n].pc = "wait"
      PROVE  \E i \in 1..Len(line') : line'[i] = n
  <2>1. n # m /\ run[n].pc = "wait"
    BY <1>2, <1>5
  <2>2. PICK i \in 1..Len(line) : line[i] = n
    BY <1>1, <2>1
  <2>3. i - 1 \in 1..Len(line') /\ (i - 1) + 1 = i
    BY <1>2, <1>3, <2>1, <2>2
  <2> QED
    BY <1>2, <2>2, <2>3
<1> QED
  BY <1>2, <1>4, <1>5 DEF RunTypes

LEMMA HeadsLine ==
    ASSUME RunTypes, NEW m \in Messages, run[m].pc \notin {"off", "wait"}
    PROVE  line # <<>> /\ Head(line) = m
BY DEF RunTypes

\* A submission that another one takes the place of, or that is put aside.
LEMMA TxReplaced ==
    ASSUME TxTypes, NEW m \in Messages, NEW t \in Txs, tx' = [tx EXCEPT ![m] = t]
    PROVE  TxTypes' /\ tx'[m] = t /\ \A n \in Messages : n # m => tx'[n] = tx[n]
BY DEF TxTypes

LEMMA PushTypes ==
    ASSUME PaneTypes, NEW k \in Keys, Into(<<k>>), composer' = composer
    PROVE  PaneTypes'
BY OnePushed DEF PaneTypes

LEMMA InitTypes == Init => Types
<1> SUFFICES ASSUME Init PROVE Types
  OBVIOUS
<1>1. PaneTypes
  BY Assumed DEF Init, PaneTypes
<1>2. CountTypes
  <2> DEFINE zero == [m \in Messages |-> 0]
  <2>1. whole = zero /\ got = zero /\ logged = zero /\ loose = zero /\ mixed = FALSE
    BY DEF Init
  <2>2. zero \in [Messages -> Nat] /\ \A m \in Messages : zero[m] <= zero[m]
    OBVIOUS
  <2> QED
    BY <2>1, <2>2 DEF CountTypes
<1>3. RowTypes
  BY DEF Init, RowTypes, Cursors
<1>4. Off \in Runs /\ Off.pc = "off"
  BY Assumed DEF Off, Runs, Places
<1>5. RunTypes /\ Patience
  BY <1>4 DEF Init, RunTypes, Patience
<1>6. TxTypes
  BY NoTxTypes DEF Init, TxTypes
<1> QED
  BY <1>1, <1>2, <1>3, <1>5, <1>6, Assumed DEF Init, Types

LEMMA ReadsTypes == Types /\ Reads => Types'
<1> SUFFICES ASSUME Types, Reads PROVE Types'
  OBVIOUS
<1>0. PaneTypes /\ CountTypes
  BY DEF Types
<1>1. PaneTypes'
  <2>1. /\ pane' \in Seq(Keys) /\ Len(pane') <= MaxPane
        /\ Head(pane) \in Keys
    BY <1>0, Popped DEF Reads
  <2>2. composer' \in Seq(Words)
    <3>1. composer \in Seq(Words)
      BY <1>0 DEF PaneTypes
    <3>2. CASE Head(pane).key = "paste" /\ composer' = Append(composer, Head(pane).word)
      <4>1. Head(pane).word \in Words
        BY <2>1, <3>2, PasteKey
      <4> QED
        BY <3>1, <3>2, <4>1
    <3>3. CASE composer' = <<>>
      <4>1. <<>> \in Seq(Words)
        OBVIOUS
      <4> QED
        BY <3>3, <4>1
    <3>4. CASE composer' = composer
      BY <3>1, <3>4
    <3> QED
      BY <3>2, <3>3, <3>4 DEF Reads, Submitted
  <2> QED
    BY <2>1, <2>2 DEF PaneTypes
<1>2. CountTypes' /\ UNCHANGED <<logged, loose>>
  <2>1. UNCHANGED <<logged, loose>>
    BY DEF Reads
  <2>2. CASE UNCHANGED <<whole, got, mixed>>
    BY <1>0, <2>1, <2>2 DEF CountTypes
  <2>3. CASE \E by : Submitted(by)
    <3>1. PICK by : Submitted(by)
      BY <2>3
    <3>2. /\ whole' = [m \in Messages |-> IF composer = <<m>> THEN whole[m] + 1 ELSE whole[m]]
          /\ got' = [m \in Messages |-> IF m \in Range(composer) THEN got[m] + 1 ELSE got[m]]
          /\ mixed' \in BOOLEAN
      BY <1>0, <3>1 DEF Submitted, CountTypes
    <3>3. ASSUME NEW m \in Messages, composer = <<m>>
          PROVE  m \in Range(composer)
      <4>1. 1 \in DOMAIN composer /\ composer[1] = m
        BY <3>3
      <4> QED
        BY <4>1 DEF Range
    <3>4. whole' \in [Messages -> Nat] /\ got' \in [Messages -> Nat]
      BY <1>0, <3>2 DEF CountTypes
    <3>5. \A m \in Messages : logged[m] <= whole'[m] /\ whole'[m] <= got'[m]
      BY <1>0, <3>2, <3>3 DEF CountTypes
    <3> QED
      BY <1>0, <2>1, <3>2, <3>4, <3>5 DEF CountTypes
  <2> QED
    BY <2>1, <2>2, <2>3 DEF Reads
<1>3. UNCHANGED <<row, deferred, run, line, tx, retained, troubles>>
  BY DEF Reads, memory
<1> QED
  BY <1>1, <1>2, <1>3 DEF Types, RowTypes, RunTypes, TxTypes, Patience

LEMMA LogsTypes == ASSUME Types, NEW m \in Messages, Logs(m) PROVE Types'
<1>1. /\ logged[m] < whole[m] /\ logged' = [logged EXCEPT ![m] = @ + 1]
      /\ UNCHANGED <<composer, pane, whole, got, mixed, row, deferred, run, line, tx, retained,
                     loose, troubles>>
  BY DEF Logs, memory
<1>2. CountTypes'
  BY <1>1 DEF Types, CountTypes
<1> QED
  BY <1>1, <1>2 DEF Types, PaneTypes, RowTypes, RunTypes, TxTypes, Patience

LEMMA TroubleTypes == troubles \in 0..MaxTroubles /\ Trouble => troubles' \in 0..MaxTroubles
BY Assumed DEF Trouble

\* Disowned submissions are submissions as before.
LEMMA DisownKeeps ==
    ASSUME Types, tx' = Disowned, run' = run
    PROVE  TxTypes' /\ Patience'
BY DisownedTypes DEF Types, TxTypes, Patience

LEMMA TypesKeyTypes ==
    ASSUME Types, NEW k \in {Paste(Typed), Return, Kill}, TypesKey(k)
    PROVE  Types'
<1>1. /\ k \in Keys /\ Into(<<k>>) /\ tx' = Disowned
      /\ UNCHANGED <<composer, whole, got, mixed, logged, row, deferred, run, line, retained, loose>>
  BY KeyFacts, Assumed DEF TypesKey, agent
<1>2. PaneTypes'
  BY <1>1, PushTypes DEF Types
<1>3. troubles' \in 0..MaxTroubles
  BY TroubleTypes DEF TypesKey, Types
<1>4. TxTypes' /\ Patience'
  BY <1>1, DisownKeeps
<1> QED
  BY <1>1, <1>2, <1>3, <1>4 DEF Types, CountTypes, RowTypes, RunTypes

LEMMA AgentSendsTypes == Types /\ AgentSends => Types'
<1> SUFFICES ASSUME Types, AgentSends PROVE Types'
  OBVIOUS
<1>1. /\ Into(<<Kill, Paste(Brain), Enter>>) /\ tx' = Disowned
      /\ UNCHANGED <<composer, whole, got, mixed, logged, row, deferred, run, line, retained, loose>>
  BY DEF AgentSends, agent
<1>2. <<Kill, Paste(Brain), Enter>> \in Seq(Keys)
  BY KeyFacts, Assumed
<1>3. PaneTypes'
  BY <1>1, <1>2, Pushed DEF Types, PaneTypes
<1>4. troubles' \in 0..MaxTroubles
  BY TroubleTypes DEF AgentSends, Types
<1>5. TxTypes' /\ Patience'
  BY <1>1, DisownKeeps
<1> QED
  BY <1>1, <1>3, <1>4, <1>5 DEF Types, CountTypes, RowTypes, RunTypes

LEMMA PostTypes == ASSUME Types, NEW m \in Messages, Post(m) PROVE Types'
<1>1. /\ UNCHANGED <<composer, whole, got, mixed, logged, pane, row, deferred, tx, retained, loose,
                     troubles>>
      /\ run' = [run EXCEPT ![m] = [pc |-> "wait", left |-> maxAttempts]]
      /\ line' = Append(line, m)
  BY DEF Post, agent
<1> DEFINE posted == [pc |-> "wait", left |-> maxAttempts]
<1>2. posted \in Runs /\ posted.pc = "wait" /\ posted.left > 0
  BY Assumed DEF Runs, Places
<1> HIDE DEF posted
<1>3. /\ run' \in [Messages -> Runs] /\ run'[m] = posted
      /\ \A n \in Messages : n # m => run'[n] = run[n]
  BY <1>1, <1>2 DEF Types, RunTypes, posted
<1>4. /\ line \in Seq(Messages) /\ line' \in Seq(Messages) /\ Len(line) \in Nat
      /\ Len(line') = Len(line) + 1
      /\ line'[Len(line) + 1] = m /\ \A i \in 1..Len(line) : line'[i] = line[i]
  BY <1>1 DEF Types, RunTypes
<1>5. line # <<>> => line' # <<>> /\ Head(line') = Head(line)
  BY <1>4
<1>6. RunTypes'
  <2>1. \A n \in Messages : run'[n].pc \notin {"off", "wait"} => line' # <<>> /\ Head(line') = n
    BY <1>2, <1>3, <1>5 DEF Types, RunTypes
  <2>2. ASSUME NEW n \in Messages, run'[n].pc = "wait"
        PROVE  \E i \in 1..Len(line') : line'[i] = n
    <3>1. CASE n = m
      BY <1>4, <3>1
    <3>2. CASE n # m
      <4>1. PICK i \in 1..Len(line) : line[i] = n
        BY <1>3, <2>2, <3>2 DEF Types, RunTypes
      <4> QED
        BY <1>4, <4>1
    <3> QED
      BY <3>1, <3>2
  <2> QED
    BY <1>3, <1>4, <2>1, <2>2 DEF RunTypes
<1>7. Patience'
  BY <1>1, <1>2, <1>3 DEF Types, Patience
<1> QED
  BY <1>1, <1>6, <1>7 DEF Types, PaneTypes, CountTypes, RowTypes, TxTypes

LEMMA ConfirmsTypes == ASSUME Types, NEW m \in Messages, Confirms(m) PROVE Types'
<1>1. /\ UNCHANGED <<composer, whole, got, mixed, logged, pane, deferred, run, line, tx, loose,
                     troubles>>
      /\ row' = [row EXCEPT ![m] = TRUE] /\ retained' = retained \ {m}
  BY DEF Confirms, agent
<1>2. RowTypes'
  BY <1>1 DEF Types, RowTypes
<1> QED
  BY <1>1, <1>2 DEF Types, PaneTypes, CountTypes, RunTypes, TxTypes, Patience

LEMMA EvictTypes == ASSUME Types, NEW m \in Messages, Evict(m) PROVE Types'
<1>1. /\ UNCHANGED <<composer, whole, got, mixed, logged, pane, row, deferred, run, line, loose,
                     troubles>>
      /\ retained' = retained \ {m} /\ tx' = [tx EXCEPT ![m] = NoTx] /\ run[m] = Off
  BY DEF Evict, agent
<1>2. RowTypes'
  BY <1>1 DEF Types, RowTypes
<1>3. TxTypes' /\ \A n \in Messages : n # m => tx'[n] = tx[n]
  BY <1>1, NoTxTypes, TxReplaced DEF Types
<1>4. Patience'
  BY <1>1, <1>3 DEF Types, Patience, Off
<1> QED
  BY <1>1, <1>2, <1>3, <1>4 DEF Types, PaneTypes, CountTypes, RunTypes

LEMMA TurnTypes == ASSUME Types, NEW m \in Messages, Turn(m) PROVE Types'
<1>1. /\ UNCHANGED <<composer, whole, got, mixed, logged, pane, row, deferred, retained, loose>>
      /\ run[m].pc = "wait" /\ Head(line) = m
      /\ troubles' \in 0..MaxTroubles
  BY TroubleTypes DEF Turn, agent, MyTurn, Types
<1>2. line # <<>>
  <2>1. \E i \in 1..Len(line) : line[i] = m
    BY <1>1 DEF Types, RunTypes
  <2> QED
    BY <2>1
<1>3. PICK pc \in {"look", "confirm"} :
         /\ Move(m, pc)
         /\ pc = "confirm" => UNCHANGED tx
         /\ pc = "look" => tx' \in {[Disowned EXCEPT ![m] = [NoTx EXCEPT !.own = TRUE, !.cursor = logged[m]]],
                                    [Disowned EXCEPT ![m] = [NoTx EXCEPT !.own = TRUE]]}
  BY DEF Turn
<1>4. RunTypes'
  BY <1>1, <1>2, <1>3, MoveKeeps DEF Types, Places
<1>5. /\ TxTypes' /\ \A n \in Messages : n # m => tx'[n] \in {tx[n], Disowned[n]}
      /\ pc = "confirm" => tx' = tx
  <2>1. logged[m] \in Cursors
    BY DEF Types, CountTypes, Cursors
  <2>2. /\ [NoTx EXCEPT !.own = TRUE, !.cursor = logged[m]] \in Txs
        /\ [NoTx EXCEPT !.own = TRUE] \in Txs
    BY <2>1, NoTxTypes DEF Txs
  <2> QED
    BY <1>3, <2>2, DisownedTypes DEF Types, TxTypes
<1>6. /\ run'[m].pc = pc /\ run'[m].left = run[m].left
      /\ \A n \in Messages : n # m => run'[n] = run[n]
  BY <1>3, Moved DEF Types, RunTypes, Places
<1>7. Patience'
  <2>1. \A n \in Messages : n # m => tx'[n].tried = tx[n].tried
    BY <1>5, DisownedTypes DEF Types
  <2> QED
    BY <1>1, <1>3, <1>6, <2>1 DEF Types, Patience
<1> QED
  BY <1>1, <1>4, <1>5, <1>7 DEF Types, PaneTypes, CountTypes, RowTypes

\* The run that heads the line gives up and leaves nothing, or leaves a submission.
LEMMA LeavesTypes ==
    ASSUME Types, NEW m \in Messages, NEW t \in Txs, run[m].pc \notin {"off", "wait"},
           Ends(m), tx' = [tx EXCEPT ![m] = t]
    PROVE  RunTypes' /\ TxTypes' /\ Patience'
<1>1. line # <<>> /\ Head(line) = m /\ RunTypes
  BY HeadsLine DEF Types
<1>2. RunTypes'
  BY <1>1, EndKeeps
<1>3. TxTypes' /\ \A n \in Messages : n # m => tx'[n] = tx[n]
  BY TxReplaced DEF Types
<1>4. run'[m].pc = "off" /\ \A n \in Messages : n # m => run'[n] = run[n]
  BY <1>1, Ended DEF RunTypes
<1> QED
  BY <1>2, <1>3, <1>4 DEF Patience, Types

\* The run that heads the line goes on, its submission tried as before.
LEMMA GoesOnTypes ==
    ASSUME Types, NEW m \in Messages, NEW pc \in {"clear", "paste", "confirm", "screen"},
           run[m].pc \notin {"off", "wait"}, Move(m, pc), TxTypes',
           tx'[m].tried = tx[m].tried, \A n \in Messages : n # m => tx'[n] = tx[n],
           run[m].pc = "look" \/ pc \in {"clear", "paste"} => run[m].left > 0
    PROVE  RunTypes' /\ Patience'
<1>1. line # <<>> /\ Head(line) = m /\ RunTypes
  BY HeadsLine DEF Types
<1>2. RunTypes'
  BY <1>1, MoveKeeps DEF Places
<1>3. /\ run'[m].pc = pc /\ run'[m].left = run[m].left
      /\ \A n \in Messages : n # m => run'[n] = run[n]
  BY <1>1, Moved DEF RunTypes, Places
<1>4. run[m].pc \in Places
  BY <1>1 DEF RunTypes, Runs
<1>5. ~tx[m].tried => run[m].left > 0
  BY <1>4 DEF Types, Patience, Places
<1> QED
  BY <1>2, <1>3, <1>5 DEF Types, Patience

LEMMA LookTypes == ASSUME Types, NEW m \in Messages, Look(m) PROVE Types'
<1>1. /\ UNCHANGED <<composer, whole, got, mixed, logged, pane, row, deferred, retained, loose,
                     troubles>>
      /\ run[m].pc = "look"
  BY DEF Look, agent
<1>2. CASE UNCHANGED tx /\ \E pc \in {"clear", "confirm"} : Move(m, pc)
  <2>1. run[m].left > 0
    BY <1>1 DEF Types, Patience
  <2>2. TxTypes'
    BY <1>2 DEF Types, TxTypes
  <2>3. RunTypes' /\ Patience'
    BY <1>1, <1>2, <2>1, <2>2, GoesOnTypes
  <2> QED
    BY <1>1, <2>2, <2>3 DEF Types, PaneTypes, CountTypes, RowTypes
<1>3. CASE Ends(m) /\ tx' = [tx EXCEPT ![m] = NoTx]
  <2>1. RunTypes' /\ TxTypes' /\ Patience'
    BY <1>1, <1>3, NoTxTypes, LeavesTypes
  <2> QED
    BY <1>1, <2>1 DEF Types, PaneTypes, CountTypes, RowTypes
<1> QED
  BY <1>2, <1>3 DEF Look

LEMMA InputChangedTypes == ASSUME Types, NEW m \in Messages, InputChanged(m) PROVE Types'
<1>1. /\ UNCHANGED <<composer, whole, got, mixed, logged, pane, row, deferred, retained, loose,
                     troubles>>
      /\ run[m].pc \in {"clear", "paste"} /\ Ends(m) /\ tx' = [tx EXCEPT ![m] = NoTx]
  BY DEF InputChanged, agent
<1>2. RunTypes' /\ TxTypes' /\ Patience'
  BY <1>1, NoTxTypes, LeavesTypes
<1> QED
  BY <1>1, <1>2 DEF Types, PaneTypes, CountTypes, RowTypes

LEMMA ClearTypes == ASSUME Types, NEW m \in Messages, Clear(m) PROVE Types'
<1>1. /\ UNCHANGED <<composer, whole, got, mixed, logged, row, deferred, tx, retained, loose,
                     troubles>>
      /\ run[m].pc = "clear" /\ Move(m, "paste") /\ Into(<<Kill>>)
  BY DEF Clear, agent
<1>2. PaneTypes'
  BY <1>1, KeyFacts, PushTypes DEF Types
<1>3. TxTypes' /\ run[m].left > 0
  BY <1>1 DEF Types, TxTypes, Patience
<1>4. RunTypes' /\ Patience'
  BY <1>1, <1>3, GoesOnTypes
<1> QED
  BY <1>1, <1>2, <1>3, <1>4 DEF Types, CountTypes, RowTypes

LEMMA PasteWordsTypes == ASSUME Types, NEW m \in Messages, PasteWords(m) PROVE Types'
<1>1. /\ UNCHANGED <<composer, whole, got, mixed, logged, row, deferred, retained>>
      /\ run[m].pc = "paste" /\ Into(<<Paste(m)>>)
  BY DEF PasteWords, agent
<1>2. PaneTypes'
  BY <1>1, KeyFacts, Assumed, PushTypes DEF Types
<1>3. CASE Move(m, "confirm") /\ UNCHANGED <<tx, loose, troubles>>
  <2>1. TxTypes' /\ run[m].left > 0
    BY <1>1, <1>3 DEF Types, TxTypes, Patience
  <2>2. RunTypes' /\ Patience'
    BY <1>1, <1>3, <2>1, GoesOnTypes
  <2> QED
    BY <1>1, <1>2, <1>3, <2>1, <2>2 DEF Types, CountTypes, RowTypes
<1>4. CASE Trouble /\ Ends(m) /\ tx' = [tx EXCEPT ![m] = NoTx] /\ loose' = [loose EXCEPT ![m] = @ + 1]
  <2>1. RunTypes' /\ TxTypes' /\ Patience'
    BY <1>1, <1>4, NoTxTypes, LeavesTypes
  <2>2. CountTypes'
    BY <1>1, <1>4 DEF Types, CountTypes
  <2>3. troubles' \in 0..MaxTroubles
    BY <1>4, TroubleTypes DEF Types
  <2> QED
    BY <1>1, <1>2, <2>1, <2>2, <2>3 DEF Types, RowTypes
<1> QED
  BY <1>3, <1>4 DEF PasteWords

\* At most the count of the deliveries without a record goes up.
CountsKept(m) == loose' = loose \/ loose' = [loose EXCEPT ![m] = @ + 1]

LEMMA CountsStay ==
    ASSUME CountTypes, NEW m \in Messages, CountsKept(m), UNCHANGED <<whole, got, mixed, logged>>
    PROVE  CountTypes'
<1>1. loose' \in [Messages -> Nat]
  BY DEF CountsKept, CountTypes
<1> QED
  BY <1>1 DEF CountTypes

\* What deliverReply makes of the answer of submit.
LEMMA AcceptedTypes ==
    ASSUME Types, NEW m \in Messages, Accepted(m), run[m].pc \in {"confirm", "screen"}
    PROVE  CountsKept(m) /\ RowTypes' /\ RunTypes' /\ TxTypes' /\ Patience'
<1>1. /\ row' = [row EXCEPT ![m] = TRUE] /\ retained' = retained \ {m}
      /\ UNCHANGED <<deferred, loose>>
      /\ Ends(m) /\ tx' = [tx EXCEPT ![m] = NoTx]
  BY DEF Accepted
<1>2. RowTypes'
  BY <1>1 DEF Types, RowTypes
<1>3. RunTypes' /\ TxTypes' /\ Patience'
  BY <1>1, NoTxTypes, LeavesTypes
<1> QED
  BY <1>1, <1>2, <1>3 DEF CountsKept, Types, CountTypes

LEMMA UnconfirmedTypes ==
    ASSUME Types, NEW m \in Messages, NEW t \in Txs, t.cursor = tx[m].cursor, Unconfirmed(m, t),
           run[m].pc \in {"confirm", "screen"}
    PROVE  CountsKept(m) /\ RowTypes' /\ RunTypes' /\ TxTypes' /\ Patience'
<1>1. Ends(m) /\ row' = row
  BY DEF Unconfirmed
<1>2. CASE t.cursor = None
  <2>1. /\ loose' = [loose EXCEPT ![m] = @ + 1] /\ tx' = [tx EXCEPT ![m] = NoTx]
        /\ UNCHANGED <<deferred, retained>>
    BY <1>2 DEF Unconfirmed
  <2>2. RunTypes' /\ TxTypes' /\ Patience'
    BY <1>1, <2>1, NoTxTypes, LeavesTypes
  <2> QED
    BY <1>1, <2>1, <2>2 DEF CountsKept, Types, CountTypes, RowTypes
<1>3. CASE t.cursor # None
  <2>1. /\ deferred' = [deferred EXCEPT ![m] = IF @ = None THEN tx[m].cursor ELSE @]
        /\ retained' = retained \cup {m} /\ tx' = [tx EXCEPT ![m] = t] /\ loose' = loose
    BY <1>3 DEF Unconfirmed, DeferredCursor
  <2>2. RunTypes' /\ TxTypes' /\ Patience'
    BY <1>1, <2>1, LeavesTypes
  <2>3. t.cursor \in Cursors
    BY DEF Txs
  <2>4. /\ deferred' \in [Messages -> Cursors] /\ deferred'[m] # None
        /\ \A n \in Messages : n # m => deferred'[n] = deferred[n]
    BY <1>3, <2>1, <2>3 DEF Types, RowTypes
  <2>5. RowTypes'
    BY <1>1, <2>1, <2>4 DEF Types, RowTypes
  <2> QED
    BY <2>1, <2>2, <2>5 DEF CountsKept, Types, CountTypes
<1> QED
  BY <1>2, <1>3

LEMMA ConfirmTypes == ASSUME Types, NEW m \in Messages, Confirm(m) PROVE Types'
<1>1. UNCHANGED <<composer, whole, got, mixed, logged, pane, troubles>> /\ run[m].pc = "confirm"
  BY DEF Confirm, agent
<1>2. CASE \/ Accepted(m) \/ Unconfirmed(m, tx[m])
  <2>1. tx[m] \in Txs
    BY DEF Types, TxTypes
  <2>2. CountsKept(m) /\ RowTypes' /\ RunTypes' /\ TxTypes' /\ Patience'
    BY <1>1, <1>2, <2>1, AcceptedTypes, UnconfirmedTypes
  <2> QED
    BY <1>1, <2>2, CountsStay DEF Types, PaneTypes
<1>3. CASE Move(m, "screen") /\ UNCHANGED <<row, deferred, tx, retained, loose>>
  <2>1. TxTypes'
    BY <1>3 DEF Types, TxTypes
  <2>2. RunTypes' /\ Patience'
    BY <1>1, <1>3, <2>1, GoesOnTypes
  <2> QED
    BY <1>1, <1>3, <2>1, <2>2 DEF Types, PaneTypes, CountTypes, RowTypes
<1> QED
  BY <1>2, <1>3 DEF Confirm

LEMMA InterruptedTypes == ASSUME Types, NEW m \in Messages, Interrupted(m) PROVE Types'
<1>1. /\ UNCHANGED <<composer, whole, got, mixed, logged, pane, troubles>>
      /\ run[m].pc = "screen" /\ Unconfirmed(m, [tx[m] EXCEPT !.own = FALSE])
  BY DEF Interrupted, agent
<1>2. tx[m] \in Txs
  BY DEF Types, TxTypes
<1>3. [tx[m] EXCEPT !.own = FALSE] \in Txs /\ [tx[m] EXCEPT !.own = FALSE].cursor = tx[m].cursor
  BY <1>2 DEF Txs
<1>4. CountsKept(m) /\ RowTypes' /\ RunTypes' /\ TxTypes' /\ Patience'
  BY <1>1, <1>3, UnconfirmedTypes
<1> QED
  BY <1>1, <1>4, CountsStay DEF Types, PaneTypes

\* What a look at the composer leaves of a submission.
LEMMA SeenTypes ==
    ASSUME NEW t \in Txs, NEW view
    PROVE  /\ Seen(t, view) \in Txs
           /\ Seen(t, view).own = t.own /\ Seen(t, view).tried = t.tried
           /\ Seen(t, view).cursor = t.cursor
           /\ Seen(t, view).observed <=> (t.observed \/ view = "draft")
<1> DEFINE o == t.observed \/ view = "draft"
           e == IF view = "empty" THEN 1 ELSE 0
<1>1. o \in BOOLEAN /\ e \in 0..1
  OBVIOUS
<1>2. Seen(t, view) = [t EXCEPT !.observed = o, !.empties = e]
  BY DEF Seen
<1> HIDE DEF o, e
<1>3. [t EXCEPT !.observed = o, !.empties = e] \in Txs
  BY <1>1 DEF Txs
<1>4. /\ [t EXCEPT !.observed = o, !.empties = e].own = t.own
      /\ [t EXCEPT !.observed = o, !.empties = e].tried = t.tried
      /\ [t EXCEPT !.observed = o, !.empties = e].cursor = t.cursor
      /\ [t EXCEPT !.observed = o, !.empties = e].observed = o
  BY DEF Txs
<1> QED
  BY <1>2, <1>3, <1>4 DEF o

\* The Enter, as it is recorded.
Pressed(t, view) == [Seen(t, view) EXCEPT !.tried = TRUE, !.empties = 0]
LEMMA PressedTypes ==
    ASSUME NEW t \in Txs, NEW view
    PROVE  /\ Pressed(t, view) \in Txs
           /\ Pressed(t, view).own = t.own /\ Pressed(t, view).tried
           /\ Pressed(t, view).cursor = t.cursor
           /\ Pressed(t, view).observed <=> (t.observed \/ view = "draft")
<1> DEFINE s == Seen(t, view)
<1>1. s \in Txs /\ s.own = t.own /\ s.cursor = t.cursor
      /\ (s.observed <=> (t.observed \/ view = "draft"))
  BY SeenTypes
<1>2. Pressed(t, view) = [s EXCEPT !.tried = TRUE, !.empties = 0]
  BY DEF Pressed
<1> HIDE DEF s
<1>3. [s EXCEPT !.tried = TRUE, !.empties = 0] \in Txs
  <2>1. 0 \in 0..1 /\ TRUE \in BOOLEAN
    OBVIOUS
  <2> QED
    BY <1>1, <2>1 DEF Txs
<1>4. /\ [s EXCEPT !.tried = TRUE, !.empties = 0].own = s.own
      /\ [s EXCEPT !.tried = TRUE, !.empties = 0].tried
      /\ [s EXCEPT !.tried = TRUE, !.empties = 0].cursor = s.cursor
      /\ [s EXCEPT !.tried = TRUE, !.empties = 0].observed = s.observed
  BY <1>1 DEF Txs
<1> QED
  BY <1>1, <1>2, <1>3, <1>4

\* The four ways a look ends: the line is clear, an Enter, patience, the deadline.
ScreenCleared(m, view) ==
    view = "empty" /\ Cleared(tx[m]) /\ Accepted(m) /\ UNCHANGED pane
ScreenEnter(m, view) ==
    /\ ~tx[m].tried \/ (view = "draft" /\ run[m].left > 0)
    /\ Into(<<Enter>>) /\ tx' = [tx EXCEPT ![m] = Pressed(tx[m], view)]
    /\ run' = [run EXCEPT ![m] = [pc |-> "confirm", left |-> @.left - 1]]
    /\ UNCHANGED <<row, deferred, line, retained, loose>>
ScreenWaits(m, view) ==
    /\ tx[m].tried /\ tx' = [tx EXCEPT ![m] = Seen(tx[m], view)] /\ Move(m, "confirm")
    /\ UNCHANGED <<pane, row, deferred, retained, loose>>
ScreenGivesUp(m, view) ==
    tx[m].tried /\ Unconfirmed(m, Seen(tx[m], view)) /\ UNCHANGED pane

LEMMA ScreenEnds ==
    ASSUME NEW m \in Messages, Screen(m)
    PROVE  /\ run[m].pc = "screen" /\ tx[m].own /\ Echoed
           /\ UNCHANGED <<composer, whole, got, mixed, logged, troubles>>
           /\ \E view \in {"empty", "draft", "unknown"} :
                 /\ view = "draft" => composer # <<>>
                 /\ view = "empty" => composer = <<>>
                 /\ \/ ScreenCleared(m, view) \/ ScreenEnter(m, view)
                    \/ ScreenWaits(m, view) \/ ScreenGivesUp(m, view)
<1>1. /\ run[m].pc = "screen" /\ tx[m].own /\ Echoed
      /\ UNCHANGED <<composer, whole, got, mixed, logged, troubles>>
  BY DEF Screen, agent, Unchanged
<1>2. PICK view \in Views : \/ ScreenCleared(m, view) \/ ScreenEnter(m, view)
                            \/ ScreenWaits(m, view) \/ ScreenGivesUp(m, view)
  BY DEF Screen, ScreenCleared, ScreenEnter, ScreenWaits, ScreenGivesUp, Pressed
<1>3. /\ view \in {"empty", "draft", "unknown"}
      /\ view = "draft" => composer # <<>>
      /\ view = "empty" => composer = <<>>
  BY DEF Views
<1> QED
  BY <1>1, <1>2, <1>3 DEF Views

LEMMA ScreenTypes == ASSUME Types, NEW m \in Messages, Screen(m) PROVE Types'
<1>1. /\ UNCHANGED <<composer, whole, got, mixed, logged, troubles>> /\ run[m].pc = "screen"
  BY ScreenEnds
<1>2. PICK view : \/ ScreenCleared(m, view) \/ ScreenEnter(m, view)
                  \/ ScreenWaits(m, view) \/ ScreenGivesUp(m, view)
  BY ScreenEnds
<1>3. tx[m] \in Txs
  BY DEF Types, TxTypes
<1>4. CASE ScreenCleared(m, view) \/ ScreenGivesUp(m, view)
  <2>1. CountsKept(m) /\ RowTypes' /\ RunTypes' /\ TxTypes' /\ Patience' /\ UNCHANGED pane
    BY <1>1, <1>3, <1>4, AcceptedTypes, UnconfirmedTypes, SeenTypes DEF ScreenCleared, ScreenGivesUp
  <2> QED
    BY <1>1, <2>1, CountsStay DEF Types, PaneTypes
<1>5. CASE ScreenEnter(m, view)
  <2>1. PaneTypes'
    BY <1>1, <1>5, KeyFacts, PushTypes DEF Types, ScreenEnter
  <2>2. /\ TxTypes' /\ tx'[m].tried /\ \A n \in Messages : n # m => tx'[n] = tx[n]
    <3>1. Pressed(tx[m], view) \in Txs /\ Pressed(tx[m], view).tried
      BY <1>3, PressedTypes
    <3>2. tx' = [tx EXCEPT ![m] = Pressed(tx[m], view)] /\ TxTypes
      BY <1>5 DEF Types, ScreenEnter
    <3> QED
      BY <3>1, <3>2, TxReplaced
  <2>3. run[m].left \in 0..maxAttempts /\ run[m].left > 0 /\ maxAttempts \in Nat
    BY <1>1, <1>5, Assumed DEF Types, RunTypes, Runs, Patience, ScreenEnter
  <2> DEFINE r == [pc |-> "confirm", left |-> run[m].left - 1]
  <2>4. r \in Runs /\ r.pc = "confirm"
    BY <2>3 DEF Runs, Places
  <2>5. run' = [run EXCEPT ![m] = r] /\ UNCHANGED <<row, deferred, line, retained, loose>>
    BY <1>5 DEF ScreenEnter
  <2> HIDE DEF r
  <2>6. /\ run' \in [Messages -> Runs] /\ run'[m] = r
        /\ \A n \in Messages : n # m => run'[n] = run[n]
    BY <2>4, <2>5 DEF Types, RunTypes
  <2>7. RunTypes'
    BY <1>1, <2>4, <2>5, <2>6 DEF Types, RunTypes
  <2>8. Patience'
    BY <2>2, <2>4, <2>6 DEF Types, Patience
  <2> QED
    BY <1>1, <2>1, <2>2, <2>5, <2>7, <2>8 DEF Types, CountTypes, RowTypes
<1>6. CASE ScreenWaits(m, view)
  <2>1. /\ TxTypes' /\ tx'[m].tried = tx[m].tried /\ \A n \in Messages : n # m => tx'[n] = tx[n]
    <3>1. Seen(tx[m], view) \in Txs /\ Seen(tx[m], view).tried = tx[m].tried
      BY <1>3, SeenTypes
    <3>2. tx' = [tx EXCEPT ![m] = Seen(tx[m], view)] /\ TxTypes
      BY <1>6 DEF Types, ScreenWaits
    <3> QED
      BY <3>1, <3>2, TxReplaced
  <2>2. RunTypes' /\ Patience'
    BY <1>1, <1>6, <2>1, GoesOnTypes DEF ScreenWaits
  <2> QED
    BY <1>1, <1>6, <2>1, <2>2 DEF Types, PaneTypes, CountTypes, RowTypes, ScreenWaits
<1> QED
  BY <1>2, <1>4, <1>5, <1>6

LEMMA CrashTypes == Types /\ Crash => Types'
<1> SUFFICES ASSUME Types, Crash PROVE Types'
  OBVIOUS
<1>1. /\ UNCHANGED <<composer, whole, got, mixed, logged, pane, row, deferred>>
      /\ run' = [m \in Messages |-> Off] /\ line' = <<>> /\ retained' = {}
      /\ tx' = [m \in Messages |-> NoTx] /\ troubles' \in 0..MaxTroubles
  BY TroubleTypes DEF Crash, agent, Types
<1>2. Off \in Runs /\ Off.pc = "off"
  BY Assumed DEF Off, Runs, Places
<1>3. RunTypes' /\ Patience'
  BY <1>1, <1>2 DEF RunTypes, Patience
<1>4. TxTypes'
  BY <1>1, NoTxTypes DEF TxTypes
<1>5. loose' \in [Messages -> Nat]
  BY DEF Crash, Types, CountTypes
<1> QED
  BY <1>1, <1>3, <1>4, <1>5 DEF Types, PaneTypes, CountTypes, RowTypes

LEMMA StepTypes == Types /\ [Next]_vars => Types'
<1>1. ASSUME Types, UNCHANGED vars
      PROVE  Types'
  BY <1>1 DEF vars, Types, PaneTypes, CountTypes, RowTypes, RunTypes, TxTypes, Patience
<1> QED
  BY <1>1, ReadsTypes, LogsTypes, TypesKeyTypes, AgentSendsTypes, PostTypes, ConfirmsTypes,
     EvictTypes, TurnTypes, LookTypes, InputChangedTypes, ClearTypes, PasteWordsTypes,
     ConfirmTypes, InterruptedTypes, ScreenTypes, CrashTypes DEF Next, Sending, Submitting

\* InputDelivery.TypeOK, with what it needs: no send past the queue but the one at its head
\* (serializeAgentInput), and nothing retained that was not left unconfirmed (deliverReply).
THEOREM TypesHold == Spec => []TypeOK
BY InitTypes, StepTypes, TypesSuffice, PTL DEF Spec
-----------------------------------------------------------------------------
(* The pane: what the server's keys find and leave.                        *)

\* The keys of a paste the server sends: a message's words or an agent's.
ServerPaste(k) == k.key = "paste" /\ k.word # Typed

\* The server pastes into a line it has cleared, and its Enter follows its paste.
KeyFits(i) ==
    /\ ServerPaste(pane[i]) => IF i = 1 THEN composer = <<>> ELSE pane[i - 1] = Kill
    /\ pane[i] = Enter => IF i = 1 THEN Len(composer) <= 1
                          ELSE pane[i - 1] = Enter \/ ServerPaste(pane[i - 1])
KeysFit == \A i \in 1..Len(pane) : KeyFits(i)

\* From the i-th on there are only Enters in the pane.
EntersFrom(i) == \A k \in i..Len(pane) : pane[k] = Enter

\* One owner of the line at most.
OneOwner == \A m, n \in Messages : tx[m].own /\ tx[n].own => m = n

\* The run is not past its paste.
Placing(m) == run[m].pc \in {"look", "clear", "paste"}

\* Where the line stands for its owner: cleared, or to be cleared by the last key; and, once the
\* words have been sent, on the way or there, with nothing behind them but Enters.
AtPaste == IF pane = <<>> THEN composer = <<>> ELSE pane[Len(pane)] = Kill
OnItsLine(m) == composer = <<m>> /\ EntersFrom(1)
Placed(m) ==
    \/ composer = <<>> /\ EntersFrom(1)
    \/ OnItsLine(m)
    \/ \E i \in 1..Len(pane) : pane[i] = Paste(m) /\ EntersFrom(i + 1)
Stands(m) ==
    /\ run[m].pc = "paste" => AtPaste
    /\ Placing(m) => ~tx[m].observed
    /\ ~Placing(m) => Placed(m) /\ (tx[m].observed => whole[m] > 0 \/ OnItsLine(m))
OwnersLine == \A m \in Messages : tx[m].own => Stands(m)

PaneInv == KeysFit /\ OneOwner /\ OwnersLine /\ ~mixed

\* When its keys have been echoed, a pane behind a line with words in it holds only Enters.
LEMMA EchoedEnters ==
    ASSUME Types, KeysFit, Echoed, composer # <<>>
    PROVE  EntersFrom(1)
<1> SUFFICES ASSUME NEW i \in 1..Len(pane) PROVE pane[i] = Enter
  BY DEF EntersFrom
<1>1. pane \in Seq(Keys) /\ Len(pane) \in Nat
  BY DEF Types, PaneTypes
<1>2. \A j \in 1..Len(pane) : pane[j] \in Keys /\ pane[j] \notin {Return, Kill, Paste(Typed)}
  <2> HIDE DEF Keys
  <2> SUFFICES ASSUME NEW j \in 1..Len(pane)
               PROVE  pane[j] \in Keys /\ pane[j] \notin {Return, Kill, Paste(Typed)}
    OBVIOUS
  <2>1. pane[j] \in Keys /\ j \in DOMAIN pane
    BY <1>1
  <2>2. pane[j] \in Range(pane)
    BY <2>1 DEF Range
  <2> QED
    BY <2>1, <2>2 DEF Echoed
<1>3. ~ServerPaste(pane[i])
  <2>1. i # 1 => i - 1 \in 1..Len(pane)
    BY <1>1
  <2> QED
    BY <1>2, <2>1 DEF KeysFit, KeyFits
<1>4. pane[i].key # "paste"
  BY <1>2, <1>3, PasteKey DEF ServerPaste
<1> QED
  BY <1>2, <1>4 DEF Keys, Kill, Return, Enter

\* Words its owner sees on the line are its own.
LEMMA OwnerSees ==
    ASSUME Types, PaneInv, Echoed, composer # <<>>, NEW m \in Messages, tx[m].own, ~Placing(m)
    PROVE  OnItsLine(m)
<1>1. EntersFrom(1)
  BY EchoedEnters DEF PaneInv
<1>2. Placed(m)
  BY DEF PaneInv, OwnersLine, Stands
<1>3. \A i \in 1..Len(pane) : pane[i] # Paste(m)
  BY <1>1, KeyFacts DEF EntersFrom
<1> QED
  BY <1>1, <1>2, <1>3 DEF Placed

\* A step that touches neither the pane nor the line leaves the owner where it was; what it has
\* seen of its words stands on its line.
LEMMA PaneFrame ==
    ASSUME Types, PaneInv, UNCHANGED <<composer, pane, mixed, whole>>,
           \A n \in Messages : tx'[n].own =>
                /\ tx[n].own
                /\ Placing(n)' <=> Placing(n)
                /\ run'[n].pc = "paste" => run[n].pc = "paste"
                /\ \/ tx'[n].observed => tx[n].observed
                   \/ ~Placing(n) /\ OnItsLine(n)
    PROVE  PaneInv'
<1>1. KeysFit' /\ ~mixed'
  BY DEF PaneInv, KeysFit, KeyFits
<1>2. OneOwner'
  BY DEF PaneInv, OneOwner
<1>3. AtPaste' <=> AtPaste
  BY DEF AtPaste
<1>4. \A n \in Messages : (Placed(n)' <=> Placed(n)) /\ (OnItsLine(n)' <=> OnItsLine(n))
  BY DEF Placed, OnItsLine, EntersFrom
<1>5. ASSUME NEW n \in Messages, tx'[n].own
      PROVE  Stands(n)'
  <2>1. Stands(n)
    BY <1>5 DEF PaneInv, OwnersLine
  <2> QED
    BY <1>3, <1>4, <1>5, <2>1 DEF Stands
<1> QED
  BY <1>1, <1>2, <1>5 DEF PaneInv, OwnersLine

\* Keys that go into the pane behind keys that fit.
LEMMA FitBefore ==
    ASSUME Types, KeysFit, NEW keys \in Seq(Keys), Into(keys), composer' = composer
    PROVE  \A i \in 1..Len(pane) : KeyFits(i)'
<1>1. /\ Len(pane) \in Nat /\ Len(pane') = Len(pane) + Len(keys)
      /\ \A i \in 1..Len(pane) : pane'[i] = pane[i]
  BY Pushed DEF Types
<1> SUFFICES ASSUME NEW i \in 1..Len(pane) PROVE KeyFits(i)'
  OBVIOUS
<1>2. KeyFits(i) /\ pane'[i] = pane[i]
  BY <1>1 DEF KeysFit
<1>3. i # 1 => pane'[i - 1] = pane[i - 1]
  BY <1>1
<1> QED
  BY <1>2, <1>3 DEF KeyFits

LEMMA OneFits ==
    ASSUME Types, KeysFit, NEW k \in Keys, Into(<<k>>), composer' = composer,
           \A i : i = Len(pane) + 1 => KeyFits(i)'
    PROVE  KeysFit'
<1>1. <<k>> \in Seq(Keys)
  OBVIOUS
<1>2. \A i \in 1..Len(pane) : KeyFits(i)'
  BY <1>1, FitBefore
<1>3. Len(pane) \in Nat /\ Len(pane') = Len(pane) + 1
  BY OnePushed DEF Types
<1>4. \A i \in 1..(Len(pane) + 1) : i \in 1..Len(pane) \/ i = Len(pane) + 1
  BY <1>3
<1> QED
  BY <1>2, <1>3, <1>4 DEF KeysFit

\* Keys of the operator's, and of an agent that sends, take the line from its owner.
LEMMA TypesKeyPane ==
    ASSUME Types, PaneInv, NEW k \in {Paste(Typed), Return, Kill}, TypesKey(k)
    PROVE  PaneInv'
<1>1. k \in Keys /\ Into(<<k>>) /\ tx' = Disowned /\ UNCHANGED <<composer, mixed>>
  BY KeyFacts, Assumed DEF TypesKey, agent
<1>2. pane'[Len(pane) + 1] = k
  BY <1>1, OnePushed DEF Types
<1>3. ~ServerPaste(k) /\ k # Enter
  BY KeyFacts DEF ServerPaste
<1>4. \A i : i = Len(pane) + 1 => KeyFits(i)'
  BY <1>2, <1>3 DEF KeyFits
<1>5. KeysFit'
  BY <1>1, <1>4, OneFits DEF PaneInv
<1>6. \A n \in Messages : ~tx'[n].own
  BY <1>1, DisownedTypes DEF Types
<1> QED
  BY <1>1, <1>5, <1>6 DEF PaneInv, OneOwner, OwnersLine

LEMMA AgentSendsPane == ASSUME Types, PaneInv, AgentSends PROVE PaneInv'
<1> DEFINE keys == <<Kill, Paste(Brain), Enter>>
<1>1. Into(keys) /\ tx' = Disowned /\ UNCHANGED <<composer, mixed>>
  BY DEF AgentSends, agent
<1>2. keys \in Seq(Keys) /\ Len(keys) = 3
      /\ keys[1] = Kill /\ keys[2] = Paste(Brain) /\ keys[3] = Enter
  BY KeyFacts, Assumed
<1> HIDE DEF keys
<1>3. PICK n \in Nat : n = Len(pane)
  BY DEF Types, PaneTypes
<1>4. /\ Len(pane') = n + 3
      /\ pane'[n + 1] = Kill /\ pane'[n + 2] = Paste(Brain) /\ pane'[n + 3] = Enter
  <2>1. \A j \in 1..Len(keys) : pane'[n + j] = keys[j]
    BY <1>1, <1>2, <1>3, Pushed DEF Types
  <2>2. 1 \in 1..3 /\ 2 \in 1..3 /\ 3 \in 1..3
    OBVIOUS
  <2>3. Len(pane') = n + Len(keys)
    BY <1>1, <1>2, <1>3, Pushed DEF Types
  <2> QED
    BY <1>2, <2>1, <2>2, <2>3
<1>5. \A i \in 1..n : KeyFits(i)'
  BY <1>1, <1>2, <1>3, FitBefore DEF PaneInv
<1>6. ServerPaste(Paste(Brain)) /\ ~ServerPaste(Kill) /\ ~ServerPaste(Enter)
  BY KeyFacts, Assumed DEF ServerPaste
<1>7. KeyFits(n + 1)'
  BY <1>4, <1>6, KeyFacts DEF KeyFits
<1>8. KeyFits(n + 2)'
  <2>1. n + 2 # 1 /\ (n + 2) - 1 = n + 1
    OBVIOUS
  <2> QED
    BY <1>4, <1>6, <2>1, KeyFacts DEF KeyFits
<1>9. KeyFits(n + 3)'
  <2>1. n + 3 # 1 /\ (n + 3) - 1 = n + 2
    OBVIOUS
  <2> QED
    BY <1>4, <1>6, <2>1, KeyFacts DEF KeyFits
<1>10. KeysFit'
  <2>1. \A i \in 1..(n + 3) : i \in 1..n \/ i = n + 1 \/ i = n + 2 \/ i = n + 3
    OBVIOUS
  <2> QED
    BY <1>4, <1>5, <1>7, <1>8, <1>9, <2>1 DEF KeysFit
<1>11. \A m \in Messages : ~tx'[m].own
  BY <1>1, DisownedTypes DEF Types
<1> QED
  BY <1>1, <1>10, <1>11 DEF PaneInv, OneOwner, OwnersLine

\* C-u is the last key of the pane when the paste comes, if the line is still m's.
LEMMA ClearPane == ASSUME Types, PaneInv, NEW m \in Messages, Clear(m) PROVE PaneInv'
<1>1. /\ Into(<<Kill>>) /\ Move(m, "paste") /\ UNCHANGED <<composer, whole, mixed, tx>>
      /\ run[m].pc = "clear" /\ tx[m].own
  BY DEF Clear, agent, Unchanged
<1>2. /\ pane' \in Seq(Keys) /\ Len(pane) \in Nat /\ Len(pane') = Len(pane) + 1
      /\ pane'[Len(pane) + 1] = Kill
  BY <1>1, KeyFacts, OnePushed DEF Types
<1>3. ~ServerPaste(Kill) /\ Kill # Enter
  BY KeyFacts DEF ServerPaste
<1>4. \A i : i = Len(pane) + 1 => KeyFits(i)'
  BY <1>2, <1>3 DEF KeyFits
<1>5. KeysFit'
  BY <1>1, <1>4, KeyFacts, OneFits DEF PaneInv
<1>6. AtPaste'
  <2>1. pane' # <<>>
    BY <1>2
  <2> QED
    BY <1>2, <2>1 DEF AtPaste
<1>7. run'[m].pc = "paste" /\ OneOwner'
  BY <1>1, Moved DEF Types, RunTypes, Places, PaneInv, OneOwner
<1>8. \A n \in Messages : tx'[n].own => n = m
  BY <1>1 DEF PaneInv, OneOwner
<1>9. ~tx[m].observed
  BY <1>1 DEF PaneInv, OwnersLine, Stands, Placing
<1>10. Stands(m)'
  BY <1>1, <1>6, <1>7, <1>9 DEF Stands, Placing
<1> QED
  BY <1>1, <1>5, <1>7, <1>8, <1>10 DEF PaneInv, OwnersLine

\* The words go behind the C-u, or into a line that has been cleared.
LEMMA PasteWordsPane == ASSUME Types, PaneInv, NEW m \in Messages, PasteWords(m) PROVE PaneInv'
<1>1. /\ Into(<<Paste(m)>>) /\ UNCHANGED <<composer, whole, mixed>>
      /\ run[m].pc = "paste" /\ tx[m].own
  BY DEF PasteWords, agent, Unchanged
<1>2. Paste(m) \in Keys /\ Paste(m) # Enter
  BY KeyFacts, Assumed
<1>3. /\ pane \in Seq(Keys) /\ Len(pane) \in Nat /\ Len(pane') = Len(pane) + 1
      /\ pane'[Len(pane) + 1] = Paste(m)
      /\ \A i \in 1..Len(pane) : pane'[i] = pane[i]
  BY <1>1, <1>2, OnePushed DEF Types, PaneTypes
<1>4. AtPaste
  BY <1>1 DEF PaneInv, OwnersLine, Stands
<1>5. ASSUME NEW i, i = Len(pane) + 1
      PROVE  KeyFits(i)'
  <2>1. i = 1 => pane = <<>>
    BY <1>3, <1>5
  <2>2. i # 1 => pane # <<>> /\ i - 1 = Len(pane) /\ pane'[i - 1] = pane[Len(pane)]
    BY <1>3, <1>5
  <2> QED
    BY <1>1, <1>2, <1>3, <1>4, <1>5, <2>1, <2>2 DEF KeyFits, AtPaste
<1>6. KeysFit'
  BY <1>1, <1>2, <1>5, OneFits DEF PaneInv
<1>7. \A n \in Messages : tx[n].own => n = m
  BY <1>1 DEF PaneInv, OneOwner
<1>8. CASE Move(m, "confirm") /\ UNCHANGED tx
  <2>1. run'[m].pc = "confirm" /\ OneOwner'
    BY <1>8, Moved DEF Types, RunTypes, Places, PaneInv, OneOwner
  <2>2. ~tx[m].observed
    BY <1>1 DEF PaneInv, OwnersLine, Stands, Placing
  <2>3. Placed(m)'
    <3>1. \A i : i = Len(pane) + 1 =>
             i \in 1..Len(pane') /\ pane'[i] = Paste(m) /\ EntersFrom(i + 1)'
      BY <1>3 DEF EntersFrom
    <3> QED
      BY <3>1 DEF Placed
  <2>4. Stands(m)'
    BY <1>8, <2>1, <2>2, <2>3 DEF Stands, Placing
  <2> QED
    BY <1>1, <1>6, <1>7, <1>8, <2>1, <2>4 DEF PaneInv, OwnersLine
<1>9. CASE tx' = [tx EXCEPT ![m] = NoTx]
  <2>1. \A n \in Messages : ~tx'[n].own
    BY <1>7, <1>9, NoTxTypes DEF Types, TxTypes
  <2> QED
    BY <1>1, <1>6, <2>1 DEF PaneInv, OneOwner, OwnersLine
<1> QED
  BY <1>8, <1>9 DEF PasteWords

\* The Enter goes behind the words, or behind another Enter.
LEMMA ScreenEnterPane ==
    ASSUME Types, PaneInv, NEW m \in Messages, NEW view, ScreenEnter(m, view),
           run[m].pc = "screen", tx[m].own, Echoed, UNCHANGED <<composer, whole, mixed>>,
           view = "draft" => composer # <<>>
    PROVE  PaneInv'
<1>1. /\ Into(<<Enter>>) /\ tx' = [tx EXCEPT ![m] = Pressed(tx[m], view)]
      /\ run' = [run EXCEPT ![m] = [pc |-> "confirm", left |-> @.left - 1]]
  BY DEF ScreenEnter
<1>2. /\ pane \in Seq(Keys) /\ Len(pane) \in Nat /\ Len(pane') = Len(pane) + 1
      /\ pane'[Len(pane) + 1] = Enter
      /\ \A i \in 1..Len(pane) : pane'[i] = pane[i]
  BY <1>1, KeyFacts, OnePushed DEF Types, PaneTypes
<1>3. \A i \in Nat \ {0} : \A k \in i..Len(pane') :
         (k \in 1..Len(pane) /\ k \in i..Len(pane)) \/ k = Len(pane) + 1
  BY <1>2
<1>4. \A i \in Nat \ {0} : EntersFrom(i) => EntersFrom(i)'
  BY <1>2, <1>3 DEF EntersFrom
<1>5. ~Placing(m) /\ Placed(m) /\ (tx[m].observed => whole[m] > 0 \/ OnItsLine(m))
  <2>1. Stands(m)
    BY DEF PaneInv, OwnersLine
  <2> QED
    BY <2>1 DEF Stands, Placing
<1>6. KeysFit'
  <2>1. ASSUME NEW i, i = Len(pane) + 1
        PROVE  KeyFits(i)'
    <3>1. CASE pane = <<>>
      <4>1. composer = <<>> \/ composer = <<m>>
        <5>1. ~\E k \in 1..Len(pane) : pane[k] = Paste(m) /\ EntersFrom(k + 1)
          BY <3>1
        <5> QED
          BY <1>5, <5>1 DEF Placed, OnItsLine
      <4>2. Len(composer) <= 1
        <5>1. composer = <<>> => Len(composer) <= 1
          OBVIOUS
        <5>2. composer = <<m>> => Len(composer) <= 1
          OBVIOUS
        <5> QED
          BY ONLY <4>1, <5>1, <5>2
      <4>3. i = 1
        BY <2>1, <3>1
      <4> QED
        BY <1>2, <2>1, <4>2, <4>3, KeyFacts DEF KeyFits, ServerPaste
    <3>2. CASE pane # <<>>
      <4>1. Len(pane) \in 1..Len(pane) /\ i # 1 /\ i - 1 = Len(pane)
        BY <1>2, <2>1, <3>2
      <4>2. pane[Len(pane)] = Enter \/ pane[Len(pane)] = Paste(m)
        BY <1>2, <1>5, <4>1 DEF Placed, OnItsLine, EntersFrom
      <4>3. ServerPaste(Paste(m))
        BY KeyFacts, Assumed DEF ServerPaste
      <4> QED
        BY <1>2, <2>1, <4>1, <4>2, <4>3, KeyFacts DEF KeyFits, ServerPaste
    <3> QED
      BY <3>1, <3>2
  <2> QED
    BY <1>1, <2>1, KeyFacts, OneFits DEF PaneInv
<1>7. /\ run'[m].pc = "confirm"
      /\ tx'[m].own /\ (tx'[m].observed => tx[m].observed \/ view = "draft")
      /\ \A n \in Messages : n # m => tx'[n] = tx[n]
  <2>1. tx[m] \in Txs /\ tx \in [Messages -> Txs] /\ run \in [Messages -> Runs]
    BY DEF Types, TxTypes, RunTypes
  <2>2. /\ Pressed(tx[m], view).own
        /\ Pressed(tx[m], view).observed => tx[m].observed \/ view = "draft"
    BY <2>1, PressedTypes
  <2> QED
    BY <1>1, <2>1, <2>2
<1>8. \A n \in Messages : tx'[n].own => n = m
  BY <1>7 DEF PaneInv, OneOwner
<1>9. Placed(m)'
  <2>1. CASE composer = <<>> /\ EntersFrom(1)
    BY <1>4, <2>1 DEF Placed
  <2>2. CASE OnItsLine(m)
    BY <1>4, <2>2 DEF Placed, OnItsLine
  <2>3. CASE \E i \in 1..Len(pane) : pane[i] = Paste(m) /\ EntersFrom(i + 1)
    <3>1. PICK i \in 1..Len(pane) : pane[i] = Paste(m) /\ EntersFrom(i + 1)
      BY <2>3
    <3>2. i \in 1..Len(pane') /\ pane'[i] = Paste(m) /\ EntersFrom(i + 1)'
      BY <1>2, <1>4, <3>1
    <3> QED
      BY <3>2 DEF Placed
  <2> QED
    BY <1>5, <2>1, <2>2, <2>3 DEF Placed
<1>10. tx'[m].observed => (whole[m] > 0 \/ OnItsLine(m))'
  <2>1. view = "draft" => OnItsLine(m)
    BY <1>5, OwnerSees
  <2>2. OnItsLine(m) => OnItsLine(m)'
    BY <1>4 DEF OnItsLine
  <2> QED
    BY <1>5, <1>7, <2>1, <2>2
<1>11. Stands(m)'
  BY <1>7, <1>9, <1>10 DEF Stands, Placing
<1> QED
  BY <1>6, <1>8, <1>11 DEF PaneInv, OneOwner, OwnersLine

\* What the agent makes of a key: words, a cleared line, a submission, or nothing.
ReadsWords(w) ==
    pane[1] = Paste(w) /\ composer' = Append(composer, w) /\ UNCHANGED <<whole, got, mixed>>
ReadsKill == pane[1] = Kill /\ composer' = <<>> /\ UNCHANGED <<whole, got, mixed>>
ReadsSubmit(by) == pane[1] = by /\ composer # <<>> /\ Submitted(by)
ReadsNothing == pane[1] \in {Enter, Return} /\ UNCHANGED <<composer, whole, got, mixed>>

LEMMA ReadsEnds ==
    ASSUME Types, Reads
    PROVE  /\ pane \in Seq(Keys) /\ Len(pane) \in Nat \ {0} /\ Len(pane') = Len(pane) - 1
           /\ \A i \in 1..Len(pane') : pane'[i] = pane[i + 1]
           /\ UNCHANGED <<logged, row, deferred, run, line, tx, retained, loose, troubles>>
           /\ \/ \E w \in Words : ReadsWords(w)
              \/ ReadsKill
              \/ \E by \in {Enter, Return} : ReadsSubmit(by)
              \/ ReadsNothing
<1>1. /\ pane \in Seq(Keys) /\ Len(pane) \in Nat \ {0} /\ Len(pane') = Len(pane) - 1
      /\ \A i \in 1..Len(pane') : pane'[i] = pane[i + 1]
      /\ Head(pane) = pane[1] /\ pane[1] \in Keys
  BY Popped DEF Types, PaneTypes, Reads
<1>2. UNCHANGED <<logged, row, deferred, run, line, tx, retained, loose, troubles>>
  BY DEF Reads, memory
<1>3. pane[1].key = "paste" => pane[1].word \in Words /\ pane[1] = Paste(pane[1].word)
  BY <1>1, PasteKey
<1>4. \/ \E w \in Words : ReadsWords(w)
      \/ ReadsKill
      \/ \E by \in {Enter, Return} : ReadsSubmit(by)
      \/ ReadsNothing
  BY <1>1, <1>3 DEF Reads, ReadsWords, ReadsKill, ReadsSubmit, ReadsNothing
<1> QED
  BY <1>1, <1>2, <1>4

LEMMA ReadsPane == ASSUME Types, PaneInv, Reads PROVE PaneInv'
<1>1. /\ pane \in Seq(Keys) /\ Len(pane) \in Nat \ {0} /\ Len(pane') = Len(pane) - 1
      /\ \A i \in 1..Len(pane') : pane'[i] = pane[i + 1]
      /\ UNCHANGED <<run, tx>>
      /\ \/ \E w \in Words : ReadsWords(w)
         \/ ReadsKill
         \/ \E by \in {Enter, Return} : ReadsSubmit(by)
         \/ ReadsNothing
  BY ReadsEnds
<1>2. 1 \in 1..Len(pane) /\ KeyFits(1)
  BY <1>1 DEF PaneInv, KeysFit
<1>3. pane[1] = Enter => Len(composer) <= 1
  BY <1>2 DEF KeyFits
<1>4. ServerPaste(pane[1]) => composer = <<>>
  BY <1>2 DEF KeyFits
<1>5. composer \in Seq(Words)
  BY DEF Types, PaneTypes

\* What the line is after the key.
<1>6. pane[1] = Kill => composer' = <<>>
  BY <1>1, KeyFacts DEF ReadsWords, ReadsKill, ReadsSubmit, ReadsNothing
<1>7. pane[1] = Enter => composer' = <<>> \/ composer' = composer
  BY <1>1, KeyFacts DEF ReadsWords, ReadsKill, ReadsSubmit, ReadsNothing, Submitted
<1>8. ASSUME NEW w \in Words, pane[1] = Paste(w)
      PROVE  composer' = Append(composer, w) /\ UNCHANGED <<whole, got, mixed>>
  <2>1. PICK v \in Words : ReadsWords(v)
    BY <1>1, <1>8, KeyFacts DEF ReadsKill, ReadsSubmit, ReadsNothing
  <2>2. v = w
    <3>1. Paste(v).word = v /\ Paste(w).word = w
      BY KeyFacts
    <3>2. Paste(v) = Paste(w)
      BY <1>8, <2>1 DEF ReadsWords
    <3> QED
      BY <3>1, <3>2
  <2>3. ReadsWords(w)
    BY ONLY <2>1, <2>2
  <2> QED
    BY <2>3 DEF ReadsWords
<1>9. ASSUME NEW w \in Words, pane[1] = Paste(w), w # Typed
      PROVE  composer' = <<w>>
  <2>1. ServerPaste(pane[1])
    BY <1>9, KeyFacts DEF ServerPaste
  <2>2. composer = <<>> /\ composer' = Append(composer, w)
    BY <1>4, <1>8, <1>9, <2>1
  <2>3. Append(<<>>, w) = <<w>>
    OBVIOUS
  <2> QED
    BY ONLY <2>2, <2>3
<1>10. ASSUME ServerPaste(pane[1])
       PROVE  \E w \in Words : composer' = <<w>>
  <2>1. pane[1] \in Keys
    <3> HIDE DEF Keys
    <3> QED
      BY <1>1
  <2>2. pane[1].word \in Words /\ pane[1] = Paste(pane[1].word) /\ pane[1].word # Typed
    BY <1>10, <2>1, PasteKey DEF ServerPaste
  <2> QED
    BY <1>9, <2>2
<1>11. pane[1] = Enter \/ ServerPaste(pane[1]) => Len(composer') <= 1
  <2>1. composer' = <<>> => Len(composer') <= 1
    OBVIOUS
  <2>2. composer' = composer => Len(composer') = Len(composer)
    OBVIOUS
  <2>3. \A w \in Words : composer' = <<w>> => Len(composer') <= 1
    OBVIOUS
  <2> QED
    BY <1>3, <1>7, <1>10, <2>1, <2>2, <2>3

\* The keys that are left.
<1>12. KeysFit'
  <2> SUFFICES ASSUME NEW i \in 1..Len(pane') PROVE KeyFits(i)'
    BY DEF KeysFit
  <2>1. /\ i \in Nat /\ i >= 1 /\ i + 1 \in 1..Len(pane) /\ i + 1 # 1 /\ (i + 1) - 1 = i
        /\ pane'[i] = pane[i + 1]
    BY <1>1
  <2>2. /\ ServerPaste(pane[i + 1]) => pane[i] = Kill
        /\ pane[i + 1] = Enter => pane[i] = Enter \/ ServerPaste(pane[i])
    <3>1. KeyFits(i + 1)
      BY <2>1 DEF PaneInv, KeysFit
    <3> QED
      BY <2>1, <3>1 DEF KeyFits
  <2>3. CASE i = 1
    BY <1>6, <1>11, <2>1, <2>2, <2>3 DEF KeyFits
  <2>4. CASE i # 1
    <3>1. i - 1 \in 1..Len(pane') /\ (i - 1) + 1 = i
      BY <1>1, <2>1, <2>4
    <3>2. pane'[i - 1] = pane[i]
      BY <1>1, <3>1
    <3> QED
      BY <2>1, <2>2, <2>4, <3>2 DEF KeyFits
  <2> QED
    BY <2>3, <2>4
<1>13. ~mixed'
  <2>1. ASSUME Submitted(Enter), pane[1] = Enter, composer # <<>>
        PROVE  ~mixed'
    <3>1. Len(composer) \in Nat \ {0} /\ Len(composer) <= 1
      <4>1. Len(composer) <= 1
        BY <1>3, <2>1
      <4>2. Len(composer) \in Nat \ {0}
        BY <1>5, <2>1
      <4> QED
        BY <4>1, <4>2
    <3>2. mixed' = (mixed \/ (Enter = Enter /\ Len(composer) # 1 /\ Range(composer) \cap Messages # {}))
      BY <2>1 DEF Submitted
    <3>3. Len(composer) = 1
      BY <3>1
    <3>4. ~mixed
      BY DEF PaneInv
    <3> QED
      BY <3>2, <3>3, <3>4
  <2>2. ASSUME Submitted(Return)
        PROVE  ~mixed'
    <3>1. mixed' = (mixed \/ (Return = Enter /\ Len(composer) # 1 /\ Range(composer) \cap Messages # {}))
      BY <2>2 DEF Submitted
    <3> QED
      BY <3>1, KeyFacts DEF PaneInv
  <2> QED
    BY <1>1, <2>1, <2>2 DEF PaneInv, ReadsWords, ReadsKill, ReadsSubmit, ReadsNothing

\* The owner's line.
<1>14. \A n \in Messages : whole'[n] >= whole[n]
  <2>1. \A n \in Messages : whole[n] \in Nat
    BY DEF Types, CountTypes
  <2>2. (\E by : Submitted(by)) => \A n \in Messages : whole'[n] \in {whole[n], whole[n] + 1}
    BY DEF Submitted
  <2> QED
    BY <1>1, <2>1, <2>2 DEF ReadsWords, ReadsKill, ReadsSubmit, ReadsNothing
<1>15. ASSUME NEW i \in Nat \ {0}, EntersFrom(i + 1)
       PROVE  EntersFrom(i)'
  <2> SUFFICES ASSUME NEW k \in i..Len(pane') PROVE pane'[k] = Enter
    BY DEF EntersFrom
  <2>1. k \in 1..Len(pane') /\ k + 1 \in (i + 1)..Len(pane)
    BY <1>1
  <2> QED
    BY <1>1, <1>15, <2>1 DEF EntersFrom
<1>16. EntersFrom(1) => pane[1] = Enter /\ EntersFrom(1)'
  <2>1. EntersFrom(1) => pane[1] = Enter /\ EntersFrom(1 + 1)
    BY <1>1 DEF EntersFrom
  <2> QED
    BY <1>15, <2>1
<1>17. ASSUME NEW m \in Messages, OnItsLine(m)
       PROVE  \/ OnItsLine(m)'
              \/ composer' = <<>> /\ EntersFrom(1)' /\ whole'[m] > 0
  <2>1. pane[1] = Enter /\ EntersFrom(1)' /\ composer = <<m>>
    BY <1>16, <1>17 DEF OnItsLine
  <2>2. CASE composer' = composer
    BY <2>1, <2>2 DEF OnItsLine
  <2>3. CASE composer' # composer
    <3>1. ReadsSubmit(Enter)
      BY <1>1, <2>1, <2>3, KeyFacts DEF ReadsWords, ReadsKill, ReadsSubmit, ReadsNothing
    <3>2. composer' = <<>> /\ whole'[m] = whole[m] + 1
      BY <2>1, <3>1 DEF ReadsSubmit, Submitted
    <3> QED
      BY <2>1, <3>2 DEF Types, CountTypes
  <2> QED
    BY <2>2, <2>3
<1>18. ASSUME NEW m \in Messages, Placed(m)
       PROVE  Placed(m)'
  <2>1. CASE composer = <<>> /\ EntersFrom(1)
    BY <1>7, <1>16, <2>1 DEF Placed
  <2>2. CASE OnItsLine(m)
    BY <1>17, <2>2 DEF Placed
  <2>3. CASE \E i \in 1..Len(pane) : pane[i] = Paste(m) /\ EntersFrom(i + 1)
    <3>1. PICK i \in 1..Len(pane) : pane[i] = Paste(m) /\ EntersFrom(i + 1)
      BY <2>3
    <3>2. i \in Nat \ {0} /\ EntersFrom(i)'
      BY <1>15, <3>1
    <3>3. CASE i = 1
      <4>1. composer' = <<m>>
        BY <1>9, <3>1, <3>3, Assumed
      <4> QED
        BY <3>2, <3>3, <4>1 DEF Placed, OnItsLine
    <3>4. CASE i # 1
      <4>1. i - 1 \in 1..Len(pane') /\ (i - 1) + 1 = i
        BY <1>1, <3>2, <3>4
      <4>2. pane'[i - 1] = Paste(m) /\ EntersFrom((i - 1) + 1)'
        BY <1>1, <3>1, <3>2, <4>1
      <4> QED
        BY <4>1, <4>2 DEF Placed
    <3> QED
      BY <3>3, <3>4
  <2> QED
    BY <1>18, <2>1, <2>2, <2>3 DEF Placed
<1>19. AtPaste => AtPaste'
  <2>1. pane # <<>>
    BY <1>1
  <2>2. CASE Len(pane) = 1
    <3>1. pane' = <<>>
      <4>1. pane' \in Seq(Keys)
        BY Popped DEF Types, Reads
      <4> HIDE DEF Keys
      <4> QED
        BY <1>1, <2>2, <4>1
    <3> QED
      BY <1>6, <2>1, <2>2, <3>1 DEF AtPaste
  <2>3. CASE Len(pane) # 1
    <3>1. Len(pane') \in 1..Len(pane') /\ Len(pane') + 1 = Len(pane) /\ pane' # <<>>
      BY <1>1, <2>3
    <3>2. pane'[Len(pane')] = pane[Len(pane)]
      BY <1>1, <3>1
    <3> QED
      BY <2>1, <3>1, <3>2 DEF AtPaste
  <2> QED
    BY <2>2, <2>3
<1>20. ASSUME NEW m \in Messages, tx'[m].own
       PROVE  Stands(m)'
  <2>1. Stands(m)
    BY <1>1, <1>20 DEF PaneInv, OwnersLine
  <2>2. run' = run /\ tx' = tx
    BY <1>1
  <2>3. whole[m] > 0 \/ OnItsLine(m) => (whole[m] > 0 \/ OnItsLine(m))'
    <3>1. whole[m] \in Nat /\ whole'[m] \in Nat
      BY ReadsTypes DEF Types, CountTypes
    <3> QED
      BY <1>14, <1>17, <3>1
  <2> QED
    BY <1>18, <1>19, <2>1, <2>2, <2>3 DEF Stands, Placing
<1> QED
  BY <1>1, <1>12, <1>13, <1>20 DEF PaneInv, OneOwner, OwnersLine

\* The other runs and submissions stay where they are.
LEMMA OthersStand ==
    ASSUME Types, PaneInv, UNCHANGED <<composer, pane, mixed, whole>>, NEW m \in Messages,
           \A n \in Messages : n # m => run'[n] = run[n] /\ tx'[n] = tx[n],
           tx'[m].own =>
                /\ tx[m].own
                /\ Placing(m)' <=> Placing(m)
                /\ run'[m].pc = "paste" => run[m].pc = "paste"
                /\ \/ tx'[m].observed => tx[m].observed
                   \/ ~Placing(m) /\ OnItsLine(m)
    PROVE  PaneInv'
<1> SUFFICES ASSUME NEW n \in Messages, tx'[n].own
             PROVE  /\ tx[n].own
                    /\ Placing(n)' <=> Placing(n)
                    /\ run'[n].pc = "paste" => run[n].pc = "paste"
                    /\ \/ tx'[n].observed => tx[n].observed
                       \/ ~Placing(n) /\ OnItsLine(n)
  BY PaneFrame
<1>1. CASE n = m
  BY <1>1
<1>2. CASE n # m
  BY <1>2 DEF Placing
<1> QED
  BY <1>1, <1>2

\* The run is over and has left nothing.
LEMMA GonePane ==
    ASSUME Types, PaneInv, UNCHANGED <<composer, pane, mixed, whole>>, NEW m \in Messages,
           Ends(m), run[m].pc \notin {"off", "wait"}, tx' = [tx EXCEPT ![m] = NoTx]
    PROVE  PaneInv'
<1>1. \A n \in Messages : n # m => run'[n] = run[n]
  BY HeadsLine, Ended DEF Types, RunTypes
<1>2. ~tx'[m].own /\ \A n \in Messages : n # m => tx'[n] = tx[n]
  BY NoTxTypes, TxReplaced DEF Types
<1> QED
  BY <1>1, <1>2, OthersStand

\* The answer of a submission ends its run; what stays of the submission owns no more than it did.
LEMMA AnswerPane ==
    ASSUME Types, PaneInv, UNCHANGED <<composer, pane, mixed, whole>>, NEW m \in Messages,
           run[m].pc \in {"confirm", "screen"}, NEW t \in Txs,
           Accepted(m) \/ Unconfirmed(m, t), t.own => tx[m].own,
           t.own /\ t.observed => tx[m].observed \/ OnItsLine(m)
    PROVE  PaneInv'
<1>1. Ends(m) /\ (tx' = [tx EXCEPT ![m] = NoTx] \/ tx' = [tx EXCEPT ![m] = t])
  BY DEF Accepted, Unconfirmed
<1>2. CASE tx' = [tx EXCEPT ![m] = NoTx]
  BY <1>1, <1>2, GonePane
<1>3. CASE tx' = [tx EXCEPT ![m] = t]
  <2>1. run'[m].pc = "off" /\ \A n \in Messages : n # m => run'[n] = run[n]
    BY <1>1, HeadsLine, Ended DEF Types, RunTypes
  <2>2. tx'[m] = t /\ \A n \in Messages : n # m => tx'[n] = tx[n]
    BY <1>3, TxReplaced DEF Types
  <2>3. ~Placing(m) /\ ~Placing(m)'
    BY <2>1 DEF Placing
  <2> QED
    BY <2>1, <2>2, <2>3, OthersStand
<1> QED
  BY <1>1, <1>2, <1>3

\* The server restarts: nobody owns the line.
LEMMA CrashPane == ASSUME Types, PaneInv, Crash PROVE PaneInv'
<1>1. UNCHANGED <<composer, pane, mixed, whole>> /\ \A n \in Messages : ~tx'[n].own
  BY NoTxTypes DEF Crash, agent
<1> QED
  BY <1>1, PaneFrame

LEMMA LogsPane == ASSUME Types, PaneInv, NEW m \in Messages, Logs(m) PROVE PaneInv'
<1>1. UNCHANGED <<composer, pane, mixed, whole, run, tx>>
  BY DEF Logs, memory
<1> QED
  BY <1>1, OthersStand DEF Placing

LEMMA PostPane == ASSUME Types, PaneInv, NEW m \in Messages, Post(m) PROVE PaneInv'
<1>1. /\ UNCHANGED <<composer, pane, mixed, whole, tx>> /\ run[m].pc = "off"
      /\ run' = [run EXCEPT ![m] = [pc |-> "wait", left |-> maxAttempts]]
  BY DEF Post, agent, Off
<1>2. run'[m].pc = "wait" /\ \A n \in Messages : n # m => run'[n] = run[n]
  BY <1>1 DEF Types, RunTypes
<1> QED
  BY <1>1, <1>2, OthersStand DEF Placing

LEMMA ConfirmsPane == ASSUME Types, PaneInv, NEW m \in Messages, Confirms(m) PROVE PaneInv'
<1>1. UNCHANGED <<composer, pane, mixed, whole, run, tx>>
  BY DEF Confirms, agent
<1> QED
  BY <1>1, OthersStand DEF Placing

LEMMA EvictPane == ASSUME Types, PaneInv, NEW m \in Messages, Evict(m) PROVE PaneInv'
<1>1. UNCHANGED <<composer, pane, mixed, whole, run>> /\ tx' = [tx EXCEPT ![m] = NoTx]
  BY DEF Evict, agent
<1>2. ~tx'[m].own /\ \A n \in Messages : n # m => tx'[n] = tx[n]
  BY <1>1, NoTxTypes, TxReplaced DEF Types
<1> QED
  BY <1>1, <1>2, OthersStand

\* A new send takes the line from the others before it looks at it.
LEMMA TurnPane == ASSUME Types, PaneInv, NEW m \in Messages, Turn(m) PROVE PaneInv'
<1>1. UNCHANGED <<composer, pane, mixed, whole>> /\ run[m].pc = "wait"
  BY DEF Turn, agent
<1>2. CASE Move(m, "confirm") /\ UNCHANGED tx
  <2>1. run'[m].pc = "confirm" /\ \A n \in Messages : n # m => run'[n] = run[n]
    BY <1>2, Moved DEF Types, RunTypes, Places
  <2> QED
    BY <1>1, <1>2, <2>1, OthersStand DEF Placing
<1>3. CASE /\ Move(m, "look")
           /\ \E t \in Txs : /\ ~t.observed /\ tx' = [Disowned EXCEPT ![m] = t]
  <2>1. run'[m].pc = "look"
    BY <1>3, Moved DEF Types, RunTypes, Places
  <2>2. ~tx'[m].observed /\ \A n \in Messages : n # m => ~tx'[n].own
    BY <1>3, DisownedTypes DEF Types
  <2>3. Stands(m)'
    BY <2>1, <2>2 DEF Stands, Placing
  <2>4. KeysFit' /\ ~mixed'
    BY <1>1 DEF PaneInv, KeysFit, KeyFits
  <2> QED
    BY <2>2, <2>3, <2>4 DEF PaneInv, OneOwner, OwnersLine
<1>4. /\ logged[m] \in Cursors /\ NoTx \in Txs
  BY NoTxTypes DEF Types, CountTypes, Cursors
<1>5. /\ [NoTx EXCEPT !.own = TRUE, !.cursor = logged[m]] \in Txs
      /\ ~[NoTx EXCEPT !.own = TRUE, !.cursor = logged[m]].observed
      /\ [NoTx EXCEPT !.own = TRUE] \in Txs /\ ~[NoTx EXCEPT !.own = TRUE].observed
  BY <1>4, NoTxTypes DEF Txs
<1> QED
  BY <1>2, <1>3, <1>5 DEF Turn

\* The same words left on the line are submitted as they are.
LEMMA LookPane == ASSUME Types, PaneInv, NEW m \in Messages, Look(m) PROVE PaneInv'
<1>1. UNCHANGED <<composer, pane, mixed, whole>> /\ run[m].pc = "look" /\ Echoed
  BY DEF Look, agent
<1>2. CASE composer = <<m>> /\ Move(m, "confirm") /\ UNCHANGED tx
  <2>1. run'[m].pc = "confirm" /\ \A n \in Messages : n # m => run'[n] = run[n]
    BY <1>2, Moved DEF Types, RunTypes, Places
  <2>2. OnItsLine(m)
    <3>1. composer # <<>>
      BY <1>2
    <3> QED
      BY <1>1, <1>2, <3>1, EchoedEnters DEF PaneInv, OnItsLine
  <2>3. Placed(m)'
    BY <1>1, <2>2 DEF Placed, OnItsLine, EntersFrom
  <2>4. tx[m].own => ~tx[m].observed
    BY <1>1 DEF PaneInv, OwnersLine, Stands, Placing
  <2>5. tx[m].own => Stands(m)'
    BY <1>2, <2>1, <2>3, <2>4 DEF Stands, Placing
  <2>6. ASSUME NEW n \in Messages, tx[n].own, n # m
        PROVE  Stands(n)'
    <3>1. Stands(n)
      BY <2>6 DEF PaneInv, OwnersLine
    <3>2. run'[n] = run[n] /\ tx' = tx
      BY <1>2, <2>1, <2>6
    <3> QED
      BY <1>1, <3>1, <3>2 DEF Stands, Placing, AtPaste, Placed, OnItsLine, EntersFrom
  <2>7. KeysFit' /\ ~mixed' /\ OneOwner'
    BY <1>1, <1>2 DEF PaneInv, KeysFit, KeyFits, OneOwner
  <2> QED
    BY <1>2, <2>5, <2>6, <2>7 DEF PaneInv, OwnersLine
<1>3. CASE Move(m, "clear") /\ UNCHANGED tx
  <2>1. run'[m].pc = "clear" /\ \A n \in Messages : n # m => run'[n] = run[n]
    BY <1>3, Moved DEF Types, RunTypes, Places
  <2> QED
    BY <1>1, <1>3, <2>1, OthersStand DEF Placing
<1>4. CASE Ends(m) /\ tx' = [tx EXCEPT ![m] = NoTx]
  BY <1>1, <1>4, GonePane
<1> QED
  BY <1>2, <1>3, <1>4 DEF Look

LEMMA InputChangedPane == ASSUME Types, PaneInv, NEW m \in Messages, InputChanged(m) PROVE PaneInv'
<1>1. /\ UNCHANGED <<composer, pane, mixed, whole>> /\ run[m].pc \in {"clear", "paste"}
      /\ Ends(m) /\ tx' = [tx EXCEPT ![m] = NoTx]
  BY DEF InputChanged, agent
<1> QED
  BY <1>1, GonePane

LEMMA ConfirmPane == ASSUME Types, PaneInv, NEW m \in Messages, Confirm(m) PROVE PaneInv'
<1>1. UNCHANGED <<composer, pane, mixed, whole>> /\ run[m].pc = "confirm"
  BY DEF Confirm, agent
<1>2. CASE Accepted(m) \/ Unconfirmed(m, tx[m])
  BY <1>1, <1>2, AnswerPane DEF Types, TxTypes
<1>3. CASE Move(m, "screen") /\ UNCHANGED tx
  <2>1. run'[m].pc = "screen" /\ \A n \in Messages : n # m => run'[n] = run[n]
    BY <1>3, Moved DEF Types, RunTypes, Places
  <2> QED
    BY <1>1, <1>3, <2>1, OthersStand DEF Placing
<1> QED
  BY <1>2, <1>3 DEF Confirm

LEMMA InterruptedPane == ASSUME Types, PaneInv, NEW m \in Messages, Interrupted(m) PROVE PaneInv'
<1>1. /\ UNCHANGED <<composer, pane, mixed, whole>> /\ run[m].pc = "screen"
      /\ Unconfirmed(m, [tx[m] EXCEPT !.own = FALSE])
  BY DEF Interrupted, agent
<1>2. [tx[m] EXCEPT !.own = FALSE] \in Txs /\ ~[tx[m] EXCEPT !.own = FALSE].own
  <2>1. tx[m] \in Txs
    BY DEF Types, TxTypes
  <2> QED
    BY <2>1 DEF Txs
<1> QED
  BY <1>1, <1>2, AnswerPane

LEMMA ScreenPane == ASSUME Types, PaneInv, NEW m \in Messages, Screen(m) PROVE PaneInv'
<1>1. /\ run[m].pc = "screen" /\ tx[m].own /\ Echoed
      /\ UNCHANGED <<composer, mixed, whole>>
  BY ScreenEnds
<1>2. PICK view : /\ view = "draft" => composer # <<>>
                  /\ \/ ScreenCleared(m, view) \/ ScreenEnter(m, view)
                     \/ ScreenWaits(m, view) \/ ScreenGivesUp(m, view)
  BY ScreenEnds
<1>3. view = "draft" => OnItsLine(m)
  BY <1>1, <1>2, OwnerSees DEF Placing
<1>4. /\ tx[m] \in Txs /\ Seen(tx[m], view) \in Txs /\ Seen(tx[m], view).own = tx[m].own
      /\ Seen(tx[m], view).observed => tx[m].observed \/ view = "draft"
  <2>1. tx[m] \in Txs
    BY DEF Types, TxTypes
  <2> QED
    BY <2>1, SeenTypes
<1>5. CASE ScreenCleared(m, view)
  BY <1>1, <1>4, <1>5, AnswerPane DEF ScreenCleared
<1>6. CASE ScreenGivesUp(m, view)
  BY <1>1, <1>3, <1>4, <1>6, AnswerPane DEF ScreenGivesUp
<1>7. CASE ScreenWaits(m, view)
  <2>1. Move(m, "confirm") /\ tx' = [tx EXCEPT ![m] = Seen(tx[m], view)] /\ pane' = pane
    BY <1>7 DEF ScreenWaits
  <2>2. run'[m].pc = "confirm" /\ \A n \in Messages : n # m => run'[n] = run[n]
    BY <2>1, Moved DEF Types, RunTypes, Places
  <2>3. tx'[m] = Seen(tx[m], view) /\ \A n \in Messages : n # m => tx'[n] = tx[n]
    BY <1>4, <2>1, TxReplaced DEF Types
  <2>4. ~Placing(m) /\ ~Placing(m)' /\ (run'[m].pc = "paste" => run[m].pc = "paste")
    BY <1>1, <2>2 DEF Placing
  <2>5. tx'[m].observed => tx[m].observed \/ (~Placing(m) /\ OnItsLine(m))
    BY <1>3, <1>4, <2>3, <2>4
  <2> QED
    BY <1>1, <2>1, <2>2, <2>3, <2>4, <2>5, OthersStand
<1>8. CASE ScreenEnter(m, view)
  BY <1>1, <1>2, <1>8, ScreenEnterPane
<1> QED
  BY <1>2, <1>5, <1>6, <1>7, <1>8

LEMMA InitPane == Init => PaneInv
<1> SUFFICES ASSUME Init PROVE PaneInv
  OBVIOUS
<1>1. pane = <<>> /\ Len(pane) = 0 /\ ~mixed /\ \A m \in Messages : ~tx[m].own
  BY NoTxTypes DEF Init
<1> QED
  BY <1>1 DEF PaneInv, KeysFit, OneOwner, OwnersLine

LEMMA StepPane == Types /\ PaneInv /\ [Next]_vars => PaneInv'
<1>1. ASSUME Types, PaneInv, UNCHANGED vars
      PROVE  PaneInv'
  <2>1. UNCHANGED <<composer, pane, mixed, whole, run, tx>>
    BY <1>1 DEF vars
  <2> QED
    BY <1>1, <2>1, PaneFrame DEF Placing
<1> QED
  BY <1>1, ReadsPane, LogsPane, TypesKeyPane, AgentSendsPane, PostPane, ConfirmsPane,
     EvictPane, TurnPane, LookPane, InputChangedPane, ClearPane, PasteWordsPane,
     ConfirmPane, InterruptedPane, ScreenPane, CrashPane DEF Next, Sending, Submitting
-----------------------------------------------------------------------------
(* The account of a message's copies.                                      *)

Copies(m) == {i \in 1..Len(pane) : pane[i] = Paste(m)}
OnLine(m) == IF m \in Range(composer) THEN 1 ELSE 0
\* A durable trace, or a run that sees to one.
Traced(m) == row[m] \/ deferred[m] # None \/ run[m].pc \in {"confirm", "screen"}
Trace(m) == IF Traced(m) THEN 1 ELSE 0

\* Every copy of a message, given or still to be given, but one at most has left the record
\* `loose`, and the one has a trace.
Counted(m) == got[m] + OnLine(m) + Cardinality(Copies(m)) <= loose[m] + Trace(m)
Accounted == \A m \in Messages : Counted(m)

\* Who has not pasted yet has no trace.
Untraced == \A m \in Messages : Placing(m) => ~Traced(m)

RowsTrue == \A m \in Messages : row[m] => whole[m] > 0

RecordInv == Accounted /\ Untraced /\ RowsTrue

LEMMA CopiesFinite ==
    ASSUME Types, NEW m \in Messages
    PROVE  IsFiniteSet(Copies(m)) /\ Cardinality(Copies(m)) \in Nat
<1>1. Len(pane) \in Nat
  BY DEF Types, PaneTypes
<1>2. IsFiniteSet(1..Len(pane))
  BY <1>1, FS_Interval
<1>3. Copies(m) \in SUBSET (1..Len(pane))
  BY DEF Copies
<1>4. IsFiniteSet(Copies(m))
  BY <1>2, <1>3, FS_Subset
<1> QED
  BY <1>4, FS_CardinalityType

\* Keys that are not m's words leave its copies.
LEMMA CopiesBehind ==
    ASSUME Types, NEW keys \in Seq(Keys), Into(keys), NEW m \in Messages,
           \A j \in 1..Len(keys) : keys[j] # Paste(m)
    PROVE  Copies(m)' = Copies(m)
<1>1. /\ Len(pane) \in Nat /\ Len(pane') = Len(pane) + Len(keys)
      /\ \A i \in 1..Len(pane) : pane'[i] = pane[i]
      /\ \A j \in 1..Len(keys) : pane'[Len(pane) + j] = keys[j]
  BY Pushed DEF Types
<1>2. Len(keys) \in Nat
  <2> HIDE DEF Keys
  <2> QED
    OBVIOUS
<1>3. ASSUME NEW i \in 1..Len(pane'), i \notin 1..Len(pane)
      PROVE  pane'[i] # Paste(m)
  <2>1. i - Len(pane) \in 1..Len(keys) /\ Len(pane) + (i - Len(pane)) = i
    BY <1>1, <1>2, <1>3
  <2> QED
    BY <1>1, <2>1
<1>4. \A i \in 1..Len(pane) : i \in 1..Len(pane')
  BY <1>1, <1>2
<1> QED
  BY <1>1, <1>3, <1>4 DEF Copies

LEMMA CopiesBehindOne ==
    ASSUME Types, NEW k \in Keys, Into(<<k>>), NEW m \in Messages, k # Paste(m)
    PROVE  Copies(m)' = Copies(m)
<1>1. <<k>> \in Seq(Keys) /\ \A j \in 1..Len(<<k>>) : <<k>>[j] # Paste(m)
  OBVIOUS
<1> QED
  BY <1>1, CopiesBehind

\* The words of m add one.
LEMMA CopiesPasted ==
    ASSUME Types, NEW m \in Messages, Into(<<Paste(m)>>)
    PROVE  Cardinality(Copies(m)') = Cardinality(Copies(m)) + 1
<1>1. Paste(m) \in Keys
  BY KeyFacts, Assumed
<1>2. /\ Len(pane) \in Nat /\ Len(pane') = Len(pane) + 1
      /\ \A i \in 1..Len(pane) : pane'[i] = pane[i]
      /\ pane'[Len(pane) + 1] = Paste(m)
  BY <1>1, OnePushed DEF Types
<1>3. 1..(Len(pane) + 1) = 1..Len(pane) \cup {Len(pane) + 1} /\ Len(pane) + 1 \notin 1..Len(pane)
  BY <1>2
<1>4. Copies(m)' = Copies(m) \cup {Len(pane) + 1} /\ Len(pane) + 1 \notin Copies(m)
  BY <1>2, <1>3 DEF Copies
<1> QED
  BY <1>4, CopiesFinite, FS_AddElement

\* A key that is read is a copy less, if it was one.
LEMMA CopiesRead ==
    ASSUME Types, Reads, NEW m \in Messages
    PROVE  /\ Cardinality(Copies(m)) \in Nat /\ Cardinality(Copies(m)') \in Nat
           /\ Cardinality(Copies(m)') = IF pane[1] = Paste(m) THEN Cardinality(Copies(m)) - 1
                                        ELSE Cardinality(Copies(m))
<1>1. /\ Len(pane) \in Nat \ {0} /\ Len(pane') = Len(pane) - 1
      /\ \A i \in 1..Len(pane') : pane'[i] = pane[i + 1]
  BY ReadsEnds
<1> DEFINE S == Copies(m)'
           T == Copies(m) \ {1}
           f == [i \in S |-> i + 1]
<1>2. \A i \in S : i \in 1..Len(pane') /\ i + 1 \in T
  BY <1>1 DEF Copies
<1>3. \A j \in T : j - 1 \in S /\ (j - 1) + 1 = j
  <2> SUFFICES ASSUME NEW j \in T PROVE j - 1 \in S /\ (j - 1) + 1 = j
    OBVIOUS
  <2>1. j \in 1..Len(pane) /\ j # 1 /\ pane[j] = Paste(m)
    BY DEF Copies
  <2>2. j - 1 \in 1..Len(pane') /\ (j - 1) + 1 = j
    BY <1>1, <2>1
  <2> QED
    BY <1>1, <2>1, <2>2 DEF Copies
<1>4. f \in Bijection(S, T)
  <2> HIDE DEF S, T
  <2>1. f \in [S -> T]
    BY <1>2
  <2>2. f \in Injection(S, T)
    BY <1>2, <2>1 DEF Injection, IsInjective
  <2>3. f \in Surjection(S, T)
    BY <1>3, <2>1 DEF Surjection
  <2> QED
    BY <2>2, <2>3 DEF Bijection
<1>5. IsFiniteSet(S) /\ Cardinality(S) \in Nat
  <2>1. IsFiniteSet(1..Len(pane'))
    BY <1>1, FS_Interval
  <2>2. S \in SUBSET (1..Len(pane'))
    BY DEF Copies
  <2> HIDE DEF S
  <2>3. IsFiniteSet(S)
    BY <2>1, <2>2, FS_Subset
  <2> QED
    BY <2>3, FS_CardinalityType
<1>6. Cardinality(S) = Cardinality(T)
  BY <1>4, <1>5, FS_Bijection DEF ExistsBijection
<1>7. IsFiniteSet(Copies(m)) /\ Cardinality(Copies(m)) \in Nat
  BY CopiesFinite
<1>8. Cardinality(T) = IF 1 \in Copies(m) THEN Cardinality(Copies(m)) - 1 ELSE Cardinality(Copies(m))
  BY <1>7, FS_RemoveElement
<1>9. 1 \in Copies(m) <=> pane[1] = Paste(m)
  BY <1>1 DEF Copies
<1> QED
  BY <1>5, <1>6, <1>7, <1>8, <1>9

\* A step that gives nothing to the agent and pastes none of the messages: a trace that goes is
\* recorded as loose, a place at the front of the line is for those without a trace, and what is
\* recorded as delivered was submitted.
LEMMA RecordFrame ==
    ASSUME Types, RecordInv, UNCHANGED <<composer, got, whole>>,
           \A n \in Messages : Copies(n)' = Copies(n),
           \A n \in Messages : \/ loose'[n] = loose[n] /\ (Traced(n) => Traced(n)')
                               \/ loose'[n] = loose[n] + 1,
           \A n \in Messages : Placing(n)' => ~Traced(n)',
           \A n \in Messages : row'[n] => row[n] \/ whole[n] > 0
    PROVE  RecordInv'
<1>1. ASSUME NEW n \in Messages
      PROVE  Counted(n)'
  <2>1. Counted(n)
    BY DEF RecordInv, Accounted
  <2>2. OnLine(n)' = OnLine(n) /\ Cardinality(Copies(n)') = Cardinality(Copies(n)) /\ got' = got
    BY DEF OnLine
  <2>3. /\ got[n] \in Nat /\ loose[n] \in Nat /\ OnLine(n) \in 0..1
        /\ Cardinality(Copies(n)) \in Nat /\ Trace(n) \in 0..1 /\ Trace(n)' \in 0..1
    BY CopiesFinite DEF Types, CountTypes, OnLine, Trace
  <2>4. CASE loose'[n] = loose[n] /\ (Traced(n) => Traced(n)')
    <3>1. Trace(n) <= Trace(n)'
      BY <2>4 DEF Trace
    <3> QED
      BY <2>1, <2>2, <2>3, <2>4, <3>1 DEF Counted
  <2>5. CASE loose'[n] = loose[n] + 1
    BY <2>1, <2>2, <2>3, <2>5 DEF Counted
  <2> QED
    BY <2>4, <2>5
<1>2. Untraced'
  BY DEF Untraced
<1>3. RowsTrue'
  BY DEF RecordInv, RowsTrue
<1> QED
  BY <1>1, <1>2, <1>3 DEF RecordInv, Accounted

\* The same, when it is a step of one message.
LEMMA OthersRecorded ==
    ASSUME Types, RecordInv, UNCHANGED <<composer, got, whole>>, NEW m \in Messages,
           \A n \in Messages : Copies(n)' = Copies(n),
           \A n \in Messages : n # m => /\ run'[n] = run[n] /\ row'[n] = row[n]
                                        /\ deferred'[n] = deferred[n] /\ loose'[n] = loose[n],
           \/ loose'[m] = loose[m] /\ (Traced(m) => Traced(m)')
           \/ loose'[m] = loose[m] + 1,
           Placing(m)' => ~Traced(m)',
           row'[m] => row[m] \/ whole[m] > 0
    PROVE  RecordInv'
<1>1. \A n \in Messages : n # m => (Traced(n)' <=> Traced(n)) /\ (Placing(n)' <=> Placing(n))
  BY DEF Traced, Placing
<1>2. \A n \in Messages : Placing(n) => ~Traced(n)
  BY DEF RecordInv, Untraced
<1>3. \A n \in Messages : \/ loose'[n] = loose[n] /\ (Traced(n) => Traced(n)')
                          \/ loose'[n] = loose[n] + 1
  <2> TAKE n \in Messages
  <2>1. CASE n = m
    BY <2>1
  <2>2. CASE n # m
    BY <1>1, <2>2
  <2> QED
    BY <2>1, <2>2
<1>4. \A n \in Messages : Placing(n)' => ~Traced(n)'
  <2> TAKE n \in Messages
  <2>1. CASE n = m
    BY <2>1
  <2>2. CASE n # m
    BY <1>1, <1>2, <2>2
  <2> QED
    BY <2>1, <2>2
<1>5. \A n \in Messages : row'[n] => row[n] \/ whole[n] > 0
  <2> TAKE n \in Messages
  <2>1. CASE n = m
    BY <2>1
  <2>2. CASE n # m
    BY <2>2
  <2> QED
    BY <2>1, <2>2
<1> QED
  BY <1>3, <1>4, <1>5, RecordFrame

\* A run that goes on, in the same pane; its trace does not go.
LEMMA MoveRecord ==
    ASSUME Types, RecordInv, UNCHANGED <<composer, got, whole, row, deferred, loose>>,
           \A n \in Messages : Copies(n)' = Copies(n), NEW m \in Messages,
           \A n \in Messages : n # m => run'[n] = run[n],
           \/ run'[m].pc \in {"confirm", "screen"}
           \/ run[m].pc \notin {"confirm", "screen"} /\ (Placing(m)' => ~row[m] /\ deferred[m] = None)
    PROVE  RecordInv'
<1>1. Traced(m) => Traced(m)'
  BY DEF Traced
<1>2. Placing(m)' => ~Traced(m)'
  BY DEF Placing, Traced
<1> QED
  BY <1>1, <1>2, OthersRecorded

LEMMA SamePane ==
    ASSUME UNCHANGED pane
    PROVE  \A n \in Messages : Copies(n)' = Copies(n)
BY DEF Copies

\* The answer of a submission: the receipt, the event, or nothing.
LEMMA AnswerRecord ==
    ASSUME Types, RecordInv, UNCHANGED <<composer, got, whole, pane>>, NEW m \in Messages,
           run[m].pc \in {"confirm", "screen"}, NEW t \in Txs, t.cursor = tx[m].cursor,
           \/ Accepted(m) /\ whole[m] > 0
           \/ Unconfirmed(m, t)
    PROVE  RecordInv'
<1>1. Ends(m)
  BY DEF Accepted, Unconfirmed
<1>2. run'[m].pc = "off" /\ \A n \in Messages : n # m => run'[n] = run[n]
  BY <1>1, HeadsLine, Ended DEF Types, RunTypes
<1>3. ~Placing(m)'
  BY <1>2 DEF Placing
<1>4. /\ row \in [Messages -> BOOLEAN] /\ deferred \in [Messages -> Cursors]
      /\ loose \in [Messages -> Nat]
  BY DEF Types, RowTypes, CountTypes
<1>5. CASE Accepted(m) /\ whole[m] > 0
  <2>1. row' = [row EXCEPT ![m] = TRUE] /\ UNCHANGED <<deferred, loose>>
    BY <1>5 DEF Accepted
  <2>2. row'[m] /\ \A n \in Messages : n # m => row'[n] = row[n]
    BY <1>4, <2>1
  <2>3. Traced(m)'
    BY <2>2 DEF Traced
  <2> QED
    BY <1>2, <1>3, <1>5, <2>1, <2>2, <2>3, SamePane, OthersRecorded
<1>6. CASE Unconfirmed(m, t) /\ t.cursor = None
  <2>1. loose' = [loose EXCEPT ![m] = @ + 1] /\ UNCHANGED <<row, deferred>>
    BY <1>6 DEF Unconfirmed
  <2>2. loose'[m] = loose[m] + 1 /\ \A n \in Messages : n # m => loose'[n] = loose[n]
    BY <1>4, <2>1
  <2> QED
    BY <1>2, <1>3, <2>1, <2>2, SamePane, OthersRecorded
<1>7. CASE Unconfirmed(m, t) /\ t.cursor # None
  <2>1. /\ deferred' = [deferred EXCEPT ![m] = IF @ = None THEN tx[m].cursor ELSE @]
        /\ UNCHANGED <<row, loose>>
    BY <1>7 DEF Unconfirmed, DeferredCursor
  <2>2. deferred'[m] # None /\ \A n \in Messages : n # m => deferred'[n] = deferred[n]
    BY <1>4, <1>7, <2>1
  <2>3. Traced(m)'
    BY <2>2 DEF Traced
  <2> QED
    BY <1>2, <1>3, <2>1, <2>2, <2>3, SamePane, OthersRecorded
<1> QED
  BY <1>5, <1>6, <1>7

LEMMA LogsRecord == ASSUME Types, RecordInv, NEW m \in Messages, Logs(m) PROVE RecordInv'
<1>1. UNCHANGED <<composer, got, whole, pane, row, deferred, run, loose>>
  BY DEF Logs, memory
<1>2. Untraced
  BY DEF RecordInv
<1> QED
  BY <1>1, <1>2, SamePane, MoveRecord DEF Untraced, Placing, Traced

LEMMA TypesKeyRecord ==
    ASSUME Types, RecordInv, NEW k \in {Paste(Typed), Return, Kill}, TypesKey(k)
    PROVE  RecordInv'
<1>1. k \in Keys /\ Into(<<k>>) /\ UNCHANGED <<composer, got, whole, row, deferred, run, loose>>
  BY KeyFacts, Assumed DEF TypesKey, agent
<1>2. \A n \in Messages : k # Paste(n)
  <2>1. \A n \in Messages : Paste(n).word = n /\ Paste(Typed).word = Typed
    BY KeyFacts
  <2> QED
    BY <2>1, KeyFacts, Assumed
<1>3. \A n \in Messages : Copies(n)' = Copies(n)
  BY <1>1, <1>2, CopiesBehindOne
<1>4. \A n \in Messages : (Traced(n)' <=> Traced(n)) /\ (Placing(n)' <=> Placing(n))
  BY <1>1 DEF Traced, Placing
<1> QED
  BY <1>1, <1>3, <1>4, RecordFrame DEF RecordInv, Untraced

LEMMA AgentSendsRecord == ASSUME Types, RecordInv, AgentSends PROVE RecordInv'
<1> DEFINE keys == <<Kill, Paste(Brain), Enter>>
<1>1. Into(keys) /\ UNCHANGED <<composer, got, whole, row, deferred, run, loose>>
  BY DEF AgentSends, agent
<1>2. \A n \in Messages : Kill # Paste(n) /\ Paste(Brain) # Paste(n) /\ Enter # Paste(n)
  <2>1. \A n \in Messages : Paste(n).word = n /\ Paste(Brain).word = Brain
    BY KeyFacts
  <2> QED
    BY <2>1, KeyFacts, Assumed
<1>3. keys \in Seq(Keys) /\ \A j \in 1..Len(keys) : keys[j] \in {Kill, Paste(Brain), Enter}
  BY KeyFacts, Assumed
<1> HIDE DEF keys
<1>4. \A n \in Messages : Copies(n)' = Copies(n)
  BY <1>1, <1>2, <1>3, CopiesBehind
<1>5. \A n \in Messages : (Traced(n)' <=> Traced(n)) /\ (Placing(n)' <=> Placing(n))
  BY <1>1 DEF Traced, Placing
<1> QED
  BY <1>1, <1>4, <1>5, RecordFrame DEF RecordInv, Untraced

LEMMA PostRecord == ASSUME Types, RecordInv, NEW m \in Messages, Post(m) PROVE RecordInv'
<1>1. /\ UNCHANGED <<composer, got, whole, pane, row, deferred, loose>> /\ run[m].pc = "off"
      /\ run' = [run EXCEPT ![m] = [pc |-> "wait", left |-> maxAttempts]]
  BY DEF Post, agent, Off
<1>2. run'[m].pc = "wait" /\ \A n \in Messages : n # m => run'[n] = run[n]
  BY <1>1 DEF Types, RunTypes
<1> QED
  BY <1>1, <1>2, SamePane, MoveRecord DEF Placing

\* The agent's history has the message behind the cursor.
LEMMA ConfirmsRecord == ASSUME Types, RecordInv, NEW m \in Messages, Confirms(m) PROVE RecordInv'
<1>1. /\ UNCHANGED <<composer, got, whole, pane, deferred, run, loose>>
      /\ row' = [row EXCEPT ![m] = TRUE] /\ deferred[m] # None /\ logged[m] > deferred[m]
  BY DEF Confirms, agent
<1>2. row'[m] /\ \A n \in Messages : n # m => row'[n] = row[n]
  BY <1>1 DEF Types, RowTypes
<1>3. whole[m] > 0
  BY <1>1 DEF Types, RowTypes, CountTypes, Cursors
<1>4. Traced(m) /\ Traced(m)'
  BY <1>1 DEF Traced
<1>5. ~Placing(m)'
  BY <1>1, <1>4 DEF RecordInv, Untraced, Placing
<1> QED
  BY <1>1, <1>2, <1>3, <1>4, <1>5, SamePane, OthersRecorded

LEMMA EvictRecord == ASSUME Types, RecordInv, NEW m \in Messages, Evict(m) PROVE RecordInv'
<1>1. UNCHANGED <<composer, got, whole, pane, row, deferred, run, loose>> /\ run[m].pc = "off"
  BY DEF Evict, agent, Off
<1> QED
  BY <1>1, SamePane, MoveRecord DEF Placing

\* Only who has no trace goes to the front as a new send.
LEMMA TurnRecord == ASSUME Types, RecordInv, NEW m \in Messages, Turn(m) PROVE RecordInv'
<1>1. UNCHANGED <<composer, got, whole, pane, row, deferred, loose>> /\ run[m].pc = "wait"
  BY DEF Turn, agent
<1>2. \/ Move(m, "confirm")
      \/ Move(m, "look") /\ ~row[m] /\ deferred[m] = None
  BY DEF Turn, Fresh
<1>3. /\ run'[m].pc = "confirm" \/ (~row[m] /\ deferred[m] = None)
      /\ \A n \in Messages : n # m => run'[n] = run[n]
  BY <1>2, Moved DEF Types, RunTypes, Places
<1> QED
  BY <1>1, <1>3, SamePane, MoveRecord

\* A run that has not pasted leaves the line: it had no trace.
LEMMA GoneRecord ==
    ASSUME Types, RecordInv, UNCHANGED <<composer, got, whole, pane, row, deferred, loose>>,
           NEW m \in Messages, Ends(m), Placing(m)
    PROVE  RecordInv'
<1>1. run'[m].pc = "off" /\ \A n \in Messages : n # m => run'[n] = run[n]
  BY HeadsLine, Ended DEF Types, RunTypes, Placing
<1> QED
  BY <1>1, SamePane, MoveRecord DEF Placing

LEMMA LookRecord == ASSUME Types, RecordInv, NEW m \in Messages, Look(m) PROVE RecordInv'
<1>1. UNCHANGED <<composer, got, whole, pane, row, deferred, loose>> /\ run[m].pc = "look"
  BY DEF Look, agent
<1>2. CASE Ends(m)
  BY <1>1, <1>2, GoneRecord DEF Placing
<1>3. CASE \E pc \in {"confirm", "clear"} : Move(m, pc)
  <2>1. ~row[m] /\ deferred[m] = None
    BY <1>1 DEF RecordInv, Untraced, Placing, Traced
  <2>2. \A n \in Messages : n # m => run'[n] = run[n]
    BY <1>3, Moved DEF Types, RunTypes, Places
  <2> QED
    BY <1>1, <2>1, <2>2, SamePane, MoveRecord
<1> QED
  BY <1>2, <1>3 DEF Look

LEMMA InputChangedRecord ==
    ASSUME Types, RecordInv, NEW m \in Messages, InputChanged(m) PROVE RecordInv'
<1>1. UNCHANGED <<composer, got, whole, pane, row, deferred, loose>> /\ Ends(m) /\ Placing(m)
  BY DEF InputChanged, agent, Placing
<1> QED
  BY <1>1, GoneRecord

LEMMA ClearRecord == ASSUME Types, RecordInv, NEW m \in Messages, Clear(m) PROVE RecordInv'
<1>1. /\ UNCHANGED <<composer, got, whole, row, deferred, loose>> /\ run[m].pc = "clear"
      /\ Into(<<Kill>>) /\ Move(m, "paste")
  BY DEF Clear, agent
<1>2. \A n \in Messages : Copies(n)' = Copies(n)
  BY <1>1, KeyFacts, CopiesBehindOne
<1>3. ~row[m] /\ deferred[m] = None
  BY <1>1 DEF RecordInv, Untraced, Placing, Traced
<1>4. \A n \in Messages : n # m => run'[n] = run[n]
  BY <1>1, Moved DEF Types, RunTypes, Places
<1> QED
  BY <1>1, <1>2, <1>3, <1>4, MoveRecord

\* A copy more: the run now sees to a trace, or the words are loose.
LEMMA PasteWordsRecord ==
    ASSUME Types, RecordInv, NEW m \in Messages, PasteWords(m) PROVE RecordInv'
<1>1. /\ UNCHANGED <<composer, got, whole, row, deferred>> /\ run[m].pc = "paste"
      /\ Into(<<Paste(m)>>)
  BY DEF PasteWords, agent
<1>2. \A n \in Messages : n # m => Copies(n)' = Copies(n)
  <2>1. \A n \in Messages : Paste(n).word = n /\ Paste(m) \in Keys
    BY KeyFacts, Assumed
  <2>2. \A n \in Messages : n # m => Paste(m) # Paste(n)
    BY <2>1
  <2> QED
    BY <1>1, <2>1, <2>2, CopiesBehindOne
<1>3. ~Traced(m)
  BY <1>1 DEF RecordInv, Untraced, Placing
<1>4. \A n \in Messages : /\ got[n] \in Nat /\ loose[n] \in Nat /\ OnLine(n) \in 0..1
                          /\ Cardinality(Copies(n)) \in Nat /\ OnLine(n)' = OnLine(n)
  BY <1>1, CopiesFinite DEF Types, CountTypes, OnLine
<1>5. /\ \A n \in Messages : n # m => run'[n] = run[n] /\ loose'[n] = loose[n]
      /\ ~Placing(m)'
      /\ loose'[m] + Trace(m)' = loose[m] + 1
  <2>1. CASE Move(m, "confirm") /\ UNCHANGED loose
    <3>1. run'[m].pc = "confirm" /\ \A n \in Messages : n # m => run'[n] = run[n]
      BY <2>1, Moved DEF Types, RunTypes, Places
    <3>2. Trace(m)' = 1
      BY <3>1 DEF Trace, Traced
    <3> QED
      BY <1>4, <2>1, <3>1, <3>2 DEF Placing
  <2>2. CASE Ends(m) /\ loose' = [loose EXCEPT ![m] = @ + 1]
    <3>1. run'[m].pc = "off" /\ \A n \in Messages : n # m => run'[n] = run[n]
      BY <1>1, <2>2, HeadsLine, Ended DEF Types, RunTypes
    <3>2. Trace(m)' = 0
      BY <1>1, <1>3, <3>1 DEF Trace, Traced
    <3>3. loose'[m] = loose[m] + 1 /\ \A n \in Messages : n # m => loose'[n] = loose[n]
      BY <2>2 DEF Types, CountTypes
    <3> QED
      BY <1>4, <3>1, <3>2, <3>3 DEF Placing
  <2> QED
    BY <2>1, <2>2 DEF PasteWords
<1>6. ASSUME NEW n \in Messages
      PROVE  Counted(n)'
  <2>1. Counted(n)
    BY DEF RecordInv, Accounted
  <2>2. CASE n = m
    <3>1. Cardinality(Copies(m)') = Cardinality(Copies(m)) + 1
      BY <1>1, CopiesPasted
    <3>2. Trace(m) = 0
      BY <1>3 DEF Trace
    <3>3. got'[m] = got[m]
      BY <1>1
    <3> QED
      BY <1>4, <1>5, <2>1, <2>2, <3>1, <3>2, <3>3 DEF Counted
  <2>3. CASE n # m
    <3>1. Copies(n)' = Copies(n) /\ loose'[n] = loose[n] /\ got'[n] = got[n]
      BY <1>1, <1>2, <1>5, <2>3
    <3>2. Trace(n)' = Trace(n)
      BY <1>1, <1>5, <2>3 DEF Trace, Traced
    <3> QED
      BY <1>4, <2>1, <3>1, <3>2 DEF Counted
  <2> QED
    BY <2>2, <2>3
<1>7. Untraced'
  <2>1. ASSUME NEW n \in Messages, Placing(n)'
        PROVE  ~Traced(n)'
    <3>1. n # m /\ run'[n] = run[n]
      BY <1>5, <2>1
    <3> QED
      BY <1>1, <2>1, <3>1 DEF RecordInv, Untraced, Placing, Traced
  <2> QED
    BY <2>1 DEF Untraced
<1>8. RowsTrue'
  BY <1>1 DEF RecordInv, RowsTrue
<1> QED
  BY <1>6, <1>7, <1>8 DEF RecordInv, Accounted

LEMMA ConfirmRecord == ASSUME Types, RecordInv, NEW m \in Messages, Confirm(m) PROVE RecordInv'
<1>1. UNCHANGED <<composer, got, whole, pane>> /\ run[m].pc = "confirm"
  BY DEF Confirm, agent
<1>2. tx[m] \in Txs
  BY DEF Types, TxTypes
<1>3. CASE tx[m].cursor # None /\ logged[m] > tx[m].cursor /\ Accepted(m)
  <2>1. tx[m].cursor \in Nat
    BY <1>2, <1>3 DEF Txs, Cursors
  <2>2. whole[m] > 0
    BY <1>3, <2>1 DEF Types, CountTypes
  <2> QED
    BY <1>1, <1>2, <1>3, <2>2, AnswerRecord
<1>4. CASE Unconfirmed(m, tx[m])
  BY <1>1, <1>2, <1>4, AnswerRecord
<1>5. CASE Move(m, "screen") /\ UNCHANGED <<row, deferred, loose>>
  <2>1. run'[m].pc = "screen" /\ \A n \in Messages : n # m => run'[n] = run[n]
    BY <1>5, Moved DEF Types, RunTypes, Places
  <2> QED
    BY <1>1, <1>5, <2>1, SamePane, MoveRecord
<1> QED
  BY <1>3, <1>4, <1>5 DEF Confirm

LEMMA InterruptedRecord ==
    ASSUME Types, RecordInv, NEW m \in Messages, Interrupted(m) PROVE RecordInv'
<1>1. /\ UNCHANGED <<composer, got, whole, pane>> /\ run[m].pc = "screen"
      /\ Unconfirmed(m, [tx[m] EXCEPT !.own = FALSE])
  BY DEF Interrupted, agent
<1>2. tx[m] \in Txs
  BY DEF Types, TxTypes
<1>3. [tx[m] EXCEPT !.own = FALSE] \in Txs /\ [tx[m] EXCEPT !.own = FALSE].cursor = tx[m].cursor
  BY <1>2 DEF Txs
<1> QED
  BY <1>1, <1>3, AnswerRecord

\* A line seen empty, where the owner has seen its own words, has been submitted.
LEMMA ClearedIsSubmitted ==
    ASSUME PaneInv, NEW m \in Messages, tx[m].own, ~Placing(m), tx[m].observed, composer = <<>>
    PROVE  whole[m] > 0
<1>1. whole[m] > 0 \/ OnItsLine(m)
  BY DEF PaneInv, OwnersLine, Stands
<1>2. ~OnItsLine(m)
  BY DEF OnItsLine
<1> QED
  BY <1>1, <1>2

LEMMA ScreenRecord ==
    ASSUME Types, PaneInv, RecordInv, NEW m \in Messages, Screen(m) PROVE RecordInv'
<1>1. /\ run[m].pc = "screen" /\ tx[m].own
      /\ UNCHANGED <<composer, got, whole>>
  BY ScreenEnds
<1>2. PICK view : /\ view = "empty" => composer = <<>>
                  /\ \/ ScreenCleared(m, view) \/ ScreenEnter(m, view)
                     \/ ScreenWaits(m, view) \/ ScreenGivesUp(m, view)
  BY ScreenEnds
<1>3. tx[m] \in Txs /\ Seen(tx[m], view) \in Txs /\ Seen(tx[m], view).cursor = tx[m].cursor
  <2>1. tx[m] \in Txs
    BY DEF Types, TxTypes
  <2> QED
    BY <2>1, SeenTypes
<1>4. CASE ScreenCleared(m, view)
  <2>1. Accepted(m) /\ pane' = pane /\ composer = <<>> /\ tx[m].observed
    BY <1>2, <1>4 DEF ScreenCleared, Cleared
  <2>2. whole[m] > 0
    BY <1>1, <2>1, ClearedIsSubmitted DEF Placing
  <2> QED
    BY <1>1, <1>3, <2>1, <2>2, AnswerRecord
<1>5. CASE ScreenGivesUp(m, view)
  BY <1>1, <1>3, <1>5, AnswerRecord DEF ScreenGivesUp
<1>6. CASE ScreenWaits(m, view)
  <2>1. run'[m].pc = "confirm" /\ \A n \in Messages : n # m => run'[n] = run[n]
    BY <1>6, Moved DEF Types, RunTypes, Places, ScreenWaits
  <2> QED
    BY <1>1, <1>6, <2>1, SamePane, MoveRecord DEF ScreenWaits
<1>7. CASE ScreenEnter(m, view)
  <2>1. \A n \in Messages : Copies(n)' = Copies(n)
    BY <1>7, KeyFacts, CopiesBehindOne DEF ScreenEnter
  <2>2. run'[m].pc = "confirm" /\ \A n \in Messages : n # m => run'[n] = run[n]
    BY <1>7 DEF ScreenEnter, Types, RunTypes
  <2> QED
    BY <1>1, <1>7, <2>1, <2>2, MoveRecord DEF ScreenEnter
<1> QED
  BY <1>2, <1>4, <1>5, <1>6, <1>7

\* A run that is cut off between its paste and its trace leaves its words loose.
LEMMA CrashRecord == ASSUME Types, RecordInv, Crash PROVE RecordInv'
<1>1. /\ UNCHANGED <<composer, got, whole, pane, row, deferred>>
      /\ run' = [m \in Messages |-> Off]
      /\ loose' = [m \in Messages |-> IF run[m].pc \in {"confirm", "screen"} /\ deferred[m] = None
                                        THEN loose[m] + 1 ELSE loose[m]]
  BY DEF Crash, agent
<1>2. \A n \in Messages : \/ loose'[n] = loose[n] /\ (Traced(n) => Traced(n)')
                          \/ loose'[n] = loose[n] + 1
  <2> TAKE n \in Messages
  <2>1. CASE run[n].pc \in {"confirm", "screen"} /\ deferred[n] = None
    BY <1>1, <2>1
  <2>2. CASE ~(run[n].pc \in {"confirm", "screen"} /\ deferred[n] = None)
    BY <1>1, <2>2 DEF Traced
  <2> QED
    BY <2>1, <2>2
<1>3. \A n \in Messages : ~Placing(n)'
  BY <1>1 DEF Placing, Off
<1> QED
  BY <1>1, <1>2, <1>3, SamePane, RecordFrame

\* A copy moves from the pane to the line and from the line into what the agent was given.
LEMMA ReadsRecord == ASSUME Types, RecordInv, Reads PROVE RecordInv'
<1>1. /\ UNCHANGED <<row, deferred, run, loose>>
      /\ \/ \E w \in Words : ReadsWords(w)
         \/ ReadsKill
         \/ \E by \in {Enter, Return} : ReadsSubmit(by)
         \/ ReadsNothing
  BY ReadsEnds
<1>2. composer \in Seq(Words)
  BY DEF Types, PaneTypes
<1>3. ASSUME NEW n \in Messages
      PROVE  Counted(n)' /\ whole'[n] >= whole[n]
  <2>1. /\ got[n] \in Nat /\ loose[n] \in Nat /\ OnLine(n) \in 0..1 /\ OnLine(n)' \in 0..1
        /\ whole[n] \in Nat
    BY DEF Types, CountTypes, OnLine
  <2>2. Counted(n) /\ Trace(n)' = Trace(n) /\ loose'[n] = loose[n] /\ Trace(n) \in 0..1
    BY <1>1 DEF RecordInv, Accounted, Trace, Traced
  <2>3. /\ Cardinality(Copies(n)) \in Nat /\ Cardinality(Copies(n)') \in Nat
        /\ Cardinality(Copies(n)') = IF pane[1] = Paste(n) THEN Cardinality(Copies(n)) - 1
                                     ELSE Cardinality(Copies(n))
    BY CopiesRead
  <2>4. ASSUME NEW w \in Words, ReadsWords(w)
        PROVE  Counted(n)' /\ whole'[n] >= whole[n]
    <3>0. got'[n] = got[n] /\ whole'[n] = whole[n]
      BY <2>4 DEF ReadsWords
    <3>1. pane[1] = Paste(w) /\ composer' = Append(composer, w)
      BY <2>4 DEF ReadsWords
    <3>2. CASE w = n
      <4>1. Cardinality(Copies(n)') = Cardinality(Copies(n)) - 1
        BY <2>3, <3>1, <3>2
      <4> QED
        BY <2>1, <2>2, <2>3, <3>0, <4>1 DEF Counted
    <3>3. CASE w # n
      <4>1. n \in Range(composer') => n \in Range(composer)
        <5> SUFFICES ASSUME n \in Range(composer') PROVE n \in Range(composer)
          OBVIOUS
        <5>1. PICK i \in DOMAIN composer' : composer'[i] = n
          BY DEF Range
        <5>2. i \in DOMAIN composer /\ composer[i] = n
          BY <1>2, <3>1, <3>3, <5>1
        <5> QED
          BY <5>2 DEF Range
      <4>2. OnLine(n)' <= OnLine(n)
        BY <4>1 DEF OnLine
      <4>3. Cardinality(Copies(n)') <= Cardinality(Copies(n))
        BY <2>3
      <4> QED
        BY <2>1, <2>2, <2>3, <3>0, <4>2, <4>3 DEF Counted
    <3> QED
      BY <3>2, <3>3
  <2>5. CASE ReadsKill
    <3>1. got'[n] = got[n] /\ whole'[n] = whole[n] /\ OnLine(n)' = 0
      BY <2>5 DEF ReadsKill, OnLine, Range
    <3> QED
      BY <2>1, <2>2, <2>3, <3>1 DEF Counted
  <2>6. ASSUME NEW by \in {Enter, Return}, ReadsSubmit(by)
        PROVE  Counted(n)' /\ whole'[n] >= whole[n]
    <3>1. /\ composer' = <<>> /\ pane[1] # Paste(n)
          /\ got'[n] = got[n] + OnLine(n) /\ whole'[n] \in {whole[n], whole[n] + 1}
      BY <2>1, <2>6, KeyFacts DEF ReadsSubmit, Submitted, OnLine
    <3>2. OnLine(n)' = 0
      BY <3>1 DEF OnLine, Range
    <3> QED
      BY <2>1, <2>2, <2>3, <3>1, <3>2 DEF Counted
  <2>7. CASE ReadsNothing
    <3>1. /\ got'[n] = got[n] /\ whole'[n] = whole[n] /\ OnLine(n)' = OnLine(n)
          /\ pane[1] # Paste(n)
      BY <2>7, KeyFacts DEF ReadsNothing, OnLine
    <3> QED
      BY <2>1, <2>2, <2>3, <3>1 DEF Counted
  <2> QED
    BY <1>1, <2>4, <2>5, <2>6, <2>7
<1>4. Untraced'
  BY <1>1 DEF RecordInv, Untraced, Placing, Traced
<1>5. RowsTrue'
  <2>1. \A n \in Messages : whole[n] \in Nat /\ whole'[n] \in Nat
    BY ReadsTypes DEF Types, CountTypes
  <2> QED
    BY <1>1, <1>3, <2>1 DEF RecordInv, RowsTrue
<1> QED
  BY <1>3, <1>4, <1>5 DEF RecordInv, Accounted

LEMMA InitRecord == Init => RecordInv
<1> SUFFICES ASSUME Init PROVE RecordInv
  OBVIOUS
<1>1. /\ pane = <<>> /\ composer = <<>>
      /\ \A m \in Messages : got[m] = 0 /\ loose[m] = 0 /\ ~row[m] /\ run[m].pc = "off"
  BY DEF Init, Off
<1>2. \A m \in Messages : Copies(m) = {} /\ OnLine(m) = 0
  BY <1>1 DEF Copies, OnLine, Range
<1>3. \A m \in Messages : Cardinality(Copies(m)) = 0 /\ Trace(m) \in 0..1
  BY <1>2, FS_EmptySet DEF Trace
<1>4. Accounted
  BY <1>1, <1>2, <1>3 DEF Accounted, Counted
<1> QED
  BY <1>1, <1>4 DEF RecordInv, Untraced, Placing, RowsTrue

LEMMA StepRecord == Types /\ PaneInv /\ RecordInv /\ [Next]_vars => RecordInv'
<1>1. ASSUME Types, RecordInv, UNCHANGED vars
      PROVE  RecordInv'
  <2>1. UNCHANGED <<composer, pane, got, whole, row, deferred, run, loose>>
    BY <1>1 DEF vars
  <2>2. \A n \in Messages : (Traced(n)' <=> Traced(n)) /\ (Placing(n)' <=> Placing(n))
    BY <2>1 DEF Traced, Placing
  <2> QED
    BY <1>1, <2>1, <2>2, SamePane, RecordFrame DEF RecordInv, Untraced
<1> QED
  BY <1>1, ReadsRecord, LogsRecord, TypesKeyRecord, AgentSendsRecord, PostRecord, ConfirmsRecord,
     EvictRecord, TurnRecord, LookRecord, InputChangedRecord, ClearRecord, PasteWordsRecord,
     ConfirmRecord, InterruptedRecord, ScreenRecord, CrashRecord DEF Next, Sending, Submitting

-----------------------------------------------------------------------------
DeliveryInv == Types /\ PaneInv /\ RecordInv

LEMMA DeliveryHolds == Spec => []DeliveryInv
<1>1. Init => DeliveryInv
  BY InitTypes, InitPane, InitRecord DEF DeliveryInv
<1>2. DeliveryInv /\ [Next]_vars => DeliveryInv'
  BY StepTypes, StepPane, StepRecord DEF DeliveryInv
<1> QED
  BY <1>1, <1>2, PTL DEF Spec

\* InputDelivery.ExactlyOnce: a message is given to the agent once more than deliveries have left
\* its words in the pane without a record, however often it is sent again (deliverReply's receipt and
\* input-unconfirmed event); what is recorded as delivered was submitted; and the server's Enter
\* submits a message on its own, whoever types in between (markRawInput, serializeAgentInput).
THEOREM ExactlyOnceHolds == Spec => []ExactlyOnce
<1>1. DeliveryInv => ExactlyOnce
  <2> SUFFICES ASSUME DeliveryInv, NEW m \in Messages
               PROVE  got[m] <= 1 + loose[m] /\ (row[m] => whole[m] > 0) /\ ~mixed
    BY DEF ExactlyOnce
  <2>1. Counted(m) /\ Types
    BY DEF DeliveryInv, RecordInv, Accounted
  <2>2. /\ got[m] \in Nat /\ loose[m] \in Nat /\ OnLine(m) \in 0..1 /\ Trace(m) \in 0..1
        /\ Cardinality(Copies(m)) \in Nat
    BY <2>1, CopiesFinite DEF Types, CountTypes, OnLine, Trace
  <2>3. got[m] <= 1 + loose[m]
    BY <2>1, <2>2 DEF Counted
  <2> QED
    BY <2>3 DEF DeliveryInv, PaneInv, RecordInv, RowsTrue
<1> QED
  BY <1>1, DeliveryHolds, PTL

=============================================================================
