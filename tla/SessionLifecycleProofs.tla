------------------------ MODULE SessionLifecycleProofs ------------------------
(***************************************************************************)
(* What holds of one session for every bound.                              *)
(*                                                                         *)
(* Types is TypeOK and what else a job in memory carries: nothing, while   *)
(* the server is down; a discovery with attempts left, while a recovery at *)
(* boot runs; the name of a pane, once it has observed the row.  It holds  *)
(* whatever crosses whatever.                                              *)
(*                                                                         *)
(* PaneInv says where panes may be held -- where the row says, or where    *)
(* the resume that has just opened one says -- and needs the program point *)
(* of every job that opens a pane.  StopInv says what each job that is in  *)
(* flight, or that can still begin, finds after a halt: the row, the       *)
(* registry and the panes change one at a time, so it is a fact of their   *)
(* combinations and not of any one.  Both hold while Crossings is FALSE    *)
(* (the runs show how the properties fail when it is TRUE).                *)
(*                                                                         *)
(* An action's effect on the records is stated once (the lemmas named      *)
(* ...Write), and each of the three invariants has one lemma per action.   *)
(***************************************************************************)
EXTENDS SessionLifecycle, FiniteSetTheorems, TLAPS

-----------------------------------------------------------------------------
(* Types.                                                                  *)

Booting == resume # Idle /\ resume.kind = "boot"
Gone == {"exited", "error"}

RegTyped(e) == \/ e = NoEntry
               \/ e \in [gen : Generations, tmux : Panes, relaunching : BOOLEAN, missed : 0..1]
LaunchTyped(l) == \/ l = Idle
                  \/ l \in [pc : {"setup", "publish", "clean", "record"}, cancelled : BOOLEAN,
                            owns : BOOLEAN]
ResumeTyped(r) == \/ r = Idle
                  \/ r \in [pc : {"probe", "look", "clear", "prepare", "publish"},
                            kind : {"operator", "settings", "auto", "boot"},
                            entry : Generations \cup {0}, was : Seen, alive : BOOLEAN,
                            pane : Panes \cup {0}]
HaltTyped(h) == h = Idle \/ h \in [pc : {"kill", "mark"}, tmux : Panes]
PollTyped(q) == \/ q = Idle
                \/ q \in [pc : {"asked", "adopt", "look", "classify"},
                          gen : Generations \cup {0}, was : Seen]
DiscTyped(d) == \/ d = Idle
                \/ d \in [pc : {"ask", "interrupted", "look", "recover", "deferred"}, was : Seen,
                          attempts : 0..MaxAttempts]
BudgetTyped(b) == b \in [crashes : 0..MaxCrashes, halts : 0..MaxHalts, unknown : 0..MaxUnknown,
                         resumes : 0..MaxResumes, faults : 0..MaxFaults]

\* A server that is down holds nothing in memory.
DownIdle == server = "down" => /\ launch = Idle /\ resume = Idle /\ halt = Idle /\ poll = Idle
                               /\ disc = Idle /\ reg = NoEntry /\ ~tick

\* A recovery at boot is one discovery under way, with attempts left.
BootOk == Booting => /\ disc.pc = "recover" /\ disc.was.desired \in Live
                     /\ disc.attempts < MaxAttempts

\* A job that has observed the row names one of the panes.
SeenOk == /\ resume # Idle => resume.was.tmux \in Panes
          /\ resume.pc = "publish" => resume.pane \in Panes
          /\ disc.pc = "look" => disc.was.tmux \in Panes
          /\ poll.pc \in {"look", "classify"} => poll.was.tmux \in Panes /\ poll.gen # 0

Types == /\ row \in Rows
         /\ pane \in [Panes -> {"none", "shell", "agent"}]
         /\ server \in {"down", "up"}
         /\ RegTyped(reg)
         /\ LaunchTyped(launch)
         /\ ResumeTyped(resume)
         /\ HaltTyped(halt)
         /\ PollTyped(poll)
         /\ DiscTyped(disc)
         /\ tick \in BOOLEAN /\ halted \in BOOLEAN
         /\ BudgetTyped(budget)
         /\ DownIdle /\ BootOk /\ SeenOk

LEMMA TypesGiveTypeOK == Types => TypeOK
  BY DEF Types, TypeOK, RegTyped, LaunchTyped, ResumeTyped, HaltTyped, PollTyped, DiscTyped, BudgetTyped

LEMMA Numbers ==
  /\ MaxPanes \in Nat /\ MaxCrashes \in Nat /\ MaxHalts \in Nat /\ MaxUnknown \in Nat
  /\ MaxResumes \in Nat /\ MaxFaults \in Nat /\ MaxAttempts \in Nat
  /\ LaunchPane \in Panes /\ MaxAttempts > 0
  BY LifecycleAssumption DEF LaunchPane, Panes

LEMMA StatusWrite ==
  ASSUME NEW r \in Rows, NEW st \in Statuses
  PROVE  /\ SetStatus(r, st) \in Rows
         /\ SetStatus(r, st).status = st
         /\ SetStatus(r, st).desired = IF st \in Active THEN st ELSE r.desired
         /\ ~SetStatus(r, st).stopping
         /\ ~SetStatus(r, st).operator
         /\ SetStatus(r, st).tmux = r.tmux
         /\ SetStatus(r, st).attempts = r.attempts
  <1> DEFINE a == [r EXCEPT !.status = st]
             b == [a EXCEPT !.stopping = FALSE]
             c == [b EXCEPT !.operator = FALSE]
             d == [c EXCEPT !.desired = IF st \in Active THEN st ELSE @]
  <1>1. a \in Rows /\ a.status = st /\ a.desired = r.desired /\ a.tmux = r.tmux
        /\ a.attempts = r.attempts
    BY DEF Rows
  <1>2. b \in Rows /\ b.status = a.status /\ b.desired = a.desired /\ b.tmux = a.tmux
        /\ b.attempts = a.attempts /\ b.stopping = FALSE
    <2> HIDE DEF a
    <2> QED BY <1>1 DEF Rows
  <1>3. c \in Rows /\ c.status = b.status /\ c.desired = b.desired /\ c.tmux = b.tmux
        /\ c.attempts = b.attempts /\ c.stopping = b.stopping /\ c.operator = FALSE
    <2> HIDE DEF b
    <2> QED BY <1>2 DEF Rows
  <1>4. d \in Rows /\ d.status = c.status /\ d.tmux = c.tmux /\ d.attempts = c.attempts
        /\ d.stopping = c.stopping /\ d.operator = c.operator
        /\ d.desired = IF st \in Active THEN st ELSE c.desired
    <2> HIDE DEF c
    <2> QED BY <1>3 DEF Rows
  <1>5. SetStatus(r, st) = d
    BY DEF SetStatus
  <1> HIDE DEF a, b, c, d
  <1> QED BY <1>1, <1>2, <1>3, <1>4, <1>5

LEMMA RunningWrite ==
  ASSUME NEW r \in Rows, NEW st \in Live, NEW p \in Panes
  PROVE  /\ Running(r, st, p) \in Rows
         /\ Running(r, st, p).status = st
         /\ Running(r, st, p).desired = st
         /\ ~Running(r, st, p).operator
         /\ ~Running(r, st, p).stopping
         /\ Running(r, st, p).tmux = p
  <1> DEFINE s == SetStatus(r, st)
             a == [s EXCEPT !.attempts = 0]
             b == [a EXCEPT !.tmux = p]
  <1>0. st \in Statuses /\ st \in Active
    BY DEF Statuses, Active
  <1>1. s \in Rows /\ s.status = st /\ s.desired = st /\ ~s.operator /\ ~s.stopping
    BY <1>0, StatusWrite
  <1>2. a \in Rows /\ a.status = s.status /\ a.desired = s.desired /\ a.operator = s.operator
        /\ a.stopping = s.stopping
    <2> HIDE DEF s
    <2> QED BY <1>1, Numbers DEF Rows
  <1>3. b \in Rows /\ b.status = a.status /\ b.desired = a.desired /\ b.operator = a.operator
        /\ b.stopping = a.stopping /\ b.tmux = p
    <2> HIDE DEF a
    <2> QED BY <1>2 DEF Rows
  <1>4. Running(r, st, p) = b
    BY DEF Running
  <1> HIDE DEF s, a, b
  <1> QED BY <1>1, <1>2, <1>3, <1>4

LEMMA FailedWrite ==
  ASSUME NEW r \in Rows
  PROVE  /\ Failed(r) \in Rows
         /\ Failed(r).status = "error" /\ Failed(r).desired = "error"
         /\ Failed(r).tmux = r.tmux
  <1> DEFINE s == SetStatus(r, "error")
  <1>0. "error" \in Statuses
    BY DEF Statuses
  <1>1. s \in Rows /\ s.status = "error" /\ s.tmux = r.tmux
    BY <1>0, StatusWrite
  <1> HIDE DEF s
  <1>2. Failed(r) = [s EXCEPT !.desired = "error"]
    BY DEF Failed, s
  <1> QED BY <1>0, <1>1, <1>2 DEF Rows

LEMMA FreshGenTyped ==
  ASSUME Types
  PROVE  /\ FreshGen \in Generations
         /\ FreshGen # reg.gen
         /\ poll # Idle => FreshGen # poll.gen
         /\ resume # Idle => FreshGen # resume.entry
  <1>1. \E g \in Generations : g \notin {reg.gen, IF poll = Idle THEN 0 ELSE poll.gen,
                          IF resume = Idle THEN 0 ELSE resume.entry}
    BY DEF Generations
  <1> QED BY <1>1 DEF FreshGen

LEMMA RegisterTyped ==
  ASSUME Types, NEW p \in Panes
  PROVE  /\ RegTyped(Register(p))
         /\ Register(p) # NoEntry
         /\ Register(p).tmux = p
  BY FreshGenTyped DEF Types, RegTyped, Register, NoEntry, Generations

LEMMA FreshPaneTyped ==
  ASSUME Panes \ InUse # {}
  PROVE  FreshPane \in Panes /\ FreshPane \notin InUse
  BY DEF FreshPane

LEMMA MarkWrite ==
  ASSUME Types, NEW b \in BOOLEAN, MarkExited(b)
  PROVE  /\ row' \in Rows
         /\ row'.status = "exited"
         /\ row'.desired = row.desired
         /\ row'.tmux = row.tmux
         /\ row'.operator = IF row.status = "exited" THEN row.operator ELSE b
         /\ reg' = NoEntry
  <1> row \in Rows
    BY DEF Types
  <1>1. CASE row.status = "exited"
    BY <1>1 DEF MarkExited
  <1>2. CASE row.status # "exited"
    <2> DEFINE x == [row EXCEPT !.status = "exited"]
               y == [x EXCEPT !.stopping = FALSE]
               z == [y EXCEPT !.operator = b]
    <2>1. x \in Rows /\ x.status = "exited" /\ x.desired = row.desired /\ x.tmux = row.tmux
      BY DEF Rows, Statuses
    <2>2. y \in Rows /\ y.status = x.status /\ y.desired = x.desired /\ y.tmux = x.tmux
      <3> HIDE DEF x
      <3> QED BY <2>1 DEF Rows
    <2>3. z \in Rows /\ z.status = y.status /\ z.desired = y.desired /\ z.tmux = y.tmux
          /\ z.operator = b
      <3> HIDE DEF y
      <3> QED BY <2>2 DEF Rows
    <2>4. row' = z /\ reg' = NoEntry
      BY <1>2 DEF MarkExited
    <2> HIDE DEF x, y, z
    <2> QED BY <1>2, <2>1, <2>2, <2>3, <2>4
  <1> QED BY <1>1, <1>2

LEMMA UnexpectedWrite ==
  ASSUME Types, NEW g, MarkUnexpectedExit(g)
  PROVE  \/ UNCHANGED <<row, reg>>
         \/ /\ reg.gen = g /\ resume = Idle
            /\ row' \in Rows
            /\ row'.status = "exited"
            /\ row'.desired = row.desired
            /\ row'.tmux = row.tmux
            /\ row'.operator = IF row.status = "exited" THEN row.operator ELSE FALSE
            /\ reg' = NoEntry
  <1>1. CASE reg.gen = g /\ ~reg.relaunching /\ resume = Idle
    BY <1>1, MarkWrite DEF MarkUnexpectedExit
  <1>2. CASE ~(reg.gen = g /\ ~reg.relaunching /\ resume = Idle)
    BY <1>2 DEF MarkUnexpectedExit
  <1> QED BY <1>1, <1>2

LEMMA LookTyped ==
  ASSUME NEW r \in Rows
  PROVE  Look(r) \in Seen /\ Look(r).tmux = r.tmux /\ Look(r).desired = r.desired
         /\ Look(r).status = r.status
  BY DEF Look, Seen, Rows

LEMMA GenTyped ==
  ASSUME Types
  PROVE  /\ reg.gen \in Generations \cup {0}
         /\ reg # NoEntry => reg.gen # 0 /\ reg.tmux \in Panes /\ reg.missed \in 0..1
  BY Numbers DEF Types, RegTyped, NoEntry, Generations, Panes

LEMMA RelaunchWrite ==
  ASSUME Types, NEW f \in BOOLEAN, reg # NoEntry
  PROVE  /\ RegTyped([reg EXCEPT !.relaunching = f])
         /\ [reg EXCEPT !.relaunching = f].tmux = reg.tmux
         /\ [reg EXCEPT !.relaunching = f].gen = reg.gen
         /\ [reg EXCEPT !.relaunching = f] # NoEntry
  BY Numbers DEF Types, RegTyped, NoEntry, Generations, Panes

LEMMA MissWrite ==
  ASSUME Types, NEW n \in 0..1, reg # NoEntry
  PROVE  /\ RegTyped([reg EXCEPT !.missed = n])
         /\ [reg EXCEPT !.missed = n].tmux = reg.tmux
         /\ [reg EXCEPT !.missed = n] # NoEntry
  BY Numbers DEF Types, RegTyped, NoEntry, Generations, Panes

LEMMA StartWrite ==
  ASSUME Types, NEW k \in {"operator", "settings", "auto", "boot"}, StartResume(k)
  PROVE  /\ resume = Idle
         /\ ResumeTyped(resume') /\ resume' # Idle
         /\ resume'.pc = "probe" /\ resume'.kind = k /\ resume'.was = Look(row)
         /\ RegTyped(reg')
         /\ reg' = NoEntry <=> reg = NoEntry
         /\ reg'.tmux = reg.tmux
  <1>1. reg.gen \in Generations \cup {0} /\ Look(row) \in Seen
    BY GenTyped, LookTyped DEF Types
  <1>2. /\ resume = Idle
        /\ resume' = [pc |-> "probe", kind |-> k, entry |-> reg.gen, was |-> Look(row),
                      alive |-> FALSE, pane |-> 0]
        /\ reg' = IF reg = NoEntry THEN reg ELSE [reg EXCEPT !.relaunching = TRUE]
    BY DEF StartResume
  <1>3. ResumeTyped(resume') /\ resume' # Idle
    BY <1>1, <1>2 DEF ResumeTyped, Idle
  <1>4. RegTyped(reg') /\ (reg' = NoEntry <=> reg = NoEntry) /\ reg'.tmux = reg.tmux
    <2>1. CASE reg = NoEntry
      BY <2>1, <1>2 DEF Types
    <2>2. CASE reg # NoEntry
      BY <2>2, <1>2, RelaunchWrite
    <2> QED BY <2>1, <2>2
  <1> QED BY <1>2, <1>3, <1>4

LEMMA AskedWrite ==
  ASSUME Types, NEW k \in {"operator", "settings", "auto", "boot"}, AskedResume(k)
  PROVE  /\ BudgetTyped(budget')
         /\ StartResume(k)
  BY Numbers DEF AskedResume, Types, BudgetTyped

\* What a resume that rejects leaves.
LEMMA RejectWrite ==
  ASSUME Types, NEW code, RejectResume(code), resume # Idle
  PROVE  /\ resume' = Idle
         /\ row' \in Rows
         /\ row'.tmux = row.tmux
         /\ RegTyped(reg')
         /\ reg' = NoEntry <=> reg = NoEntry
         /\ reg'.tmux = reg.tmux
         /\ DiscTyped(disc')
         /\ \/ resume.kind # "boot" /\ UNCHANGED <<row, disc>>
            \/ /\ resume.kind = "boot"
               /\ disc' = Idle \/ disc'.pc = "deferred"
               /\ row'.status = row.status \/ row'.status = "error"
               /\ \/ row'.desired = row.desired /\ row'.operator = row.operator
                  \/ row.desired \in Live /\ ~row.operator
  <1> DEFINE skipped == code = "cancelled" \/ row.desired \notin Live \/ row.operator
  <1> row \in Rows
    BY DEF Types
  <1>1. resume' = Idle
    BY DEF RejectResume
  <1>2. RegTyped(reg') /\ (reg' = NoEntry <=> reg = NoEntry) /\ reg'.tmux = reg.tmux
    <2>1. CASE reg # NoEntry /\ reg.gen = resume.entry
      <3>1. reg' = [reg EXCEPT !.relaunching = FALSE]
        BY <2>1 DEF RejectResume
      <3> QED BY <2>1, <3>1, RelaunchWrite
    <2>2. CASE ~(reg # NoEntry /\ reg.gen = resume.entry)
      BY <2>2 DEF RejectResume, Types
    <2> QED BY <2>1, <2>2
  <1>3. CASE resume.kind # "boot"
    <2>1. UNCHANGED <<row, disc>>
      BY <1>3 DEF RejectResume
    <2> QED BY <1>1, <1>2, <1>3, <2>1 DEF Types
  <1>4. CASE resume.kind = "boot" /\ skipped
    <2>1. UNCHANGED row /\ disc' = Idle
      BY <1>4 DEF RejectResume
    <2> QED BY <1>1, <1>2, <1>4, <2>1 DEF Types, DiscTyped
  <1>5. CASE resume.kind = "boot" /\ ~skipped /\ code = "unknown"
    <2>1. /\ row' = [row EXCEPT !.attempts = disc.attempts]
          /\ disc' = [pc |-> "deferred", was |-> Nothing, attempts |-> 0]
      BY <1>5 DEF RejectResume
    <2>2. disc.attempts \in 0..MaxAttempts
      BY <1>5 DEF Types, BootOk, Booting, DiscTyped, Idle
    <2>3. DiscTyped(disc')
      BY <2>1, Numbers DEF DiscTyped, Nothing, Seen, Statuses
    <2>4. row' \in Rows /\ row'.tmux = row.tmux /\ row'.status = row.status
          /\ row'.desired = row.desired /\ row'.operator = row.operator
      BY <2>1, <2>2 DEF Rows
    <2>5. disc'.pc = "deferred"
      BY <2>1
    <2> QED BY <1>1, <1>2, <1>5, <2>3, <2>4, <2>5
  <1>6. CASE resume.kind = "boot" /\ ~skipped /\ code # "unknown"
    <2> DEFINE s == SetStatus(row, "error")
               t == [s EXCEPT !.desired = disc.was.desired]
               u == [t EXCEPT !.attempts = disc.attempts + 1]
    <2>1. row' = u /\ disc' = Idle
      BY <1>6 DEF RejectResume
    <2>2. disc.attempts + 1 \in 0..MaxAttempts /\ disc.was.desired \in Statuses
      BY <1>6, Numbers DEF Types, BootOk, Booting, DiscTyped, Idle, Live, Active, Statuses
    <2>3. s \in Rows /\ s.status = "error" /\ s.tmux = row.tmux
      BY StatusWrite DEF Statuses
    <2>4. t \in Rows /\ t.status = s.status /\ t.tmux = s.tmux
      <3> HIDE DEF s
      <3> QED BY <2>2, <2>3 DEF Rows
    <2>5. u \in Rows /\ u.status = t.status /\ u.tmux = t.tmux
      <3> HIDE DEF t
      <3> QED BY <2>2, <2>4 DEF Rows
    <2>6. DiscTyped(disc')
      BY <2>1 DEF DiscTyped
    <2>7. row.desired \in Live /\ ~row.operator
      BY <1>6
    <2> HIDE DEF s, t, u
    <2> QED BY <1>1, <1>2, <1>6, <2>1, <2>3, <2>4, <2>5, <2>6, <2>7
  <1> QED BY <1>3, <1>4, <1>5, <1>6

LEMMA FaultTypes ==
  ASSUME Types, NEW p \in Panes, AgentExits(p) \/ PaneDies(p)
  PROVE  Types'
  BY Numbers
     DEF Types, RegTyped, LaunchTyped, ResumeTyped, HaltTyped, PollTyped, DiscTyped, BudgetTyped,
         DownIdle, BootOk, SeenOk, Booting, Idle,
         AgentExits, PaneDies, Fault, KillPane, Held

LEMMA HookTypes ==
  ASSUME Types, NEW st \in Live, Hook(st)
  PROVE  Types'
  BY StatusWrite
     DEF Types, RegTyped, LaunchTyped, ResumeTyped, HaltTyped, PollTyped, DiscTyped, BudgetTyped,
         DownIdle, BootOk, SeenOk, Booting, Idle,
         Hook, Live, Active, Statuses, rest

LEMMA LaunchCleanTypes ==
  ASSUME Types, LaunchClean
  PROVE  Types'
  BY Numbers
     DEF Types, RegTyped, LaunchTyped, ResumeTyped, HaltTyped, PollTyped, DiscTyped, BudgetTyped,
         DownIdle, BootOk, SeenOk, Booting, Idle,
         LaunchClean, KillPane, rest

LEMMA LaunchRecordTypes ==
  ASSUME Types, LaunchRecord
  PROVE  Types'
  BY FailedWrite
     DEF Types, RegTyped, LaunchTyped, ResumeTyped, HaltTyped, PollTyped, DiscTyped, BudgetTyped,
         DownIdle, BootOk, SeenOk, Booting, Idle,
         LaunchRecord, rest

LEMMA HaltKillTypes ==
  ASSUME Types, HaltKill
  PROVE  Types'
  BY Numbers
     DEF Types, RegTyped, LaunchTyped, ResumeTyped, HaltTyped, PollTyped, DiscTyped, BudgetTyped,
         DownIdle, BootOk, SeenOk, Booting, Idle,
         HaltKill, KillPane, rest

LEMMA SuperviseExitTypes ==
  ASSUME Types, SuperviseExit
  PROVE  Types'
  BY Numbers
     DEF Types, RegTyped, LaunchTyped, ResumeTyped, HaltTyped, PollTyped, DiscTyped, BudgetTyped,
         DownIdle, BootOk, SeenOk, Booting, Idle,
         SuperviseExit

LEMMA PollAskTypes ==
  ASSUME Types, PollAsk
  PROVE  Types'
  BY Numbers
     DEF Types, RegTyped, LaunchTyped, ResumeTyped, HaltTyped, PollTyped, DiscTyped, BudgetTyped,
         DownIdle, BootOk, SeenOk, Booting, Idle,
         PollAsk, Nothing, Seen, Statuses, NoEntry, rest

LEMMA PollUnknownTypes ==
  ASSUME Types, PollUnknown
  PROVE  Types'
  BY Numbers
     DEF Types, RegTyped, LaunchTyped, ResumeTyped, HaltTyped, PollTyped, DiscTyped, BudgetTyped,
         DownIdle, BootOk, SeenOk, Booting, Idle,
         PollUnknown

LEMMA PollClassifyTypes ==
  ASSUME Types, PollClassify
  PROVE  Types'
  BY StatusWrite
     DEF Types, RegTyped, LaunchTyped, ResumeTyped, HaltTyped, PollTyped, DiscTyped, BudgetTyped,
         DownIdle, BootOk, SeenOk, Booting, Idle,
         PollClassify, Live, Active, Statuses, rest

LEMMA BootTypes ==
  ASSUME Types, Boot
  PROVE  Types'
  BY Numbers
     DEF Types, RegTyped, LaunchTyped, ResumeTyped, HaltTyped, PollTyped, DiscTyped, BudgetTyped,
         DownIdle, BootOk, SeenOk, Booting, Idle,
         Boot, Nothing, Seen, Statuses

LEMMA DiscoverUnknownTypes ==
  ASSUME Types, DiscoverUnknown
  PROVE  Types'
  BY Numbers
     DEF Types, RegTyped, LaunchTyped, ResumeTyped, HaltTyped, PollTyped, DiscTyped, BudgetTyped,
         DownIdle, BootOk, SeenOk, Booting, Idle,
         DiscoverUnknown, Discovering

LEMMA DiscoverInterruptedTypes ==
  ASSUME Types, DiscoverInterrupted
  PROVE  Types'
  BY FailedWrite
     DEF Types, RegTyped, LaunchTyped, ResumeTyped, HaltTyped, PollTyped, DiscTyped, BudgetTyped,
         DownIdle, BootOk, SeenOk, Booting, Idle,
         DiscoverInterrupted, rest

LEMMA LaunchSpawnTypes ==
  ASSUME Types, LaunchSpawn
  PROVE  Types'
  <1>1. UNCHANGED <<row, reg, resume, halt, poll, disc, server, tick, budget, halted>>
        /\ launch # Idle
    BY DEF LaunchSpawn, rest
  <1>2. LaunchTyped(launch') /\ pane' \in [Panes -> {"none", "shell", "agent"}]
    <2>1. CASE LaunchActive /\ launch' = [launch EXCEPT !.pc = "publish"]
               /\ pane' = [pane EXCEPT ![LaunchPane] = "agent"]
      BY <1>1, <2>1, Numbers DEF Types, LaunchTyped, Idle
    <2>2. CASE \E c \in {FALSE, ~LaunchActive} : FailLaunch(c) /\ UNCHANGED pane
      <3>1. PICK c \in {FALSE, ~LaunchActive} : FailLaunch(c) /\ UNCHANGED pane
        BY <2>2
      <3>2. launch \in [pc : {"setup", "publish", "clean", "record"}, cancelled : BOOLEAN,
                        owns : BOOLEAN]
        BY <1>1 DEF Types, LaunchTyped
      <3>3. (~c /\ row.status = "starting") \in BOOLEAN
        OBVIOUS
      <3>4. LaunchTyped(launch')
        BY <3>1, <3>2, <3>3 DEF FailLaunch, LaunchTyped
      <3> QED BY <3>1, <3>4 DEF Types
    <2> QED BY <2>1, <2>2 DEF LaunchSpawn
  <1> QED BY <1>1, <1>2 DEF Types, RegTyped, ResumeTyped, HaltTyped, PollTyped, DiscTyped, BudgetTyped,
         DownIdle, BootOk, SeenOk, Booting

LEMMA LaunchPublishTypes ==
  ASSUME Types, LaunchPublish
  PROVE  Types'
  <1>1. UNCHANGED <<pane, resume, halt, poll, disc, server, tick, budget, halted>>
        /\ launch # Idle
    BY DEF LaunchPublish, rest
  <1>2. LaunchTyped(launch') /\ row' \in Rows /\ RegTyped(reg')
    <2>1. CASE LaunchActive
      <3>1. row' = Running(row, "working", LaunchPane) /\ reg' = Register(LaunchPane)
            /\ launch' = Idle
        BY <2>1 DEF LaunchPublish
      <3> QED BY <3>1, RunningWrite, RegisterTyped, Numbers DEF Types, LaunchTyped, Live
    <2>2. CASE ~LaunchActive
      <3>1. FailLaunch(TRUE) /\ UNCHANGED <<row, reg>>
        BY <2>2 DEF LaunchPublish
      <3>2. launch \in [pc : {"setup", "publish", "clean", "record"}, cancelled : BOOLEAN,
                        owns : BOOLEAN]
        BY <1>1 DEF Types, LaunchTyped
      <3>3. LaunchTyped(launch')
        BY <3>1, <3>2 DEF FailLaunch, LaunchTyped
      <3> QED BY <3>1, <3>3 DEF Types
    <2> QED BY <2>1, <2>2
  <1>3. server = "up"
    BY <1>1 DEF Types, DownIdle
  <1> QED BY <1>1, <1>2, <1>3 DEF Types, ResumeTyped, HaltTyped, PollTyped, DiscTyped, BudgetTyped,
         DownIdle, BootOk, SeenOk, Booting

\* Asking for a resume, whoever asks.
LEMMA AskedTypes ==
  ASSUME Types, server = "up" \/ tick \/ poll # Idle, NEW k \in {"operator", "settings", "auto"},
         AskedResume(k), UNCHANGED <<row, pane, server, launch, halt, disc>>,
         poll' = poll \/ poll' = Idle, tick' \in BOOLEAN, halted' \in BOOLEAN
  PROVE  Types'
  <1>1. StartResume(k) /\ BudgetTyped(budget')
    BY AskedWrite
  <1>2. /\ resume = Idle /\ ResumeTyped(resume') /\ resume' # Idle
        /\ resume'.pc = "probe" /\ resume'.kind = k /\ resume'.was = Look(row)
        /\ RegTyped(reg')
    BY <1>1, StartWrite
  <1>3. resume'.was.tmux \in Panes
    BY <1>2, LookTyped DEF Types, Rows
  <1>4. server = "up"
    BY DEF Types, DownIdle
  <1>5. ~Booting'
    BY <1>2 DEF Booting
  <1>6. SeenOk'
    BY <1>2, <1>3 DEF Types, SeenOk, Idle
  <1>7. DownIdle' /\ BootOk'
    BY <1>4, <1>5 DEF DownIdle, BootOk
  <1>8. /\ row' \in Rows /\ pane' \in [Panes -> {"none", "shell", "agent"}]
        /\ server' \in {"down", "up"} /\ LaunchTyped(launch')
        /\ HaltTyped(halt') /\ PollTyped(poll') /\ DiscTyped(disc')
    BY DEF Types, PollTyped
  <1> QED BY <1>1, <1>2, <1>6, <1>7, <1>8 DEF Types, RegTyped, LaunchTyped, ResumeTyped, HaltTyped,
          PollTyped, DiscTyped, BudgetTyped

LEMMA OperatorResumesTypes ==
  ASSUME Types, OperatorResumes
  PROVE  Types'
  BY AskedTypes DEF OperatorResumes, Types

LEMMA SuperviseResumeTypes ==
  ASSUME Types, SuperviseResume
  PROVE  Types'
  <1>1. CASE AskedResume("auto")
    BY <1>1, AskedTypes DEF SuperviseResume, Types
  <1>2. CASE UNCHANGED <<resume, reg, budget>>
    <2>1. UNCHANGED <<row, pane, server, launch, halt, poll, disc, halted, resume, reg, budget>>
          /\ tick' = FALSE /\ tick
      BY <1>2 DEF SuperviseResume
    <2>2. server = "up"
      BY <2>1 DEF Types, DownIdle
    <2>3. DownIdle' /\ BootOk' /\ SeenOk'
      BY <2>1, <2>2 DEF Types, DownIdle, BootOk, SeenOk, Booting
    <2>4. tick' \in BOOLEAN /\ halted' \in BOOLEAN
      BY <2>1 DEF Types
    <2>5. /\ RegTyped(reg') /\ LaunchTyped(launch') /\ ResumeTyped(resume') /\ HaltTyped(halt')
          /\ PollTyped(poll') /\ DiscTyped(disc') /\ BudgetTyped(budget')
      BY <2>1 DEF Types
    <2>6. row' \in Rows /\ pane' \in [Panes -> {"none", "shell", "agent"}] /\ server' \in {"down", "up"}
      BY <2>1 DEF Types
    <2> QED BY <2>3, <2>4, <2>5, <2>6 DEF Types, RegTyped, LaunchTyped, ResumeTyped, HaltTyped,
            PollTyped, DiscTyped, BudgetTyped
  <1> QED BY <1>1, <1>2 DEF SuperviseResume

LEMMA PollFallbackTypes ==
  ASSUME Types, PollFallback
  PROVE  Types'
  BY AskedTypes DEF PollFallback, Types

LEMMA HaltRequestWrite ==
  ASSUME Types, NEW stop \in BOOLEAN, RequestHalt(stop)
  PROVE  /\ row' \in Rows
         /\ row'.status = row.status
         /\ row'.desired = "exited"
         /\ row'.stopping = (row.status # "exited")
         /\ row'.operator
         /\ row'.tmux = row.tmux
  <1> DEFINE a == [row EXCEPT !.desired = "exited"]
             b == [a EXCEPT !.stopping = row.status # "exited"]
             c == [b EXCEPT !.operator = TRUE]
             d == [c EXCEPT !.attempts = 0]
  <1>0. row' = d
    BY DEF RequestHalt
  <1>1. a \in Rows /\ a.status = row.status /\ a.desired = "exited" /\ a.tmux = row.tmux
    BY DEF Types, Rows, Statuses
  <1>2. b \in Rows /\ b.status = a.status /\ b.desired = a.desired /\ b.tmux = a.tmux
        /\ b.stopping = (row.status # "exited")
    <2>1. (row.status # "exited") \in BOOLEAN
      OBVIOUS
    <2> HIDE DEF a
    <2> QED BY <1>1, <2>1 DEF Rows
  <1>3. c \in Rows /\ c.status = b.status /\ c.desired = b.desired /\ c.tmux = b.tmux
        /\ c.stopping = b.stopping /\ c.operator = TRUE
    <2> HIDE DEF b
    <2> QED BY <1>2 DEF Rows
  <1>4. d \in Rows /\ d.status = c.status /\ d.desired = c.desired /\ d.tmux = c.tmux
        /\ d.stopping = c.stopping /\ d.operator = c.operator
    <2> HIDE DEF c
    <2> QED BY <1>3, Numbers DEF Rows
  <1> HIDE DEF a, b, c, d
  <1> QED BY <1>0, <1>1, <1>2, <1>3, <1>4

LEMMA RequestHaltTypes ==
  ASSUME Types, NEW stop \in BOOLEAN, RequestHalt(stop)
  PROVE  Types'
  <1>1. /\ UNCHANGED <<pane, server, reg, resume, poll, disc, tick>>
        /\ server = "up" /\ halted' = TRUE
        /\ halt' = Idle \/ halt' = [pc |-> "kill", tmux |-> row.tmux]
        /\ \/ launch' = launch
           \/ launch # Idle /\ launch' = [launch EXCEPT !.cancelled = TRUE]
        /\ budget.halts > 0 /\ budget' = [budget EXCEPT !.halts = @ - 1]
    BY DEF RequestHalt, Ticket
  <1>2. row' \in Rows
    BY HaltRequestWrite
  <1>3. LaunchTyped(launch')
    BY <1>1 DEF Types, LaunchTyped
  <1>4. HaltTyped(halt')
    BY <1>1 DEF Types, HaltTyped, Rows
  <1>5. BudgetTyped(budget')
    BY <1>1, Numbers DEF Types, BudgetTyped
  <1> QED BY <1>1, <1>2, <1>3, <1>4, <1>5 DEF Types, RegTyped, ResumeTyped, PollTyped, DiscTyped,
         DownIdle, BootOk, SeenOk, Booting

LEMMA HaltMarkWrite ==
  ASSUME Types, HaltMark
  PROVE  /\ row' \in Rows
         /\ row'.status = "exited"
         /\ row'.tmux = row.tmux
         /\ row'.desired = row.desired \/ row'.desired = "exited"
         /\ row.operator => row'.operator
         /\ row.status # "exited" \/ reg = NoEntry => row'.operator
         /\ reg' = NoEntry
  <1>1. CASE reg # NoEntry
    <2>1. MarkExited(TRUE)
      BY <1>1 DEF HaltMark
    <2> QED BY <1>1, <2>1, MarkWrite
  <1>2. CASE reg = NoEntry
    <2>1. row' = [row EXCEPT !.status = "exited", !.desired = "exited", !.stopping = FALSE,
                             !.operator = TRUE] /\ reg' = reg
      BY <1>2 DEF HaltMark
    <2> DEFINE a == [row EXCEPT !.status = "exited"]
               b == [a EXCEPT !.desired = "exited"]
               c == [b EXCEPT !.stopping = FALSE]
               d == [c EXCEPT !.operator = TRUE]
    <2>2. a \in Rows /\ a.status = "exited" /\ a.tmux = row.tmux
      BY DEF Types, Rows, Statuses
    <2>3. b \in Rows /\ b.status = a.status /\ b.tmux = a.tmux /\ b.desired = "exited"
      <3> HIDE DEF a
      <3> QED BY <2>2 DEF Rows, Statuses
    <2>4. c \in Rows /\ c.status = b.status /\ c.tmux = b.tmux /\ c.desired = b.desired
      <3> HIDE DEF b
      <3> QED BY <2>3 DEF Rows
    <2>5. d \in Rows /\ d.status = c.status /\ d.tmux = c.tmux /\ d.desired = c.desired /\ d.operator
      <3> HIDE DEF c
      <3> QED BY <2>4 DEF Rows
    <2>6. row' = d
      BY <2>1
    <2> HIDE DEF a, b, c, d
    <2> QED BY <1>2, <2>1, <2>2, <2>3, <2>4, <2>5, <2>6
  <1> QED BY <1>1, <1>2

LEMMA HaltMarkTypes ==
  ASSUME Types, HaltMark
  PROVE  Types'
  <1>1. UNCHANGED <<pane, launch, resume, poll, disc, server, tick, budget, halted>>
        /\ halt' = Idle /\ halt # Idle
    BY DEF HaltMark, rest
  <1>2. row' \in Rows /\ reg' = NoEntry
    BY HaltMarkWrite
  <1> QED BY <1>1, <1>2 DEF Types, RegTyped, LaunchTyped, ResumeTyped, HaltTyped, PollTyped,
          DiscTyped, BudgetTyped, DownIdle, BootOk, SeenOk, Booting

LEMMA AdoptWrite ==
  ASSUME Types, NEW was, NEW x \in BOOLEAN, MayAdopt(was, x), row' = Adopted(x)
  PROVE  /\ row' \in Rows
         /\ row'.status \in Live /\ row'.desired \in Live /\ ~row'.operator
         /\ row'.tmux = row.tmux /\ row.tmux = was.tmux /\ row.desired = was.desired
         /\ ~x => ~row.operator
         /\ ~row.stopping
         /\ row.desired \in Live \/ x \/ row.status \in Live
  <1>1. AdoptedStatus(x) \in Live /\ row.tmux \in Panes /\ row \in Rows
    BY DEF MayAdopt, Types, Rows
  <1>2. row' = Running(row, AdoptedStatus(x), row.tmux)
    BY DEF Adopted
  <1>3. /\ row' \in Rows /\ row'.status = AdoptedStatus(x) /\ row'.desired = AdoptedStatus(x)
        /\ ~row'.operator /\ row'.tmux = row.tmux
    BY <1>1, <1>2, RunningWrite
  <1>4. row.desired \in Live \/ x \/ row.status \in Live
    BY <1>1 DEF AdoptedStatus
  <1> QED BY <1>1, <1>3, <1>4 DEF MayAdopt

LEMMA PollAdoptWrite ==
  ASSUME Types, PollAdopt
  PROVE  /\ poll' = Idle /\ row' \in Rows /\ RegTyped(reg') /\ row'.tmux = row.tmux
         /\ \/ UNCHANGED <<row, reg>>
            \/ /\ row'.status \in Live
               /\ row.desired \in Live \/ row.status \in Live
               /\ row'.desired \in Live
               /\ reg' # NoEntry /\ reg'.tmux = row.tmux /\ ~row.operator /\ ~row'.operator
               /\ ~row.stopping /\ row.desired = poll.was.desired
  <1>1. CASE pane[poll.was.tmux] = "agent" /\ MayAdopt(poll.was, FALSE)
    <2>1. row' = Adopted(FALSE) /\ reg' = Register(row.tmux) /\ poll' = Idle
      BY <1>1 DEF PollAdopt
    <2>2. row.tmux \in Panes
      BY DEF Types, Rows
    <2> QED BY <1>1, <2>1, <2>2, AdoptWrite, RegisterTyped
  <1>2. CASE ~(pane[poll.was.tmux] = "agent" /\ MayAdopt(poll.was, FALSE))
    BY <1>2 DEF PollAdopt, Types
  <1> QED BY <1>1, <1>2

LEMMA PollAdoptTypes ==
  ASSUME Types, PollAdopt
  PROVE  Types'
  <1>1. UNCHANGED <<pane, launch, resume, halt, disc, server, tick, budget, halted>> /\ poll # Idle
    BY DEF PollAdopt, rest
  <1>2. poll' = Idle /\ row' \in Rows /\ RegTyped(reg')
    BY PollAdoptWrite
  <1>3. server = "up"
    BY <1>1 DEF Types, DownIdle
  <1> QED BY <1>1, <1>2, <1>3 DEF Types, RegTyped, LaunchTyped, ResumeTyped, HaltTyped, PollTyped,
          DiscTyped, BudgetTyped, DownIdle, BootOk, SeenOk, Booting, Idle

LEMMA PollLookTypes ==
  ASSUME Types, PollLook
  PROVE  Types'
  <1>1. UNCHANGED <<pane, launch, resume, halt, disc, server, tick, budget, halted>>
        /\ poll # Idle /\ poll.pc = "look"
    BY DEF PollLook, rest
  <1>2. /\ poll' = Idle \/ poll' = [poll EXCEPT !.pc = "classify"]
        /\ UNCHANGED <<row, reg>> \/ MarkUnexpectedExit(poll.gen)
    BY DEF PollLook
  <1>3. row' \in Rows /\ RegTyped(reg')
    BY <1>2, UnexpectedWrite DEF Types, RegTyped
  <1>4. PollTyped(poll')
    BY <1>1, <1>2 DEF Types, PollTyped
  <1>5. poll'.pc = "classify" => poll'.was = poll.was /\ poll'.gen = poll.gen
    BY <1>1, <1>2 DEF Types, PollTyped, Idle
  <1>6. poll'.pc # "look"
    BY <1>1, <1>2 DEF Types, PollTyped, Idle
  <1>7. SeenOk'
    BY <1>1, <1>5, <1>6 DEF Types, SeenOk
  <1>8. server = "up"
    BY <1>1 DEF Types, DownIdle
  <1> QED BY <1>1, <1>3, <1>4, <1>8, <1>7 DEF Types, RegTyped, LaunchTyped, ResumeTyped, HaltTyped, PollTyped,
          DiscTyped, BudgetTyped, DownIdle, BootOk, Booting

LEMMA CrashTypes ==
  ASSUME Types, NEW host \in BOOLEAN, Crash(host)
  PROVE  Types'
  <1>1. /\ server' = "down" /\ reg' = NoEntry /\ launch' = Idle /\ resume' = Idle /\ halt' = Idle
        /\ poll' = Idle /\ disc' = Idle /\ tick' = FALSE /\ row' = row /\ halted' = halted
        /\ budget.crashes > 0 /\ budget' = [budget EXCEPT !.crashes = @ - 1]
        /\ pane' = IF host THEN [p \in Panes |-> "none"] ELSE pane
    BY DEF Crash
  <1>2. BudgetTyped(budget')
    BY <1>1, Numbers DEF Types, BudgetTyped
  <1>3. pane' \in [Panes -> {"none", "shell", "agent"}]
    BY <1>1 DEF Types
  <1> QED BY <1>1, <1>2, <1>3 DEF Types, RegTyped, LaunchTyped, ResumeTyped, HaltTyped, PollTyped,
          DiscTyped, BudgetTyped, DownIdle, BootOk, SeenOk, Booting, Idle

LEMMA DiscoverLookWrite ==
  ASSUME Types, DiscoverLook
  PROVE  /\ disc' = Idle \/ disc' = [pc |-> "deferred", was |-> Nothing, attempts |-> 0]
         /\ row' \in Rows /\ RegTyped(reg') /\ row'.tmux = row.tmux
         /\ \/ UNCHANGED <<row, reg>>
            \/ /\ row'.status \in Live
               /\ row.desired \in Live \/ row.status \in Live
               /\ row'.desired \in Live
               /\ pane[row.tmux] = "agent"
               /\ reg' # NoEntry /\ reg'.tmux = row.tmux /\ ~row.operator /\ ~row'.operator
               /\ ~row.stopping /\ row.desired = disc.was.desired
            \/ /\ UNCHANGED row /\ reg' # NoEntry /\ reg'.tmux = disc.was.tmux
               /\ disc.was.status # "exited" /\ pane[disc.was.tmux] = "shell"
  <1> row \in Rows
    BY DEF Types
  <1> DEFINE p == pane[disc.was.tmux]
  <1>0. disc' = Idle \/ disc' = [pc |-> "deferred", was |-> Nothing, attempts |-> 0]
    BY DEF DiscoverLook
  <1>1. CASE p = "agent" /\ MayAdopt(disc.was, FALSE)
    <2>1. row' = Adopted(FALSE) /\ reg' = Register(row.tmux)
      BY <1>1 DEF DiscoverLook
    <2>2. row.tmux \in Panes
      BY DEF Types, Rows
    <2>3. row.tmux = disc.was.tmux
      BY <1>1 DEF MayAdopt
    <2> QED BY <1>0, <1>1, <2>1, <2>2, <2>3, AdoptWrite, RegisterTyped
  <1>2. CASE ~(p = "agent" /\ MayAdopt(disc.was, FALSE))
    <2>1. UNCHANGED row
      BY <1>2 DEF DiscoverLook
    <2>2. CASE p = "shell" /\ disc.was.status # "exited"
      <3>1. reg' = Register(disc.was.tmux)
        BY <1>2, <2>2 DEF DiscoverLook
      <3>2. disc.was.tmux \in Panes
        BY DEF Types, SeenOk, DiscoverLook
      <3> QED BY <1>0, <2>1, <2>2, <3>1, <3>2, RegisterTyped
    <2>3. CASE ~(p = "shell" /\ disc.was.status # "exited")
      <3>1. reg' = reg
        BY <1>2, <2>3 DEF DiscoverLook
      <3> QED BY <1>0, <2>1, <3>1 DEF Types
    <2> QED BY <2>2, <2>3
  <1> QED BY <1>1, <1>2

LEMMA DiscoverLookTypes ==
  ASSUME Types, DiscoverLook
  PROVE  Types'
  <1>1. UNCHANGED <<pane, launch, resume, halt, poll, server, tick, budget, halted>>
        /\ disc # Idle /\ disc.pc = "look"
    BY DEF DiscoverLook, rest
  <1>2. /\ disc' = Idle \/ disc' = [pc |-> "deferred", was |-> Nothing, attempts |-> 0]
        /\ row' \in Rows /\ RegTyped(reg')
    BY DiscoverLookWrite
  <1>3. DiscTyped(disc') /\ disc'.pc # "look"
    BY <1>2, Numbers DEF DiscTyped, Nothing, Seen, Statuses, Idle
  <1>4. server = "up" /\ ~Booting
    BY <1>1 DEF Types, DownIdle, BootOk
  <1> QED BY <1>1, <1>2, <1>3, <1>4 DEF Types, RegTyped, LaunchTyped, ResumeTyped, HaltTyped, PollTyped,
          DiscTyped, BudgetTyped, DownIdle, BootOk, SeenOk, Booting

LEMMA RejectTypes ==
  ASSUME Types, resume # Idle, NEW code, RejectResume(code), BudgetTyped(budget'),
         pane' \in [Panes -> {"none", "shell", "agent"}],
         UNCHANGED <<server, launch, halt, poll, tick, halted>>
  PROVE  Types'
  <1>1. /\ resume' = Idle /\ row' \in Rows /\ RegTyped(reg') /\ DiscTyped(disc')
        /\ disc' = disc \/ disc' = Idle \/ disc'.pc = "deferred"
    BY RejectWrite
  <1>2. server = "up"
    BY DEF Types, DownIdle
  <1>3. DownIdle' /\ BootOk'
    BY <1>1, <1>2 DEF DownIdle, BootOk, Booting
  <1>4. SeenOk'
    BY <1>1 DEF Types, SeenOk, Idle
  <1>5. ResumeTyped(resume')
    BY <1>1 DEF ResumeTyped
  <1> QED BY <1>1, <1>3, <1>4, <1>5 DEF Types, RegTyped, LaunchTyped, ResumeTyped, HaltTyped,
          PollTyped, DiscTyped, BudgetTyped

\* A step of a resume that stays in flight, keeping what it was asked for.
LEMMA ResumeGoesOn ==
  ASSUME Types, resume # Idle, ResumeTyped(resume'), resume' # Idle, resume'.kind = resume.kind,
         resume'.was.tmux \in Panes, resume'.pc = "publish" => resume'.pane \in Panes,
         row' \in Rows, pane' \in [Panes -> {"none", "shell", "agent"}],
         UNCHANGED <<server, reg, launch, halt, poll, disc, tick, budget, halted>>
  PROVE  Types'
  <1>1. server = "up"
    BY DEF Types, DownIdle
  <1>2. DownIdle' /\ BootOk' /\ SeenOk'
    BY <1>1 DEF Types, DownIdle, BootOk, SeenOk, Booting
  <1> QED BY <1>2 DEF Types, RegTyped, LaunchTyped, ResumeTyped, HaltTyped, PollTyped, DiscTyped,
          BudgetTyped

LEMMA ResumeInFlight ==
  ASSUME Types, resume # Idle
  PROVE  /\ resume \in [pc : {"probe", "look", "clear", "prepare", "publish"},
                        kind : {"operator", "settings", "auto", "boot"},
                        entry : Generations \cup {0}, was : Seen, alive : BOOLEAN,
                        pane : Panes \cup {0}]
         /\ resume.was.tmux \in Panes
  BY DEF Types, ResumeTyped, SeenOk

\* What the probe of a resume leaves.
LEMMA ProbeWrite ==
  ASSUME Types, ResumeProbe
  PROVE  /\ resume # Idle /\ resume.pc = "probe"
         /\ UNCHANGED <<pane, server, launch, halt, poll, tick, halted>>
         /\ BudgetTyped(budget')
         /\ \/ \E code \in {"cancelled", "unknown"} : RejectResume(code)
            \/ /\ ~RecoveryCancelled
               /\ UNCHANGED <<row, reg, disc, budget>>
               /\ ResumeTyped(resume') /\ resume' # Idle /\ resume'.kind = resume.kind
               /\ resume'.was = Look(row)
               /\ resume'.alive = Held(row.tmux)
               /\ resume'.pc = IF Held(row.tmux) /\ ~Forced THEN "look" ELSE "clear"
  <1>1. /\ resume # Idle /\ resume.pc = "probe"
        /\ UNCHANGED <<pane, server, launch, halt, poll, tick, halted>>
    BY DEF ResumeProbe
  <1>2. CASE RecoveryCancelled
    BY <1>1, <1>2 DEF ResumeProbe, Types
  <1>3. CASE ~RecoveryCancelled /\ /\ budget.unknown > 0
               /\ budget' = [budget EXCEPT !.unknown = @ - 1]
               /\ RejectResume("unknown")
    <2>1. BudgetTyped(budget')
      BY <1>3, Numbers DEF Types, BudgetTyped
    <2> QED BY <1>1, <1>3, <2>1
  <1>4. CASE ~RecoveryCancelled
             /\ resume' = [resume EXCEPT !.was = Look(row), !.alive = Held(row.tmux),
                                         !.pc = IF Held(row.tmux) /\ ~Forced THEN "look" ELSE "clear"]
             /\ UNCHANGED <<row, reg, disc, budget>>
    <2>1. Look(row) \in Seen /\ Held(row.tmux) \in BOOLEAN
      BY LookTyped DEF Types, Held
    <2> DEFINE pc == IF Held(row.tmux) /\ ~Forced THEN "look" ELSE "clear"
               a == [resume EXCEPT !.was = Look(row)]
               b == [a EXCEPT !.alive = Held(row.tmux)]
               c == [b EXCEPT !.pc = pc]
               S == [pc : {"probe", "look", "clear", "prepare", "publish"},
                     kind : {"operator", "settings", "auto", "boot"},
                     entry : Generations \cup {0}, was : Seen, alive : BOOLEAN,
                     pane : Panes \cup {0}]
    <2>2. a \in S /\ a.kind = resume.kind /\ a.was = Look(row)
      BY <1>1, <2>1, ResumeInFlight
    <2>3. b \in S /\ b.kind = a.kind /\ b.was = a.was /\ b.alive = Held(row.tmux)
      <3> HIDE DEF a
      <3> QED BY <2>1, <2>2
    <2>4. pc \in {"look", "clear"}
      OBVIOUS
    <2>5. c \in S /\ c.kind = b.kind /\ c.was = b.was /\ c.alive = b.alive /\ c.pc = pc
      <3> HIDE DEF b, pc
      <3> QED BY <2>3, <2>4
    <2>6. resume' = c
      BY <1>4
    <2>7. resume' # Idle /\ ResumeTyped(resume')
      <3> HIDE DEF c, pc
      <3> QED BY <2>4, <2>5, <2>6 DEF Idle, ResumeTyped
    <2>8. BudgetTyped(budget')
      BY <1>4 DEF Types
    <2> HIDE DEF a, b, c, S
    <2> QED BY <1>1, <1>4, <2>2, <2>3, <2>5, <2>6, <2>7, <2>8
  <1> QED BY <1>2, <1>3, <1>4 DEF ResumeProbe

LEMMA ResumeProbeTypes ==
  ASSUME Types, ResumeProbe
  PROVE  Types'
  <1>1. CASE \E code \in {"cancelled", "unknown"} : RejectResume(code)
    <2>1. PICK code \in {"cancelled", "unknown"} : RejectResume(code)
      BY <1>1
    <2>2. pane' \in [Panes -> {"none", "shell", "agent"}]
      BY ProbeWrite DEF Types
    <2> QED BY <2>1, <2>2, ProbeWrite, RejectTypes
  <1>2. CASE ~ \E code \in {"cancelled", "unknown"} : RejectResume(code)
    <2>1. /\ resume # Idle /\ UNCHANGED <<pane, server, launch, halt, poll, tick, halted>>
          /\ UNCHANGED <<row, reg, disc, budget>>
          /\ ResumeTyped(resume') /\ resume' # Idle /\ resume'.kind = resume.kind
          /\ resume'.was = Look(row) /\ resume'.pc # "publish"
      BY <1>2, ProbeWrite
    <2>2. resume'.was.tmux \in Panes /\ row' \in Rows
      BY <2>1, LookTyped DEF Types, Rows
    <2>3. pane' \in [Panes -> {"none", "shell", "agent"}]
      BY <2>1 DEF Types
    <2> QED BY <2>1, <2>2, <2>3, ResumeGoesOn
  <1> QED BY <1>1, <1>2

\* What the look at the old pane leaves.
LEMMA ResumeLookWrite ==
  ASSUME Types, ResumeLook
  PROVE  /\ resume # Idle /\ resume.pc = "look"
         /\ UNCHANGED <<pane, launch, halt, poll, rest>>
         /\ \/ /\ resume' = Idle
               /\ row' \in Rows /\ row'.status \in Live /\ row'.desired \in Live /\ ~row'.operator
               /\ row'.tmux = row.tmux
               /\ pane[row.tmux] = "agent"
               /\ RegTyped(reg') /\ reg' # NoEntry /\ reg'.tmux = row.tmux
               /\ IF resume.kind = "boot"
                  THEN /\ disc' = Idle /\ ~row.operator
                       /\ row.desired \in Live \/ row.status \in Live
                       /\ row.desired = resume.was.desired
                  ELSE disc' = disc
            \/ /\ pane[resume.was.tmux] = "shell"
               /\ resume' = [resume EXCEPT !.pc = "clear"]
               /\ UNCHANGED <<row, reg, disc>>
            \/ RejectResume("unknown")
  <1>1. /\ resume # Idle /\ resume.pc = "look"
        /\ UNCHANGED <<pane, launch, halt, poll, rest>>
    BY DEF ResumeLook
  <1> DEFINE p == pane[resume.was.tmux]
             x == resume.kind # "boot"
             adopt == p = "agent" /\ MayAdopt(resume.was, x)
  <1>2. CASE adopt
    <2>1. /\ row' = Adopted(x)
          /\ reg' = [Register(row.tmux) EXCEPT !.relaunching = FALSE]
          /\ resume' = Idle
          /\ disc' = IF resume.kind = "boot" THEN Idle ELSE disc
      BY <1>2 DEF ResumeLook
    <2>2. x \in BOOLEAN /\ MayAdopt(resume.was, x) /\ row.tmux = resume.was.tmux
      BY <1>2 DEF MayAdopt
    <2>3. /\ row' \in Rows
          /\ row'.status \in Live /\ row'.desired \in Live /\ ~row'.operator
          /\ row'.tmux = row.tmux /\ row.desired = resume.was.desired
          /\ ~x => ~row.operator
          /\ row.desired \in Live \/ x \/ row.status \in Live
      <3> HIDE DEF x
      <3> QED BY <2>1, <2>2, AdoptWrite
    <2>4. row.tmux \in Panes
      BY DEF Types, Rows
    <2>5. RegTyped(reg') /\ reg' # NoEntry /\ reg'.tmux = row.tmux
      <3>1. /\ RegTyped(Register(row.tmux)) /\ Register(row.tmux) # NoEntry
            /\ Register(row.tmux).tmux = row.tmux
        BY <2>4, RegisterTyped
      <3> DEFINE e == Register(row.tmux)
      <3>2. reg' = [e EXCEPT !.relaunching = FALSE]
        BY <2>1
      <3> HIDE DEF e
      <3>3. e \in [gen : Generations, tmux : Panes, relaunching : BOOLEAN, missed : 0..1]
            /\ e.tmux = row.tmux
        BY <3>1 DEF RegTyped, e
      <3>4. reg' \in [gen : Generations, tmux : Panes, relaunching : BOOLEAN, missed : 0..1]
            /\ reg'.tmux = row.tmux
        BY <3>2, <3>3
      <3>5. reg'.gen \in Generations /\ NoEntry.gen \notin Generations
        BY <3>4 DEF NoEntry, Generations
      <3> QED BY <3>4, <3>5 DEF RegTyped
    <2> QED BY <1>1, <1>2, <2>1, <2>2, <2>3, <2>5
  <1>3. CASE ~adopt
    <2>1. \/ p = "shell" /\ resume' = [resume EXCEPT !.pc = "clear"] /\ UNCHANGED <<row, reg, disc>>
          \/ RejectResume("unknown")
      BY <1>3 DEF ResumeLook
    <2> QED BY <1>1, <2>1
  <1> QED BY <1>2, <1>3

LEMMA ResumeLookTypes ==
  ASSUME Types, ResumeLook
  PROVE  Types'
  <1>1. /\ resume # Idle /\ resume.pc = "look"
        /\ UNCHANGED <<pane, launch, halt, poll, server, tick, budget, halted>>
        /\ pane' \in [Panes -> {"none", "shell", "agent"}] /\ BudgetTyped(budget')
    BY ResumeLookWrite DEF rest, Types
  <1>2. CASE RejectResume("unknown")
    BY <1>1, <1>2, RejectTypes
  <1>3. CASE resume' = [resume EXCEPT !.pc = "clear"] /\ UNCHANGED <<row, reg, disc>>
    <2>1. /\ ResumeTyped(resume') /\ resume' # Idle /\ resume'.kind = resume.kind
          /\ resume'.was.tmux \in Panes /\ resume'.pc # "publish"
      BY <1>1, <1>3, ResumeInFlight DEF ResumeTyped, Idle
    <2>2. row' \in Rows
      BY <1>3 DEF Types
    <2> QED BY <1>1, <1>3, <2>1, <2>2, ResumeGoesOn
  <1>4. CASE resume' = Idle /\ row' \in Rows /\ RegTyped(reg') /\ (disc' = Idle \/ disc' = disc)
    <2>1. server = "up"
      BY <1>1 DEF Types, DownIdle
    <2>2. DownIdle' /\ BootOk'
      BY <1>1, <1>4, <2>1 DEF DownIdle, BootOk, Booting
    <2>3. SeenOk'
      BY <1>1, <1>4 DEF Types, SeenOk, Idle
    <2>4. ResumeTyped(resume') /\ DiscTyped(disc')
      BY <1>4 DEF ResumeTyped, DiscTyped, Types
    <2> QED BY <1>1, <1>4, <2>2, <2>3, <2>4 DEF Types, RegTyped, LaunchTyped, ResumeTyped, HaltTyped,
            PollTyped, DiscTyped, BudgetTyped
  <1> QED BY <1>2, <1>3, <1>4, ResumeLookWrite

LEMMA DurableLive ==
  ASSUME Types, resume # Idle
  PROVE  Durable \in Live
  BY DEF Types, BootOk, Booting, Durable, Live

\* What clearing the way for a relaunch leaves.
LEMMA ClearWrite ==
  ASSUME Types, ResumeClear
  PROVE  /\ resume # Idle /\ resume.pc = "clear"
         /\ UNCHANGED <<launch, halt, poll, rest>>
         /\ \/ /\ ~RecoveryCancelled
               /\ pane' = IF resume.alive THEN KillPane(resume.was.tmux) ELSE pane
               /\ row' \in Rows /\ row'.status = row.status /\ row'.tmux = row.tmux
               /\ row'.desired \in Live
               /\ resume' = [resume EXCEPT !.pc = "prepare"]
               /\ UNCHANGED <<reg, disc>>
            \/ \E code \in {"cancelled", "refused"} : RejectResume(code) /\ UNCHANGED pane
  <1>1. resume # Idle /\ resume.pc = "clear" /\ UNCHANGED <<launch, halt, poll, rest>>
    BY DEF ResumeClear
  <1>2. CASE RejectResume(IF RecoveryCancelled THEN "cancelled" ELSE "refused") /\ UNCHANGED pane
    BY <1>1, <1>2
  <1>3. CASE /\ ~RecoveryCancelled
             /\ pane' = IF resume.alive THEN KillPane(resume.was.tmux) ELSE pane
             /\ row' = [row EXCEPT !.desired = Durable, !.stopping = FALSE, !.operator = FALSE]
             /\ resume' = [resume EXCEPT !.pc = "prepare"]
             /\ UNCHANGED <<reg, disc>>
    <2> DEFINE a == [row EXCEPT !.desired = Durable]
               b == [a EXCEPT !.stopping = FALSE]
               c == [b EXCEPT !.operator = FALSE]
    <2>1. Durable \in Live /\ Durable \in Statuses
      BY <1>1, DurableLive DEF Statuses, Active
    <2>2. a \in Rows /\ a.status = row.status /\ a.tmux = row.tmux /\ a.desired = Durable
      BY <2>1 DEF Types, Rows
    <2>3. b \in Rows /\ b.status = a.status /\ b.tmux = a.tmux /\ b.desired = a.desired
      <3> HIDE DEF a
      <3> QED BY <2>2 DEF Rows
    <2>4. c \in Rows /\ c.status = b.status /\ c.tmux = b.tmux /\ c.desired = b.desired
      <3> HIDE DEF b
      <3> QED BY <2>3 DEF Rows
    <2>5. row' = c
      BY <1>3
    <2> HIDE DEF a, b, c
    <2> QED BY <1>1, <1>3, <2>1, <2>2, <2>3, <2>4, <2>5
  <1> QED BY <1>2, <1>3 DEF ResumeClear

LEMMA RejectsTypes ==
  ASSUME Types, resume # Idle,
         \E code \in {"cancelled", "refused"} : RejectResume(code) /\ UNCHANGED pane,
         UNCHANGED <<launch, halt, poll, rest>>
  PROVE  Types'
  <1>1. PICK code \in {"cancelled", "refused"} : RejectResume(code) /\ UNCHANGED pane
    OBVIOUS
  <1>2. pane' \in [Panes -> {"none", "shell", "agent"}] /\ BudgetTyped(budget')
    BY <1>1 DEF Types, rest
  <1>3. UNCHANGED <<server, launch, halt, poll, tick, halted>>
    BY DEF rest
  <1> QED BY <1>1, <1>2, <1>3, RejectTypes

LEMMA ResumeClearTypes ==
  ASSUME Types, ResumeClear
  PROVE  Types'
  <1>1. resume # Idle /\ resume.pc = "clear" /\ UNCHANGED <<launch, halt, poll, rest>>
    BY ClearWrite
  <1>2. CASE \E code \in {"cancelled", "refused"} : RejectResume(code) /\ UNCHANGED pane
    BY <1>1, <1>2, RejectsTypes
  <1>3. CASE /\ pane' = IF resume.alive THEN KillPane(resume.was.tmux) ELSE pane
             /\ row' \in Rows
             /\ resume' = [resume EXCEPT !.pc = "prepare"]
             /\ UNCHANGED <<reg, disc>>
    <2>1. /\ ResumeTyped(resume') /\ resume' # Idle /\ resume'.kind = resume.kind
          /\ resume'.was.tmux \in Panes /\ resume'.pc # "publish"
      BY <1>1, <1>3, ResumeInFlight DEF ResumeTyped, Idle
    <2>2. pane' \in [Panes -> {"none", "shell", "agent"}]
      BY <1>3 DEF Types, KillPane
    <2>3. UNCHANGED <<server, tick, budget, halted>>
      BY <1>1 DEF rest
    <2> QED BY <1>1, <1>3, <2>1, <2>2, <2>3, ResumeGoesOn
  <1> QED BY <1>2, <1>3, ClearWrite

\* What opening the new pane leaves.
LEMMA SpawnWrite ==
  ASSUME Types, ResumeSpawn
  PROVE  /\ resume # Idle /\ resume.pc = "prepare"
         /\ UNCHANGED <<launch, halt, poll, rest>>
         /\ \/ /\ ~RecoveryCancelled
               /\ \E p \in Panes : /\ p \notin InUse
                                   /\ pane' = [pane EXCEPT ![p] = "agent"]
                                   /\ resume' = [resume EXCEPT !.pc = "publish", !.pane = p]
               /\ UNCHANGED <<row, reg, disc>>
            \/ \E code \in {"cancelled", "refused"} : RejectResume(code) /\ UNCHANGED pane
  <1>1. resume # Idle /\ resume.pc = "prepare" /\ UNCHANGED <<launch, halt, poll, rest>>
    BY DEF ResumeSpawn
  <1>2. CASE RejectResume(IF RecoveryCancelled THEN "cancelled" ELSE "refused") /\ UNCHANGED pane
    BY <1>1, <1>2
  <1>3. CASE /\ ~RecoveryCancelled
             /\ Panes \ InUse # {}
             /\ pane' = [pane EXCEPT ![FreshPane] = "agent"]
             /\ resume' = [resume EXCEPT !.pc = "publish", !.pane = FreshPane]
             /\ UNCHANGED <<row, reg, disc>>
    BY <1>1, <1>3, FreshPaneTyped
  <1> QED BY <1>2, <1>3 DEF ResumeSpawn

LEMMA ResumeSpawnTypes ==
  ASSUME Types, ResumeSpawn
  PROVE  Types'
  <1>1. resume # Idle /\ resume.pc = "prepare" /\ UNCHANGED <<launch, halt, poll, rest>>
    BY SpawnWrite
  <1>2. CASE \E code \in {"cancelled", "refused"} : RejectResume(code) /\ UNCHANGED pane
    BY <1>1, <1>2, RejectsTypes
  <1>3. CASE /\ \E p \in Panes : /\ p \notin InUse
                                 /\ pane' = [pane EXCEPT ![p] = "agent"]
                                 /\ resume' = [resume EXCEPT !.pc = "publish", !.pane = p]
             /\ UNCHANGED <<row, reg, disc>>
    <2>1. PICK p \in Panes : /\ pane' = [pane EXCEPT ![p] = "agent"]
                             /\ resume' = [resume EXCEPT !.pc = "publish", !.pane = p]
      BY <1>3
    <2> DEFINE a == [resume EXCEPT !.pc = "publish"]
               S == [pc : {"probe", "look", "clear", "prepare", "publish"},
                     kind : {"operator", "settings", "auto", "boot"},
                     entry : Generations \cup {0}, was : Seen, alive : BOOLEAN,
                     pane : Panes \cup {0}]
    <2>2. a \in S /\ a.kind = resume.kind /\ a.was = resume.was /\ a.pc = "publish"
      BY <1>1, ResumeInFlight
    <2>3. resume' \in S /\ resume'.kind = resume.kind /\ resume'.was = resume.was
          /\ resume'.pc = "publish" /\ resume'.pane = p
      <3>1. resume' = [a EXCEPT !.pane = p]
        BY <2>1
      <3> HIDE DEF a
      <3> QED BY <2>2, <3>1
    <2>4. /\ ResumeTyped(resume') /\ resume' # Idle /\ resume'.kind = resume.kind
          /\ resume'.was.tmux \in Panes /\ resume'.pane \in Panes
      BY <1>1, <2>3, ResumeInFlight DEF ResumeTyped, Idle
    <2>5. pane' \in [Panes -> {"none", "shell", "agent"}]
      BY <2>1 DEF Types
    <2>6. UNCHANGED <<server, tick, budget, halted>> /\ row' \in Rows
      BY <1>1, <1>3 DEF rest, Types
    <2> QED BY <1>1, <1>3, <2>4, <2>5, <2>6, ResumeGoesOn
  <1> QED BY <1>2, <1>3, SpawnWrite

\* What the publication of the new pane leaves.
LEMMA PublishWrite ==
  ASSUME Types, ResumePublish
  PROVE  /\ resume # Idle /\ resume.pc = "publish" /\ resume.pane \in Panes
         /\ UNCHANGED <<launch, halt, poll, rest>>
         /\ \/ RecoveryCancelled /\ pane' = KillPane(resume.pane) /\ RejectResume("cancelled")
            \/ /\ ~RecoveryCancelled
               /\ row' \in Rows /\ row'.status \in Live /\ row'.desired \in Live /\ ~row'.operator
               /\ row'.tmux = resume.pane
               /\ RegTyped(reg') /\ reg' # NoEntry /\ reg'.tmux = resume.pane
               /\ resume' = Idle
               /\ disc' = IF resume.kind = "boot" THEN Idle ELSE disc
               /\ UNCHANGED pane
  <1>1. /\ resume # Idle /\ resume.pc = "publish" /\ UNCHANGED <<launch, halt, poll, rest>>
    BY DEF ResumePublish
  <1>2. resume.pane \in Panes
    BY <1>1 DEF Types, SeenOk
  <1>3. CASE RecoveryCancelled
    BY <1>1, <1>2, <1>3 DEF ResumePublish
  <1>4. CASE ~RecoveryCancelled
    <2>1. /\ \E st \in {Durable, "working"} : row' = Running(row, st, resume.pane)
          /\ reg' = [gen |-> FreshGen, tmux |-> resume.pane, relaunching |-> FALSE, missed |-> 0]
          /\ resume' = Idle
          /\ disc' = IF resume.kind = "boot" THEN Idle ELSE disc
          /\ UNCHANGED pane
      BY <1>4 DEF ResumePublish
    <2>2. PICK st \in {Durable, "working"} : row' = Running(row, st, resume.pane)
      BY <2>1
    <2>3. st \in Live
      BY <1>1, DurableLive DEF Live
    <2>4. /\ row' \in Rows /\ row'.status = st /\ row'.desired = st /\ ~row'.operator
          /\ row'.tmux = resume.pane
      BY <1>2, <2>2, <2>3, RunningWrite DEF Types
    <2>5. FreshGen \in Generations
      BY FreshGenTyped
    <2>6. reg' \in [gen : Generations, tmux : Panes, relaunching : BOOLEAN, missed : 0..1]
          /\ reg'.tmux = resume.pane /\ reg'.gen \in Generations
      BY <1>2, <2>1, <2>5
    <2>7. reg' # NoEntry
      BY <2>6 DEF NoEntry, Generations
    <2> QED BY <1>1, <1>2, <1>4, <2>1, <2>3, <2>4, <2>6, <2>7 DEF RegTyped
  <1> QED BY <1>3, <1>4

LEMMA ResumePublishTypes ==
  ASSUME Types, ResumePublish
  PROVE  Types'
  <1>1. /\ resume # Idle /\ resume.pc = "publish" /\ resume.pane \in Panes
        /\ UNCHANGED <<launch, halt, poll, server, tick, budget, halted>>
    BY PublishWrite DEF rest
  <1>2. CASE pane' = KillPane(resume.pane) /\ RejectResume("cancelled")
    <2>1. pane' \in [Panes -> {"none", "shell", "agent"}] /\ BudgetTyped(budget')
      BY <1>1, <1>2 DEF Types, KillPane
    <2> QED BY <1>1, <1>2, <2>1, RejectTypes
  <1>3. CASE resume' = Idle /\ row' \in Rows /\ RegTyped(reg') /\ pane' = pane
             /\ (disc' = Idle \/ disc' = disc)
    <2>1. server = "up"
      BY <1>1 DEF Types, DownIdle
    <2>2. DownIdle' /\ BootOk'
      BY <1>1, <1>3, <2>1 DEF DownIdle, BootOk, Booting
    <2>3. SeenOk'
      BY <1>1, <1>3 DEF Types, SeenOk, Idle
    <2>4. ResumeTyped(resume') /\ DiscTyped(disc')
      BY <1>3 DEF ResumeTyped, DiscTyped, Types
    <2> QED BY <1>1, <1>3, <2>2, <2>3, <2>4 DEF Types, RegTyped, LaunchTyped, ResumeTyped, HaltTyped,
            PollTyped, DiscTyped, BudgetTyped
  <1> QED BY <1>2, <1>3, PublishWrite

\* What one entry of an inventory comes to.
LEMMA EntryWrite ==
  ASSUME Types, poll # Idle, NEW present \in BOOLEAN, PollEntry(present)
  PROVE  /\ PollTyped(poll')
         /\ \/ poll' = Idle
            \/ /\ poll' # Idle /\ poll'.pc = "look" /\ UNCHANGED row
               /\ poll'.was.tmux \in Panes /\ poll'.gen # 0
               /\ reg # NoEntry /\ row.status # "exited"
         /\ row' \in Rows /\ RegTyped(reg') /\ row'.tmux = row.tmux
         /\ \/ UNCHANGED <<row, reg>>
            \/ UNCHANGED row /\ reg' = NoEntry /\ row.status = "exited"
            \/ UNCHANGED row /\ reg # NoEntry /\ reg' # NoEntry /\ reg'.tmux = reg.tmux
            \/ /\ ~present /\ reg # NoEntry /\ reg.missed = 1 /\ row.status # "exited" /\ resume = Idle
               /\ row'.status = "exited" /\ row'.desired = row.desired /\ ~row'.operator
               /\ reg' = NoEntry
  <1> DEFINE skip == reg = NoEntry \/ reg.gen # poll.gen
             exited == ~skip /\ row.status = "exited"
             busy == ~skip /\ ~exited /\ reg.relaunching
             absent == ~skip /\ ~exited /\ ~busy /\ ~present
  <1> row \in Rows /\ RegTyped(reg) /\ RegTyped(NoEntry)
    BY DEF Types, RegTyped
  <1>1. poll' = IF skip \/ exited \/ busy \/ absent THEN Idle
                ELSE [poll EXCEPT !.pc = "look", !.was = Look(row)]
    BY DEF PollEntry
  <1>2. CASE skip \/ busy
    <2>1. UNCHANGED <<row, reg>> /\ poll' = Idle
      BY <1>2, <1>1 DEF PollEntry
    <2> QED BY <2>1 DEF PollTyped
  <1>3. CASE exited
    <2>1. UNCHANGED row /\ reg' = NoEntry /\ poll' = Idle
      BY <1>3, <1>1 DEF PollEntry
    <2> QED BY <1>3, <2>1 DEF PollTyped
  <1>4. CASE absent
    <2>1. poll' = Idle /\ PollTyped(poll')
      BY <1>4, <1>1 DEF PollTyped
    <2>2. CASE reg.missed = 1
      <3>1. MarkUnexpectedExit(poll.gen)
        BY <1>4, <2>2 DEF PollEntry
      <3>2. row.status # "exited" /\ ~present /\ reg # NoEntry
        BY <1>4
      <3> QED BY <2>1, <2>2, <3>1, <3>2, UnexpectedWrite
    <2>3. CASE reg.missed # 1
      <3>1. reg # NoEntry /\ reg.missed = 0
        BY <1>4, <2>3, GenTyped
      <3>2. reg' = [reg EXCEPT !.missed = 1] /\ UNCHANGED row
        BY <1>4, <3>1 DEF PollEntry
      <3>3. RegTyped(reg') /\ reg' # NoEntry /\ reg'.tmux = reg.tmux
        BY <3>1, <3>2, MissWrite
      <3> QED BY <2>1, <3>1, <3>2, <3>3
    <2> QED BY <2>2, <2>3
  <1>5. CASE ~skip /\ ~exited /\ ~busy /\ ~absent
    <2>1. poll' = [poll EXCEPT !.pc = "look", !.was = Look(row)]
      BY <1>1, <1>5
    <2>2. reg' = [reg EXCEPT !.missed = 0] /\ UNCHANGED row
      BY <1>5 DEF PollEntry
    <2>3. RegTyped(reg') /\ reg' # NoEntry /\ reg'.tmux = reg.tmux
      BY <1>5, <2>2, MissWrite
    <2> DEFINE S == [pc : {"asked", "adopt", "look", "classify"},
                     gen : Generations \cup {0}, was : Seen]
               a == [poll EXCEPT !.pc = "look"]
    <2>4. poll \in S
      BY DEF Types, PollTyped
    <2>5. a \in S /\ a.pc = "look" /\ a.gen = poll.gen
      BY <2>4
    <2>6. Look(row) \in Seen /\ Look(row).tmux \in Panes
      BY LookTyped DEF Rows
    <2>7. poll' \in S /\ poll'.pc = "look" /\ poll'.was = Look(row) /\ poll'.gen = poll.gen
      <3>1. poll' = [a EXCEPT !.was = Look(row)]
        BY <2>1
      <3> HIDE DEF a
      <3> QED BY <2>5, <2>6, <3>1
    <2>8. PollTyped(poll') /\ poll' # Idle /\ poll'.pc = "look"
      BY <2>7 DEF PollTyped, Idle
    <2>9. reg # NoEntry /\ row.status # "exited" /\ reg.gen = poll.gen
      BY <1>5
    <2>10. poll'.was.tmux \in Panes /\ poll'.gen # 0
      BY <2>6, <2>7, <2>9, GenTyped
    <2> QED BY <2>2, <2>3, <2>8, <2>9, <2>10
  <1> QED BY <1>2, <1>3, <1>4, <1>5

\* What the inventory comes to.
LEMMA AnswerWrite ==
  ASSUME Types, PollAnswer
  PROVE  /\ poll # Idle /\ poll.pc = "asked"
         /\ UNCHANGED <<pane, server, launch, resume, halt, disc, tick, halted>>
         /\ BudgetTyped(budget')
         /\ \/ Adoptable /\ UNCHANGED <<row, reg>>
               /\ PollTyped(poll') /\ poll' # Idle /\ poll'.pc = "adopt" /\ poll'.was = Look(row)
            \/ \E present \in BOOLEAN :
                  /\ PollEntry(present)
                  /\ \/ present = (reg.tmux # 0 /\ Held(reg.tmux))
                     \/ Crossings \/ reg.missed = 0
  <1>1. /\ poll # Idle /\ poll.pc = "asked"
        /\ UNCHANGED <<pane, server, launch, resume, halt, disc, tick, halted>>
    BY DEF PollAnswer
  <1>2. CASE UNCHANGED budget /\ Adoptable /\ UNCHANGED <<row, reg>>
             /\ poll' = [poll EXCEPT !.pc = "adopt", !.was = Look(row)]
    <2> DEFINE S == [pc : {"asked", "adopt", "look", "classify"},
                     gen : Generations \cup {0}, was : Seen]
               a == [poll EXCEPT !.pc = "adopt"]
    <2>1. poll \in S
      BY <1>1 DEF Types, PollTyped
    <2>2. a \in S /\ a.pc = "adopt"
      BY <2>1
    <2>3. Look(row) \in Seen
      BY LookTyped DEF Types
    <2>4. poll' \in S /\ poll'.pc = "adopt" /\ poll'.was = Look(row)
      <3>1. poll' = [a EXCEPT !.was = Look(row)]
        BY <1>2
      <3> HIDE DEF a
      <3> QED BY <2>2, <2>3, <3>1
    <2>5. PollTyped(poll') /\ poll' # Idle /\ poll'.pc = "adopt" /\ poll'.was = Look(row)
      BY <2>4 DEF PollTyped, Idle
    <2>6. BudgetTyped(budget')
      BY <1>2 DEF Types
    <2> QED BY <1>1, <1>2, <2>5, <2>6
  <1>3. CASE UNCHANGED budget /\ PollEntry(reg.tmux # 0 /\ Held(reg.tmux))
    <2>1. BudgetTyped(budget')
      BY <1>3 DEF Types
    <2>2. (reg.tmux # 0 /\ Held(reg.tmux)) \in BOOLEAN
      OBVIOUS
    <2> QED BY <1>1, <1>3, <2>1, <2>2
  <1>4. CASE /\ budget.unknown > 0
             /\ Crossings \/ reg.missed = 0
             /\ budget' = [budget EXCEPT !.unknown = @ - 1]
             /\ PollEntry(FALSE)
    <2>1. BudgetTyped(budget')
      BY <1>4, Numbers DEF Types, BudgetTyped
    <2> QED BY <1>1, <1>4, <2>1
  <1> QED BY <1>2, <1>3, <1>4 DEF PollAnswer

LEMMA PollAnswerTypes ==
  ASSUME Types, PollAnswer
  PROVE  Types'
  <1>1. /\ poll # Idle /\ poll.pc = "asked"
        /\ UNCHANGED <<pane, server, launch, resume, halt, disc, tick, halted>>
        /\ BudgetTyped(budget')
    BY AnswerWrite
  <1>2. /\ PollTyped(poll') /\ row' \in Rows /\ RegTyped(reg')
        /\ poll'.pc \in {"look", "classify"} => poll'.was.tmux \in Panes /\ poll'.gen # 0
    <2>1. CASE Adoptable /\ UNCHANGED <<row, reg>> /\ PollTyped(poll') /\ poll'.pc = "adopt"
      BY <2>1 DEF Types
    <2>2. CASE \E present \in BOOLEAN : PollEntry(present)
      BY <1>1, <2>2, EntryWrite DEF Idle
    <2> QED BY <2>1, <2>2, AnswerWrite
  <1>3. server = "up"
    BY <1>1 DEF Types, DownIdle
  <1> QED BY <1>1, <1>2, <1>3 DEF Types, RegTyped, LaunchTyped, ResumeTyped, HaltTyped,
          PollTyped, DiscTyped, BudgetTyped, DownIdle, BootOk, SeenOk, Booting

\* What a discovery's observation comes to.
LEMMA DiscWrite ==
  ASSUME Types, NEW pc \in {"interrupted", "look", "recover"}, DiscStep(pc)
  PROVE  /\ DiscTyped(disc') /\ disc' # Idle /\ disc'.pc = pc
         /\ disc'.was = Look(row) /\ disc'.attempts = row.attempts
  BY LookTyped DEF Types, Rows, DiscStep, DiscTyped, Idle

LEMMA RecoverWrite ==
  ASSUME Types, RecoverMissing, resume = Idle
  PROVE  /\ DiscTyped(disc') /\ row' \in Rows /\ row'.tmux = row.tmux /\ RegTyped(reg')
         /\ reg' = NoEntry <=> reg = NoEntry
         /\ reg'.tmux = reg.tmux
         /\ \/ disc' = Idle /\ UNCHANGED <<row, resume, reg>>
            \/ /\ disc' = Idle /\ UNCHANGED <<resume, reg>> /\ row'.status = "error"
               /\ row.desired \in Live /\ ~row.operator
            \/ /\ row.desired \in Live /\ ~row.operator
               /\ row'.status = row.status /\ row'.desired = row.desired
               /\ row'.operator = row.operator
               /\ ResumeTyped(resume') /\ resume' # Idle /\ resume'.kind = "boot"
               /\ resume'.pc = "probe" /\ resume'.was = Look(row)
               /\ disc'.pc = "recover" /\ disc'.was = Look(row)
               /\ disc'.attempts = row.attempts /\ row.attempts < MaxAttempts
  <1> row \in Rows
    BY DEF Types
  <1>1. CASE row.desired \notin Live \/ row.operator
    <2>1. disc' = Idle /\ UNCHANGED <<row, resume, reg>>
      BY <1>1 DEF RecoverMissing
    <2> QED BY <2>1 DEF Types, DiscTyped
  <1>2. CASE row.desired \in Live /\ ~row.operator /\ row.attempts = MaxAttempts
    <2>1. row' = Failed(row) /\ disc' = Idle /\ UNCHANGED <<resume, reg>>
      BY <1>2 DEF RecoverMissing
    <2>2. row' \in Rows /\ row'.status = "error" /\ row'.tmux = row.tmux
      BY <2>1, FailedWrite
    <2> QED BY <1>2, <2>1, <2>2 DEF Types, DiscTyped
  <1>3. CASE row.desired \in Live /\ ~row.operator /\ row.attempts # MaxAttempts
    <2>1. /\ row' = [row EXCEPT !.attempts = @ + 1, !.stopping = FALSE]
          /\ StartResume("boot")
          /\ DiscStep("recover")
      BY <1>3 DEF RecoverMissing
    <2>2. row.attempts < MaxAttempts /\ row.attempts + 1 \in 0..MaxAttempts
      BY <1>3, Numbers DEF Rows
    <2> DEFINE a == [row EXCEPT !.attempts = @ + 1]
    <2>3. a \in Rows /\ a.tmux = row.tmux /\ a.status = row.status /\ a.desired = row.desired
          /\ a.operator = row.operator
      BY <2>2 DEF Rows
    <2>4. row' \in Rows /\ row'.tmux = row.tmux /\ row'.status = row.status
          /\ row'.desired = row.desired /\ row'.operator = row.operator
      <3>1. row' = [a EXCEPT !.stopping = FALSE]
        BY <2>1
      <3> HIDE DEF a
      <3> QED BY <2>3, <3>1 DEF Rows
    <2>5. /\ ResumeTyped(resume') /\ resume' # Idle
          /\ resume'.pc = "probe" /\ resume'.kind = "boot" /\ resume'.was = Look(row)
          /\ RegTyped(reg') /\ (reg' = NoEntry <=> reg = NoEntry) /\ reg'.tmux = reg.tmux
      BY <2>1, StartWrite
    <2>6. /\ DiscTyped(disc') /\ disc' # Idle /\ disc'.pc = "recover"
          /\ disc'.was = Look(row) /\ disc'.attempts = row.attempts
      BY <2>1, DiscWrite
    <2> QED BY <1>3, <2>2, <2>4, <2>5, <2>6
  <1> QED BY <1>1, <1>2, <1>3

\* What the answer to discover comes to.
LEMMA DiscoverWrite ==
  ASSUME Types, DiscoverAnswer
  PROVE  /\ disc # Idle /\ disc.pc \in {"ask", "deferred"} /\ poll = Idle
         /\ UNCHANGED <<launch, halt, poll, rest>>
         /\ \/ disc' = Idle /\ UNCHANGED <<row, pane, resume, reg>>
            \/ /\ ExpectedLive /\ resume = Idle /\ row.status = "starting" /\ ~Ticket
               /\ pane' = KillPane(row.tmux)
               /\ DiscStep("interrupted") /\ UNCHANGED <<row, resume, reg>>
            \/ /\ ExpectedLive /\ resume = Idle /\ row.status # "starting" /\ Held(row.tmux)
               /\ DiscStep("look") /\ UNCHANGED <<row, pane, resume, reg>>
            \/ /\ ExpectedLive /\ resume = Idle /\ row.status # "starting" /\ ~Held(row.tmux)
               /\ RecoverMissing /\ UNCHANGED pane
  BY DEF DiscoverAnswer, Discovering

LEMMA DiscoverAnswerTypes ==
  ASSUME Types, DiscoverAnswer
  PROVE  Types'
  <1>1. /\ disc # Idle /\ disc.pc \in {"ask", "deferred"}
        /\ UNCHANGED <<launch, halt, poll, server, tick, budget, halted>>
    BY DiscoverWrite DEF rest
  <1>2. server = "up"
    BY <1>1 DEF Types, DownIdle
  <1>3. CASE disc' = Idle /\ UNCHANGED <<row, pane, resume, reg>>
    <2>1. ~Booting
      BY <1>1 DEF Types, BootOk
    <2> QED BY <1>1, <1>2, <1>3, <2>1 DEF Types, RegTyped, LaunchTyped, ResumeTyped, HaltTyped,
          PollTyped, DiscTyped, BudgetTyped, DownIdle, BootOk, SeenOk, Booting, Idle
  <1>4. CASE resume = Idle /\ pane' = KillPane(row.tmux) /\ DiscStep("interrupted")
             /\ UNCHANGED <<row, resume, reg>>
    <2>1. DiscTyped(disc') /\ disc'.pc # "look"
      BY <1>4, DiscWrite
    <2>2. pane' \in [Panes -> {"none", "shell", "agent"}]
      BY <1>4 DEF Types, KillPane
    <2> QED BY <1>1, <1>2, <1>4, <2>1, <2>2 DEF Types, RegTyped, LaunchTyped, ResumeTyped, HaltTyped,
          PollTyped, DiscTyped, BudgetTyped, DownIdle, BootOk, SeenOk, Booting
  <1>5. CASE resume = Idle /\ DiscStep("look") /\ UNCHANGED <<row, pane, resume, reg>>
    <2>1. DiscTyped(disc') /\ disc'.was.tmux \in Panes
      BY <1>5, DiscWrite, LookTyped DEF Types, Rows
    <2> QED BY <1>1, <1>2, <1>5, <2>1 DEF Types, RegTyped, LaunchTyped, ResumeTyped, HaltTyped,
          PollTyped, DiscTyped, BudgetTyped, DownIdle, BootOk, SeenOk, Booting
  <1>6. CASE resume = Idle /\ RecoverMissing /\ UNCHANGED pane
    <2>1. DiscTyped(disc') /\ row' \in Rows /\ RegTyped(reg') /\ disc'.pc # "look"
      BY <1>6, RecoverWrite DEF Idle
    <2>2. ResumeTyped(resume') /\ BootOk' /\ SeenOk'
      <3>1. CASE resume' = resume
        BY <1>1, <1>6, <2>1, <3>1 DEF Types, BootOk, Booting, SeenOk, Idle
      <3>2. CASE resume' # resume
        <4>1. /\ row.desired \in Live
              /\ ResumeTyped(resume') /\ resume'.pc = "probe" /\ resume'.was = Look(row)
              /\ disc'.pc = "recover" /\ disc'.was = Look(row)
              /\ disc'.attempts = row.attempts /\ row.attempts < MaxAttempts
          BY <1>6, <3>2, RecoverWrite
        <4>2. Look(row).tmux \in Panes /\ Look(row).desired = row.desired
          BY LookTyped DEF Types, Rows
        <4> QED BY <1>1, <2>1, <4>1, <4>2 DEF Types, BootOk, SeenOk
      <3> QED BY <3>1, <3>2
    <2>3. DownIdle'
      BY <1>1, <1>2 DEF DownIdle
    <2> QED BY <1>1, <1>6, <2>1, <2>2, <2>3 DEF Types, RegTyped, LaunchTyped, ResumeTyped, HaltTyped,
          PollTyped, DiscTyped, BudgetTyped
  <1> QED BY <1>3, <1>4, <1>5, <1>6, DiscoverWrite

LEMMA InitTypes == Init => Types
  <1> SUFFICES ASSUME Init
               PROVE  Types
    OBVIOUS
  <1>1. /\ resume = Idle /\ halt = Idle /\ poll = Idle /\ disc = Idle /\ reg = NoEntry
        /\ tick = FALSE /\ halted = FALSE /\ server = "up"
        /\ launch = [pc |-> "setup", cancelled |-> FALSE, owns |-> FALSE]
    BY DEF Init
  <1>2. row \in Rows
    BY Numbers DEF Init, Rows, Statuses, Active
  <1>3. pane \in [Panes -> {"none", "shell", "agent"}]
    BY DEF Init
  <1>4. BudgetTyped(budget)
    BY Numbers DEF Init, BudgetTyped
  <1>5. LaunchTyped(launch)
    BY <1>1 DEF LaunchTyped
  <1>6. DownIdle /\ BootOk /\ SeenOk
    BY <1>1 DEF DownIdle, BootOk, Booting, SeenOk, Idle
  <1> QED BY <1>1, <1>2, <1>3, <1>4, <1>5, <1>6 DEF Types, RegTyped, ResumeTyped, HaltTyped,
          PollTyped, DiscTyped

LEMMA NextTypes ==
  ASSUME Types, [Next]_vars
  PROVE  Types'
  <1>1. CASE \E p \in Panes : AgentExits(p) \/ PaneDies(p)
    BY <1>1, FaultTypes
  <1>2. CASE \E st \in Live : Hook(st)
    BY <1>2, HookTypes
  <1>3. CASE Launching
    BY <1>3, LaunchSpawnTypes, LaunchPublishTypes, LaunchCleanTypes, LaunchRecordTypes DEF Launching
  <1>4. CASE Resuming
    BY <1>4, ResumeProbeTypes, ResumeLookTypes, ResumeClearTypes, ResumeSpawnTypes,
       ResumePublishTypes DEF Resuming
  <1>5. CASE Halting
    BY <1>5, HaltKillTypes, HaltMarkTypes DEF Halting
  <1>6. CASE Polling
    BY <1>6, PollAskTypes, PollUnknownTypes, PollAnswerTypes, PollAdoptTypes, PollLookTypes,
       PollClassifyTypes DEF Polling
  <1>7. CASE Discovery
    BY <1>7, DiscoverUnknownTypes, DiscoverAnswerTypes, DiscoverInterruptedTypes,
       DiscoverLookTypes DEF Discovery
  <1>8. CASE OperatorResumes \/ PollFallback
    BY <1>8, OperatorResumesTypes, PollFallbackTypes
  <1>9. CASE \E stop \in BOOLEAN : RequestHalt(stop)
    BY <1>9, RequestHaltTypes
  <1>10. CASE SuperviseExit \/ SuperviseResume
    BY <1>10, SuperviseExitTypes, SuperviseResumeTypes
  <1>11. CASE \E host \in BOOLEAN : Crash(host)
    BY <1>11, CrashTypes
  <1>12. CASE Boot
    BY <1>12, BootTypes
  <1>13. CASE UNCHANGED vars
    BY <1>13 DEF vars, Types, RegTyped, LaunchTyped, ResumeTyped, HaltTyped, PollTyped, DiscTyped,
       BudgetTyped, DownIdle, BootOk, SeenOk, Booting
  <1> QED BY <1>1, <1>2, <1>3, <1>4, <1>5, <1>6, <1>7, <1>8, <1>9, <1>10, <1>11, <1>12, <1>13 DEF Next

\* Every value stays in its type, whatever crosses whatever and however often the server dies.
THEOREM TypesHold == Spec => []TypeOK
  <1>1. Init => Types
    BY InitTypes
  <1>2. Types /\ [Next]_vars => Types'
    BY NextTypes
  <1>3. Types => TypeOK
    BY TypesGiveTypeOK
  <1> QED BY <1>1, <1>2, <1>3, PTL DEF Spec
-----------------------------------------------------------------------------
(* Where panes may be held.                                                *)

\* Only the pane the row names runs, and the one a resume has opened and not yet published.
HeldWhere == \A p \in Panes : Held(p) => \/ p = row.tmux
                                         \/ resume.pc = "publish" /\ p = resume.pane

\* A relaunch goes on only past the old pane; what it opens, nothing else refers to.
ResumeOk ==
  /\ resume.pc = "publish" => resume.pane # row.tmux
  /\ resume.pc \in {"prepare", "publish"} => ~Held(row.tmux)
  /\ resume.pc \in {"look", "clear"} => resume.was.tmux = row.tmux
  /\ resume.pc = "look" => resume.alive
  /\ resume.pc = "clear" /\ ~resume.alive => ~Held(row.tmux)
  /\ resume.pc = "publish" /\ disc.pc = "look" => resume.pane # disc.was.tmux

\* A launch that no halt has cancelled is the only job of its session.
Young == Ticket /\ ~launch.cancelled
LaunchOk ==
  /\ launch # Idle => disc = Idle /\ server = "up"
  /\ Young => /\ row.status = "starting" /\ row.tmux = LaunchPane /\ reg = NoEntry
              /\ resume = Idle /\ halt = Idle /\ ~halted /\ ~tick
              /\ poll.pc \in {"idle", "asked"}
PaneInv == HeldWhere /\ ResumeOk /\ LaunchOk

LEMMA HeldStands ==
  ASSUME Types, HeldWhere, ResumeOk, row'.tmux = row.tmux, resume' = resume,
         \A p \in Panes : pane'[p] # "none" => pane[p] # "none",
         disc'.pc = "look" => disc' = disc \/ resume = Idle
  PROVE  HeldWhere' /\ ResumeOk'
  <1>1. row.tmux \in Panes
    BY DEF Types, Rows
  <1> QED BY <1>1 DEF HeldWhere, ResumeOk, Held, Idle

LEMMA HeldMoves ==
  ASSUME Types, HeldWhere, ResumeOk, row'.tmux = row.tmux, resume.pc # "publish",
         resume'.pc \in {"idle", "probe"},
         \A p \in Panes : pane'[p] # "none" => pane[p] # "none"
  PROVE  HeldWhere' /\ ResumeOk'
  BY DEF HeldWhere, ResumeOk, Held

LEMMA LaunchStands ==
  ASSUME LaunchOk, launch' = launch,
         launch # Idle => disc' = Idle /\ server' = "up",
         Young => UNCHANGED <<row, reg, resume, halt, halted, tick>> /\ poll'.pc \in {"idle", "asked"}
  PROVE  LaunchOk'
  BY DEF LaunchOk, Young, Ticket

LEMMA FaultPane ==
  ASSUME Types, PaneInv, NEW p \in Panes, AgentExits(p) \/ PaneDies(p)
  PROVE  PaneInv'
  <1>1. /\ row'.tmux = row.tmux /\ resume' = resume
        /\ \A q \in Panes : pane'[q] # "none" => pane[q] # "none"
        /\ disc'.pc = "look" => disc' = disc
    BY Numbers DEF AgentExits, PaneDies, Fault, KillPane, Held, Types, Rows, Idle
  <1>2. HeldWhere' /\ ResumeOk'
    BY <1>1, HeldStands DEF PaneInv
  <1>3. launch' = launch
    BY DEF AgentExits, PaneDies, Fault, KillPane, Held
  <1>4. launch # Idle => disc' = Idle /\ server' = "up"
    BY DEF AgentExits, PaneDies, Fault, KillPane, Held, PaneInv, LaunchOk, Types, DownIdle, Idle
  <1>5. Young => UNCHANGED <<row, reg, resume, halt, halted, tick>> /\ poll'.pc \in {"idle", "asked"}
    BY DEF AgentExits, PaneDies, Fault, KillPane, Held, PaneInv, LaunchOk, Live, Idle
  <1>6. LaunchOk'
    BY <1>3, <1>4, <1>5, LaunchStands DEF PaneInv
  <1> QED BY <1>2, <1>6 DEF PaneInv

LEMMA HookPane ==
  ASSUME Types, PaneInv, NEW st \in Live, Hook(st)
  PROVE  PaneInv'
  <1>1. /\ row'.tmux = row.tmux /\ resume' = resume
        /\ \A q \in Panes : pane'[q] # "none" => pane[q] # "none"
        /\ disc'.pc = "look" => disc' = disc
    BY StatusWrite, Numbers DEF Hook, Live, Active, Statuses, rest, Types, Rows, Idle
  <1>2. HeldWhere' /\ ResumeOk'
    BY <1>1, HeldStands DEF PaneInv
  <1>3. launch' = launch
    BY DEF Hook, Live, Active, Statuses, rest
  <1>4. launch # Idle => disc' = Idle /\ server' = "up"
    BY DEF Hook, Live, Active, Statuses, rest, PaneInv, LaunchOk, Types, DownIdle, Idle
  <1>5. Young => UNCHANGED <<row, reg, resume, halt, halted, tick>> /\ poll'.pc \in {"idle", "asked"}
    BY DEF Hook, Live, Active, Statuses, rest, PaneInv, LaunchOk, Live, Idle
  <1>6. LaunchOk'
    BY <1>3, <1>4, <1>5, LaunchStands DEF PaneInv
  <1> QED BY <1>2, <1>6 DEF PaneInv

LEMMA LaunchCleanPane ==
  ASSUME Types, PaneInv, LaunchClean
  PROVE  PaneInv'
  <1>1. /\ row'.tmux = row.tmux /\ resume' = resume
        /\ \A q \in Panes : pane'[q] # "none" => pane[q] # "none"
        /\ disc'.pc = "look" => disc' = disc
    BY Numbers DEF LaunchClean, KillPane, rest, Types, Rows, Idle
  <1>2. HeldWhere' /\ ResumeOk'
    BY <1>1, HeldStands DEF PaneInv
  <1>3. LaunchOk'
    BY Numbers DEF LaunchClean, KillPane, rest, PaneInv, LaunchOk, Young, Ticket, Types, LaunchTyped, Idle
  <1> QED BY <1>2, <1>3 DEF PaneInv

LEMMA LaunchRecordPane ==
  ASSUME Types, PaneInv, LaunchRecord
  PROVE  PaneInv'
  <1>1. /\ row'.tmux = row.tmux /\ resume' = resume
        /\ \A q \in Panes : pane'[q] # "none" => pane[q] # "none"
        /\ disc'.pc = "look" => disc' = disc
    BY FailedWrite, Numbers DEF LaunchRecord, rest, Types, Rows, Idle
  <1>2. HeldWhere' /\ ResumeOk'
    BY <1>1, HeldStands DEF PaneInv
  <1>3. LaunchOk'
    BY FailedWrite, Numbers DEF LaunchRecord, rest, PaneInv, LaunchOk, Young, Ticket, Types, LaunchTyped, Idle
  <1> QED BY <1>2, <1>3 DEF PaneInv

LEMMA HaltKillPane ==
  ASSUME Types, PaneInv, HaltKill
  PROVE  PaneInv'
  <1>1. /\ row'.tmux = row.tmux /\ resume' = resume
        /\ \A q \in Panes : pane'[q] # "none" => pane[q] # "none"
        /\ disc'.pc = "look" => disc' = disc
    BY Numbers DEF HaltKill, KillPane, rest, Types, Rows, Idle
  <1>2. HeldWhere' /\ ResumeOk'
    BY <1>1, HeldStands DEF PaneInv
  <1>3. launch' = launch
    BY DEF HaltKill, KillPane, rest
  <1>4. launch # Idle => disc' = Idle /\ server' = "up"
    BY DEF HaltKill, KillPane, rest, PaneInv, LaunchOk, Types, DownIdle, Idle
  <1>5. Young => UNCHANGED <<row, reg, resume, halt, halted, tick>> /\ poll'.pc \in {"idle", "asked"}
    BY DEF HaltKill, KillPane, rest, PaneInv, LaunchOk, Live, Idle
  <1>6. LaunchOk'
    BY <1>3, <1>4, <1>5, LaunchStands DEF PaneInv
  <1> QED BY <1>2, <1>6 DEF PaneInv

LEMMA HaltMarkPane ==
  ASSUME Types, PaneInv, HaltMark
  PROVE  PaneInv'
  <1>1. /\ row'.tmux = row.tmux /\ resume' = resume
        /\ \A q \in Panes : pane'[q] # "none" => pane[q] # "none"
        /\ disc'.pc = "look" => disc' = disc
    BY HaltMarkWrite, Numbers DEF HaltMark, rest, Types, Rows, Idle
  <1>2. HeldWhere' /\ ResumeOk'
    BY <1>1, HeldStands DEF PaneInv
  <1>3. launch' = launch
    BY DEF HaltMark, rest
  <1>4. launch # Idle => disc' = Idle /\ server' = "up"
    BY DEF HaltMark, rest, PaneInv, LaunchOk, Types, DownIdle, Idle
  <1>5. Young => UNCHANGED <<row, reg, resume, halt, halted, tick>> /\ poll'.pc \in {"idle", "asked"}
    BY DEF HaltMark, rest, PaneInv, LaunchOk, Live, Idle
  <1>6. LaunchOk'
    BY <1>3, <1>4, <1>5, LaunchStands DEF PaneInv
  <1> QED BY <1>2, <1>6 DEF PaneInv

LEMMA SuperviseExitPane ==
  ASSUME Types, PaneInv, SuperviseExit
  PROVE  PaneInv'
  <1>1. /\ row'.tmux = row.tmux /\ resume' = resume
        /\ \A q \in Panes : pane'[q] # "none" => pane[q] # "none"
        /\ disc'.pc = "look" => disc' = disc
    BY Numbers DEF SuperviseExit, Types, Rows, Idle
  <1>2. HeldWhere' /\ ResumeOk'
    BY <1>1, HeldStands DEF PaneInv
  <1>3. launch' = launch
    BY DEF SuperviseExit
  <1>4. launch # Idle => disc' = Idle /\ server' = "up"
    BY DEF SuperviseExit, PaneInv, LaunchOk, Types, DownIdle, Idle
  <1>5. Young => UNCHANGED <<row, reg, resume, halt, halted, tick>> /\ poll'.pc \in {"idle", "asked"}
    BY DEF SuperviseExit, PaneInv, LaunchOk, Live, Idle
  <1>6. LaunchOk'
    BY <1>3, <1>4, <1>5, LaunchStands DEF PaneInv
  <1> QED BY <1>2, <1>6 DEF PaneInv

LEMMA PollAskPane ==
  ASSUME Types, PaneInv, PollAsk
  PROVE  PaneInv'
  <1>1. /\ row'.tmux = row.tmux /\ resume' = resume
        /\ \A q \in Panes : pane'[q] # "none" => pane[q] # "none"
        /\ disc'.pc = "look" => disc' = disc
    BY Numbers DEF PollAsk, rest, Types, Rows, Idle
  <1>2. HeldWhere' /\ ResumeOk'
    BY <1>1, HeldStands DEF PaneInv
  <1>3. launch' = launch
    BY DEF PollAsk, rest
  <1>4. launch # Idle => disc' = Idle /\ server' = "up"
    BY DEF PollAsk, rest, PaneInv, LaunchOk, Types, DownIdle, Idle
  <1>5. Young => UNCHANGED <<row, reg, resume, halt, halted, tick>> /\ poll'.pc \in {"idle", "asked"}
    BY DEF PollAsk, rest, PaneInv, LaunchOk, Live, Idle
  <1>6. LaunchOk'
    BY <1>3, <1>4, <1>5, LaunchStands DEF PaneInv
  <1> QED BY <1>2, <1>6 DEF PaneInv

LEMMA PollUnknownPane ==
  ASSUME Types, PaneInv, PollUnknown
  PROVE  PaneInv'
  <1>1. /\ row'.tmux = row.tmux /\ resume' = resume
        /\ \A q \in Panes : pane'[q] # "none" => pane[q] # "none"
        /\ disc'.pc = "look" => disc' = disc
    BY Numbers DEF PollUnknown, Types, Rows, Idle
  <1>2. HeldWhere' /\ ResumeOk'
    BY <1>1, HeldStands DEF PaneInv
  <1>3. launch' = launch
    BY DEF PollUnknown
  <1>4. launch # Idle => disc' = Idle /\ server' = "up"
    BY DEF PollUnknown, PaneInv, LaunchOk, Types, DownIdle, Idle
  <1>5. Young => UNCHANGED <<row, reg, resume, halt, halted, tick>> /\ poll'.pc \in {"idle", "asked"}
    BY DEF PollUnknown, PaneInv, LaunchOk, Live, Idle
  <1>6. LaunchOk'
    BY <1>3, <1>4, <1>5, LaunchStands DEF PaneInv
  <1> QED BY <1>2, <1>6 DEF PaneInv

LEMMA PollAdoptPane ==
  ASSUME Types, PaneInv, PollAdopt
  PROVE  PaneInv'
  <1>1. /\ row'.tmux = row.tmux /\ resume' = resume
        /\ \A q \in Panes : pane'[q] # "none" => pane[q] # "none"
        /\ disc'.pc = "look" => disc' = disc
    BY PollAdoptWrite, Numbers DEF PollAdopt, rest, Types, Rows, Idle
  <1>2. HeldWhere' /\ ResumeOk'
    BY <1>1, HeldStands DEF PaneInv
  <1>3. launch' = launch
    BY DEF PollAdopt, rest
  <1>4. launch # Idle => disc' = Idle /\ server' = "up"
    BY DEF PollAdopt, rest, PaneInv, LaunchOk, Types, DownIdle, Idle
  <1>5. Young => UNCHANGED <<row, reg, resume, halt, halted, tick>> /\ poll'.pc \in {"idle", "asked"}
    BY DEF PollAdopt, rest, PaneInv, LaunchOk, Live, Idle
  <1>6. LaunchOk'
    BY <1>3, <1>4, <1>5, LaunchStands DEF PaneInv
  <1> QED BY <1>2, <1>6 DEF PaneInv

LEMMA PollClassifyPane ==
  ASSUME Types, PaneInv, PollClassify
  PROVE  PaneInv'
  <1>1. /\ row'.tmux = row.tmux /\ resume' = resume
        /\ \A q \in Panes : pane'[q] # "none" => pane[q] # "none"
        /\ disc'.pc = "look" => disc' = disc
    BY StatusWrite, Numbers DEF PollClassify, Live, Active, Statuses, rest, Types, Rows, Idle
  <1>2. HeldWhere' /\ ResumeOk'
    BY <1>1, HeldStands DEF PaneInv
  <1>3. launch' = launch
    BY DEF PollClassify, Live, Active, Statuses, rest
  <1>4. launch # Idle => disc' = Idle /\ server' = "up"
    BY DEF PollClassify, Live, Active, Statuses, rest, PaneInv, LaunchOk, Types, DownIdle, Idle
  <1>5. Young => UNCHANGED <<row, reg, resume, halt, halted, tick>> /\ poll'.pc \in {"idle", "asked"}
    BY DEF PollClassify, Live, Active, Statuses, rest, PaneInv, LaunchOk, Live, Idle
  <1>6. LaunchOk'
    BY <1>3, <1>4, <1>5, LaunchStands DEF PaneInv
  <1> QED BY <1>2, <1>6 DEF PaneInv

LEMMA DiscoverUnknownPane ==
  ASSUME Types, PaneInv, DiscoverUnknown
  PROVE  PaneInv'
  <1>1. /\ row'.tmux = row.tmux /\ resume' = resume
        /\ \A q \in Panes : pane'[q] # "none" => pane[q] # "none"
        /\ disc'.pc = "look" => disc' = disc
    BY Numbers DEF DiscoverUnknown, Discovering, Types, Rows, Idle
  <1>2. HeldWhere' /\ ResumeOk'
    BY <1>1, HeldStands DEF PaneInv
  <1>3. launch' = launch
    BY DEF DiscoverUnknown, Discovering
  <1>4. launch # Idle => disc' = Idle /\ server' = "up"
    BY DEF DiscoverUnknown, Discovering, PaneInv, LaunchOk, Types, DownIdle, Idle
  <1>5. Young => UNCHANGED <<row, reg, resume, halt, halted, tick>> /\ poll'.pc \in {"idle", "asked"}
    BY DEF DiscoverUnknown, Discovering, PaneInv, LaunchOk, Live, Idle
  <1>6. LaunchOk'
    BY <1>3, <1>4, <1>5, LaunchStands DEF PaneInv
  <1> QED BY <1>2, <1>6 DEF PaneInv

LEMMA DiscoverInterruptedPane ==
  ASSUME Types, PaneInv, DiscoverInterrupted
  PROVE  PaneInv'
  <1>1. /\ row'.tmux = row.tmux /\ resume' = resume
        /\ \A q \in Panes : pane'[q] # "none" => pane[q] # "none"
        /\ disc'.pc = "look" => disc' = disc
    BY FailedWrite, Numbers DEF DiscoverInterrupted, rest, Types, Rows, Idle
  <1>2. HeldWhere' /\ ResumeOk'
    BY <1>1, HeldStands DEF PaneInv
  <1>3. launch' = launch
    BY DEF DiscoverInterrupted, rest
  <1>4. launch # Idle => disc' = Idle /\ server' = "up"
    BY DEF DiscoverInterrupted, rest, PaneInv, LaunchOk, Types, DownIdle, Idle
  <1>5. Young => UNCHANGED <<row, reg, resume, halt, halted, tick>> /\ poll'.pc \in {"idle", "asked"}
    BY DEF DiscoverInterrupted, rest, PaneInv, LaunchOk, Young, Ticket, Idle
  <1>6. LaunchOk'
    BY <1>3, <1>4, <1>5, LaunchStands DEF PaneInv
  <1> QED BY <1>2, <1>6 DEF PaneInv

LEMMA DiscoverLookPane ==
  ASSUME Types, PaneInv, DiscoverLook
  PROVE  PaneInv'
  <1>1. /\ row'.tmux = row.tmux /\ resume' = resume
        /\ \A q \in Panes : pane'[q] # "none" => pane[q] # "none"
        /\ disc'.pc = "look" => disc' = disc
    BY DiscoverLookWrite, Numbers DEF DiscoverLook, rest, Types, Rows, Idle
  <1>2. HeldWhere' /\ ResumeOk'
    BY <1>1, HeldStands DEF PaneInv
  <1>3. launch' = launch
    BY DEF DiscoverLook, rest
  <1>4. launch # Idle => disc' = Idle /\ server' = "up"
    BY DEF DiscoverLook, rest, PaneInv, LaunchOk, Types, DownIdle, Idle
  <1>5. Young => UNCHANGED <<row, reg, resume, halt, halted, tick>> /\ poll'.pc \in {"idle", "asked"}
    BY DEF DiscoverLook, rest, PaneInv, LaunchOk, Young, Ticket, Idle
  <1>6. LaunchOk'
    BY <1>3, <1>4, <1>5, LaunchStands DEF PaneInv
  <1> QED BY <1>2, <1>6 DEF PaneInv

\* A resume that is asked for, and one that rejects, move no pane.
LEMMA AskedPane ==
  ASSUME Types, PaneInv, NEW k \in {"operator", "settings", "auto"}, AskedResume(k), ~Young,
         UNCHANGED <<row, pane, server, launch, disc>>
  PROVE  PaneInv'
  <1>1. resume = Idle /\ resume'.pc = "probe"
    BY AskedWrite, StartWrite
  <1>2. HeldWhere' /\ ResumeOk'
    BY <1>1, HeldMoves DEF PaneInv, Idle
  <1>3. LaunchOk'
    BY LaunchStands DEF PaneInv, LaunchOk
  <1> QED BY <1>2, <1>3 DEF PaneInv

LEMMA OperatorResumesPane ==
  ASSUME Types, PaneInv, OperatorResumes
  PROVE  PaneInv'
  <1>1. \/ AskedResume("operator")
        \/ AskedResume("settings")
    BY DEF OperatorResumes
  <1>2. ~Young /\ UNCHANGED <<row, pane, server, launch, disc>>
    BY DEF OperatorResumes, PaneInv, LaunchOk, Live
  <1> QED BY <1>1, <1>2, AskedPane

LEMMA SuperviseResumePane ==
  ASSUME Types, PaneInv, SuperviseResume
  PROVE  PaneInv'
  <1>1. ~Young /\ UNCHANGED <<row, pane, server, launch, disc>> /\ tick
    BY DEF SuperviseResume, PaneInv, LaunchOk
  <1>2. CASE AskedResume("auto")
    BY <1>1, <1>2, AskedPane
  <1>3. CASE UNCHANGED <<resume, reg, budget>>
    <2>1. HeldWhere' /\ ResumeOk'
      BY <1>1, <1>3, HeldStands DEF PaneInv
    <2>2. LaunchOk'
      BY <1>1, LaunchStands DEF PaneInv, LaunchOk
    <2> QED BY <2>1, <2>2 DEF PaneInv
  <1> QED BY <1>2, <1>3 DEF SuperviseResume

LEMMA PollFallbackPane ==
  ASSUME Types, PaneInv, PollFallback
  PROVE  PaneInv'
  <1>1. ~Young /\ UNCHANGED <<row, pane, server, launch, disc>> /\ AskedResume("auto")
    BY DEF PollFallback, PaneInv, LaunchOk
  <1> QED BY <1>1, AskedPane

\* No resume is in flight while a launch is young, and its discovery only while none is left.
LEMMA ResumeStepLaunch ==
  ASSUME Types, PaneInv, resume # Idle, UNCHANGED <<launch, server>>, disc = Idle => disc' = Idle
  PROVE  LaunchOk'
  BY LaunchStands DEF PaneInv, LaunchOk, Types, DownIdle

LEMMA RejectPane ==
  ASSUME Types, PaneInv, resume # Idle, resume.pc # "publish", NEW code, RejectResume(code),
         UNCHANGED <<launch, server, pane>>
  PROVE  PaneInv'
  <1>1. resume' = Idle /\ row'.tmux = row.tmux
    BY RejectWrite
  <1>2. disc = Idle => disc' = Idle
    <2>1. resume.kind = "boot" => disc.pc = "recover"
      BY DEF Types, BootOk, Booting
    <2> QED BY <2>1, RejectWrite DEF Idle
  <1>3. HeldWhere' /\ ResumeOk'
    BY <1>1, HeldMoves DEF PaneInv, Idle
  <1>4. LaunchOk'
    BY <1>2, ResumeStepLaunch
  <1> QED BY <1>3, <1>4 DEF PaneInv

LEMMA ResumeProbePane ==
  ASSUME Types, PaneInv, ResumeProbe
  PROVE  PaneInv'
  <1>1. resume # Idle /\ resume.pc = "probe" /\ UNCHANGED <<launch, server, pane>>
    BY ProbeWrite
  <1>2. CASE \E code \in {"cancelled", "unknown"} : RejectResume(code)
    BY <1>1, <1>2, RejectPane
  <1>3. CASE ~ \E code \in {"cancelled", "unknown"} : RejectResume(code)
    <2>1. /\ UNCHANGED <<row, disc>>
          /\ resume'.was = Look(row)
          /\ resume'.alive = Held(row.tmux)
          /\ resume'.pc = IF Held(row.tmux) /\ ~Forced THEN "look" ELSE "clear"
      BY <1>3, ProbeWrite
    <2>2. resume'.was.tmux = row.tmux
      BY <2>1, LookTyped DEF Types
    <2>3. HeldWhere' /\ ResumeOk'
      BY <1>1, <2>1, <2>2 DEF PaneInv, HeldWhere, ResumeOk, Held
    <2>4. LaunchOk'
      BY <1>1, <2>1, ResumeStepLaunch
    <2> QED BY <2>3, <2>4 DEF PaneInv
  <1> QED BY <1>2, <1>3

LEMMA ResumeLookPane ==
  ASSUME Types, PaneInv, ResumeLook
  PROVE  PaneInv'
  <1>1. resume # Idle /\ resume.pc = "look" /\ UNCHANGED <<launch, server, pane>>
    BY ResumeLookWrite DEF rest
  <1>2. CASE RejectResume("unknown")
    BY <1>1, <1>2, RejectPane
  <1>3. CASE resume' = [resume EXCEPT !.pc = "clear"] /\ UNCHANGED <<row, reg, disc>>
    <2>1. resume'.pc = "clear" /\ resume'.was = resume.was /\ resume'.alive = resume.alive
      BY <1>1, <1>3, ResumeInFlight
    <2>2. HeldWhere' /\ ResumeOk'
      BY <1>1, <1>3, <2>1 DEF PaneInv, HeldWhere, ResumeOk, Held
    <2>3. LaunchOk'
      BY <1>1, <1>3, ResumeStepLaunch
    <2> QED BY <2>2, <2>3 DEF PaneInv
  <1>4. CASE resume' = Idle /\ row'.tmux = row.tmux /\ (disc' = Idle \/ disc' = disc)
    <2>1. HeldWhere' /\ ResumeOk'
      BY <1>1, <1>4, HeldMoves DEF PaneInv, Idle
    <2>2. LaunchOk'
      BY <1>1, <1>4, ResumeStepLaunch
    <2> QED BY <2>1, <2>2 DEF PaneInv
  <1> QED BY <1>2, <1>3, <1>4, ResumeLookWrite

LEMMA ResumeClearPane ==
  ASSUME Types, PaneInv, ResumeClear
  PROVE  PaneInv'
  <1>1. resume # Idle /\ resume.pc = "clear" /\ UNCHANGED <<launch, server>>
    BY ClearWrite DEF rest
  <1>2. CASE \E code \in {"cancelled", "refused"} : RejectResume(code) /\ UNCHANGED pane
    BY <1>1, <1>2, RejectPane
  <1>3. CASE /\ pane' = IF resume.alive THEN KillPane(resume.was.tmux) ELSE pane
             /\ row'.tmux = row.tmux
             /\ resume' = [resume EXCEPT !.pc = "prepare"]
             /\ UNCHANGED <<reg, disc>>
    <2>1. resume'.pc = "prepare" /\ resume.was.tmux = row.tmux /\ row.tmux \in Panes
      BY <1>1, <1>3, ResumeInFlight DEF PaneInv, ResumeOk
    <2>2. /\ \A p \in Panes : pane'[p] # "none" => pane[p] # "none"
          /\ resume.alive => pane'[row.tmux] = "none"
          /\ ~resume.alive => pane' = pane
      BY <1>3, <2>1 DEF KillPane, Types
    <2>3. HeldWhere' /\ ResumeOk'
      BY <1>1, <1>3, <2>1, <2>2 DEF PaneInv, HeldWhere, ResumeOk, Held
    <2>4. LaunchOk'
      BY <1>1, <1>3, ResumeStepLaunch
    <2> QED BY <2>3, <2>4 DEF PaneInv
  <1> QED BY <1>2, <1>3, ClearWrite

LEMMA ResumeSpawnPane ==
  ASSUME Types, PaneInv, ResumeSpawn
  PROVE  PaneInv'
  <1>1. resume # Idle /\ resume.pc = "prepare" /\ UNCHANGED <<launch, server>>
    BY SpawnWrite DEF rest
  <1>2. CASE \E code \in {"cancelled", "refused"} : RejectResume(code) /\ UNCHANGED pane
    BY <1>1, <1>2, RejectPane
  <1>3. CASE /\ \E p \in Panes : /\ p \notin InUse
                                 /\ pane' = [pane EXCEPT ![p] = "agent"]
                                 /\ resume' = [resume EXCEPT !.pc = "publish", !.pane = p]
             /\ UNCHANGED <<row, reg, disc>>
    <2>1. PICK p \in Panes : /\ p \notin InUse
                             /\ pane' = [pane EXCEPT ![p] = "agent"]
                             /\ resume' = [resume EXCEPT !.pc = "publish", !.pane = p]
      BY <1>3
    <2>2. resume'.pc = "publish" /\ resume'.pane = p
      BY <1>1, <2>1, ResumeInFlight
    <2>3. p # row.tmux /\ (disc # Idle => p # disc.was.tmux)
      BY <2>1 DEF InUse
    <2>4. /\ row.tmux \in Panes
          /\ \A q \in Panes : q # p => pane'[q] = pane[q]
      BY <2>1 DEF Types, Rows
    <2>5. HeldWhere' /\ ResumeOk'
      BY <1>1, <1>3, <2>2, <2>3, <2>4 DEF PaneInv, HeldWhere, ResumeOk, Held, Idle
    <2>6. LaunchOk'
      BY <1>1, <1>3, ResumeStepLaunch
    <2> QED BY <2>5, <2>6 DEF PaneInv
  <1> QED BY <1>2, <1>3, SpawnWrite

LEMMA ResumePublishPane ==
  ASSUME Types, PaneInv, ResumePublish
  PROVE  PaneInv'
  <1>1. /\ resume # Idle /\ resume.pc = "publish" /\ resume.pane \in Panes
        /\ UNCHANGED <<launch, server>>
    BY PublishWrite DEF rest
  <1>2. CASE pane' = KillPane(resume.pane) /\ RejectResume("cancelled")
    <2>1. resume' = Idle /\ row'.tmux = row.tmux
      BY <1>1, <1>2, RejectWrite
    <2>2. disc = Idle => disc' = Idle
      <3>1. resume.kind = "boot" => disc.pc = "recover"
        BY <1>1 DEF Types, BootOk, Booting
      <3> QED BY <1>1, <1>2, <3>1, RejectWrite DEF Idle
    <2>3. \A q \in Panes : pane'[q] # "none" => pane[q] # "none" /\ q # resume.pane
      BY <1>1, <1>2 DEF KillPane, Types
    <2>4. HeldWhere' /\ ResumeOk'
      BY <1>1, <2>1, <2>3 DEF PaneInv, HeldWhere, ResumeOk, Held, Idle
    <2>5. LaunchOk'
      BY <1>1, <2>2, ResumeStepLaunch
    <2> QED BY <2>4, <2>5 DEF PaneInv
  <1>3. CASE resume' = Idle /\ row'.tmux = resume.pane /\ pane' = pane /\ (disc' = Idle \/ disc' = disc)
    <2>1. HeldWhere' /\ ResumeOk'
      BY <1>1, <1>3 DEF PaneInv, HeldWhere, ResumeOk, Held, Idle
    <2>2. LaunchOk'
      BY <1>1, <1>3, ResumeStepLaunch
    <2> QED BY <2>1, <2>2 DEF PaneInv
  <1> QED BY <1>2, <1>3, PublishWrite

LEMMA LaunchSpawnPane ==
  ASSUME Types, PaneInv, LaunchSpawn
  PROVE  PaneInv'
  <1>1. /\ launch # Idle /\ launch.pc = "setup"
        /\ UNCHANGED <<row, reg, resume, halt, poll, disc, server, tick, halted>>
    BY DEF LaunchSpawn, rest
  <1>2. launch \in [pc : {"setup", "publish", "clean", "record"}, cancelled : BOOLEAN,
                    owns : BOOLEAN]
    BY <1>1 DEF Types, LaunchTyped
  <1>3. disc = Idle /\ server = "up"
    BY <1>1 DEF PaneInv, LaunchOk
  <1>4. CASE LaunchActive /\ launch' = [launch EXCEPT !.pc = "publish"]
             /\ pane' = [pane EXCEPT ![LaunchPane] = "agent"]
    <2>1. Young
      BY <1>1, <1>4 DEF Young, Ticket, LaunchActive
    <2>2. launch'.pc = "publish" /\ launch'.cancelled = launch.cancelled
      BY <1>2, <1>4
    <2>3. row.tmux = LaunchPane /\ resume = Idle
      BY <2>1 DEF PaneInv, LaunchOk
    <2>4. \A q \in Panes : q # LaunchPane => pane'[q] = pane[q]
      BY <1>4 DEF Types
    <2>5. HeldWhere' /\ ResumeOk'
      BY <1>1, <2>3, <2>4 DEF PaneInv, HeldWhere, ResumeOk, Held, Idle
    <2>6. LaunchOk'
      BY <1>1, <1>3, <2>1 DEF PaneInv, LaunchOk
    <2> QED BY <2>5, <2>6 DEF PaneInv
  <1>5. CASE \E c \in {FALSE, ~LaunchActive} : FailLaunch(c) /\ UNCHANGED pane
    <2>1. pane' = pane /\ launch'.pc = "clean"
      BY <1>2, <1>5 DEF FailLaunch
    <2>2. HeldWhere' /\ ResumeOk'
      BY <1>1, <2>1, HeldStands DEF PaneInv
    <2>3. LaunchOk'
      BY <1>1, <1>3, <2>1 DEF LaunchOk, Young, Ticket
    <2> QED BY <2>2, <2>3 DEF PaneInv
  <1> QED BY <1>4, <1>5 DEF LaunchSpawn

LEMMA LaunchPublishPane ==
  ASSUME Types, PaneInv, LaunchPublish
  PROVE  PaneInv'
  <1>1. /\ launch # Idle /\ launch.pc = "publish"
        /\ UNCHANGED <<pane, resume, halt, poll, disc, server, tick, halted>>
    BY DEF LaunchPublish, rest
  <1>2. launch \in [pc : {"setup", "publish", "clean", "record"}, cancelled : BOOLEAN,
                    owns : BOOLEAN]
    BY <1>1 DEF Types, LaunchTyped
  <1>3. disc = Idle /\ server = "up"
    BY <1>1 DEF PaneInv, LaunchOk
  <1>4. CASE LaunchActive
    <2>1. row' = Running(row, "working", LaunchPane) /\ launch' = Idle
      BY <1>4 DEF LaunchPublish
    <2>2. row'.tmux = LaunchPane
      BY <2>1, RunningWrite, Numbers DEF Types, Live
    <2>3. Young
      BY <1>1, <1>4 DEF Young, Ticket, LaunchActive
    <2>4. row'.tmux = row.tmux
      BY <2>2, <2>3 DEF PaneInv, LaunchOk
    <2>5. HeldWhere' /\ ResumeOk'
      BY <1>1, <2>4, HeldStands DEF PaneInv
    <2>6. LaunchOk'
      BY <2>1 DEF LaunchOk, Young, Ticket
    <2> QED BY <2>5, <2>6 DEF PaneInv
  <1>5. CASE ~LaunchActive
    <2>1. FailLaunch(TRUE) /\ row' = row
      BY <1>5 DEF LaunchPublish
    <2>2. launch'.pc = "clean"
      BY <1>2, <2>1 DEF FailLaunch
    <2>3. HeldWhere' /\ ResumeOk'
      BY <1>1, <2>1, HeldStands DEF PaneInv
    <2>4. LaunchOk'
      BY <1>1, <1>3, <2>2 DEF LaunchOk, Young, Ticket
    <2> QED BY <2>3, <2>4 DEF PaneInv
  <1> QED BY <1>4, <1>5

LEMMA RequestHaltPane ==
  ASSUME Types, PaneInv, NEW stop \in BOOLEAN, RequestHalt(stop)
  PROVE  PaneInv'
  <1>1. UNCHANGED <<pane, server, resume, disc>> /\ server = "up"
    BY DEF RequestHalt
  <1>2. launch' = IF Ticket THEN [launch EXCEPT !.cancelled = TRUE] ELSE launch
    BY DEF RequestHalt
  <1>3. row'.tmux = row.tmux
    BY HaltRequestWrite
  <1>4. HeldWhere' /\ ResumeOk'
    BY <1>1, <1>3, HeldStands DEF PaneInv
  <1>5. ~Young'
    <2>1. CASE Ticket
      <3>1. launch \in [pc : {"setup", "publish", "clean", "record"}, cancelled : BOOLEAN,
                        owns : BOOLEAN]
        BY <2>1 DEF Types, LaunchTyped, Ticket
      <3>2. launch'.cancelled = TRUE
        BY <1>2, <2>1, <3>1
      <3> QED BY <3>2 DEF Young
    <2>2. CASE ~Ticket
      BY <1>2, <2>2 DEF Young, Ticket
    <2> QED BY <2>1, <2>2
  <1>6. launch' # Idle => launch # Idle
    BY <1>2 DEF Ticket
  <1>7. LaunchOk'
    BY <1>1, <1>5, <1>6 DEF PaneInv, LaunchOk
  <1> QED BY <1>4, <1>7 DEF PaneInv

LEMMA PollAnswerPane ==
  ASSUME Types, PaneInv, PollAnswer
  PROVE  PaneInv'
  <1>1. UNCHANGED <<pane, server, launch, resume, halt, disc, tick, halted>> /\ poll # Idle
    BY AnswerWrite
  <1>2. row'.tmux = row.tmux
    <2>1. CASE UNCHANGED row
      BY <2>1
    <2>2. CASE \E present \in BOOLEAN : PollEntry(present)
      BY <1>1, <2>2, EntryWrite
    <2> QED BY <2>1, <2>2, AnswerWrite
  <1>3. HeldWhere' /\ ResumeOk'
    BY <1>1, <1>2, HeldStands DEF PaneInv
  <1>4. Young => UNCHANGED <<row, reg>> /\ poll'.pc \in {"idle", "asked"}
    <2>1. SUFFICES ASSUME Young
                   PROVE  UNCHANGED <<row, reg>> /\ poll'.pc \in {"idle", "asked"}
      OBVIOUS
    <2>2. row.status = "starting" /\ reg = NoEntry
      BY <2>1 DEF PaneInv, LaunchOk
    <2>3. ~Adoptable
      BY <2>2 DEF Adoptable
    <2>4. PICK present \in BOOLEAN : PollEntry(present)
      BY <2>3, AnswerWrite
    <2>5. poll' = Idle /\ UNCHANGED <<row, reg>>
      BY <1>1, <2>2, <2>4 DEF PollEntry
    <2> QED BY <2>5 DEF Idle
  <1>5. LaunchOk'
    BY <1>1, <1>4, LaunchStands DEF PaneInv, LaunchOk
  <1> QED BY <1>3, <1>5 DEF PaneInv

LEMMA PollLookPane ==
  ASSUME Types, PaneInv, PollLook
  PROVE  PaneInv'
  <1>1. UNCHANGED <<pane, launch, resume, halt, disc, server, tick, halted>> /\ poll.pc = "look"
    BY DEF PollLook, rest
  <1>2. UNCHANGED <<row, reg>> \/ MarkUnexpectedExit(poll.gen)
    BY DEF PollLook
  <1>3. row'.tmux = row.tmux
    BY <1>2, UnexpectedWrite
  <1>4. HeldWhere' /\ ResumeOk'
    BY <1>1, <1>3, HeldStands DEF PaneInv
  <1>5. ~Young
    BY <1>1 DEF PaneInv, LaunchOk
  <1>6. LaunchOk'
    BY <1>1, <1>5, LaunchStands DEF PaneInv, LaunchOk
  <1> QED BY <1>4, <1>6 DEF PaneInv

LEMMA CrashPane ==
  ASSUME Types, PaneInv, ~Crossings, NEW host \in BOOLEAN, Crash(host)
  PROVE  PaneInv'
  <1>1. /\ launch' = Idle /\ resume' = Idle /\ row' = row
        /\ pane' = IF host THEN [p \in Panes |-> "none"] ELSE pane
        /\ ~Unfinished
    BY DEF Crash
  <1>2. resume.pc # "publish"
    BY <1>1, Numbers DEF Unfinished, Types, SeenOk, Idle, Panes
  <1>3. HeldWhere' /\ ResumeOk'
    BY <1>1, <1>2, HeldMoves DEF PaneInv, Idle
  <1>4. LaunchOk'
    BY <1>1 DEF LaunchOk, Young, Ticket
  <1> QED BY <1>3, <1>4 DEF PaneInv

LEMMA BootPane ==
  ASSUME Types, PaneInv, Boot
  PROVE  PaneInv'
  <1>1. /\ launch = Idle /\ UNCHANGED <<row, pane, launch, resume>> /\ disc'.pc = "ask"
    BY DEF Boot, Types, DownIdle
  <1>2. HeldWhere' /\ ResumeOk'
    BY <1>1, HeldStands DEF PaneInv
  <1>3. LaunchOk'
    BY <1>1 DEF LaunchOk, Young, Ticket
  <1> QED BY <1>2, <1>3 DEF PaneInv

LEMMA DiscoverAnswerPane ==
  ASSUME Types, PaneInv, DiscoverAnswer
  PROVE  PaneInv'
  <1>1. disc # Idle /\ UNCHANGED <<launch, server>>
    BY DiscoverWrite DEF rest
  <1>2. launch = Idle
    BY <1>1 DEF PaneInv, LaunchOk
  <1>3. LaunchOk'
    BY <1>1, <1>2 DEF LaunchOk, Young, Ticket
  <1>4. CASE \/ disc' = Idle /\ UNCHANGED <<row, pane, resume>>
             \/ resume = Idle /\ pane' = KillPane(row.tmux) /\ UNCHANGED <<row, resume>>
             \/ resume = Idle /\ UNCHANGED <<row, pane, resume>>
    <2>1. \A q \in Panes : pane'[q] # "none" => pane[q] # "none"
      BY <1>4 DEF KillPane, Types
    <2>2. HeldWhere' /\ ResumeOk'
      BY <1>4, <2>1, HeldStands DEF PaneInv, Idle
    <2> QED BY <1>3, <2>2 DEF PaneInv
  <1>5. CASE resume = Idle /\ RecoverMissing /\ UNCHANGED pane
    <2>1. row'.tmux = row.tmux /\ resume'.pc \in {"idle", "probe"}
      BY <1>5, RecoverWrite DEF Idle
    <2>2. HeldWhere' /\ ResumeOk'
      BY <1>5, <2>1, HeldMoves DEF PaneInv, Idle
    <2> QED BY <1>3, <2>2 DEF PaneInv
  <1> QED BY <1>4, <1>5, DiscoverWrite

LEMMA InitPane == Init => PaneInv
  <1> SUFFICES ASSUME Init
               PROVE  PaneInv
    OBVIOUS
  <1>1. /\ resume = Idle /\ halt = Idle /\ poll = Idle /\ disc = Idle /\ reg = NoEntry
        /\ ~tick /\ ~halted /\ server = "up" /\ row.status = "starting" /\ row.tmux = LaunchPane
    BY DEF Init
  <1>2. \A p \in Panes : pane[p] = "none"
    BY DEF Init
  <1>3. HeldWhere /\ ResumeOk
    BY <1>1, <1>2, Numbers DEF HeldWhere, ResumeOk, Held, Idle
  <1>4. LaunchOk
    BY <1>1 DEF LaunchOk, Idle
  <1> QED BY <1>3, <1>4 DEF PaneInv

LEMMA NextPane ==
  ASSUME Types, PaneInv, ~Crossings, [Next]_vars
  PROVE  PaneInv'
  <1>1. CASE \E p \in Panes : AgentExits(p) \/ PaneDies(p)
    BY <1>1, FaultPane
  <1>2. CASE \E st \in Live : Hook(st)
    BY <1>2, HookPane
  <1>3. CASE Launching
    BY <1>3, LaunchSpawnPane, LaunchPublishPane, LaunchCleanPane, LaunchRecordPane DEF Launching
  <1>4. CASE Resuming
    BY <1>4, ResumeProbePane, ResumeLookPane, ResumeClearPane, ResumeSpawnPane,
       ResumePublishPane DEF Resuming
  <1>5. CASE Halting
    BY <1>5, HaltKillPane, HaltMarkPane DEF Halting
  <1>6. CASE Polling
    BY <1>6, PollAskPane, PollUnknownPane, PollAnswerPane, PollAdoptPane, PollLookPane,
       PollClassifyPane DEF Polling
  <1>7. CASE Discovery
    BY <1>7, DiscoverUnknownPane, DiscoverAnswerPane, DiscoverInterruptedPane,
       DiscoverLookPane DEF Discovery
  <1>8. CASE OperatorResumes \/ PollFallback
    BY <1>8, OperatorResumesPane, PollFallbackPane
  <1>9. CASE \E stop \in BOOLEAN : RequestHalt(stop)
    BY <1>9, RequestHaltPane
  <1>10. CASE SuperviseExit \/ SuperviseResume
    BY <1>10, SuperviseExitPane, SuperviseResumePane
  <1>11. CASE \E host \in BOOLEAN : Crash(host)
    BY <1>11, CrashPane
  <1>12. CASE Boot
    BY <1>12, BootPane
  <1>13. CASE UNCHANGED vars
    <2>1. UNCHANGED <<row, pane, server, reg, launch, resume, halt, poll, disc, tick, halted>>
      BY <1>13 DEF vars
    <2>2. HeldWhere' /\ ResumeOk'
      BY <2>1, HeldStands DEF PaneInv
    <2>3. LaunchOk'
      BY <2>1 DEF PaneInv, LaunchOk, Young, Ticket
    <2> QED BY <2>2, <2>3 DEF PaneInv
  <1> QED BY <1>1, <1>2, <1>3, <1>4, <1>5, <1>6, <1>7, <1>8, <1>9, <1>10, <1>11, <1>12, <1>13 DEF Next

\* Never two agents on one conversation, nor one in a pane that neither the row nor the job
\* that opened it names: startPane, recoverMissingSession, resumeNow and adoptLiveSession
\* together, while no crash falls between a new pane and the write that names it.
THEOREM OneAgentHolds == ~Crossings => (Spec => []OneAgent)
  <1> SUFFICES ASSUME ~Crossings
               PROVE  Spec => []OneAgent
    OBVIOUS
  <1>1. Init => Types /\ PaneInv
    BY InitTypes, InitPane
  <1>2. (Types /\ PaneInv) /\ [Next]_vars => (Types /\ PaneInv)'
    BY NextTypes, NextPane
  <1>3. Types /\ PaneInv => OneAgent
    <2> SUFFICES ASSUME Types, PaneInv
                 PROVE  OneAgent
      OBVIOUS
    <2>1. \A p \in Agents : Held(p) /\ p \in Panes
      BY DEF Agents, Held
    <2>2. \A p \in Agents : \/ p = row.tmux
                            \/ resume # Idle /\ p = resume.pane
      BY <2>1 DEF PaneInv, HeldWhere, Idle
    <2>3. \A p, q \in Agents : p = q
      BY <2>1 DEF PaneInv, HeldWhere, ResumeOk
    <2>4. Cardinality(Agents) <= 1
      <3>1. CASE Agents = {}
        BY <3>1, FS_EmptySet
      <3>2. CASE Agents # {}
        <4>1. PICK p : p \in Agents
          BY <3>2
        <4>2. Agents = {p}
          BY <2>3, <4>1
        <4>3. Cardinality({p}) = 1
          BY FS_Singleton
        <4> QED BY <4>2, <4>3
      <3> QED BY <3>1, <3>2
    <2> QED BY <2>2, <2>4 DEF OneAgent
  <1> QED BY <1>1, <1>2, <1>3, PTL DEF Spec

-----------------------------------------------------------------------------
(* What a Stop or a Kill leaves.                                           *)

RegOk == reg # NoEntry => reg.tmux = row.tmux
PollOk == poll # Idle => disc.pc \in {"idle", "ask"}
\* A row that says exited has no agent behind it, and nothing polls it.
ExitOk == row.status = "exited" => reg = NoEntry /\ pane[row.tmux] # "agent"
\* From the halt on, nothing in flight can make the row live again; once it is answered, the
\* pane has no agent and the registry no entry.
HaltOk ==
  /\ halt # Idle => halted /\ halt.tmux = row.tmux
  /\ halt.pc = "mark" => ~Held(row.tmux)
  /\ halted => /\ row.desired \in Gone
               /\ row.operator \/ row.status \in Gone
               /\ resume = Idle \/ Booting
               /\ poll.pc # "classify" /\ ~tick /\ ~Young
  /\ halted /\ halt = Idle => /\ reg = NoEntry /\ row.status \in Gone
                              /\ row.status = "exited" => row.operator
                              /\ pane[row.tmux] # "agent"

\* A discovery about to look at a pane of a row that ran finds it gone, once the row is done.
DiscOk == /\ disc.pc = "look" /\ disc.was.status # "exited"
          /\ row.status = "exited" \/ (halted /\ halt = Idle) \/ halt.pc = "mark"
          => ~Held(disc.was.tmux)
StopInv == RegOk /\ PollOk /\ ExitOk /\ HaltOk /\ DiscOk

\* A step that makes no row exited, no pane run and no job outlive a halt.
LEMMA StopStands ==
  ASSUME Types, StopInv, halt' = halt, halted' = halted, row'.tmux = row.tmux,
         row'.status = "exited" => row.status = "exited",
         halted => row'.desired \in Gone /\ (row'.operator \/ row'.status \in Gone),
         halted /\ halt = Idle => row'.status \in Gone /\ (row'.status = "exited" => row'.operator),
         reg' = NoEntry \/ (reg # NoEntry /\ reg'.tmux = reg.tmux),
         \A p \in Panes : pane'[p] # "none" => pane[p] # "none",
         \A p \in Panes : pane'[p] = "agent" => pane[p] = "agent",
         halted => (resume' = Idle \/ Booting') /\ poll'.pc # "classify" /\ ~tick' /\ ~Young',
         disc'.pc = "look" => disc' = disc,
         poll' # Idle => disc'.pc \in {"idle", "ask"}
  PROVE  StopInv'
  <1>1. row.tmux \in Panes /\ (disc.pc = "look" => disc.was.tmux \in Panes)
    BY DEF Types, Rows, SeenOk
  <1>2. RegOk' /\ PollOk'
    BY DEF StopInv, RegOk, PollOk
  <1>3. ExitOk'
    BY <1>1 DEF StopInv, ExitOk
  <1>4. HaltOk'
    BY <1>1 DEF StopInv, HaltOk, Held
  <1>5. DiscOk'
    BY <1>1 DEF StopInv, DiscOk, Held
  <1> QED BY <1>2, <1>3, <1>4, <1>5 DEF StopInv

\* A step after which the row runs, in a session nobody has halted.
LEMMA RunningStands ==
  ASSUME Types, StopInv, ~halted, UNCHANGED <<halt, halted>>, row'.status # "exited",
         reg' = NoEntry \/ reg'.tmux = row'.tmux,
         poll' # Idle => disc'.pc \in {"idle", "ask"}
  PROVE  StopInv'
  <1>1. halt = Idle
    BY DEF StopInv, HaltOk
  <1> QED BY <1>1 DEF StopInv, RegOk, PollOk, ExitOk, HaltOk, DiscOk, Idle

\* An exit the poll declares, over a pane without an agent.
LEMMA ExitStands ==
  ASSUME Types, StopInv, UNCHANGED <<halt, halted, pane, resume, tick, launch, disc>>,
         poll # Idle, poll' = Idle, reg # NoEntry,
         row'.tmux = row.tmux, row'.status = "exited", row'.desired = row.desired,
         reg' = NoEntry, pane[row.tmux] # "agent"
  PROVE  StopInv'
  <1>1. halted => halt # Idle
    BY DEF StopInv, HaltOk
  <1>2. disc.pc # "look"
    BY DEF StopInv, PollOk
  <1> QED BY <1>1, <1>2 DEF StopInv, RegOk, PollOk, ExitOk, HaltOk, DiscOk, Held, Booting, Young, Ticket, Gone, Idle

LEMMA FaultStop ==
  ASSUME Types, PaneInv, StopInv, ~Crossings, NEW p \in Panes, AgentExits(p) \/ PaneDies(p)
  PROVE  StopInv'
  <1>1. /\ halt' = halt /\ halted' = halted /\ row'.tmux = row.tmux
        /\ row'.status = "exited" => row.status = "exited"
    BY Numbers DEF AgentExits, PaneDies, Fault, KillPane, Held, Types
  <1>2. /\ halted => row'.desired \in Gone /\ (row'.operator \/ row'.status \in Gone)
        /\ halted /\ halt = Idle => row'.status \in Gone /\ (row'.status = "exited" => row'.operator)
    BY Numbers DEF AgentExits, PaneDies, Fault, KillPane, Held, Types, StopInv, HaltOk, Gone
  <1>3. reg' = NoEntry \/ (reg # NoEntry /\ reg'.tmux = reg.tmux)
    BY Numbers DEF AgentExits, PaneDies, Fault, KillPane, Held, Types
  <1>4. /\ \A q \in Panes : pane'[q] # "none" => pane[q] # "none"
        /\ \A q \in Panes : pane'[q] = "agent" => pane[q] = "agent"
    BY DEF AgentExits, PaneDies, Fault, KillPane, Held, Types
  <1>5. halted => (resume' = Idle \/ Booting') /\ poll'.pc # "classify" /\ ~tick' /\ ~Young'
    BY DEF AgentExits, PaneDies, Fault, KillPane, Held, StopInv, HaltOk, Booting, Young, Ticket, Idle, Types, LaunchTyped
  <1>6. /\ disc'.pc = "look" => disc' = disc
        /\ poll' # Idle => disc'.pc \in {"idle", "ask"}
    BY DEF AgentExits, PaneDies, Fault, KillPane, Held, StopInv, PollOk, Types, Idle
  <1> QED BY <1>1, <1>2, <1>3, <1>4, <1>5, <1>6, StopStands

LEMMA HookStop ==
  ASSUME Types, PaneInv, StopInv, ~Crossings, NEW st \in Live, Hook(st)
  PROVE  StopInv'
  <1>1. /\ halt' = halt /\ halted' = halted /\ row'.tmux = row.tmux
        /\ row'.status = "exited" => row.status = "exited"
    BY StatusWrite, Numbers DEF Hook, Live, Active, Statuses, rest, Types
  <1>2. /\ halted => row'.desired \in Gone /\ (row'.operator \/ row'.status \in Gone)
        /\ halted /\ halt = Idle => row'.status \in Gone /\ (row'.status = "exited" => row'.operator)
    BY StatusWrite, Numbers DEF Hook, Live, Active, Statuses, rest, Types, StopInv, HaltOk, Gone
  <1>3. reg' = NoEntry \/ (reg # NoEntry /\ reg'.tmux = reg.tmux)
    BY StatusWrite, Numbers DEF Hook, Live, Active, Statuses, rest, Types
  <1>4. /\ \A q \in Panes : pane'[q] # "none" => pane[q] # "none"
        /\ \A q \in Panes : pane'[q] = "agent" => pane[q] = "agent"
    BY DEF Hook, Live, Active, Statuses, rest, Types
  <1>5. halted => (resume' = Idle \/ Booting') /\ poll'.pc # "classify" /\ ~tick' /\ ~Young'
    BY DEF Hook, Live, Active, Statuses, rest, StopInv, HaltOk, Booting, Young, Ticket, Idle, Types, LaunchTyped
  <1>6. /\ disc'.pc = "look" => disc' = disc
        /\ poll' # Idle => disc'.pc \in {"idle", "ask"}
    BY DEF Hook, Live, Active, Statuses, rest, StopInv, PollOk, Types, Idle
  <1> QED BY <1>1, <1>2, <1>3, <1>4, <1>5, <1>6, StopStands

LEMMA LaunchCleanStop ==
  ASSUME Types, PaneInv, StopInv, ~Crossings, LaunchClean
  PROVE  StopInv'
  <1>1. /\ halt' = halt /\ halted' = halted /\ row'.tmux = row.tmux
        /\ row'.status = "exited" => row.status = "exited"
    BY Numbers DEF LaunchClean, KillPane, rest, Types
  <1>2. /\ halted => row'.desired \in Gone /\ (row'.operator \/ row'.status \in Gone)
        /\ halted /\ halt = Idle => row'.status \in Gone /\ (row'.status = "exited" => row'.operator)
    BY Numbers DEF LaunchClean, KillPane, rest, Types, StopInv, HaltOk, Gone
  <1>3. reg' = NoEntry \/ (reg # NoEntry /\ reg'.tmux = reg.tmux)
    BY Numbers DEF LaunchClean, KillPane, rest, Types
  <1>4. /\ \A q \in Panes : pane'[q] # "none" => pane[q] # "none"
        /\ \A q \in Panes : pane'[q] = "agent" => pane[q] = "agent"
    BY DEF LaunchClean, KillPane, rest, Types
  <1>5. halted => (resume' = Idle \/ Booting') /\ poll'.pc # "classify" /\ ~tick' /\ ~Young'
    BY DEF LaunchClean, KillPane, rest, StopInv, HaltOk, Booting, Young, Ticket, Idle, Types, LaunchTyped
  <1>6. /\ disc'.pc = "look" => disc' = disc
        /\ poll' # Idle => disc'.pc \in {"idle", "ask"}
    BY DEF LaunchClean, KillPane, rest, StopInv, PollOk, Types, Idle
  <1> QED BY <1>1, <1>2, <1>3, <1>4, <1>5, <1>6, StopStands

LEMMA LaunchRecordStop ==
  ASSUME Types, PaneInv, StopInv, ~Crossings, LaunchRecord
  PROVE  StopInv'
  <1>1. /\ halt' = halt /\ halted' = halted /\ row'.tmux = row.tmux
        /\ row'.status = "exited" => row.status = "exited"
    BY FailedWrite, Numbers DEF LaunchRecord, rest, Types
  <1>2. /\ halted => row'.desired \in Gone /\ (row'.operator \/ row'.status \in Gone)
        /\ halted /\ halt = Idle => row'.status \in Gone /\ (row'.status = "exited" => row'.operator)
    BY FailedWrite, Numbers DEF LaunchRecord, rest, Types, StopInv, HaltOk, Gone
  <1>3. reg' = NoEntry \/ (reg # NoEntry /\ reg'.tmux = reg.tmux)
    BY FailedWrite, Numbers DEF LaunchRecord, rest, Types
  <1>4. /\ \A q \in Panes : pane'[q] # "none" => pane[q] # "none"
        /\ \A q \in Panes : pane'[q] = "agent" => pane[q] = "agent"
    BY DEF LaunchRecord, rest, Types
  <1>5. halted => (resume' = Idle \/ Booting') /\ poll'.pc # "classify" /\ ~tick' /\ ~Young'
    BY DEF LaunchRecord, rest, StopInv, HaltOk, Booting, Young, Ticket, Idle, Types, LaunchTyped
  <1>6. /\ disc'.pc = "look" => disc' = disc
        /\ poll' # Idle => disc'.pc \in {"idle", "ask"}
    BY DEF LaunchRecord, rest, StopInv, PollOk, Types, Idle
  <1> QED BY <1>1, <1>2, <1>3, <1>4, <1>5, <1>6, StopStands

LEMMA SuperviseExitStop ==
  ASSUME Types, PaneInv, StopInv, ~Crossings, SuperviseExit
  PROVE  StopInv'
  <1>1. /\ halt' = halt /\ halted' = halted /\ row'.tmux = row.tmux
        /\ row'.status = "exited" => row.status = "exited"
    BY Numbers DEF SuperviseExit, Types
  <1>2. /\ halted => row'.desired \in Gone /\ (row'.operator \/ row'.status \in Gone)
        /\ halted /\ halt = Idle => row'.status \in Gone /\ (row'.status = "exited" => row'.operator)
    BY Numbers DEF SuperviseExit, Types, StopInv, HaltOk, Gone
  <1>3. reg' = NoEntry \/ (reg # NoEntry /\ reg'.tmux = reg.tmux)
    BY Numbers DEF SuperviseExit, Types
  <1>4. /\ \A q \in Panes : pane'[q] # "none" => pane[q] # "none"
        /\ \A q \in Panes : pane'[q] = "agent" => pane[q] = "agent"
    BY DEF SuperviseExit, Types
  <1>5. halted => (resume' = Idle \/ Booting') /\ poll'.pc # "classify" /\ ~tick' /\ ~Young'
    BY DEF SuperviseExit, StopInv, HaltOk, Booting, Young, Ticket, Idle, Types, LaunchTyped
  <1>6. /\ disc'.pc = "look" => disc' = disc
        /\ poll' # Idle => disc'.pc \in {"idle", "ask"}
    BY DEF SuperviseExit, StopInv, PollOk, Types, Idle
  <1> QED BY <1>1, <1>2, <1>3, <1>4, <1>5, <1>6, StopStands

LEMMA PollAskStop ==
  ASSUME Types, PaneInv, StopInv, ~Crossings, PollAsk
  PROVE  StopInv'
  <1>1. /\ halt' = halt /\ halted' = halted /\ row'.tmux = row.tmux
        /\ row'.status = "exited" => row.status = "exited"
    BY Numbers DEF PollAsk, rest, Types
  <1>2. /\ halted => row'.desired \in Gone /\ (row'.operator \/ row'.status \in Gone)
        /\ halted /\ halt = Idle => row'.status \in Gone /\ (row'.status = "exited" => row'.operator)
    BY Numbers DEF PollAsk, rest, Types, StopInv, HaltOk, Gone
  <1>3. reg' = NoEntry \/ (reg # NoEntry /\ reg'.tmux = reg.tmux)
    BY Numbers DEF PollAsk, rest, Types
  <1>4. /\ \A q \in Panes : pane'[q] # "none" => pane[q] # "none"
        /\ \A q \in Panes : pane'[q] = "agent" => pane[q] = "agent"
    BY DEF PollAsk, rest, Types
  <1>5. halted => (resume' = Idle \/ Booting') /\ poll'.pc # "classify" /\ ~tick' /\ ~Young'
    BY DEF PollAsk, rest, StopInv, HaltOk, Booting, Young, Ticket, Idle, Types, LaunchTyped
  <1>6. /\ disc'.pc = "look" => disc' = disc
        /\ poll' # Idle => disc'.pc \in {"idle", "ask"}
    BY DEF PollAsk, rest, StopInv, PollOk, Types, Idle
  <1> QED BY <1>1, <1>2, <1>3, <1>4, <1>5, <1>6, StopStands

LEMMA PollUnknownStop ==
  ASSUME Types, PaneInv, StopInv, ~Crossings, PollUnknown
  PROVE  StopInv'
  <1>1. /\ halt' = halt /\ halted' = halted /\ row'.tmux = row.tmux
        /\ row'.status = "exited" => row.status = "exited"
    BY MissWrite, Numbers DEF PollUnknown, Types
  <1>2. /\ halted => row'.desired \in Gone /\ (row'.operator \/ row'.status \in Gone)
        /\ halted /\ halt = Idle => row'.status \in Gone /\ (row'.status = "exited" => row'.operator)
    BY MissWrite, Numbers DEF PollUnknown, Types, StopInv, HaltOk, Gone
  <1>3. reg' = NoEntry \/ (reg # NoEntry /\ reg'.tmux = reg.tmux)
    BY MissWrite, Numbers DEF PollUnknown, Types
  <1>4. /\ \A q \in Panes : pane'[q] # "none" => pane[q] # "none"
        /\ \A q \in Panes : pane'[q] = "agent" => pane[q] = "agent"
    BY DEF PollUnknown, Types
  <1>5. halted => (resume' = Idle \/ Booting') /\ poll'.pc # "classify" /\ ~tick' /\ ~Young'
    BY DEF PollUnknown, StopInv, HaltOk, Booting, Young, Ticket, Idle, Types, LaunchTyped
  <1>6. /\ disc'.pc = "look" => disc' = disc
        /\ poll' # Idle => disc'.pc \in {"idle", "ask"}
    BY DEF PollUnknown, StopInv, PollOk, Types, Idle
  <1> QED BY <1>1, <1>2, <1>3, <1>4, <1>5, <1>6, StopStands

LEMMA PollClassifyStop ==
  ASSUME Types, PaneInv, StopInv, ~Crossings, PollClassify
  PROVE  StopInv'
  <1>1. /\ halt' = halt /\ halted' = halted /\ row'.tmux = row.tmux
        /\ row'.status = "exited" => row.status = "exited"
    BY StatusWrite, Numbers DEF PollClassify, Live, Active, Statuses, rest, Types
  <1>2. /\ halted => row'.desired \in Gone /\ (row'.operator \/ row'.status \in Gone)
        /\ halted /\ halt = Idle => row'.status \in Gone /\ (row'.status = "exited" => row'.operator)
    BY StatusWrite, Numbers DEF PollClassify, Live, Active, Statuses, rest, Types, StopInv, HaltOk, Gone
  <1>3. reg' = NoEntry \/ (reg # NoEntry /\ reg'.tmux = reg.tmux)
    BY StatusWrite, Numbers DEF PollClassify, Live, Active, Statuses, rest, Types
  <1>4. /\ \A q \in Panes : pane'[q] # "none" => pane[q] # "none"
        /\ \A q \in Panes : pane'[q] = "agent" => pane[q] = "agent"
    BY DEF PollClassify, Live, Active, Statuses, rest, Types
  <1>5. halted => (resume' = Idle \/ Booting') /\ poll'.pc # "classify" /\ ~tick' /\ ~Young'
    BY DEF PollClassify, Live, Active, Statuses, rest, StopInv, HaltOk, Booting, Young, Ticket, Idle, Types, LaunchTyped
  <1>6. /\ disc'.pc = "look" => disc' = disc
        /\ poll' # Idle => disc'.pc \in {"idle", "ask"}
    BY DEF PollClassify, Live, Active, Statuses, rest, StopInv, PollOk, Types, Idle
  <1> QED BY <1>1, <1>2, <1>3, <1>4, <1>5, <1>6, StopStands

LEMMA DiscoverUnknownStop ==
  ASSUME Types, PaneInv, StopInv, ~Crossings, DiscoverUnknown
  PROVE  StopInv'
  <1>1. /\ halt' = halt /\ halted' = halted /\ row'.tmux = row.tmux
        /\ row'.status = "exited" => row.status = "exited"
    BY Numbers DEF DiscoverUnknown, Discovering, Types
  <1>2. /\ halted => row'.desired \in Gone /\ (row'.operator \/ row'.status \in Gone)
        /\ halted /\ halt = Idle => row'.status \in Gone /\ (row'.status = "exited" => row'.operator)
    BY Numbers DEF DiscoverUnknown, Discovering, Types, StopInv, HaltOk, Gone
  <1>3. reg' = NoEntry \/ (reg # NoEntry /\ reg'.tmux = reg.tmux)
    BY Numbers DEF DiscoverUnknown, Discovering, Types
  <1>4. /\ \A q \in Panes : pane'[q] # "none" => pane[q] # "none"
        /\ \A q \in Panes : pane'[q] = "agent" => pane[q] = "agent"
    BY DEF DiscoverUnknown, Discovering, Types
  <1>5. halted => (resume' = Idle \/ Booting') /\ poll'.pc # "classify" /\ ~tick' /\ ~Young'
    BY DEF DiscoverUnknown, Discovering, StopInv, HaltOk, Booting, Young, Ticket, Idle, Types, LaunchTyped
  <1>6. /\ disc'.pc = "look" => disc' = disc
        /\ poll' # Idle => disc'.pc \in {"idle", "ask"}
    BY DEF DiscoverUnknown, Discovering, StopInv, PollOk, Types, Idle
  <1> QED BY <1>1, <1>2, <1>3, <1>4, <1>5, <1>6, StopStands

LEMMA DiscoverInterruptedStop ==
  ASSUME Types, PaneInv, StopInv, ~Crossings, DiscoverInterrupted
  PROVE  StopInv'
  <1>1. /\ halt' = halt /\ halted' = halted /\ row'.tmux = row.tmux
        /\ row'.status = "exited" => row.status = "exited"
    BY FailedWrite, Numbers DEF DiscoverInterrupted, rest, Types
  <1>2. /\ halted => row'.desired \in Gone /\ (row'.operator \/ row'.status \in Gone)
        /\ halted /\ halt = Idle => row'.status \in Gone /\ (row'.status = "exited" => row'.operator)
    BY FailedWrite, Numbers DEF DiscoverInterrupted, rest, Types, StopInv, HaltOk, Gone
  <1>3. reg' = NoEntry \/ (reg # NoEntry /\ reg'.tmux = reg.tmux)
    BY FailedWrite, Numbers DEF DiscoverInterrupted, rest, Types
  <1>4. /\ \A q \in Panes : pane'[q] # "none" => pane[q] # "none"
        /\ \A q \in Panes : pane'[q] = "agent" => pane[q] = "agent"
    BY DEF DiscoverInterrupted, rest, Types
  <1>5. halted => (resume' = Idle \/ Booting') /\ poll'.pc # "classify" /\ ~tick' /\ ~Young'
    BY DEF DiscoverInterrupted, rest, StopInv, HaltOk, Booting, Young, Ticket, Idle, Types, LaunchTyped
  <1>6. /\ disc'.pc = "look" => disc' = disc
        /\ poll' # Idle => disc'.pc \in {"idle", "ask"}
    BY DEF DiscoverInterrupted, rest, StopInv, PollOk, Types, Idle
  <1> QED BY <1>1, <1>2, <1>3, <1>4, <1>5, <1>6, StopStands

LEMMA BootStop ==
  ASSUME Types, PaneInv, StopInv, ~Crossings, Boot
  PROVE  StopInv'
  <1>1. /\ halt' = halt /\ halted' = halted /\ row'.tmux = row.tmux
        /\ row'.status = "exited" => row.status = "exited"
    BY Numbers DEF Boot, DownIdle, Types
  <1>2. /\ halted => row'.desired \in Gone /\ (row'.operator \/ row'.status \in Gone)
        /\ halted /\ halt = Idle => row'.status \in Gone /\ (row'.status = "exited" => row'.operator)
    BY Numbers DEF Boot, DownIdle, Types, StopInv, HaltOk, Gone
  <1>3. reg' = NoEntry \/ (reg # NoEntry /\ reg'.tmux = reg.tmux)
    BY Numbers DEF Boot, DownIdle, Types
  <1>4. /\ \A q \in Panes : pane'[q] # "none" => pane[q] # "none"
        /\ \A q \in Panes : pane'[q] = "agent" => pane[q] = "agent"
    BY DEF Boot, DownIdle, Types
  <1>5. halted => (resume' = Idle \/ Booting') /\ poll'.pc # "classify" /\ ~tick' /\ ~Young'
    BY DEF Boot, DownIdle, StopInv, HaltOk, Booting, Young, Ticket, Idle, Types, LaunchTyped
  <1>6. /\ disc'.pc = "look" => disc' = disc
        /\ poll' # Idle => disc'.pc \in {"idle", "ask"}
    BY DEF Boot, DownIdle, StopInv, PollOk, Types, Idle
  <1> QED BY <1>1, <1>2, <1>3, <1>4, <1>5, <1>6, StopStands

\* A resume asked for while no halt stands.
LEMMA AskedStop ==
  ASSUME Types, StopInv, ~halted, UNCHANGED <<row, pane, halt, disc>>, ~halted',
         NEW k \in {"operator", "settings", "auto"}, AskedResume(k),
         poll' = poll \/ poll' = Idle
  PROVE  StopInv'
  <1>1. (reg' = NoEntry <=> reg = NoEntry) /\ reg'.tmux = reg.tmux
    BY AskedWrite, StartWrite
  <1>2. halt = Idle
    BY DEF StopInv, HaltOk
  <1> QED BY <1>1, <1>2 DEF StopInv, RegOk, PollOk, ExitOk, HaltOk, DiscOk, Held, Idle

LEMMA SuperviseResumeStop ==
  ASSUME Types, StopInv, SuperviseResume
  PROVE  StopInv'
  <1>1. /\ tick /\ tick' = FALSE
        /\ UNCHANGED <<row, pane, launch, halt, poll, disc, halted>>
    BY DEF SuperviseResume
  <1>2. ~halted
    BY <1>1 DEF StopInv, HaltOk
  <1>3. CASE AskedResume("auto")
    BY <1>1, <1>2, <1>3, AskedStop
  <1>4. CASE UNCHANGED <<resume, reg, budget>>
    BY <1>1, <1>2, <1>4 DEF StopInv, RegOk, PollOk, ExitOk, HaltOk, DiscOk, Held
  <1> QED BY <1>3, <1>4 DEF SuperviseResume

LEMMA PollFallbackStop ==
  ASSUME Types, StopInv, PollFallback
  PROVE  StopInv'
  <1>1. /\ poll.pc = "classify" /\ poll' = Idle /\ AskedResume("auto")
        /\ UNCHANGED <<row, pane, launch, halt, disc, halted>>
    BY DEF PollFallback
  <1>2. ~halted
    BY <1>1 DEF StopInv, HaltOk
  <1> QED BY <1>1, <1>2, AskedStop

LEMMA OperatorResumesStop ==
  ASSUME Types, StopInv, ~Crossings, OperatorResumes
  PROVE  StopInv'
  <1>1. /\ halt = Idle /\ disc = Idle /\ halted' = FALSE
        /\ UNCHANGED <<row, pane, launch, halt, poll, disc>>
        /\ \E k \in {"operator", "settings"} : AskedResume(k)
    BY DEF OperatorResumes
  <1>2. PICK k \in {"operator", "settings"} : AskedResume(k)
    BY <1>1
  <1>3. (reg' = NoEntry <=> reg = NoEntry) /\ reg'.tmux = reg.tmux
    BY <1>2, AskedWrite, StartWrite
  <1> QED BY <1>1, <1>3 DEF StopInv, RegOk, PollOk, ExitOk, HaltOk, DiscOk, Held, Idle

\* A resume under a halt is a recovery at boot, which looks for the halt before each write.
LEMMA HaltedResume ==
  ASSUME Types, StopInv, halted, resume # Idle
  PROVE  RecoveryCancelled /\ resume.kind = "boot"
  BY DEF StopInv, HaltOk, Booting, RecoveryCancelled, Gone, Live

LEMMA RejectStop ==
  ASSUME Types, StopInv, resume # Idle, NEW code, RejectResume(code),
         UNCHANGED <<launch, halt, poll, tick, halted>>,
         \A p \in Panes : pane'[p] # "none" => pane'[p] = pane[p]
  PROVE  StopInv'
  <1>1. /\ resume' = Idle /\ row'.tmux = row.tmux /\ row' \in Rows
        /\ (reg' = NoEntry <=> reg = NoEntry) /\ reg'.tmux = reg.tmux
        /\ \/ resume.kind # "boot" /\ UNCHANGED <<row, disc>>
           \/ /\ resume.kind = "boot"
              /\ disc' = Idle \/ disc'.pc = "deferred"
              /\ row'.status = row.status \/ row'.status = "error"
              /\ \/ row'.desired = row.desired /\ row'.operator = row.operator
                 \/ row.desired \in Live /\ ~row.operator
    BY RejectWrite
  <1>2. resume.kind = "boot" => poll = Idle
    BY DEF Types, BootOk, Booting, StopInv, PollOk
  <1>3. row'.status = "exited" => row.status = "exited"
    BY <1>1
  <1>4. /\ halted => row'.desired \in Gone /\ (row'.operator \/ row'.status \in Gone)
        /\ halted /\ halt = Idle => row'.status \in Gone /\ (row'.status = "exited" => row'.operator)
    BY <1>1 DEF StopInv, HaltOk, Gone, Live
  <1>5. halted => (resume' = Idle \/ Booting') /\ poll'.pc # "classify" /\ ~tick' /\ ~Young'
    BY <1>1 DEF StopInv, HaltOk, Young, Ticket
  <1>6. /\ disc'.pc = "look" => disc' = disc
        /\ poll' # Idle => disc'.pc \in {"idle", "ask"}
    BY <1>1, <1>2 DEF StopInv, PollOk, Idle
  <1>7. /\ \A q \in Panes : pane'[q] # "none" => pane[q] # "none"
        /\ \A q \in Panes : pane'[q] = "agent" => pane[q] = "agent"
    OBVIOUS
  <1>8. reg' = NoEntry \/ (reg # NoEntry /\ reg'.tmux = reg.tmux)
    BY <1>1
  <1> QED BY <1>1, <1>3, <1>4, <1>5, <1>6, <1>7, <1>8, StopStands

\* A step of a resume that goes on.
LEMMA ResumeGoesOnStop ==
  ASSUME Types, StopInv, resume # Idle, resume' # Idle, resume'.kind = resume.kind,
         row'.tmux = row.tmux, row'.status = row.status,
         halted => row' = row, UNCHANGED <<reg, launch, halt, poll, disc, tick, halted>>,
         \A p \in Panes : pane'[p] # "none" => pane'[p] = pane[p]
  PROVE  StopInv'
  <1>1. /\ halted => row'.desired \in Gone /\ (row'.operator \/ row'.status \in Gone)
        /\ halted /\ halt = Idle => row'.status \in Gone /\ (row'.status = "exited" => row'.operator)
    BY DEF StopInv, HaltOk
  <1>2. halted => (resume' = Idle \/ Booting') /\ poll'.pc # "classify" /\ ~tick' /\ ~Young'
    BY DEF StopInv, HaltOk, Booting, Young, Ticket
  <1>3. /\ \A q \in Panes : pane'[q] # "none" => pane[q] # "none"
        /\ \A q \in Panes : pane'[q] = "agent" => pane[q] = "agent"
    OBVIOUS
  <1>4. poll' # Idle => disc'.pc \in {"idle", "ask"}
    BY DEF StopInv, PollOk
  <1>5. reg' = NoEntry \/ (reg # NoEntry /\ reg'.tmux = reg.tmux)
    OBVIOUS
  <1> QED BY <1>1, <1>2, <1>3, <1>4, <1>5, StopStands

LEMMA ResumeProbeStop ==
  ASSUME Types, StopInv, ResumeProbe
  PROVE  StopInv'
  <1>1. resume # Idle /\ UNCHANGED <<pane, launch, halt, poll, tick, halted>>
    BY ProbeWrite
  <1>2. CASE \E code \in {"cancelled", "unknown"} : RejectResume(code)
    BY <1>1, <1>2, RejectStop
  <1>3. CASE ~ \E code \in {"cancelled", "unknown"} : RejectResume(code)
    <2>1. UNCHANGED <<row, reg, disc>> /\ resume' # Idle /\ resume'.kind = resume.kind
      BY <1>3, ProbeWrite
    <2> QED BY <1>1, <2>1, ResumeGoesOnStop
  <1> QED BY <1>2, <1>3

LEMMA ResumeLookStop ==
  ASSUME Types, StopInv, ResumeLook
  PROVE  StopInv'
  <1>1. resume # Idle /\ UNCHANGED <<pane, launch, halt, poll, tick, halted>>
    BY ResumeLookWrite DEF rest
  <1>2. CASE RejectResume("unknown")
    BY <1>1, <1>2, RejectStop
  <1>3. CASE resume' = [resume EXCEPT !.pc = "clear"] /\ UNCHANGED <<row, reg, disc>>
    <2>1. resume' # Idle /\ resume'.kind = resume.kind
      BY <1>1, <1>3, ResumeInFlight DEF Idle
    <2> QED BY <1>1, <1>3, <2>1, ResumeGoesOnStop
  <1>4. CASE /\ row'.status \in Live /\ row'.tmux = row.tmux /\ reg'.tmux = row.tmux
             /\ IF resume.kind = "boot"
                THEN disc' = Idle /\ ~row.operator /\ (row.desired \in Live \/ row.status \in Live)
                ELSE disc' = disc
    <2>1. ~halted
      BY <1>1, <1>4, HaltedResume DEF StopInv, HaltOk, Gone, Live
    <2>2. poll' # Idle => disc'.pc \in {"idle", "ask"}
      BY <1>1, <1>4 DEF StopInv, PollOk, Idle
    <2> QED BY <1>1, <1>4, <2>1, <2>2, RunningStands DEF Live
  <1> QED BY <1>2, <1>3, <1>4, ResumeLookWrite

LEMMA ResumeClearStop ==
  ASSUME Types, StopInv, ResumeClear
  PROVE  StopInv'
  <1>1. resume # Idle /\ UNCHANGED <<launch, halt, poll, tick, halted>>
    BY ClearWrite DEF rest
  <1>2. CASE \E code \in {"cancelled", "refused"} : RejectResume(code) /\ UNCHANGED pane
    BY <1>1, <1>2, RejectStop
  <1>3. CASE /\ ~RecoveryCancelled
             /\ pane' = IF resume.alive THEN KillPane(resume.was.tmux) ELSE pane
             /\ row'.tmux = row.tmux /\ row'.status = row.status
             /\ resume' = [resume EXCEPT !.pc = "prepare"]
             /\ UNCHANGED <<reg, disc>>
    <2>1. resume' # Idle /\ resume'.kind = resume.kind
      BY <1>1, <1>3, ResumeInFlight DEF Idle
    <2>2. ~halted
      BY <1>1, <1>3, HaltedResume
    <2>3. \A p \in Panes : pane'[p] # "none" => pane'[p] = pane[p]
      BY <1>3 DEF KillPane, Types
    <2> QED BY <1>1, <1>3, <2>1, <2>2, <2>3, ResumeGoesOnStop
  <1> QED BY <1>2, <1>3, ClearWrite

LEMMA ResumeSpawnStop ==
  ASSUME Types, PaneInv, StopInv, ResumeSpawn
  PROVE  StopInv'
  <1>1. resume # Idle /\ UNCHANGED <<launch, halt, poll, tick, halted>>
    BY SpawnWrite DEF rest
  <1>2. CASE \E code \in {"cancelled", "refused"} : RejectResume(code) /\ UNCHANGED pane
    BY <1>1, <1>2, RejectStop
  <1>3. CASE /\ ~RecoveryCancelled
             /\ \E p \in Panes : /\ p \notin InUse
                                 /\ pane' = [pane EXCEPT ![p] = "agent"]
                                 /\ resume' = [resume EXCEPT !.pc = "publish", !.pane = p]
             /\ UNCHANGED <<row, reg, disc>>
    <2>1. PICK p \in Panes : p \notin InUse /\ pane' = [pane EXCEPT ![p] = "agent"]
      BY <1>3
    <2>2. p # row.tmux /\ (disc # Idle => p # disc.was.tmux)
      BY <2>1 DEF InUse
    <2>3. /\ row.tmux \in Panes /\ (disc.pc = "look" => disc.was.tmux \in Panes)
          /\ \A q \in Panes : q # p => pane'[q] = pane[q]
      BY <2>1 DEF Types, Rows, SeenOk
    <2>4. ~halted /\ halt = Idle
      BY <1>1, <1>3, HaltedResume DEF StopInv, HaltOk
    <2>5. RegOk' /\ PollOk' /\ ExitOk'
      BY <1>1, <1>3, <2>2, <2>3 DEF StopInv, RegOk, PollOk, ExitOk
    <2>6. HaltOk'
      BY <1>1, <2>4 DEF HaltOk, Idle
    <2>7. DiscOk'
      BY <1>1, <1>3, <2>2, <2>3, <2>4 DEF StopInv, DiscOk, Held, Idle
    <2> QED BY <2>5, <2>6, <2>7 DEF StopInv
  <1> QED BY <1>2, <1>3, SpawnWrite

LEMMA ResumePublishStop ==
  ASSUME Types, StopInv, ResumePublish
  PROVE  StopInv'
  <1>1. resume # Idle /\ UNCHANGED <<launch, halt, poll, tick, halted>>
    BY PublishWrite DEF rest
  <1>2. CASE pane' = KillPane(resume.pane) /\ RejectResume("cancelled")
    <2>1. \A p \in Panes : pane'[p] # "none" => pane'[p] = pane[p]
      BY <1>2 DEF KillPane, Types
    <2> QED BY <1>1, <1>2, <2>1, RejectStop
  <1>3. CASE /\ ~RecoveryCancelled
             /\ row'.status \in Live /\ row'.tmux = resume.pane /\ reg'.tmux = resume.pane
             /\ disc' = IF resume.kind = "boot" THEN Idle ELSE disc
    <2>1. ~halted
      BY <1>1, <1>3, HaltedResume
    <2>2. poll' # Idle => disc'.pc \in {"idle", "ask"}
      BY <1>1, <1>3 DEF StopInv, PollOk, Idle
    <2> QED BY <1>1, <1>3, <2>1, <2>2, RunningStands DEF Live
  <1> QED BY <1>2, <1>3, PublishWrite

LEMMA LaunchSpawnStop ==
  ASSUME Types, PaneInv, StopInv, LaunchSpawn
  PROVE  StopInv'
  <1>1. /\ launch # Idle /\ launch.pc = "setup"
        /\ UNCHANGED <<row, reg, resume, halt, poll, disc, server, tick, halted>>
    BY DEF LaunchSpawn, rest
  <1>2. disc = Idle
    BY <1>1 DEF PaneInv, LaunchOk
  <1>3. CASE LaunchActive
    <2>1. Young /\ row.status = "starting" /\ ~halted /\ reg = NoEntry
      BY <1>1, <1>3 DEF Young, Ticket, LaunchActive, PaneInv, LaunchOk
    <2> QED BY <1>1, <1>2, <2>1, RunningStands DEF Idle
  <1>4. CASE \E c \in {FALSE, ~LaunchActive} : FailLaunch(c) /\ UNCHANGED pane
    <2>1. launch \in [pc : {"setup", "publish", "clean", "record"}, cancelled : BOOLEAN,
                      owns : BOOLEAN]
      BY <1>1 DEF Types, LaunchTyped
    <2>2. pane' = pane /\ launch'.pc = "clean"
      BY <1>4, <2>1 DEF FailLaunch
    <2>3. ~Young'
      BY <2>2 DEF Young, Ticket
    <2> QED BY <1>1, <2>2, <2>3 DEF StopInv, RegOk, PollOk, ExitOk, HaltOk, DiscOk, Held, Booting
  <1> QED BY <1>3, <1>4 DEF LaunchSpawn

LEMMA LaunchPublishStop ==
  ASSUME Types, PaneInv, StopInv, LaunchPublish
  PROVE  StopInv'
  <1>1. /\ launch # Idle /\ launch.pc = "publish"
        /\ UNCHANGED <<pane, resume, halt, poll, disc, server, tick, halted>>
    BY DEF LaunchPublish, rest
  <1>2. disc = Idle
    BY <1>1 DEF PaneInv, LaunchOk
  <1>3. CASE LaunchActive
    <2>1. Young /\ ~halted
      BY <1>1, <1>3 DEF Young, Ticket, LaunchActive, PaneInv, LaunchOk
    <2>2. row' = Running(row, "working", LaunchPane) /\ reg' = Register(LaunchPane)
      BY <1>3 DEF LaunchPublish
    <2>3. row'.tmux = LaunchPane /\ row'.status = "working"
      BY <2>2, RunningWrite, Numbers DEF Types, Live
    <2>4. reg'.tmux = LaunchPane
      BY <2>2, RegisterTyped, Numbers
    <2> QED BY <1>1, <1>2, <2>1, <2>3, <2>4, RunningStands DEF Idle
  <1>4. CASE ~LaunchActive
    <2>1. launch \in [pc : {"setup", "publish", "clean", "record"}, cancelled : BOOLEAN,
                      owns : BOOLEAN]
      BY <1>1 DEF Types, LaunchTyped
    <2>2. FailLaunch(TRUE) /\ UNCHANGED <<row, reg>>
      BY <1>4 DEF LaunchPublish
    <2>3. launch'.pc = "clean"
      BY <2>1, <2>2 DEF FailLaunch
    <2>4. ~Young'
      BY <2>3 DEF Young, Ticket
    <2> QED BY <1>1, <2>2, <2>4 DEF StopInv, RegOk, PollOk, ExitOk, HaltOk, DiscOk, Held, Booting
  <1> QED BY <1>3, <1>4

LEMMA RequestHaltStop ==
  ASSUME Types, PaneInv, StopInv, ~Crossings, NEW stop \in BOOLEAN, RequestHalt(stop)
  PROVE  StopInv'
  <1>1. /\ UNCHANGED <<pane, server, reg, resume, poll, disc, tick>>
        /\ halt = Idle /\ halted' = TRUE /\ ~Heedless
        /\ launch' = IF Ticket THEN [launch EXCEPT !.cancelled = TRUE] ELSE launch
        /\ halt' = IF stop /\ row.status = "exited" THEN Idle ELSE [pc |-> "kill", tmux |-> row.tmux]
    BY DEF RequestHalt
  <1>2. /\ row'.status = row.status /\ row'.desired = "exited" /\ row'.operator
        /\ row'.tmux = row.tmux
    BY HaltRequestWrite
  <1>3. ~Young'
    <2>1. CASE Ticket
      <3>1. launch \in [pc : {"setup", "publish", "clean", "record"}, cancelled : BOOLEAN,
                        owns : BOOLEAN]
        BY <2>1 DEF Types, LaunchTyped, Ticket
      <3>2. launch'.cancelled = TRUE
        BY <1>1, <2>1, <3>1
      <3> QED BY <3>2 DEF Young
    <2>2. CASE ~Ticket
      BY <1>1, <2>2 DEF Young, Ticket
    <2> QED BY <2>1, <2>2
  <1>4. (resume = Idle \/ Booting) /\ ~tick /\ poll.pc # "classify"
    BY <1>1 DEF Heedless, Booting, Idle
  <1>5. RegOk' /\ PollOk' /\ ExitOk'
    BY <1>1, <1>2 DEF StopInv, RegOk, PollOk, ExitOk
  <1>6. \/ halt' = Idle /\ row.status = "exited"
        \/ halt' # Idle /\ halt'.pc = "kill" /\ halt'.tmux = row.tmux
    BY <1>1 DEF Idle
  <1>7. HaltOk'
    BY <1>1, <1>2, <1>3, <1>4, <1>6 DEF StopInv, ExitOk, HaltOk, Gone, Booting, Idle
  <1>8. DiscOk'
    BY <1>1, <1>2, <1>6 DEF StopInv, DiscOk, Held, Idle
  <1> QED BY <1>5, <1>7, <1>8 DEF StopInv

LEMMA HaltKillStop ==
  ASSUME Types, PaneInv, StopInv, HaltKill
  PROVE  StopInv'
  <1>1. /\ halt # Idle /\ pane' = KillPane(halt.tmux) /\ halt' = [halt EXCEPT !.pc = "mark"]
        /\ UNCHANGED <<row, reg, launch, resume, poll, disc, server, tick, halted>>
    BY DEF HaltKill, rest
  <1>2. halt' # Idle /\ halt'.pc = "mark" /\ halt'.tmux = halt.tmux
    BY <1>1 DEF Types, HaltTyped, Idle
  <1>3. halt.tmux = row.tmux /\ row.tmux \in Panes /\ halted
    BY <1>1 DEF StopInv, HaltOk, Types, Rows
  <1>4. pane'[row.tmux] = "none" /\ \A q \in Panes : q # row.tmux => pane'[q] = pane[q]
    BY <1>1, <1>3 DEF KillPane, Types
  <1>5. RegOk' /\ PollOk' /\ ExitOk'
    BY <1>1, <1>4 DEF StopInv, RegOk, PollOk, ExitOk
  <1>6. HaltOk'
    BY <1>1, <1>2, <1>3, <1>4 DEF StopInv, HaltOk, Held, Booting, Young, Ticket
  <1>7. disc.pc = "look" => pane'[disc.was.tmux] = "none"
    <2>1. SUFFICES ASSUME disc.pc = "look"
                   PROVE  pane'[disc.was.tmux] = "none"
      OBVIOUS
    <2>2. disc.was.tmux \in Panes
      BY <2>1 DEF Types, SeenOk
    <2>3. CASE disc.was.tmux = row.tmux
      BY <1>4, <2>3
    <2>4. CASE disc.was.tmux # row.tmux
      <3>1. ~Held(disc.was.tmux)
        BY <2>1, <2>2, <2>4 DEF PaneInv, HeldWhere, ResumeOk
      <3> QED BY <1>4, <2>2, <2>4, <3>1 DEF Held
    <2> QED BY <2>3, <2>4
  <1>8. DiscOk'
    BY <1>1, <1>7 DEF DiscOk, Held
  <1> QED BY <1>5, <1>6, <1>8 DEF StopInv

LEMMA HaltMarkStop ==
  ASSUME Types, PaneInv, StopInv, HaltMark
  PROVE  StopInv'
  <1>1. /\ halt # Idle /\ halt.pc = "mark" /\ halt' = Idle
        /\ UNCHANGED <<pane, launch, resume, poll, disc, server, tick, halted>>
    BY DEF HaltMark, rest
  <1>2. /\ row'.status = "exited" /\ row'.tmux = row.tmux
        /\ row'.desired = row.desired \/ row'.desired = "exited"
        /\ row.status # "exited" \/ reg = NoEntry => row'.operator
        /\ reg' = NoEntry
    BY HaltMarkWrite
  <1>3. halted /\ ~Held(row.tmux) /\ row.desired \in Gone
    BY <1>1 DEF StopInv, HaltOk
  <1>4. row'.operator
    BY <1>2 DEF StopInv, ExitOk
  <1>5. RegOk' /\ PollOk' /\ ExitOk'
    BY <1>1, <1>2, <1>3 DEF StopInv, RegOk, PollOk, ExitOk, Held
  <1>6. HaltOk'
    BY <1>1, <1>2, <1>3, <1>4 DEF StopInv, HaltOk, Held, Booting, Young, Ticket, Gone, Idle
  <1>7. DiscOk'
    BY <1>1 DEF StopInv, DiscOk, Held
  <1> QED BY <1>5, <1>6, <1>7 DEF StopInv

\* An inventory or a look that declares an exit has seen the pane without an agent.
LEMMA AnswerExit ==
  ASSUME Types, StopInv, ~Crossings, PollAnswer
  PROVE  \/ /\ row' = row
            /\ reg' = NoEntry \/ (reg # NoEntry /\ reg'.tmux = reg.tmux)
            /\ poll' = Idle \/ poll'.pc \in {"adopt", "look"}
         \/ /\ row'.status = "exited" /\ row'.tmux = row.tmux /\ row'.desired = row.desired
            /\ reg # NoEntry /\ reg' = NoEntry /\ poll' = Idle
            /\ ~Held(row.tmux) /\ resume = Idle
  <1>0. poll # Idle
    BY AnswerWrite
  <1>1. CASE UNCHANGED <<row, reg>> /\ poll'.pc = "adopt"
    <2>1. reg = NoEntry \/ reg # NoEntry
      OBVIOUS
    <2> QED BY <1>1, <2>1
  <1>2. CASE \E present \in BOOLEAN :
                  /\ PollEntry(present)
                  /\ \/ present = (reg.tmux # 0 /\ Held(reg.tmux))
                     \/ reg.missed = 0
    <2>1. PICK present \in BOOLEAN :
                  /\ PollEntry(present)
                  /\ \/ present = (reg.tmux # 0 /\ Held(reg.tmux))
                     \/ reg.missed = 0
      BY <1>2
    <2>2. /\ \/ poll' = Idle
             \/ poll'.pc = "look" /\ UNCHANGED row
          /\ row' \in Rows /\ row'.tmux = row.tmux
          /\ \/ UNCHANGED <<row, reg>>
             \/ UNCHANGED row /\ reg' = NoEntry /\ row.status = "exited"
             \/ UNCHANGED row /\ reg # NoEntry /\ reg' # NoEntry /\ reg'.tmux = reg.tmux
             \/ /\ ~present /\ reg # NoEntry /\ reg.missed = 1 /\ row.status # "exited" /\ resume = Idle
                /\ row'.status = "exited" /\ row'.desired = row.desired /\ ~row'.operator
                /\ reg' = NoEntry
      BY <1>0, <2>1, EntryWrite
    <2>3. CASE row' = row /\ (reg' = reg \/ reg' = NoEntry \/ (reg # NoEntry /\ reg'.tmux = reg.tmux))
      BY <2>2, <2>3
    <2>4. CASE /\ ~present /\ reg # NoEntry /\ reg.missed = 1 /\ row.status # "exited" /\ resume = Idle
               /\ row'.status = "exited" /\ row'.desired = row.desired /\ reg' = NoEntry
      <3>1. reg.tmux = row.tmux /\ reg.tmux # 0
        BY <2>4, GenTyped, Numbers DEF StopInv, RegOk, Panes
      <3>2. ~Held(row.tmux)
        <4>1. reg.missed # 0
          BY <2>4
        <4>2. present = (reg.tmux # 0 /\ Held(reg.tmux))
          BY <2>1, <4>1
        <4>3. Held(reg.tmux) => present
          BY <3>1, <4>2
        <4> QED BY <2>4, <3>1, <4>3
      <3>3. poll' = Idle
        BY <2>2, <2>4
      <3> QED BY <2>2, <2>4, <3>2, <3>3
    <2> QED BY <2>2, <2>3, <2>4
  <1> QED BY <1>1, <1>2, AnswerWrite

LEMMA LookExit ==
  ASSUME Types, PaneInv, StopInv, ~Crossings, PollLook
  PROVE  \/ /\ UNCHANGED <<row, reg>>
            /\ poll' = Idle \/ ~halted
         \/ /\ row'.status = "exited" /\ row'.tmux = row.tmux /\ row'.desired = row.desired
            /\ reg # NoEntry /\ reg' = NoEntry /\ poll' = Idle
            /\ pane[row.tmux] # "agent" /\ resume = Idle
  <1> DEFINE p == pane[IF reg = NoEntry THEN poll.was.tmux ELSE reg.tmux]
  <1>1. poll # Idle /\ poll.pc = "look"
    BY DEF PollLook
  <1>2. poll.was.tmux \in Panes /\ poll.gen # 0
    BY <1>1 DEF Types, SeenOk
  <1>3. CASE p = "agent" /\ halt = Idle /\ UNCHANGED <<row, reg>>
    <2>1. SUFFICES ASSUME halted
                   PROVE  FALSE
      BY <1>3
    <2>2. reg = NoEntry /\ pane[row.tmux] # "agent" /\ (resume = Idle \/ Booting)
      BY <1>3, <2>1 DEF StopInv, HaltOk
    <2>3. pane[poll.was.tmux] = "agent" /\ Held(poll.was.tmux)
      BY <1>3, <2>2 DEF Held
    <2>4. resume.pc = "publish"
      BY <1>2, <2>2, <2>3 DEF PaneInv, HeldWhere
    <2>5. disc.pc = "recover"
      BY <2>2, <2>4 DEF Types, BootOk, Idle
    <2> QED BY <1>1, <2>5 DEF StopInv, PollOk
  <1>4. CASE p = "shell" /\ poll' = Idle /\ MarkUnexpectedExit(poll.gen)
    <2>1. CASE UNCHANGED <<row, reg>>
      BY <1>4, <2>1
    <2>2. CASE ~UNCHANGED <<row, reg>>
      <3>1. /\ reg.gen = poll.gen /\ resume = Idle
            /\ row'.status = "exited" /\ row'.desired = row.desired /\ row'.tmux = row.tmux
            /\ reg' = NoEntry
        BY <1>4, <2>2, UnexpectedWrite
      <3>2. reg # NoEntry
        BY <1>2, <3>1 DEF NoEntry
      <3>3. pane[row.tmux] = "shell"
        BY <1>4, <3>2 DEF StopInv, RegOk
      <3> QED BY <1>4, <3>1, <3>2, <3>3
    <2> QED BY <2>1, <2>2
  <1>5. CASE p = "none" /\ poll' = Idle /\ UNCHANGED <<row, reg>>
    BY <1>5
  <1> QED BY <1>3, <1>4, <1>5 DEF PollLook

LEMMA PollAnswerStop ==
  ASSUME Types, PaneInv, StopInv, ~Crossings, PollAnswer
  PROVE  StopInv'
  <1>1. poll # Idle /\ UNCHANGED <<pane, launch, resume, halt, disc, tick, halted>>
    BY AnswerWrite
  <1>2. CASE /\ row' = row
             /\ reg' = NoEntry \/ (reg # NoEntry /\ reg'.tmux = reg.tmux)
             /\ poll' = Idle \/ poll'.pc \in {"adopt", "look"}
    <2>1. /\ halted => row'.desired \in Gone /\ (row'.operator \/ row'.status \in Gone)
          /\ halted /\ halt = Idle => row'.status \in Gone /\ (row'.status = "exited" => row'.operator)
      BY <1>2 DEF StopInv, HaltOk
    <2>2. halted => (resume' = Idle \/ Booting') /\ poll'.pc # "classify" /\ ~tick' /\ ~Young'
      BY <1>1, <1>2 DEF StopInv, HaltOk, Booting, Young, Ticket, Idle
    <2>3. poll' # Idle => disc'.pc \in {"idle", "ask"}
      BY <1>1 DEF StopInv, PollOk
    <2> QED BY <1>1, <1>2, <2>1, <2>2, <2>3, StopStands
  <1>3. CASE /\ row'.status = "exited" /\ row'.tmux = row.tmux /\ row'.desired = row.desired
             /\ reg # NoEntry /\ reg' = NoEntry /\ poll' = Idle
             /\ ~Held(row.tmux)
    BY <1>1, <1>3, ExitStands DEF Held
  <1> QED BY <1>2, <1>3, AnswerExit

LEMMA PollLookStop ==
  ASSUME Types, PaneInv, StopInv, ~Crossings, PollLook
  PROVE  StopInv'
  <1>1. poll # Idle /\ UNCHANGED <<pane, launch, resume, halt, disc, tick, halted>>
    BY DEF PollLook, rest
  <1>2. CASE UNCHANGED <<row, reg>> /\ (poll' = Idle \/ ~halted)
    <2>1. /\ halted => row'.desired \in Gone /\ (row'.operator \/ row'.status \in Gone)
          /\ halted /\ halt = Idle => row'.status \in Gone /\ (row'.status = "exited" => row'.operator)
      BY <1>2 DEF StopInv, HaltOk
    <2>2. halted => (resume' = Idle \/ Booting') /\ poll'.pc # "classify" /\ ~tick' /\ ~Young'
      BY <1>1, <1>2 DEF StopInv, HaltOk, Booting, Young, Ticket, Idle
    <2>3. poll' # Idle => disc'.pc \in {"idle", "ask"}
      BY <1>1 DEF StopInv, PollOk
    <2> QED BY <1>1, <1>2, <2>1, <2>2, <2>3, StopStands
  <1>3. CASE /\ row'.status = "exited" /\ row'.tmux = row.tmux /\ row'.desired = row.desired
             /\ reg # NoEntry /\ reg' = NoEntry /\ poll' = Idle
             /\ pane[row.tmux] # "agent"
    BY <1>1, <1>3, ExitStands
  <1> QED BY <1>2, <1>3, LookExit

LEMMA PollAdoptStop ==
  ASSUME Types, PaneInv, StopInv, PollAdopt
  PROVE  StopInv'
  <1>1. poll # Idle /\ UNCHANGED <<pane, launch, resume, halt, disc, tick, halted>>
    BY DEF PollAdopt, rest
  <1>2. poll' = Idle /\ row'.tmux = row.tmux
    BY PollAdoptWrite
  <1>3. CASE UNCHANGED <<row, reg>>
    BY <1>1, <1>2, <1>3 DEF StopInv, RegOk, PollOk, ExitOk, HaltOk, DiscOk, Held, Booting, Young,
       Ticket, Idle
  <1>4. CASE ~UNCHANGED <<row, reg>>
    <2>1. /\ row'.status \in Live
          /\ row.desired \in Live \/ row.status \in Live
          /\ reg'.tmux = row.tmux /\ ~row.operator
      BY <1>4, PollAdoptWrite
    <2>2. ~halted
      BY <2>1 DEF StopInv, HaltOk, Gone, Live
    <2> QED BY <1>1, <1>2, <2>1, <2>2, RunningStands DEF Live
  <1> QED BY <1>3, <1>4

LEMMA CrashStop ==
  ASSUME Types, StopInv, ~Crossings, NEW host \in BOOLEAN, Crash(host)
  PROVE  StopInv'
  <1>1. /\ launch' = Idle /\ resume' = Idle /\ row' = row /\ reg' = NoEntry /\ halt' = Idle
        /\ poll' = Idle /\ disc' = Idle /\ tick' = FALSE /\ halted' = halted
        /\ pane' = IF host THEN [p \in Panes |-> "none"] ELSE pane
        /\ halt = Idle
    BY DEF Crash, Unfinished
  <1>2. row.tmux \in Panes
    BY DEF Types, Rows
  <1>3. pane[row.tmux] # "agent" => pane'[row.tmux] # "agent"
    BY <1>1, <1>2
  <1> QED BY <1>1, <1>3 DEF StopInv, RegOk, PollOk, ExitOk, HaltOk, DiscOk, Young, Ticket, Idle

LEMMA DiscoverLookStop ==
  ASSUME Types, PaneInv, StopInv, DiscoverLook
  PROVE  StopInv'
  <1>1. disc.pc = "look" /\ UNCHANGED <<pane, launch, resume, halt, poll, tick, halted>>
    BY DEF DiscoverLook, rest
  <1>2. poll = Idle
    BY <1>1 DEF StopInv, PollOk
  <1>3. disc'.pc # "look" /\ row'.tmux = row.tmux
    BY DiscoverLookWrite DEF Idle
  <1>4. CASE UNCHANGED <<row, reg>>
    BY <1>1, <1>2, <1>3, <1>4 DEF StopInv, RegOk, PollOk, ExitOk, HaltOk, DiscOk, Held, Booting, Young,
       Ticket, Idle
  <1>5. CASE /\ row'.status \in Live
             /\ row.desired \in Live \/ row.status \in Live
             /\ reg'.tmux = row.tmux /\ ~row.operator
    <2>1. ~halted
      BY <1>5 DEF StopInv, HaltOk, Gone, Live
    <2> QED BY <1>1, <1>2, <1>3, <1>5, <2>1, RunningStands DEF Live
  <1>6. CASE /\ UNCHANGED row /\ reg'.tmux = disc.was.tmux
             /\ disc.was.status # "exited" /\ pane[disc.was.tmux] = "shell"
    <2>1. Held(disc.was.tmux) /\ disc.was.tmux \in Panes
      BY <1>1, <1>6 DEF Held, Types, SeenOk
    <2>2. disc.was.tmux = row.tmux
      BY <1>1, <2>1 DEF PaneInv, HeldWhere, ResumeOk
    <2>3. row.status # "exited" /\ ~(halted /\ halt = Idle)
      BY <1>1, <1>6, <2>1 DEF StopInv, DiscOk
    <2> QED BY <1>1, <1>2, <1>3, <1>6, <2>2, <2>3 DEF StopInv, RegOk, PollOk, ExitOk, HaltOk, DiscOk,
            Held, Booting, Young, Ticket
  <1> QED BY <1>4, <1>5, <1>6, DiscoverLookWrite

LEMMA DiscoverAnswerStop ==
  ASSUME Types, PaneInv, StopInv, DiscoverAnswer
  PROVE  StopInv'
  <1>1. poll = Idle /\ UNCHANGED <<launch, halt, poll, tick, halted>>
    BY DiscoverWrite DEF rest
  <1>2. ExpectedLive => ~halted /\ halt = Idle
    BY DEF ExpectedLive, StopInv, HaltOk, Gone, Active, Live
  <1>3. CASE disc' = Idle /\ UNCHANGED <<row, pane, resume, reg>>
    BY <1>1, <1>3 DEF StopInv, RegOk, PollOk, ExitOk, HaltOk, DiscOk, Held, Booting, Young,
       Ticket, Idle
  <1>4. CASE /\ ExpectedLive /\ row.status = "starting" /\ UNCHANGED <<row, reg>>
    BY <1>1, <1>2, <1>4, RunningStands DEF StopInv, RegOk
  <1>5. CASE /\ ExpectedLive /\ DiscStep("look") /\ UNCHANGED <<row, pane, resume, reg>>
    <2>1. disc'.was.status = row.status
      BY <1>5, DiscWrite, LookTyped DEF Types
    <2> QED BY <1>1, <1>2, <1>5, <2>1 DEF StopInv, RegOk, PollOk, ExitOk, HaltOk, DiscOk, Idle
  <1>6. CASE ExpectedLive /\ resume = Idle /\ RecoverMissing /\ UNCHANGED pane
    <2>1. /\ row'.tmux = row.tmux
          /\ (reg' = NoEntry <=> reg = NoEntry) /\ reg'.tmux = reg.tmux
          /\ row'.status = row.status \/ row'.status = "error"
          /\ disc' = Idle \/ disc'.pc = "recover"
      BY <1>6, RecoverWrite
    <2>2. disc'.pc # "look"
      BY <2>1 DEF Idle
    <2> QED BY <1>1, <1>2, <1>6, <2>1, <2>2 DEF StopInv, RegOk, PollOk, ExitOk, HaltOk, DiscOk, Idle
  <1> QED BY <1>3, <1>4, <1>5, <1>6, DiscoverWrite

LEMMA InitStop == Init => StopInv
  <1> SUFFICES ASSUME Init
               PROVE  StopInv
    OBVIOUS
  <1>1. /\ halt = Idle /\ poll = Idle /\ disc = Idle /\ reg = NoEntry
        /\ ~halted /\ row.status = "starting"
    BY DEF Init
  <1> QED BY <1>1 DEF StopInv, RegOk, PollOk, ExitOk, HaltOk, DiscOk, Idle

LEMMA NextStop ==
  ASSUME Types, PaneInv, StopInv, ~Crossings, [Next]_vars
  PROVE  StopInv'
  <1>1. CASE \E p \in Panes : AgentExits(p) \/ PaneDies(p)
    BY <1>1, FaultStop
  <1>2. CASE \E st \in Live : Hook(st)
    BY <1>2, HookStop
  <1>3. CASE Launching
    BY <1>3, LaunchSpawnStop, LaunchPublishStop, LaunchCleanStop, LaunchRecordStop DEF Launching
  <1>4. CASE Resuming
    BY <1>4, ResumeProbeStop, ResumeLookStop, ResumeClearStop, ResumeSpawnStop,
       ResumePublishStop DEF Resuming
  <1>5. CASE Halting
    BY <1>5, HaltKillStop, HaltMarkStop DEF Halting
  <1>6. CASE Polling
    BY <1>6, PollAskStop, PollUnknownStop, PollAnswerStop, PollAdoptStop, PollLookStop,
       PollClassifyStop DEF Polling
  <1>7. CASE Discovery
    BY <1>7, DiscoverUnknownStop, DiscoverAnswerStop, DiscoverInterruptedStop,
       DiscoverLookStop DEF Discovery
  <1>8. CASE OperatorResumes \/ PollFallback
    BY <1>8, OperatorResumesStop, PollFallbackStop
  <1>9. CASE \E stop \in BOOLEAN : RequestHalt(stop)
    BY <1>9, RequestHaltStop
  <1>10. CASE SuperviseExit \/ SuperviseResume
    BY <1>10, SuperviseExitStop, SuperviseResumeStop
  <1>11. CASE \E host \in BOOLEAN : Crash(host)
    BY <1>11, CrashStop
  <1>12. CASE Boot
    BY <1>12, BootStop
  <1>13. CASE UNCHANGED vars
    BY <1>13 DEF vars, StopInv, RegOk, PollOk, ExitOk, HaltOk, DiscOk, Held, Booting, Young, Ticket
  <1> QED BY <1>1, <1>2, <1>3, <1>4, <1>5, <1>6, <1>7, <1>8, <1>9, <1>10, <1>11, <1>12, <1>13 DEF Next

\* Once a Stop or Kill is answered and the launch or recovery it met has wound up, no agent
\* of the session runs and its row does not say one does, whatever the poll, the hooks,
\* discovery or the supervisor do after it (the stop and kill routes against every other job).
THEOREM StopHoldsAlways == ~Crossings => (Spec => []StopHolds)
  <1> SUFFICES ASSUME ~Crossings
               PROVE  Spec => []StopHolds
    OBVIOUS
  <1> DEFINE Inv == Types /\ PaneInv /\ StopInv
  <1>1. Init => Inv
    BY InitTypes, InitPane, InitStop
  <1>2. Inv /\ [Next]_vars => Inv'
    BY NextTypes, NextPane, NextStop
  <1>3. Inv => StopHolds
    <2> SUFFICES ASSUME Types, PaneInv, StopInv, halted, halt = Idle, resume = Idle
                 PROVE  Agents = {} /\ row.status \notin Active
      BY DEF StopHolds
    <2>1. pane[row.tmux] # "agent" /\ row.status \in Gone
      BY DEF StopInv, HaltOk
    <2>2. \A p \in Panes : pane[p] = "agent" => p = row.tmux
      BY DEF PaneInv, HeldWhere, Held, Idle
    <2> QED BY <2>1, <2>2 DEF Agents, Gone, Active, Live
  <1> HIDE DEF Inv
  <1> QED BY <1>1, <1>2, <1>3, PTL DEF Spec

\* What an exit is declared over.
LEMMA ExitsAreSeen ==
  ASSUME Types, PaneInv, StopInv, ~Crossings, [Next]_vars,
         row.status \in Live, row'.status = "exited", halt = Idle
  PROVE  pane[row.tmux] # "agent" /\ resume = Idle
  <1>0. row.status # "exited"
    BY DEF Live
  <1> USE <1>0
  <1>1. CASE \E p \in Panes : AgentExits(p) \/ PaneDies(p)
    BY <1>1 DEF AgentExits, PaneDies, Fault
  <1>2. CASE \E st \in Live : Hook(st)
    BY <1>2, StatusWrite DEF Hook, Types, Live, Active, Statuses
  <1>3. CASE Launching
    <2>1. CASE LaunchSpawn \/ LaunchClean
      BY <2>1 DEF LaunchSpawn, LaunchClean
    <2>2. CASE LaunchPublish
      <3>1. row' = row \/ row' = Running(row, "working", LaunchPane)
        BY <2>2 DEF LaunchPublish
      <3> QED BY <3>1, RunningWrite, Numbers DEF Types, Live
    <2>3. CASE LaunchRecord
      BY <2>3, FailedWrite DEF LaunchRecord, Types
    <2> QED BY <1>3, <2>1, <2>2, <2>3 DEF Launching
  <1>4. CASE Resuming
    <2>1. \A code : RejectResume(code) /\ resume # Idle => row'.status # "exited"
      BY RejectWrite
    <2>2. CASE ResumeProbe
      BY <2>1, <2>2, ProbeWrite
    <2>3. CASE ResumeLook
      BY <2>1, <2>3, ResumeLookWrite DEF Live
    <2>4. CASE ResumeClear
      BY <2>1, <2>4, ClearWrite
    <2>5. CASE ResumeSpawn
      BY <2>1, <2>5, SpawnWrite
    <2>6. CASE ResumePublish
      BY <2>1, <2>6, PublishWrite DEF Live
    <2> QED BY <1>4, <2>2, <2>3, <2>4, <2>5, <2>6 DEF Resuming
  <1>5. CASE Halting
    BY <1>5 DEF Halting, HaltKill, HaltMark
  <1>6. CASE Polling
    <2>1. CASE PollAsk \/ PollUnknown
      BY <2>1 DEF PollAsk, PollUnknown
    <2>2. CASE PollAnswer
      BY <2>2, AnswerExit DEF Held
    <2>3. CASE PollAdopt
      BY <2>3, PollAdoptWrite DEF Live
    <2>4. CASE PollLook
      BY <2>4, LookExit
    <2>5. CASE PollClassify
      <3>1. PICK st \in Live : row' = IF st # poll.was.status THEN SetStatus(row, st) ELSE row
        BY <2>5 DEF PollClassify
      <3> QED BY <3>1, StatusWrite DEF Types, Live, Active, Statuses
    <2> QED BY <1>6, <2>1, <2>2, <2>3, <2>4, <2>5 DEF Polling
  <1>7. CASE Discovery
    <2>1. CASE DiscoverUnknown
      BY <2>1 DEF DiscoverUnknown
    <2>2. CASE DiscoverAnswer
      BY <2>2, DiscoverWrite, RecoverWrite
    <2>3. CASE DiscoverInterrupted
      BY <2>3, FailedWrite DEF DiscoverInterrupted, Types
    <2>4. CASE DiscoverLook
      BY <2>4, DiscoverLookWrite DEF Live
    <2> QED BY <1>7, <2>1, <2>2, <2>3, <2>4 DEF Discovery
  <1>8. CASE OperatorResumes \/ PollFallback \/ SuperviseExit \/ SuperviseResume \/ Boot
    BY <1>8 DEF OperatorResumes, PollFallback, SuperviseExit, SuperviseResume, Boot
  <1>9. CASE \E stop \in BOOLEAN : RequestHalt(stop)
    BY <1>9, HaltRequestWrite
  <1>10. CASE \E host \in BOOLEAN : Crash(host)
    BY <1>10 DEF Crash
  <1>11. CASE UNCHANGED vars
    BY <1>11 DEF vars
  <1> QED BY <1>1, <1>2, <1>3, <1>4, <1>5, <1>6, <1>7, <1>8, <1>9, <1>10, <1>11 DEF Next

\* A session is not declared exited over a running agent, nor while a relaunch is under way,
\* but by its Stop or Kill: confirmedMissing, the generation check of markUnexpectedExit and
\* the relaunch flag together.
THEOREM NoFalseExitEver == ~Crossings => (Spec => NoFalseExit)
  <1> SUFFICES ASSUME ~Crossings
               PROVE  Spec => NoFalseExit
    OBVIOUS
  <1> DEFINE Inv == Types /\ PaneInv /\ StopInv
             Step == row.status \in Live /\ row'.status = "exited" /\ halt = Idle
                       => Agents = {} /\ resume = Idle
  <1>1. Init => Inv
    BY InitTypes, InitPane, InitStop
  <1>2. Inv /\ [Next]_vars => Inv'
    BY NextTypes, NextPane, NextStop
  <1>3. Inv /\ [Next]_vars => [Step]_vars
    <2> SUFFICES ASSUME Types, PaneInv, StopInv, [Next]_vars,
                        row.status \in Live, row'.status = "exited", halt = Idle
                 PROVE  Agents = {} /\ resume = Idle
      OBVIOUS
    <2>1. pane[row.tmux] # "agent" /\ resume = Idle
      BY ExitsAreSeen
    <2>2. \A p \in Panes : pane[p] = "agent" => p = row.tmux
      BY <2>1 DEF PaneInv, HeldWhere, Held, Idle
    <2> QED BY <2>1, <2>2 DEF Agents
  <1> HIDE DEF Inv
  <1>4. Spec => [][Step]_vars
    BY <1>1, <1>2, <1>3, PTL DEF Spec
  <1> QED BY <1>4 DEF NoFalseExit

=============================================================================
