--------------------------- MODULE SessionLifecycle ---------------------------
(***************************************************************************)
(* The life of one session on its own device (src/src/sessions.js): the    *)
(* durable row, the tmux panes that may run its agent, the server's memory *)
(* of it, and everything that moves them -- launch, resume, Stop and Kill, *)
(* the status poll, lifecycle hooks, the supervisor's exit recovery, the   *)
(* quota fallback, a crash of the server and the reconciliation at boot.   *)
(*                                                                         *)
(* A step runs from one await of a handler to the next; the awaits inside  *)
(* startPane are one step, which leaves an agent in the pane or nothing.   *)
(* The row survives a crash of the server and so do the panes (tmux is     *)
(* another process); a reboot of the host takes the panes too.             *)
(*                                                                         *)
(* An operator whose comment calls it faulty is a variant that plays no    *)
(* part in Spec: a slip the code could have made, which breaks a property. *)
(***************************************************************************)
EXTENDS Naturals, FiniteSets

CONSTANTS
    MaxPanes,      \* bound: pane names in use at a time
    MaxCrashes,    \* bound: crashes and reboots
    MaxHalts,      \* bound: Stop and Kill requests
    MaxUnknown,    \* bound: inventories and probes tmux fails to answer in full
    MaxResumes,    \* bound: relaunches the operator, the supervisor or a fallback asks for
    MaxFaults,     \* bound: agents that exit and panes that die by themselves
    MaxAttempts,   \* BOOT_RECOVERY_MAX_ATTEMPTS
    Crossings      \* whether a halt may cross a job that does not look for one, a crash may
                   \* fall inside a halt or between a new pane and the write naming it, and
                   \* an inventory may come back short twice in a row

ASSUME LifecycleAssumption ==
    /\ {MaxPanes, MaxCrashes, MaxHalts, MaxUnknown, MaxResumes, MaxFaults,
        MaxAttempts} \subseteq Nat
    /\ MaxPanes > 0 /\ MaxAttempts > 0
    /\ Crossings \in BOOLEAN

VARIABLES
    row,        \* the durable sessions row: status, desired_status, whether runtime_status is
                \* 'stopping', whether status_reason is the operator's, tmux, recovery_attempts
    pane,       \* what each pane holds: nothing, a shell prompt, or the agent
    server,     \* "down" or "up"
    reg,        \* the registry entry of the poll loop, or NoEntry
    launch,     \* completeLaunch / failLaunch in flight
    resume,     \* resumeNow in flight (pendingResumes holds at most one)
    halt,       \* the Stop or Kill handler in flight
    poll,       \* pollOnce in flight
    disc,       \* discover in flight, or deferred
    tick,       \* the supervisor has judged an exit and awaits its evidence
    budget,     \* what is left of the bounds
    halted      \* history: Stop or Kill is the operator's last word

vars == <<row, pane, server, reg, launch, resume, halt, poll, disc, tick, budget, halted>>
rest == <<server, tick, budget, halted>>

Panes == 1..MaxPanes
LaunchPane == 1                            \* paneName of reserveLaunch
Live == {"working", "waiting"}
Active == Live \cup {"starting"}           \* ACTIVE_SESSION_STATUSES
Statuses == Active \cup {"exited", "error"}
Rows == [status : Statuses, desired : Statuses, stopping : BOOLEAN, operator : BOOLEAN,
         tmux : Panes, attempts : 0..MaxAttempts]
Generations == 1..4
\* What a handler still holds of the row it read before an await.
Nothing == [tmux |-> 0, desired |-> "error", status |-> "error"]
Look(r) == [tmux |-> r.tmux, desired |-> r.desired, status |-> r.status]
Seen == [tmux : Panes \cup {0}, desired : Statuses, status : Statuses]
NoEntry == [gen |-> 0, tmux |-> 0, relaunching |-> FALSE, missed |-> 0]
Idle == [pc |-> "idle"]

TypeOK ==
    /\ row \in Rows
    /\ pane \in [Panes -> {"none", "shell", "agent"}]
    /\ server \in {"down", "up"}
    /\ \/ reg = NoEntry
       \/ reg \in [gen : Generations, tmux : Panes, relaunching : BOOLEAN, missed : 0..1]
    /\ \/ launch = Idle
       \/ launch \in [pc : {"setup", "publish", "clean", "record"}, cancelled : BOOLEAN,
                      owns : BOOLEAN]
    /\ \/ resume = Idle
       \/ resume \in [pc : {"probe", "look", "clear", "prepare", "publish"},
                      kind : {"operator", "settings", "auto", "boot"},
                      entry : Generations \cup {0}, was : Seen, alive : BOOLEAN,
                      pane : Panes \cup {0}]
    /\ halt = Idle \/ halt \in [pc : {"kill", "mark"}, tmux : Panes]
    /\ \/ poll = Idle
       \/ poll \in [pc : {"asked", "adopt", "look", "classify"}, gen : Generations \cup {0},
                    was : Seen]
    /\ \/ disc = Idle
       \/ disc \in [pc : {"ask", "interrupted", "look", "recover", "deferred"}, was : Seen,
                    attempts : 0..MaxAttempts]
    /\ tick \in BOOLEAN
    /\ budget \in [crashes : 0..MaxCrashes, halts : 0..MaxHalts, unknown : 0..MaxUnknown,
                  resumes : 0..MaxResumes, faults : 0..MaxFaults]
    /\ halted \in BOOLEAN

-----------------------------------------------------------------------------
(* Helpers.                                                                *)

\* A name nothing refers to: slug + four random characters in startPane.
InUse == {row.tmux, reg.tmux}
         \cup {p \in Panes : pane[p] # "none"}
         \cup (IF launch = Idle THEN {} ELSE {LaunchPane})
         \cup (IF halt = Idle THEN {} ELSE {halt.tmux})
         \cup (IF resume = Idle THEN {} ELSE {resume.was.tmux, resume.pane})
         \cup (IF poll = Idle THEN {} ELSE {poll.was.tmux})
         \cup (IF disc = Idle THEN {} ELSE {disc.was.tmux})
FreshPane == CHOOSE p \in Panes : p \notin InUse

\* register(s): an entry is an object, told apart by its identity.
FreshGen == CHOOSE g \in Generations :
                g \notin {reg.gen, IF poll = Idle THEN 0 ELSE poll.gen,
                          IF resume = Idle THEN 0 ELSE resume.entry}
Register(p) == IF reg = NoEntry
               THEN [gen |-> FreshGen, tmux |-> p, relaunching |-> FALSE, missed |-> 0]
               ELSE [reg EXCEPT !.tmux = p]

\* store.updateSession with a status: an active one is also the intent, unless given.
SetStatus(r, st) == [r EXCEPT !.status = st, !.stopping = FALSE, !.operator = FALSE,
                              !.desired = IF st \in Active THEN st ELSE @]
\* The write that publishes a running agent (launch, resume, adoption).
Running(r, st, p) == [SetStatus(r, st) EXCEPT !.attempts = 0, !.tmux = p]
Failed(r) == [SetStatus(r, "error") EXCEPT !.desired = "error"]

ExpectedLive == row.desired \in Active     \* listExpectedLiveSessions
Held(p) == pane[p] # "none"
KillPane(p) == [pane EXCEPT ![p] = "none"]

\* markExited, for the holder of entry g: an exit keeps the intent.
MarkExited(byOperator) ==
    /\ row' = IF row.status = "exited" THEN row
              ELSE [row EXCEPT !.status = "exited", !.stopping = FALSE, !.operator = byOperator]
    /\ reg' = NoEntry
\* Faulty: neither the generation nor the relaunch under way is looked at.
MarkExitUnguarded(g) == IF reg # NoEntry THEN MarkExited(FALSE) ELSE UNCHANGED <<row, reg>>
MarkUnexpectedExit(g) ==
    IF reg.gen = g /\ ~reg.relaunching /\ resume = Idle
    THEN MarkExited(FALSE) ELSE UNCHANGED <<row, reg>>

\* adoptLiveSession: reconcile with a pane that runs, unless the intent moved on.
AdoptedStatus(explicit) == CASE row.desired \in Live -> row.desired
                             [] row.desired \notin Live /\ explicit -> "working"
                             [] OTHER -> row.status
\* Faulty: the intent is not checked again after the observation.
MayAdoptUnchecked(was, explicit) == row.tmux = was.tmux
MayAdopt(was, explicit) ==
    /\ row.tmux = was.tmux
    /\ row.desired = was.desired
    /\ explicit \/ ~row.operator
    /\ ~row.stopping
    /\ AdoptedStatus(explicit) \in Live
Adopted(explicit) == Running(row, AdoptedStatus(explicit), row.tmux)

-----------------------------------------------------------------------------
(* The agent, and the tools around it.                                     *)

Fault == /\ budget.faults > 0
         /\ budget' = [budget EXCEPT !.faults = @ - 1]
         /\ UNCHANGED <<row, server, reg, launch, resume, halt, poll, disc, tick, halted>>
AgentExits(p) == pane[p] = "agent" /\ pane' = [pane EXCEPT ![p] = "shell"] /\ Fault
PaneDies(p) == Held(p) /\ pane' = KillPane(p) /\ Fault

\* noteAgentStatus: a lifecycle hook of a running agent reports that it works or waits.
Hook(st) == /\ server = "up"
            /\ \E p \in Panes : pane[p] = "agent"
            /\ row.status \in Live \ {st}
            /\ Crossings \/ halt = Idle
            /\ row' = SetStatus(row, st)
            /\ UNCHANGED <<pane, reg, launch, resume, halt, poll, disc, rest>>

-----------------------------------------------------------------------------
(* Launch: completeLaunch and failLaunch.  The row is already reserved.    *)

Ticket == launch # Idle /\ launch.pc \in {"setup", "publish"}
LaunchActive == ~launch.cancelled /\ row.status = "starting"   \* assertLaunchActive

\* failLaunch up to its await: the ticket goes, and `current` is read here.
FailLaunch(cancelledError) ==
    launch' = [launch EXCEPT !.pc = "clean",
                             !.owns = ~cancelledError /\ row.status = "starting"]

\* Setup awaits the host sample, the preflight, the worktree and startPane; any may fail.
LaunchSpawn ==
    /\ launch # Idle /\ launch.pc = "setup"
    /\ \/ /\ LaunchActive
          /\ launch' = [launch EXCEPT !.pc = "publish"]
          /\ pane' = [pane EXCEPT ![LaunchPane] = "agent"]
       \/ \E cancelledError \in {FALSE, ~LaunchActive} :
              FailLaunch(cancelledError) /\ UNCHANGED pane
    /\ UNCHANGED <<row, reg, resume, halt, poll, disc, rest>>

LaunchPublish ==
    /\ launch # Idle /\ launch.pc = "publish"
    /\ IF LaunchActive
       THEN /\ row' = Running(row, "working", LaunchPane)
            /\ reg' = Register(LaunchPane)
            /\ launch' = Idle
       ELSE /\ FailLaunch(TRUE)
            /\ UNCHANGED <<row, reg>>
    /\ UNCHANGED <<pane, resume, halt, poll, disc, rest>>

LaunchClean ==
    /\ launch # Idle /\ launch.pc = "clean"
    /\ pane' = KillPane(LaunchPane)
    /\ launch' = IF launch.owns THEN [launch EXCEPT !.pc = "record"] ELSE Idle
    /\ UNCHANGED <<row, reg, resume, halt, poll, disc, rest>>

LaunchRecord ==
    /\ launch # Idle /\ launch.pc = "record"
    /\ row' = Failed(row)
    /\ launch' = Idle
    /\ UNCHANGED <<pane, reg, resume, halt, poll, disc, rest>>

-----------------------------------------------------------------------------
(* Resume.  "settings" (a model or flag change) and "auto" (supervisor,    *)
(* quota fallback) pass force; "boot" is recoverMissingSession.            *)

Forced == resume.kind \in {"settings", "auto"}

\* recoveryCancelled: only the recovery at boot looks for a newer intent.
RecoveryCancelled ==
    /\ resume.kind = "boot"
    /\ row.tmux # resume.was.tmux \/ row.desired \notin Live \/ row.operator

\* resume(): single flight, and the entry is marked relaunching.
StartResume(kind) ==
    /\ resume = Idle
    /\ resume' = [pc |-> "probe", kind |-> kind, entry |-> reg.gen, was |-> Look(row),
                  alive |-> FALSE, pane |-> 0]
    /\ reg' = IF reg = NoEntry THEN reg ELSE [reg EXCEPT !.relaunching = TRUE]

AskedResume(kind) == /\ budget.resumes > 0
                     /\ budget' = [budget EXCEPT !.resumes = @ - 1]
                     /\ StartResume(kind)

OperatorResumes ==
    /\ server = "up"
    /\ \/ row.status \in {"exited", "error"} /\ AskedResume("operator")
       \/ row.status \in Live /\ Held(row.tmux) /\ AskedResume("settings")
    /\ halted' = FALSE
    /\ Crossings \/ (halt = Idle /\ disc = Idle)
    /\ UNCHANGED <<row, pane, server, launch, halt, poll, disc, tick>>

\* Faulty: the .finally does not hand the entry back to the poll.
RejectResumeSilently(code) ==
    /\ resume' = Idle /\ UNCHANGED <<row, reg>>
    /\ disc' = IF resume.kind = "boot" THEN Idle ELSE disc

\* The promise rejects: .finally of resume(), then the caller's catch -- for a boot
\* recovery, that of recoverMissingSession, which keeps the intent while retries remain.
RejectResume(code) ==
    /\ resume' = Idle
    /\ reg' = IF reg # NoEntry /\ reg.gen = resume.entry THEN [reg EXCEPT !.relaunching = FALSE]
              ELSE reg
    /\ LET boot == resume.kind = "boot"
           skipped == code = "cancelled" \/ row.desired \notin Live \/ row.operator
       IN  CASE ~boot -> UNCHANGED <<row, disc>>
             [] boot /\ skipped -> UNCHANGED row /\ disc' = Idle
             [] boot /\ ~skipped /\ code = "unknown" ->
                    /\ row' = [row EXCEPT !.attempts = disc.attempts]
                    /\ disc' = [pc |-> "deferred", was |-> Nothing, attempts |-> 0]
             [] OTHER -> /\ row' = [SetStatus(row, "error") EXCEPT
                                       !.desired = disc.was.desired, !.attempts = disc.attempts + 1]
                         /\ disc' = Idle

\* sessionLiveness.probe: alive, missing, or no answer.
ResumeProbe ==
    /\ resume # Idle /\ resume.pc = "probe"
    /\ IF RecoveryCancelled
       THEN RejectResume("cancelled") /\ UNCHANGED budget
       ELSE \/ /\ resume' = [resume EXCEPT !.was = Look(row), !.alive = Held(row.tmux),
                                           !.pc = IF Held(row.tmux) /\ ~Forced THEN "look" ELSE "clear"]
               /\ UNCHANGED <<row, reg, disc, budget>>
            \/ /\ budget.unknown > 0
               /\ budget' = [budget EXCEPT !.unknown = @ - 1]
               /\ RejectResume("unknown")
    /\ UNCHANGED <<pane, server, launch, halt, poll, tick, halted>>

\* paneCmd, when the old pane is there: an agent in it is adopted, never relaunched.
ResumeLook ==
    /\ resume # Idle /\ resume.pc = "look"
    /\ LET p == pane[resume.was.tmux]
           adopt == p = "agent" /\ MayAdopt(resume.was, resume.kind # "boot")
       IN  CASE adopt -> /\ row' = Adopted(resume.kind # "boot")
                         /\ reg' = [Register(row.tmux) EXCEPT !.relaunching = FALSE]
                         /\ resume' = Idle
                         /\ disc' = IF resume.kind = "boot" THEN Idle ELSE disc
             [] ~adopt /\ p = "shell" ->
                    resume' = [resume EXCEPT !.pc = "clear"] /\ UNCHANGED <<row, reg, disc>>
             [] OTHER -> RejectResume("unknown")
    /\ UNCHANGED <<pane, launch, halt, poll, rest>>

Durable == CASE resume.kind = "boot" -> disc.was.desired          \* preserveStatus
             [] resume.kind # "boot" /\ resume.was.desired \in Live -> resume.was.desired
             [] OTHER -> "working"

\* Faulty: the old pane is left to end by itself.
ResumeClearKeepsPane ==
    /\ resume # Idle /\ resume.pc = "clear" /\ ~RecoveryCancelled
    /\ row' = [row EXCEPT !.desired = Durable, !.stopping = FALSE, !.operator = FALSE]
    /\ resume' = [resume EXCEPT !.pc = "prepare"]
    /\ UNCHANGED <<pane, reg, launch, halt, poll, disc, rest>>

\* Refusals that cost nothing (disk, missing transcript, archive); then the old pane goes and
\* the intent is written.
ResumeClear ==
    /\ resume # Idle /\ resume.pc = "clear"
    /\ \/ /\ ~RecoveryCancelled
          /\ pane' = IF resume.alive THEN KillPane(resume.was.tmux) ELSE pane
          /\ row' = [row EXCEPT !.desired = Durable, !.stopping = FALSE, !.operator = FALSE]
          /\ resume' = [resume EXCEPT !.pc = "prepare"]
          /\ UNCHANGED <<reg, disc>>
       \/ RejectResume(IF RecoveryCancelled THEN "cancelled" ELSE "refused") /\ UNCHANGED pane
    /\ UNCHANGED <<launch, halt, poll, rest>>

\* The worktree and the launch manifest are verified, and startPane opens a pane under a
\* new random name that only this call knows.
ResumeSpawn ==
    /\ resume # Idle /\ resume.pc = "prepare"
    /\ \/ /\ ~RecoveryCancelled
          /\ Panes \ InUse # {}
          /\ pane' = [pane EXCEPT ![FreshPane] = "agent"]
          /\ resume' = [resume EXCEPT !.pc = "publish", !.pane = FreshPane]
          /\ UNCHANGED <<row, reg, disc>>
       \/ RejectResume(IF RecoveryCancelled THEN "cancelled" ELSE "refused") /\ UNCHANGED pane
    /\ UNCHANGED <<launch, halt, poll, rest>>

\* The registry generation is replaced, so that a poll under way retires nothing.
ResumePublish ==
    /\ resume # Idle /\ resume.pc = "publish"
    /\ IF RecoveryCancelled
       THEN pane' = KillPane(resume.pane) /\ RejectResume("cancelled")
       ELSE /\ \E st \in {Durable, "working"} : row' = Running(row, st, resume.pane)
            /\ reg' = [gen |-> FreshGen, tmux |-> resume.pane, relaunching |-> FALSE, missed |-> 0]
            /\ resume' = Idle
            /\ disc' = IF resume.kind = "boot" THEN Idle ELSE disc
            /\ UNCHANGED pane
    /\ UNCHANGED <<launch, halt, poll, rest>>

-----------------------------------------------------------------------------
(* Stop and Kill.                                                          *)

\* A job that has read the row, will write it or open a pane, and never looks for a halt.
Heedless == \/ resume # Idle /\ resume.kind # "boot"
            \/ tick
            \/ poll # Idle /\ poll.pc \in {"look", "classify"}

\* The intent is durable before the process is touched.  Kill treats an exited row alike.
RequestHalt(stop) ==
    /\ server = "up" /\ halt = Idle /\ budget.halts > 0
    /\ Crossings \/ ~Heedless
    /\ launch' = IF Ticket THEN [launch EXCEPT !.cancelled = TRUE] ELSE launch
    /\ row' = [row EXCEPT !.desired = "exited", !.stopping = row.status # "exited",
                          !.operator = TRUE, !.attempts = 0]
    /\ halt' = IF stop /\ row.status = "exited" THEN Idle ELSE [pc |-> "kill", tmux |-> row.tmux]
    /\ budget' = [budget EXCEPT !.halts = @ - 1]
    /\ halted' = TRUE
    /\ UNCHANGED <<pane, server, reg, resume, poll, disc, tick>>

\* After ctrl-c (which the agent may answer with a hook), the pane of the row read at the start.
HaltKill ==
    /\ halt # Idle /\ halt.pc = "kill"
    /\ pane' = KillPane(halt.tmux)
    /\ halt' = [halt EXCEPT !.pc = "mark"]
    /\ UNCHANGED <<row, reg, launch, resume, poll, disc, rest>>

HaltMark ==
    /\ halt # Idle /\ halt.pc = "mark"
    /\ IF reg # NoEntry THEN MarkExited(TRUE)
       ELSE /\ row' = [row EXCEPT !.status = "exited", !.desired = "exited", !.stopping = FALSE,
                                  !.operator = TRUE]
            /\ UNCHANGED reg
    /\ halt' = Idle
    /\ UNCHANGED <<pane, launch, resume, poll, disc, rest>>

-----------------------------------------------------------------------------
(* The supervisor: maybeRecoverUnexpectedExit.                             *)

\* An exit no operator asked for, seen by an enabled supervisor; the evidence is awaited.
SuperviseExit ==
    /\ server = "up" /\ ~tick
    /\ row.status = "exited" /\ ~row.operator
    /\ halt = Idle         \* Stop has disabled the grant, or the kill event is on record
    /\ tick' = TRUE
    /\ UNCHANGED <<row, pane, server, reg, launch, resume, halt, poll, disc, budget,
                   halted>>

\* Nothing of the row or the grant is read again before the forced resume.
SuperviseResume ==
    /\ tick
    /\ tick' = FALSE
    /\ \/ AskedResume("auto")
       \/ UNCHANGED <<resume, reg, budget>>
    /\ Crossings \/ halt = Idle
    /\ UNCHANGED <<row, pane, server, launch, halt, poll, disc, halted>>

-----------------------------------------------------------------------------
(* pollOnce.                                                               *)

\* Rows the poll may reattach: expected live, present, and unregistered or exited.
Adoptable == /\ ExpectedLive /\ row.status # "starting" /\ resume = Idle /\ ~Ticket
             /\ Held(row.tmux)
             /\ reg = NoEntry \/ row.status = "exited"

\* The entries are snapshotted, and the inventory asked.  A deferred discovery has failed in
\* this tick, and comes first in the next.
PollAsk ==
    /\ server = "up" /\ poll = Idle
    /\ disc # Idle => disc.pc = "deferred"
    /\ disc' = IF disc = Idle THEN Idle ELSE [disc EXCEPT !.pc = "ask"]
    /\ poll' = [pc |-> "asked", gen |-> reg.gen, was |-> Nothing]
    /\ UNCHANGED <<row, pane, reg, launch, resume, halt, rest>>

\* No answer at all breaks the absence streak and ends the tick.
PollUnknown ==
    /\ poll # Idle /\ poll.pc = "asked" /\ budget.unknown > 0
    /\ budget' = [budget EXCEPT !.unknown = @ - 1]
    /\ reg' = IF reg # NoEntry /\ reg.gen = poll.gen THEN [reg EXCEPT !.missed = 0] ELSE reg
    /\ poll' = Idle
    /\ UNCHANGED <<row, pane, server, launch, resume, halt, disc, tick, halted>>

\* One entry: a stale generation, an exited row and a relaunch are passed over; an absence
\* counts, and the second in a row retires the entry.
PollEntry(present) ==
    LET skip == reg = NoEntry \/ reg.gen # poll.gen
        exited == ~skip /\ row.status = "exited"
        busy == ~skip /\ ~exited /\ reg.relaunching
        absent == ~skip /\ ~exited /\ ~busy /\ ~present
    IN  /\ poll' = IF skip \/ exited \/ busy \/ absent THEN Idle
                   ELSE [poll EXCEPT !.pc = "look", !.was = Look(row)]
        /\ CASE skip \/ busy -> UNCHANGED <<row, reg>>
             [] exited -> reg' = NoEntry /\ UNCHANGED row
             [] absent /\ reg.missed = 1 -> MarkUnexpectedExit(poll.gen)
             [] absent /\ reg.missed = 0 -> reg' = [reg EXCEPT !.missed = 1] /\ UNCHANGED row
             [] OTHER -> reg' = [reg EXCEPT !.missed = 0] /\ UNCHANGED row

\* The inventory; a frame may come back short (a second in a row is taken for an exit).
PollAnswer ==
    /\ poll # Idle /\ poll.pc = "asked"
    /\ \/ /\ IF Adoptable
             THEN poll' = [poll EXCEPT !.pc = "adopt", !.was = Look(row)] /\ UNCHANGED <<row, reg>>
             ELSE PollEntry(reg.tmux # 0 /\ Held(reg.tmux))
          /\ UNCHANGED budget
       \/ /\ budget.unknown > 0
          /\ Crossings \/ reg.missed = 0
          /\ budget' = [budget EXCEPT !.unknown = @ - 1]
          /\ PollEntry(FALSE)
    /\ UNCHANGED <<pane, server, launch, resume, halt, disc, tick, halted>>

\* An entry of an exited row that was just adopted goes on to the loop of the entries; the
\* entry a fresh adoption makes is not in the snapshot.
PollAdopt ==
    /\ poll # Idle /\ poll.pc = "adopt"
    /\ IF pane[poll.was.tmux] = "agent" /\ MayAdopt(poll.was, FALSE)
       THEN row' = Adopted(FALSE) /\ reg' = Register(row.tmux)
       ELSE UNCHANGED <<row, reg>>
    /\ poll' = Idle
    /\ UNCHANGED <<pane, launch, resume, halt, disc, rest>>

\* paneCmd: an agent is classified later, a shell past its grace is an exit to the prompt (a
\* pane startPane has returned holds its agent here, so the grace itself has no step).
PollLook ==
    /\ poll # Idle /\ poll.pc = "look"
    /\ LET p == pane[IF reg = NoEntry THEN poll.was.tmux ELSE reg.tmux] IN
       \/ /\ p = "agent" /\ (Crossings \/ halt = Idle)
          /\ poll' = [poll EXCEPT !.pc = "classify"]
          /\ UNCHANGED <<row, reg>>
       \/ p = "shell" /\ poll' = Idle /\ MarkUnexpectedExit(poll.gen)
       \/ p = "none" /\ poll' = Idle /\ UNCHANGED <<row, reg>>
    /\ UNCHANGED <<pane, launch, resume, halt, disc, rest>>

\* applyStatus compares with the row read before the awaits and writes without a guard.
PollClassify ==
    /\ poll # Idle /\ poll.pc = "classify"
    /\ \E st \in Live : row' = IF st # poll.was.status THEN SetStatus(row, st) ELSE row
    /\ poll' = Idle
    /\ UNCHANGED <<pane, reg, launch, resume, halt, disc, rest>>

\* The usage-limit fallback relaunches on another model, whatever the row says by now.
PollFallback ==
    /\ poll # Idle /\ poll.pc = "classify"
    /\ AskedResume("auto")
    /\ poll' = Idle
    /\ Crossings \/ halt = Idle
    /\ UNCHANGED <<row, pane, server, launch, halt, disc, tick, halted>>

-----------------------------------------------------------------------------
(* Crash, boot and discover.                                               *)

\* What no boot completes: a halt, and a pane that no durable write names yet.
Unfinished == halt # Idle \/ (resume # Idle /\ resume.pane # 0)

Crash(host) ==
    /\ server = "up" /\ budget.crashes > 0
    /\ Crossings \/ ~Unfinished
    /\ server' = "down"
    /\ pane' = IF host THEN [p \in Panes |-> "none"] ELSE pane
    /\ reg' = NoEntry
    /\ launch' = Idle /\ resume' = Idle /\ halt' = Idle /\ poll' = Idle /\ disc' = Idle
    /\ tick' = FALSE
    /\ budget' = [budget EXCEPT !.crashes = @ - 1]
    /\ UNCHANGED <<row, halted>>

Boot == /\ server = "down"
        /\ server' = "up"
        /\ disc' = [pc |-> "ask", was |-> Nothing, attempts |-> 0]
        /\ UNCHANGED <<row, pane, reg, launch, resume, halt, poll, tick, budget,
                   halted>>

Discovering == disc # Idle /\ disc.pc \in {"ask", "deferred"}
DiscStep(pc) == disc' = [pc |-> pc, was |-> Look(row), attempts |-> row.attempts]

\* A deferred discovery is asked again by the next poll tick, before anything else of it.
DiscoverUnknown ==
    /\ Discovering /\ poll = Idle /\ budget.unknown > 0
    /\ budget' = [budget EXCEPT !.unknown = @ - 1]
    /\ disc' = [disc EXCEPT !.pc = "deferred"]
    /\ UNCHANGED <<row, pane, server, reg, launch, resume, halt, poll, tick, halted>>

\* Faulty: the attempts are counted and never compared.
RecoverMissingForever ==
    IF row.desired \notin Live \/ row.operator THEN disc' = Idle /\ UNCHANGED <<row, resume, reg>>
    ELSE /\ row' = [row EXCEPT !.attempts = @ + 1, !.stopping = FALSE]
         /\ StartResume("boot")
         /\ DiscStep("recover")

\* recoverMissingSession up to its resume: bounded attempts, never against an operator.
RecoverMissing ==
    CASE row.desired \notin Live \/ row.operator ->
            disc' = Idle /\ UNCHANGED <<row, resume, reg>>
      [] row.desired \in Live /\ ~row.operator /\ row.attempts = MaxAttempts ->
            row' = Failed(row) /\ disc' = Idle /\ UNCHANGED <<resume, reg>>
      [] OTHER -> /\ row' = [row EXCEPT !.attempts = @ + 1, !.stopping = FALSE]
                  /\ StartResume("boot")
                  /\ DiscStep("recover")

DiscoverAnswer ==
    /\ Discovering /\ poll = Idle
    /\ LET mine == ExpectedLive /\ resume = Idle /\ ~(row.status = "starting" /\ Ticket) IN
       CASE ~mine -> disc' = Idle /\ UNCHANGED <<row, pane, resume, reg>>
         [] mine /\ row.status = "starting" ->
                /\ pane' = KillPane(row.tmux)
                /\ DiscStep("interrupted")
                /\ UNCHANGED <<row, resume, reg>>
         [] mine /\ row.status # "starting" /\ Held(row.tmux) ->
                DiscStep("look") /\ UNCHANGED <<row, pane, resume, reg>>
         [] OTHER -> RecoverMissing /\ UNCHANGED pane
    /\ UNCHANGED <<launch, halt, poll, rest>>

\* A queued launch lived only in the process that died.
DiscoverInterrupted ==
    /\ disc # Idle /\ disc.pc = "interrupted"
    /\ row' = Failed(row)
    /\ disc' = Idle
    /\ UNCHANGED <<pane, reg, launch, resume, halt, poll, rest>>

DiscoverLook ==
    /\ disc # Idle /\ disc.pc = "look"
    /\ LET p == pane[disc.was.tmux] IN
       /\ disc' = IF p = "none" THEN [pc |-> "deferred", was |-> Nothing, attempts |-> 0] ELSE Idle
       /\ IF p = "agent" /\ MayAdopt(disc.was, FALSE)
          THEN row' = Adopted(FALSE) /\ reg' = Register(row.tmux)
          ELSE /\ reg' = IF p = "shell" /\ disc.was.status # "exited"
                         THEN Register(disc.was.tmux) ELSE reg
               /\ UNCHANGED row
    /\ UNCHANGED <<pane, launch, resume, halt, poll, rest>>

-----------------------------------------------------------------------------
Init ==   \* reserveLaunch has written the row
    /\ row = [status |-> "starting", desired |-> "starting", stopping |-> FALSE,
              operator |-> FALSE, tmux |-> LaunchPane, attempts |-> 0]
    /\ pane = [p \in Panes |-> "none"]
    /\ server = "up"
    /\ reg = NoEntry
    /\ launch = [pc |-> "setup", cancelled |-> FALSE, owns |-> FALSE]
    /\ resume = Idle /\ halt = Idle /\ poll = Idle /\ disc = Idle
    /\ tick = FALSE
    /\ budget = [crashes |-> MaxCrashes, halts |-> MaxHalts, unknown |-> MaxUnknown,
                 resumes |-> MaxResumes, faults |-> MaxFaults]
    /\ halted = FALSE

Launching == LaunchSpawn \/ LaunchPublish \/ LaunchClean \/ LaunchRecord
Resuming == ResumeProbe \/ ResumeLook \/ ResumeClear \/ ResumeSpawn \/ ResumePublish
Halting == HaltKill \/ HaltMark
Polling == PollAsk \/ PollUnknown \/ PollAnswer \/ PollAdopt \/ PollLook \/ PollClassify
Discovery == DiscoverUnknown \/ DiscoverAnswer \/ DiscoverInterrupted \/ DiscoverLook

Next ==
    \/ \E p \in Panes : AgentExits(p) \/ PaneDies(p)
    \/ \E st \in Live : Hook(st)
    \/ Launching \/ Resuming \/ Halting \/ Polling \/ Discovery
    \/ OperatorResumes \/ PollFallback
    \/ \E stop \in BOOLEAN : RequestHalt(stop)
    \/ SuperviseExit \/ SuperviseResume
    \/ \E host \in BOOLEAN : Crash(host)
    \/ Boot

Spec == Init /\ [][Next]_vars

\* Promises settle, timers fire and launchd restarts the server.
FairSpec == /\ Spec
            /\ WF_vars(Launching) /\ WF_vars(Resuming) /\ WF_vars(Halting)
            /\ WF_vars(Polling) /\ WF_vars(Discovery) /\ WF_vars(Boot)

-----------------------------------------------------------------------------
(* Properties.                                                             *)

Agents == {p \in Panes : pane[p] = "agent"}

\* Once a Stop or Kill is answered and the launch or recovery it met has wound up, no agent of
\* the session runs and the row does not say that one does, whatever the poll, the hooks,
\* discovery or the supervisor do after it.
StopHolds ==
    halted /\ halt = Idle /\ launch = Idle /\ resume = Idle
        => Agents = {} /\ row.status \notin Active

\* Never two agents on one conversation, nor one in a pane that neither the row nor the job
\* that opened it names: the launch, every kind of resume and adoption together.
OneAgent ==
    /\ Cardinality(Agents) <= 1
    /\ \A p \in Agents : \/ p = row.tmux
                         \/ resume # Idle /\ p = resume.pane
                         \/ launch # Idle /\ p = LaunchPane

\* A session is not declared exited over a running agent, but by its Stop or Kill: not by
\* an inventory that came back short, a poll that a relaunch overtook, or the gap between the
\* old pane and the new.
NoFalseExit ==
    [][row.status \in Live /\ row'.status = "exited" /\ halt = Idle
        => Agents = {} /\ resume = Idle]_vars

\* A row that claims a session runs, or starts, with no agent behind it does not stay so while
\* anything still answers for it: its launch finishes, the poll retires its entry, or the
\* next boot relaunches it, gives up after MaxAttempts, or lets it go.
Answered == reg # NoEntry \/ launch # Idle \/ disc # Idle \/ server = "down"
RowTellsTruth ==
    (row.status \in Active /\ Agents = {} /\ Answered) ~> (row.status \notin Active \/ Agents # {})

\* What docs/supervisor-scenario-gate.md says of the supervisor ("never auto-resume ... against
\* the explicit state"), and the comments of the Stop route of the supervisor and of the next
\* boot: no relaunch nobody asked for begins after a Stop.  It does, when Crossings is TRUE.
NoResumeAgainstStop ==
    [][halted /\ resume = Idle => resume' = Idle \/ resume'.kind \notin {"auto", "boot"}]_vars

=============================================================================
