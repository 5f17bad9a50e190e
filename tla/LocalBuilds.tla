----------------------------- MODULE LocalBuilds -----------------------------
(***************************************************************************)
(* Local build jobs (src/src/local_build_jobs.js): wrapper processes that  *)
(* run a command in a snapshot on the local disk and publish its outputs,  *)
(* and sweepers (the server's timer, `build-run --sweep`) that finish the  *)
(* jobs of wrappers that died.  All they share is on disk: a record per    *)
(* job, its directory, the published artefact, and the lease, a lock that  *)
(* is gone with its holder (archive_lock.js).                              *)
(*                                                                         *)
(* A wrapper runs one build, so a build is also its wrapper.  What a       *)
(* directory holds is the number of writes into it.  A failure is whatever *)
(* a job is kept for: the live storage that receives the artefact is gone, *)
(* or the tool that lists open files gives no answer.  A straggler is a    *)
(* process the command left behind outside its group; it is seen by the    *)
(* files it holds open in the directory, which it does until it ends.      *)
(* A stamp distinguishes a reused process id, so ids are not modelled.     *)
(*                                                                         *)
(* An operator whose comment calls it faulty is a variant that plays no    *)
(* part in Spec: a slip the code could have made, which breaks a property. *)
(***************************************************************************)
EXTENDS Naturals

CONSTANTS
    Builds, Sweepers,
    MaxFiles,       \* bound: writes into a directory
    MaxCrashes,     \* bound: deaths of a process, or of all of them
    MaxFailures     \* bound: failures of storage or of the check for open files

Free == "free"

ASSUME BuildAssumption ==
    /\ Builds \cap Sweepers = {}
    /\ Free \notin Builds \cup Sweepers
    /\ MaxFiles \in Nat /\ MaxCrashes \in Nat /\ MaxFailures \in Nat

VARIABLES
    pc,         \* where a wrapper or a sweeper is
    todo,       \* its copies of the records it has read and not yet finished
    fin,        \* its call of finishJob
    lease,      \* the process that holds the lease
    recorded,   \* the builds with a record file
    job,        \* what that file says
    dir,        \* the directory of a build
    files,      \* history: writes into it
    worker,     \* the process group of a build's command
    strag,      \* the builds whose command left a straggler
    published,  \* the builds with an artefact
    receipt,    \* what the artefact holds and its receipt says
    crashes, failures

disk == <<recorded, job, dir, files, published, receipt>>
work == <<worker, strag>>
faults == <<crashes, failures>>
vars == <<pc, todo, fin, lease, disk, work, faults>>

Procs == Builds \cup Sweepers
Jobs == [pid : BOOLEAN, finished : BOOLEAN, published : BOOLEAN]
NewJob == [pid |-> FALSE, finished |-> FALSE, published |-> FALSE]
Off == [step |-> "off"]
Working == {"inspect", "copy", "rename", "save", "recheck", "rm", "unlink"}
Calls == [step : Working, b : Builds, job : Jobs, version : Nat]
NoReceipt == [version |-> 0, finished |-> FALSE]

WrapperAt == {"new", "locked", "admitting", "made", "staging", "staged", "spawned", "saved",
              "running", "ended", "finished", "publishing", "gone"}
SweeperAt == {"idle", "read", "sweeping"}
Holding == {"locked", "admitting", "made", "publishing", "sweeping"}

TypeOK ==
    /\ pc \in [Procs -> WrapperAt \cup SweeperAt]
    /\ \A b \in Builds : pc[b] \in WrapperAt
    /\ \A s \in Sweepers : pc[s] \in SweeperAt
    /\ todo \in [Procs -> SUBSET [b : Builds, job : Jobs]]
    /\ fin \in [Procs -> Calls \cup {Off}]
    /\ lease \in Procs \cup {Free}
    /\ \A p \in Procs : /\ pc[p] \in Holding <=> lease = p
                        /\ fin[p] # Off => pc[p] \in {"admitting", "publishing", "sweeping"}
    /\ recorded \subseteq Builds /\ published \subseteq Builds /\ strag \subseteq Builds
    /\ job \in [Builds -> Jobs]
    /\ dir \in [Builds -> {"none", "whole", "part"}]
    /\ files \in [Builds -> 0..MaxFiles]
    /\ worker \in [Builds -> {"none", "waiting", "running", "ended"}]
    /\ receipt \in [Builds -> [version : Nat, finished : BOOLEAN]]
    /\ crashes \in 0..MaxCrashes /\ failures \in 0..MaxFailures

-----------------------------------------------------------------------------
(* The lease, and what finishJob asks.                                     *)

\* Faulty: the lock is a shared one.
LeaseShared == TRUE
\* withSessionArchiveLock does not wait: who finds it taken gives up.
LeaseFree == lease = Free

Alive(b) == pc[b] \notin {"new", "gone"}
WorkerAlive(b) == worker[b] \in {"waiting", "running"}

\* Faulty: only the processes of the command's group count.
UnusedByGroup(b) == ~WorkerAlive(b)
\* No process has a file open below the directory; that of the command runs in it.
Unused(b) == ~WorkerAlive(b) /\ b \notin strag

Copies == {[b |-> b, job |-> job[b]] : b \in recorded}
Called(c) == [step |-> "inspect", b |-> c.b, job |-> c.job, version |-> 0]

At(p, step) == fin[p] # Off /\ fin[p].step = step
Goes(p, step) == fin' = [fin EXCEPT ![p].step = step]

\* Faulty: the outcome of finishing an earlier job is not looked at.
EndsUnnoticed(p) == IF p \in Builds /\ pc[p] = "publishing"
                    THEN pc' = [pc EXCEPT ![p] = "gone"] /\ lease' = Free
                    ELSE UNCHANGED <<pc, lease>>
\* A job that is retained, or whose publication throws, ends the wrapper that wanted it out of
\* its way or finished it itself; a sweeper goes on.
EndsRetained(p) == IF p \in Builds THEN pc' = [pc EXCEPT ![p] = "gone"] /\ lease' = Free
                   ELSE UNCHANGED <<pc, lease>>
Retained(p) ==
    /\ fin' = [fin EXCEPT ![p] = Off]
    /\ todo' = IF p \in Builds THEN [todo EXCEPT ![p] = {}] ELSE todo
    /\ EndsRetained(p)
    /\ UNCHANGED disk

-----------------------------------------------------------------------------
(* finishJob, step by step, on the copy of the record it was called with.  *)

\* A step that fails.
Fails(p) ==
    /\ failures < MaxFailures /\ failures' = failures + 1
    /\ Retained(p)
    /\ UNCHANGED crashes

\* Faulty: a job without a directory is kept.
NeverForgotten(j) == FALSE
\* A job whose directory is gone may have died between its removal and that of its record.
Forgotten(j) == j.published

Inspect(p) ==
    LET b == fin[p].b
        busy == \/ b # p /\ Alive(b)
                \/ fin[p].job.pid /\ WorkerAlive(b)
                \/ IF dir[b] = "none" THEN ~Forgotten(fin[p].job) ELSE ~Unused(b)
    IN  /\ At(p, "inspect")
        /\ \/ busy /\ Retained(p) /\ UNCHANGED faults
           \/ ~busy /\ dir[b] # "none" /\ Fails(p)
           \/ /\ ~busy
              /\ Goes(p, IF dir[b] = "none" THEN "unlink" ELSE "copy")
              /\ UNCHANGED <<pc, lease, todo, disk, faults>>
        /\ UNCHANGED work

\* Faulty: the artefact that is there is not looked at.
NeverAcknowledged(b) == FALSE
\* An artefact with this job's receipt is this job's.
Acknowledged(b) == b \in published
Contents(b) == IF dir[b] = "whole" THEN files[b] ELSE 0

\* publish: into a staging directory of this attempt ...
Copy(p) ==
    LET b == fin[p].b
    IN  /\ At(p, "copy")
        /\ \/ Fails(p)
           \/ /\ IF Acknowledged(b) THEN Goes(p, "save")
                 ELSE fin' = [fin EXCEPT ![p].step = "rename", ![p].version = Contents(b)]
              /\ UNCHANGED <<pc, lease, todo, disk, faults>>
        /\ UNCHANGED work

\* ... that one rename makes the artefact.
Rename(p) ==
    LET b == fin[p].b
    IN  /\ At(p, "rename")
        /\ \/ Fails(p)
           \/ /\ published' = published \cup {b}
              /\ receipt' = [receipt EXCEPT ![b] = [version |-> fin[p].version,
                                                    finished |-> fin[p].job.finished]]
              /\ Goes(p, "save")
              /\ UNCHANGED <<pc, lease, todo, recorded, job, dir, files, faults>>
        /\ UNCHANGED work

\* The copy is written back, whatever the record says now.
SavePublished(p) ==
    LET b == fin[p].b
        saved == [fin[p].job EXCEPT !.published = TRUE]
    IN  /\ At(p, "save")
        /\ recorded' = recorded \cup {b}
        /\ job' = [job EXCEPT ![b] = saved]
        /\ fin' = [fin EXCEPT ![p].step = "recheck", ![p].job = saved]
        /\ UNCHANGED <<pc, lease, todo, dir, files, published, receipt, work, faults>>

\* The recursive removal starts ...
Recheck(p) ==
    LET b == fin[p].b
    IN  /\ At(p, "recheck")
        /\ \/ ~Unused(b) /\ Retained(p) /\ UNCHANGED faults
           \/ Fails(p)
           \/ /\ Unused(b)
              /\ dir' = [dir EXCEPT ![b] = "part"]
              /\ Goes(p, "rm")
              /\ UNCHANGED <<pc, lease, todo, recorded, job, files, published, receipt, faults>>
        /\ UNCHANGED work

\* ... and ends.
Rm(p) ==
    /\ At(p, "rm")
    /\ dir' = [dir EXCEPT ![fin[p].b] = "none"]
    /\ Goes(p, "unlink")
    /\ UNCHANGED <<pc, lease, todo, recorded, job, files, published, receipt, work, faults>>

\* Removed: who finished its own job ends, the others go on.
Unlink(p) ==
    /\ At(p, "unlink")
    /\ recorded' = recorded \ {fin[p].b}
    /\ fin' = [fin EXCEPT ![p] = Off]
    /\ IF p \in Builds /\ pc[p] = "publishing" THEN pc' = [pc EXCEPT ![p] = "gone"] /\ lease' = Free
                                               ELSE UNCHANGED <<pc, lease>>
    /\ UNCHANGED <<todo, job, dir, files, published, receipt, work, faults>>

\* The next of the records that were read.
TakeNext(p) ==
    /\ pc[p] \in {"admitting", "sweeping"} /\ fin[p] = Off
    /\ \E c \in todo[p] : /\ todo' = [todo EXCEPT ![p] = @ \ {c}]
                          /\ fin' = [fin EXCEPT ![p] = Called(c)]
    /\ UNCHANGED <<pc, lease, disk, work, faults>>

FinishJob(p) ==
    Inspect(p) \/ Copy(p) \/ Rename(p) \/ SavePublished(p) \/ Recheck(p) \/ Rm(p) \/ Unlink(p)
    \/ TakeNext(p)

-----------------------------------------------------------------------------
(* runLocalBuildJob and execute: a wrapper.                                *)

Gives(b, to) == pc' = [pc EXCEPT ![b] = to]

\* Admission: the lease, then the records.
Lock(b) ==
    /\ pc[b] = "new"
    /\ IF LeaseFree THEN Gives(b, "locked") /\ lease' = b ELSE Gives(b, "gone") /\ UNCHANGED lease
    /\ UNCHANGED <<todo, fin, disk, work, faults>>

ReadPriors(b) ==
    /\ pc[b] = "locked"
    /\ Gives(b, "admitting")
    /\ todo' = [todo EXCEPT ![b] = Copies]
    /\ UNCHANGED <<fin, lease, disk, work, faults>>

\* No room on the disk, or no storage to publish to.
Refuse(b) ==
    /\ pc[b] = "admitting" /\ todo[b] = {} /\ fin[b] = Off
    /\ Gives(b, "gone") /\ lease' = Free
    /\ UNCHANGED <<todo, fin, disk, work, faults>>

MakeDir(b) ==
    /\ pc[b] = "admitting" /\ todo[b] = {} /\ fin[b] = Off
    /\ dir' = [dir EXCEPT ![b] = "whole"]
    /\ Gives(b, "made")
    /\ UNCHANGED <<todo, fin, lease, recorded, job, files, published, receipt, work, faults>>

\* The first save; if it fails, the empty directory goes.
SaveNew(b) ==
    /\ pc[b] = "made"
    /\ \/ /\ recorded' = recorded \cup {b} /\ job' = [job EXCEPT ![b] = NewJob]
          /\ Gives(b, "staging")
          /\ UNCHANGED dir
       \/ /\ dir' = [dir EXCEPT ![b] = "none"]
          /\ Gives(b, "gone")
          /\ UNCHANGED <<recorded, job>>
    /\ lease' = Free
    /\ UNCHANGED <<todo, fin, files, published, receipt, work, faults>>

Grows(b) == files[b] < MaxFiles /\ files' = [files EXCEPT ![b] = @ + 1]

\* The snapshot, or an error in it.
Stage(b) ==
    /\ pc[b] = "staging"
    /\ Gives(b, "staged") \/ Gives(b, "ended")
    /\ Grows(b)
    /\ UNCHANGED <<todo, fin, lease, recorded, job, dir, published, receipt, work, faults>>

\* The worker waits for the word to start.
Spawn(b) ==
    /\ pc[b] = "staged"
    /\ Gives(b, "spawned")
    /\ worker' = [worker EXCEPT ![b] = "waiting"]
    /\ UNCHANGED <<todo, fin, lease, disk, strag, faults>>

\* Faulty: the word is sent without waiting for the record.
RunEarly == {"spawned", "saved"}
\* The word is sent once the record names the worker.
RunAt == {"saved"}

SavePid(b) ==
    /\ pc[b] = "spawned"
    /\ \/ Gives(b, "saved") /\ job' = [job EXCEPT ![b].pid = TRUE]
       \/ Gives(b, "ended") /\ UNCHANGED job
    /\ UNCHANGED <<todo, fin, lease, recorded, dir, files, published, receipt, work, faults>>

SendRun(b) ==
    /\ pc[b] \in RunAt
    /\ Gives(b, "running")
    /\ worker' = [worker EXCEPT ![b] = IF @ = "waiting" THEN "running" ELSE @]
    /\ UNCHANGED <<todo, fin, lease, disk, strag, faults>>

\* The command has ended, by itself or aborted, or was not started: the record says how.
SaveFinished(b) ==
    /\ \/ pc[b] = "ended"
       \/ pc[b] = "running" /\ ~WorkerAlive(b)
    /\ job' = [job EXCEPT ![b].pid = (worker[b] # "none"), ![b].finished = TRUE]
    /\ Gives(b, "finished")
    /\ UNCHANGED <<todo, fin, lease, recorded, dir, files, published, receipt, work, faults>>

\* Its own job: busy, the wrapper leaves it to a sweeper.
LockOwn(b) ==
    /\ pc[b] = "finished"
    /\ IF LeaseFree THEN /\ Gives(b, "publishing") /\ lease' = b
                         /\ fin' = [fin EXCEPT ![b] = Called([b |-> b, job |-> job[b]])]
                    ELSE Gives(b, "gone") /\ UNCHANGED <<lease, fin>>
    /\ UNCHANGED <<todo, disk, work, faults>>

Wrapper(b) ==
    \/ Lock(b) \/ ReadPriors(b) \/ MakeDir(b) \/ SaveNew(b) \/ Stage(b) \/ Spawn(b) \/ SavePid(b)
    \/ SendRun(b) \/ SaveFinished(b) \/ LockOwn(b)

-----------------------------------------------------------------------------
(* sweepLocalBuildJobs: the records, then the lease.                       *)

SweepRead(s) ==
    /\ pc[s] = "idle" /\ recorded # {}
    /\ Gives(s, "read")
    /\ todo' = [todo EXCEPT ![s] = Copies]
    /\ UNCHANGED <<fin, lease, disk, work, faults>>

SweepLock(s) ==
    /\ pc[s] = "read"
    /\ IF LeaseFree
       THEN Gives(s, "sweeping") /\ lease' = s /\ UNCHANGED todo
       ELSE Gives(s, "idle") /\ todo' = [todo EXCEPT ![s] = {}] /\ UNCHANGED lease
    /\ UNCHANGED <<fin, disk, work, faults>>

SweepEnds(s) ==
    /\ pc[s] = "sweeping" /\ todo[s] = {} /\ fin[s] = Off
    /\ Gives(s, "idle") /\ lease' = Free
    /\ UNCHANGED <<todo, fin, disk, work, faults>>

Sweeper(s) == SweepRead(s) \/ SweepLock(s) \/ SweepEnds(s)

-----------------------------------------------------------------------------
(* The command, its stragglers, and what goes wrong.                       *)

Write(b) ==
    /\ worker[b] = "running" \/ b \in strag
    /\ Grows(b)
    /\ UNCHANGED <<pc, todo, fin, lease, recorded, job, dir, published, receipt, work, faults>>

Straggle(b) ==
    /\ worker[b] = "running" /\ b \notin strag
    /\ strag' = strag \cup {b}
    /\ UNCHANGED <<pc, todo, fin, lease, disk, worker, faults>>

StragglerEnds(b) ==
    /\ b \in strag
    /\ strag' = strag \ {b}
    /\ UNCHANGED <<pc, todo, fin, lease, disk, worker, faults>>

\* The command ends, or is killed.
CommandEnds(b) ==
    /\ worker[b] = "running"
    /\ worker' = [worker EXCEPT ![b] = "ended"]
    /\ UNCHANGED <<pc, todo, fin, lease, disk, strag, faults>>

\* The worker loses its wrapper, or the wrapper has given up on it: it ends, with its group.
Disconnect(b) ==
    /\ pc[b] \in {"ended", "finished", "publishing", "gone"} /\ WorkerAlive(b)
    /\ worker' = [worker EXCEPT ![b] = "ended"]
    /\ UNCHANGED <<pc, todo, fin, lease, disk, strag, faults>>

Killed(dead) ==
    /\ crashes < MaxCrashes /\ crashes' = crashes + 1
    /\ pc' = [p \in Procs |-> IF p \notin dead THEN pc[p]
                              ELSE IF p \in Sweepers THEN "idle"
                              ELSE IF pc[p] = "new" THEN "new" ELSE "gone"]
    /\ todo' = [p \in Procs |-> IF p \in dead THEN {} ELSE todo[p]]
    /\ fin' = [p \in Procs |-> IF p \in dead THEN Off ELSE fin[p]]
    /\ lease' = IF lease \in dead THEN Free ELSE lease
    /\ UNCHANGED <<disk, failures>>

\* A wrapper or a sweeper dies; a sweeper comes back.
Crash(p) ==
    /\ pc[p] \notin {"new", "gone", "idle"}
    /\ Killed({p})
    /\ UNCHANGED work

Reboot ==
    /\ Killed(Procs)
    /\ worker' = [b \in Builds |-> IF WorkerAlive(b) THEN "ended" ELSE worker[b]]
    /\ strag' = {}

Init ==
    /\ pc = [p \in Procs |-> IF p \in Sweepers THEN "idle" ELSE "new"]
    /\ todo = [p \in Procs |-> {}]
    /\ fin = [p \in Procs |-> Off]
    /\ lease = Free
    /\ recorded = {} /\ published = {} /\ strag = {}
    /\ job = [b \in Builds |-> NewJob]
    /\ dir = [b \in Builds |-> "none"]
    /\ files = [b \in Builds |-> 0]
    /\ worker = [b \in Builds |-> "none"]
    /\ receipt = [b \in Builds |-> NoReceipt]
    /\ crashes = 0 /\ failures = 0

Next ==
    \/ \E p \in Procs : FinishJob(p) \/ Crash(p)
    \/ \E b \in Builds : \/ Wrapper(b) \/ Refuse(b)
                         \/ Write(b) \/ Straggle(b) \/ StragglerEnds(b)
                         \/ CommandEnds(b) \/ Disconnect(b)
    \/ \E s \in Sweepers : Sweeper(s)
    \/ Reboot

Spec == Init /\ [][Next]_vars

\* Processes that live go on, the sweep comes round, builds are finite and stragglers end.
Fairness ==
    /\ \A p \in Procs : WF_vars(FinishJob(p))
    /\ \A b \in Builds : /\ WF_vars(Wrapper(b)) /\ WF_vars(Disconnect(b))
                         /\ WF_vars(StragglerEnds(b)) /\ WF_vars(CommandEnds(b))
    /\ \A s \in Sweepers : WF_vars(Sweeper(s))
FairSpec == Spec /\ Fairness

-----------------------------------------------------------------------------
(* Properties.                                                             *)

InProgress(b) == b \in recorded \/ pc[b] = "made"

\* Builds reserve disk space one at a time: a build is admitted only when the record of every
\* one before it is gone, whoever died where.
OneBuild == \A a, b \in Builds : InProgress(a) /\ InProgress(b) => a = b

\* Work that still goes on keeps its directory and its record, is not published, and a command
\* runs only while the record names its process -- even when a sweeper acts on a record it read
\* before that process was started.
LiveWorkKept ==
    \A b \in Builds : WorkerAlive(b) \/ b \in strag =>
        /\ dir[b] = "whole" /\ b \in recorded /\ b \notin published
        /\ worker[b] = "running" => job[b].pid

\* Whatever was written into a directory is in its artefact before anything is removed, and
\* stays there through every repetition of the removal.
NothingLost ==
    \A b \in Builds : dir[b] # "whole" /\ files[b] > 0 =>
        b \in published /\ receipt[b].version = files[b]

\* The job of a wrapper that is gone is finished in the end: published and removed, record last.
Reclaimed == \A b \in Builds : (pc[b] = "gone" /\ b \in recorded) ~> (b \notin recorded)

=============================================================================
