-------------------------- MODULE LocalBuildsProofs --------------------------
(***************************************************************************)
(* What LocalBuilds promises for any number of builds, sweepers, deaths    *)
(* and failures: one build at a time, running work keeps its directory,    *)
(* and nothing is removed that is not published.                           *)
(***************************************************************************)
EXTENDS LocalBuilds, TLAPS

\* Where a wrapper has no record yet, and where it has no more use for its directory.
Before == {"new", "locked", "admitting", "made"}
Over == {"publishing", "gone"}

\* A copy of a record is about a build that had one, and has one while its directory is there.
CopiesAreLater ==
    \A p \in Procs :
        /\ \A c \in todo[p] : pc[c.b] \notin Before /\ (dir[c.b] # "none" => c.b \in recorded)
        /\ fin[p] # Off => /\ pc[fin[p].b] \notin Before
                           /\ dir[fin[p].b] # "none" => fin[p].b \in recorded

\* Whoever is being admitted has yet to finish, or is finishing, each recorded build.
AdmissionSeesAll ==
    /\ \A b \in Builds, a \in recorded : pc[b] = "admitting" =>
           (\E c \in todo[b] : c.b = a) \/ (fin[b] # Off /\ fin[b].b = a)
    /\ \A b \in Builds : pc[b] = "made" => recorded = {}
    /\ \A a, b \in recorded : a = b

\* What the place of a wrapper tells of its directory, record and command.
StagesTellTheDisk ==
    \A b \in Builds :
        /\ pc[b] \in Before => files[b] = 0 /\ b \notin recorded
        /\ pc[b] = "made" => dir[b] = "whole"
        /\ pc[b] \notin Before \cup Over => dir[b] = "whole" /\ b \in recorded
        /\ pc[b] \in Before \cup {"staging", "staged"} => worker[b] = "none" /\ b \notin strag
        /\ pc[b] \in {"saved", "running"} => job[b].pid

\* An artefact is of a build that is over, and holds what was written; its directory goes last.
ArtefactIsWhole ==
    \A b \in Builds :
        /\ b \in published => pc[b] \in Over /\ Unused(b) /\ receipt[b].version = files[b]
        /\ dir[b] = "part" => b \in published

\* What a call of finishJob may rely on once it has inspected the job.
CallKnows ==
    \A p \in Procs : fin[p] # Off /\ fin[p].step # "inspect" =>
        /\ pc[fin[p].b] \in Over /\ Unused(fin[p].b)
        /\ fin[p].step \in {"copy", "rename", "save", "recheck"} => dir[fin[p].b] # "none"
        /\ fin[p].step = "rename" => /\ fin[p].b \notin published /\ dir[fin[p].b] = "whole"
                                     /\ fin[p].version = files[fin[p].b]
        /\ fin[p].step \in {"save", "recheck", "rm"} => fin[p].b \in published
        /\ fin[p].step = "rm" => dir[fin[p].b] = "part"
        /\ fin[p].step = "unlink" => dir[fin[p].b] = "none"

\* The inductive invariant.
BuildInv ==
    /\ TypeOK
    /\ CopiesAreLater
    /\ AdmissionSeesAll
    /\ StagesTellTheDisk
    /\ ArtefactIsWhole
    /\ CallKnows
    /\ LiveWorkKept
    /\ NothingLost

-----------------------------------------------------------------------------
(* The start.                                                              *)

LEMMA InitBuilds == Init => BuildInv
<1> SUFFICES ASSUME Init PROVE BuildInv
  OBVIOUS
<1>1. Free \notin Procs /\ \A s \in Sweepers : s \notin Builds
  BY BuildAssumption DEF Procs
<1>2. TypeOK
  <2>1. /\ MaxFiles \in Nat /\ MaxCrashes \in Nat /\ MaxFailures \in Nat
        /\ NewJob \in Jobs /\ NoReceipt \in [version : Nat, finished : BOOLEAN]
    BY BuildAssumption DEF NewJob, Jobs, NoReceipt
  <2>2. \A p \in Procs : pc[p] \notin Holding /\ lease # p /\ fin[p] = Off
    BY <1>1 DEF Init, Holding
  <2>3. /\ pc \in [Procs -> WrapperAt \cup SweeperAt]
        /\ \A b \in Builds : pc[b] \in WrapperAt
        /\ \A s \in Sweepers : pc[s] \in SweeperAt
    BY <1>1 DEF Init, WrapperAt, SweeperAt, Procs
  <2>4. /\ todo \in [Procs -> SUBSET [b : Builds, job : Jobs]]
        /\ fin \in [Procs -> Calls \cup {Off}]
        /\ lease \in Procs \cup {Free}
        /\ recorded \subseteq Builds /\ published \subseteq Builds /\ strag \subseteq Builds
    BY DEF Init
  <2>5. /\ job \in [Builds -> Jobs]
        /\ dir \in [Builds -> {"none", "whole", "part"}]
        /\ files \in [Builds -> 0..MaxFiles]
        /\ worker \in [Builds -> {"none", "waiting", "running", "ended"}]
        /\ receipt \in [Builds -> [version : Nat, finished : BOOLEAN]]
        /\ crashes \in 0..MaxCrashes /\ failures \in 0..MaxFailures
    BY <2>1 DEF Init
  <2> QED
    BY <2>2, <2>3, <2>4, <2>5 DEF TypeOK
<1>3. \A b \in Builds : /\ pc[b] = "new" /\ files[b] = 0 /\ dir[b] = "none"
                        /\ worker[b] = "none" /\ b \notin strag /\ b \notin published
  BY <1>1 DEF Init, Procs
<1>4. recorded = {} /\ \A p \in Procs : todo[p] = {} /\ fin[p] = Off
  BY DEF Init
<1> QED
  BY <1>2, <1>3, <1>4 DEF BuildInv, CopiesAreLater, AdmissionSeesAll, StagesTellTheDisk,
     ArtefactIsWhole, CallKnows, LiveWorkKept, NothingLost, Before, Over, WorkerAlive

-----------------------------------------------------------------------------
(* The command and its stragglers.                                         *)

LEMMA WriteKeeps == ASSUME BuildInv, NEW b \in Builds, Write(b) PROVE BuildInv'
<1> USE DEF BuildInv, Write, Grows, disk, work, faults
<1>1. MaxFiles \in Nat /\ files[b] \in 0..MaxFiles /\ files' = [files EXCEPT ![b] = files[b] + 1]
  BY BuildAssumption DEF TypeOK
<1>2. files[b] + 1 \in 0..MaxFiles /\ files[b] + 1 > 0
  BY <1>1 DEF Write, Grows
<1>3. TypeOK'
  BY <1>1, <1>2 DEF TypeOK
<1>4. ~Unused(b) /\ b \notin published /\ dir[b] = "whole" /\ pc[b] \notin Before
  BY DEF Unused, WorkerAlive, LiveWorkKept, StagesTellTheDisk
<1>5. CopiesAreLater' /\ AdmissionSeesAll'
  BY DEF CopiesAreLater, AdmissionSeesAll
<1>6. StagesTellTheDisk'
  BY <1>1, <1>4 DEF StagesTellTheDisk, TypeOK
<1>7. ArtefactIsWhole' /\ CallKnows'
  BY <1>1, <1>4 DEF ArtefactIsWhole, CallKnows, Unused, WorkerAlive, TypeOK
<1>8. LiveWorkKept' /\ NothingLost'
  BY <1>1, <1>4 DEF LiveWorkKept, NothingLost, WorkerAlive, TypeOK
<1> QED
  BY <1>3, <1>5, <1>6, <1>7, <1>8

\* What the invariant speaks of besides the command and its stragglers.
rest == <<pc, todo, fin, lease, disk, faults>>

\* Fewer processes at work disturb nothing, as long as none of a new kind appears.
LEMMA FewerKeeps ==
    ASSUME BuildInv, UNCHANGED rest,
           worker' \in [Builds -> {"none", "waiting", "running", "ended"}],
           strag' \subseteq Builds,
           \A b \in Builds : /\ worker'[b] # worker[b] => worker[b] # "none" /\ worker'[b] = "ended"
                             /\ b \in strag' => b \in strag \/ worker[b] = "running"
    PROVE  BuildInv'
<1> USE DEF BuildInv, rest, disk, faults
<1>1. \A b \in Builds : /\ Unused(b) => Unused(b)'
                        /\ WorkerAlive(b)' => WorkerAlive(b)
                        /\ b \in strag' => b \in strag \/ WorkerAlive(b)
                        /\ worker'[b] = "running" => worker[b] = "running"
  BY DEF Unused, WorkerAlive
<1>2. TypeOK'
  BY DEF TypeOK
<1>3. CopiesAreLater' /\ AdmissionSeesAll' /\ NothingLost'
  BY DEF CopiesAreLater, AdmissionSeesAll, NothingLost
<1>4. StagesTellTheDisk'
  BY DEF StagesTellTheDisk
<1>5. ArtefactIsWhole'
  BY <1>1 DEF ArtefactIsWhole
<1>6. CallKnows'
  BY <1>1 DEF CallKnows, TypeOK, Calls
<1>7. LiveWorkKept'
  BY <1>1 DEF LiveWorkKept
<1> QED
  BY <1>2, <1>3, <1>4, <1>5, <1>6, <1>7

LEMMA CommandKeeps ==
    ASSUME BuildInv, NEW b \in Builds,
           Straggle(b) \/ StragglerEnds(b) \/ CommandEnds(b) \/ Disconnect(b)
    PROVE  BuildInv'
<1>1. TypeOK
  BY DEF BuildInv
<1> DEFINE Ws == {"none", "waiting", "running", "ended"}
<1>2. worker \in [Builds -> Ws] /\ strag \subseteq Builds
  BY <1>1 DEF TypeOK
<1>3. /\ worker' \in [Builds -> Ws] /\ strag' \subseteq Builds
      /\ \A a \in Builds :
             /\ worker'[a] # worker[a] => worker[a] # "none" /\ worker'[a] = "ended"
             /\ a \in strag' => a \in strag \/ worker[a] = "running"
  BY <1>2 DEF Straggle, StragglerEnds, CommandEnds, Disconnect, WorkerAlive
<1>4. UNCHANGED rest
  BY DEF Straggle, StragglerEnds, CommandEnds, Disconnect, rest
<1> QED
  BY <1>3, <1>4, FewerKeeps

-----------------------------------------------------------------------------
(* Admission.                                                              *)

\* Whoever may hold the lease holds it alone.
LEMMA HolderIsAlone ==
    ASSUME TypeOK
    PROVE  \A p, q \in Procs : /\ pc[p] \in Holding /\ pc[q] \in Holding => p = q
                               /\ fin[p] # Off => pc[p] \in Holding
                               /\ LeaseFree => pc[p] \notin Holding /\ fin[p] = Off
BY BuildAssumption DEF TypeOK, Holding, LeaseFree, Procs

LEMMA LockKeeps == ASSUME BuildInv, NEW b \in Builds, Lock(b) PROVE BuildInv'
<1> USE DEF BuildInv, Lock, Gives, disk, work, faults
<1>1. b \in Procs /\ fin[b] = Off /\ b # Free /\ pc[b] = "new" /\ b \notin Sweepers
  BY BuildAssumption DEF Procs, TypeOK
<1>2. TypeOK'
  <2>1. /\ pc' \in [Procs -> WrapperAt \cup SweeperAt]
        /\ \A a \in Builds : pc'[a] \in WrapperAt
        /\ \A s \in Sweepers : pc'[s] \in SweeperAt
    BY <1>1 DEF TypeOK, WrapperAt, Procs
  <2>2. lease' \in Procs \cup {Free} /\ \A p \in Procs : pc'[p] \in Holding <=> lease' = p
    <3>1. CASE LeaseFree
      <4>1. lease = Free /\ lease' = b /\ pc' = [pc EXCEPT ![b] = "locked"]
        BY <3>1 DEF LeaseFree
      <4>2. \A p \in Procs : pc[p] \notin Holding
        BY <4>1, HolderIsAlone DEF LeaseFree
      <4> QED
        BY <1>1, <4>1, <4>2 DEF TypeOK, Holding
    <3>2. CASE ~LeaseFree
      <4>1. lease' = lease /\ pc' = [pc EXCEPT ![b] = "gone"]
        BY <3>2
      <4> QED
        BY <1>1, <4>1 DEF TypeOK, Holding
    <3> QED
      BY <3>1, <3>2
  <2>3. \A p \in Procs : fin'[p] # Off => pc'[p] \in {"admitting", "publishing", "sweeping"}
    BY <1>1 DEF TypeOK
  <2> QED
    BY <2>1, <2>2, <2>3 DEF TypeOK
<1>3. CopiesAreLater'
  <2>1. \A p \in Procs : /\ \A c \in todo[p] : c.b \in Builds
                         /\ fin[p] # Off => fin[p].b \in Builds
    BY DEF TypeOK, Calls
  <2>2. \A a \in Builds : pc[a] \notin Before => pc'[a] \notin Before
    BY <1>1 DEF Before, TypeOK, Procs
  <2> QED
    BY <2>1, <2>2 DEF CopiesAreLater
<1>4. AdmissionSeesAll'
  BY <1>1 DEF AdmissionSeesAll, TypeOK, Procs
<1>5. StagesTellTheDisk'
  BY <1>1 DEF StagesTellTheDisk, Before, Over, TypeOK, Procs
<1>6. ArtefactIsWhole'
  BY <1>1 DEF ArtefactIsWhole, Over, Unused, WorkerAlive, TypeOK, Procs
<1>7. CallKnows'
  BY <1>1 DEF CallKnows, Over, Unused, WorkerAlive, TypeOK, Calls, Procs
<1>8. LiveWorkKept' /\ NothingLost'
  BY DEF LiveWorkKept, NothingLost, WorkerAlive
<1> QED
  BY <1>2, <1>3, <1>4, <1>5, <1>6, <1>7, <1>8

LEMMA ReadPriorsKeeps == ASSUME BuildInv, NEW b \in Builds, ReadPriors(b) PROVE BuildInv'
<1> USE DEF BuildInv, ReadPriors, Gives, disk, work, faults
<1>1. b \in Procs /\ pc[b] = "locked" /\ fin[b] = Off /\ b \notin Sweepers
  BY BuildAssumption DEF Procs, TypeOK
<1>2. /\ Copies \in SUBSET [b : Builds, job : Jobs]
      /\ \A c \in Copies : c.b \in recorded /\ c.b \in Builds
      /\ \A a \in recorded : \E c \in Copies : c.b = a
  <2>1. \A a \in recorded : /\ [b |-> a, job |-> job[a]] \in Copies
                            /\ [b |-> a, job |-> job[a]].b = a
    BY DEF Copies
  <2>2. \A c \in Copies : /\ c \in [b : Builds, job : Jobs] /\ c.b \in recorded /\ c.b \in Builds
    <3> SUFFICES ASSUME NEW c \in Copies
                 PROVE  /\ c \in [b : Builds, job : Jobs] /\ c.b \in recorded /\ c.b \in Builds
      OBVIOUS
    <3>1. PICK a \in recorded : c = [b |-> a, job |-> job[a]]
      BY DEF Copies
    <3>2. a \in Builds /\ job[a] \in Jobs
      BY DEF TypeOK
    <3> QED
      BY <3>1, <3>2
  <2> QED
    BY <2>1, <2>2
<1> HIDE DEF Copies
<1>3. TypeOK'
  BY <1>1, <1>2 DEF TypeOK, Holding, WrapperAt
<1>4. CopiesAreLater'
  BY <1>1, <1>2 DEF CopiesAreLater, StagesTellTheDisk, Before, TypeOK, Calls
<1>5. AdmissionSeesAll'
  BY <1>1, <1>2 DEF AdmissionSeesAll, TypeOK, Procs
<1>6. StagesTellTheDisk'
  BY <1>1 DEF StagesTellTheDisk, Before, Over, TypeOK, Procs
<1>7. ArtefactIsWhole'
  BY <1>1 DEF ArtefactIsWhole, Over, Unused, WorkerAlive, TypeOK, Procs
<1>8. CallKnows'
  BY <1>1 DEF CallKnows, Over, Unused, WorkerAlive, TypeOK, Calls, Procs
<1>9. LiveWorkKept' /\ NothingLost'
  BY DEF LiveWorkKept, NothingLost, WorkerAlive
<1> QED
  BY <1>3, <1>4, <1>5, <1>6, <1>7, <1>8, <1>9

\* A wrapper goes to another place, and takes, keeps or gives back the lease accordingly.
LEMMA Placed ==
    ASSUME TypeOK, NEW b \in Builds, NEW to \in WrapperAt, pc' = [pc EXCEPT ![b] = to],
           to \in Holding => lease \in {b, Free},
           lease' = IF to \in Holding THEN b ELSE IF lease = b THEN Free ELSE lease
    PROVE  /\ pc' \in [Procs -> WrapperAt \cup SweeperAt]
           /\ \A a \in Builds : pc'[a] \in WrapperAt
           /\ \A s \in Sweepers : pc'[s] \in SweeperAt
           /\ lease' \in Procs \cup {Free}
           /\ \A p \in Procs : pc'[p] \in Holding <=> lease' = p
           /\ \A p \in Procs : p # b => pc'[p] = pc[p]
           /\ pc'[b] = to
<1>1. b \in Procs /\ b \notin Sweepers /\ Free \notin Procs
  BY BuildAssumption DEF Procs
<1>2. \A p \in Procs : pc'[p] = IF p = b THEN to ELSE pc[p]
  BY <1>1 DEF TypeOK
<1>3. /\ pc' \in [Procs -> WrapperAt \cup SweeperAt]
      /\ \A a \in Builds : pc'[a] \in WrapperAt
      /\ \A s \in Sweepers : pc'[s] \in SweeperAt
  BY <1>1, <1>2 DEF TypeOK, Procs
<1>4. lease' \in Procs \cup {Free} /\ \A p \in Procs : pc'[p] \in Holding <=> lease' = p
  BY <1>1, <1>2 DEF TypeOK
<1> QED
  BY <1>1, <1>2, <1>3, <1>4

\* A record with a field rewritten is a record.
LEMMA JobUpdates ==
    ASSUME NEW k \in [Builds -> Jobs], NEW b \in Builds, NEW v \in BOOLEAN, NEW new,
           \/ new = [k EXCEPT ![b].pid = v]
           \/ new = [k EXCEPT ![b].finished = v]
    PROVE  /\ new \in [Builds -> Jobs]
           /\ \A a \in Builds : a # b => new[a] = k[a]
           /\ new = [k EXCEPT ![b].pid = v] => new[b].pid = v
           /\ new = [k EXCEPT ![b].finished = v] => new[b].pid = k[b].pid
<1> DEFINE j == k[b]
<1>1. j \in Jobs
  OBVIOUS
<1> HIDE DEF j
<1>2. /\ [j EXCEPT !.pid = v] \in Jobs /\ [j EXCEPT !.pid = v].pid = v
      /\ [j EXCEPT !.finished = v] \in Jobs /\ [j EXCEPT !.finished = v].pid = j.pid
  BY <1>1 DEF Jobs
<1>3. /\ [k EXCEPT ![b].pid = v] = [k EXCEPT ![b] = [j EXCEPT !.pid = v]]
      /\ [k EXCEPT ![b].finished = v] = [k EXCEPT ![b] = [j EXCEPT !.finished = v]]
  BY DEF j
<1> QED
  BY <1>2, <1>3 DEF j

LEMMA RefuseKeeps == ASSUME BuildInv, NEW b \in Builds, Refuse(b) PROVE BuildInv'
<1> USE DEF BuildInv, Refuse, disk, work, faults, Gives
<1>1. b \in Procs /\ pc[b] = "admitting" /\ fin[b] = Off /\ b \notin Sweepers /\ b # Free
  BY BuildAssumption DEF Procs, TypeOK
<1>2. TypeOK'
  <2>1. "gone" \in WrapperAt /\ lease = b /\ "gone" \notin Holding
    BY <1>1 DEF TypeOK, Holding, WrapperAt
  <2>2. \A p \in Procs : fin[p] # Off => p # b
    BY <1>1
  <2> QED
    BY <2>1, <2>2, Placed DEF TypeOK
<1>3. CopiesAreLater'
  BY <1>1 DEF CopiesAreLater, Before, TypeOK, Calls, Procs
<1>4. AdmissionSeesAll'
  BY <1>1 DEF AdmissionSeesAll, TypeOK, Procs
<1>5. StagesTellTheDisk'
  BY <1>1 DEF StagesTellTheDisk, Before, Over, TypeOK, Procs
<1>6. ArtefactIsWhole'
  BY <1>1 DEF ArtefactIsWhole, Before, Over, Unused, WorkerAlive, TypeOK, Procs
<1>7. CallKnows'
  BY <1>1 DEF CallKnows, Over, Unused, WorkerAlive, TypeOK, Calls, Procs
<1>8. LiveWorkKept'
  BY <1>1 DEF LiveWorkKept, WorkerAlive, TypeOK, Procs
<1>9. NothingLost'
  BY <1>1 DEF NothingLost, TypeOK, Procs
<1> QED
  BY <1>2, <1>3, <1>4, <1>5, <1>6, <1>7, <1>8, <1>9

LEMMA MakeDirKeeps == ASSUME BuildInv, NEW b \in Builds, MakeDir(b) PROVE BuildInv'
<1> USE DEF BuildInv, MakeDir, disk, work, faults, Gives
<1>1. b \in Procs /\ pc[b] = "admitting" /\ fin[b] = Off /\ b \notin Sweepers /\ b # Free
  BY BuildAssumption DEF Procs, TypeOK
<1>2. TypeOK'
  BY <1>1, HolderIsAlone DEF TypeOK, Holding, WrapperAt, LeaseFree, Procs
<1>3. CopiesAreLater'
  BY <1>1 DEF CopiesAreLater, Before, TypeOK, Calls, Procs
<1>4. AdmissionSeesAll'
  BY <1>1 DEF AdmissionSeesAll, TypeOK, Procs
<1>5. StagesTellTheDisk'
  BY <1>1 DEF StagesTellTheDisk, Before, Over, TypeOK, Procs
<1>6. ArtefactIsWhole'
  BY <1>1 DEF ArtefactIsWhole, Before, Over, Unused, WorkerAlive, TypeOK, Procs
<1>7. CallKnows'
  <2>1. \A p \in Procs : fin[p] # Off => fin[p].b \in Builds /\ fin[p].b # b
    BY <1>1 DEF CopiesAreLater, Before, TypeOK, Calls
  <2> QED
    BY <1>1, <2>1 DEF CallKnows, Unused, WorkerAlive, TypeOK, Procs
<1>8. LiveWorkKept'
  BY <1>1 DEF LiveWorkKept, WorkerAlive, TypeOK, Procs
<1>9. NothingLost'
  BY <1>1 DEF NothingLost, TypeOK, Procs
<1> QED
  BY <1>2, <1>3, <1>4, <1>5, <1>6, <1>7, <1>8, <1>9

LEMMA SaveNewKeeps == ASSUME BuildInv, NEW b \in Builds, SaveNew(b) PROVE BuildInv'
<1> USE DEF BuildInv, SaveNew, disk, work, faults, Gives
<1>1. b \in Procs /\ pc[b] = "made" /\ fin[b] = Off /\ b \notin Sweepers /\ b # Free
  BY BuildAssumption DEF Procs, TypeOK
<1>2. TypeOK'
  <2>1. PICK to \in {"staging", "gone"} : pc' = [pc EXCEPT ![b] = to]
    OBVIOUS
  <2>2. to \in WrapperAt /\ lease = b /\ to \notin Holding /\ NewJob \in Jobs
    BY <1>1 DEF TypeOK, Holding, WrapperAt, NewJob, Jobs
  <2>3. \A p \in Procs : fin[p] # Off => p # b
    BY <1>1
  <2>4. /\ recorded' \subseteq Builds
        /\ job' \in [Builds -> Jobs]
        /\ dir' \in [Builds -> {"none", "whole", "part"}]
    BY <2>2 DEF TypeOK
  <2> QED
    BY <2>1, <2>2, <2>3, <2>4, Placed DEF TypeOK
<1>3. CopiesAreLater'
  BY <1>1 DEF CopiesAreLater, Before, TypeOK, Calls, Procs
<1>4. AdmissionSeesAll'
  BY <1>1, HolderIsAlone DEF AdmissionSeesAll, Holding, TypeOK, Procs
<1>5. StagesTellTheDisk'
  BY <1>1 DEF StagesTellTheDisk, Before, Over, TypeOK, Procs
<1>6. ArtefactIsWhole'
  BY <1>1 DEF ArtefactIsWhole, Before, Over, Unused, WorkerAlive, TypeOK, Procs
<1>7. CallKnows'
  BY <1>1 DEF CallKnows, Over, Unused, WorkerAlive, TypeOK, Calls, Procs
<1>8. LiveWorkKept'
  BY <1>1 DEF LiveWorkKept, StagesTellTheDisk, ArtefactIsWhole, Before, Over, WorkerAlive, TypeOK, Procs
<1>9. NothingLost'
  BY <1>1 DEF NothingLost, StagesTellTheDisk, ArtefactIsWhole, Before, Over, WorkerAlive, TypeOK, Procs
<1> QED
  BY <1>2, <1>3, <1>4, <1>5, <1>6, <1>7, <1>8, <1>9

LEMMA StageKeeps == ASSUME BuildInv, NEW b \in Builds, Stage(b) PROVE BuildInv'
<1> USE DEF BuildInv, Stage, disk, work, faults, Gives, Grows
<1>1. b \in Procs /\ pc[b] = "staging" /\ b \notin Sweepers /\ b # Free
  BY BuildAssumption DEF Procs, TypeOK
<1>2. TypeOK'
  <2>1. PICK to \in {"staged", "ended"} : pc' = [pc EXCEPT ![b] = to]
    OBVIOUS
  <2>2. to \in WrapperAt /\ lease # b /\ to \notin Holding
    BY <1>1, <2>1 DEF TypeOK, Holding, WrapperAt
  <2>3. \A p \in Procs : fin[p] # Off => p # b
    BY <1>1 DEF TypeOK
  <2>4. files' \in [Builds -> 0..MaxFiles]
    BY BuildAssumption DEF TypeOK
  <2> QED
    BY <2>1, <2>2, <2>3, <2>4, Placed DEF TypeOK
<1>3. CopiesAreLater'
  BY <1>1 DEF CopiesAreLater, Before, TypeOK, Calls, Procs
<1>4. AdmissionSeesAll'
  BY <1>1 DEF AdmissionSeesAll, TypeOK, Procs
<1>5. StagesTellTheDisk'
  BY <1>1 DEF StagesTellTheDisk, Before, Over, TypeOK, Procs
<1>6. ArtefactIsWhole'
  BY <1>1 DEF ArtefactIsWhole, Before, Over, Unused, WorkerAlive, TypeOK, Procs
<1>7. CallKnows'
  BY <1>1 DEF CallKnows, Over, Unused, WorkerAlive, TypeOK, Calls, Procs
<1>8. LiveWorkKept'
  BY <1>1 DEF LiveWorkKept, WorkerAlive, TypeOK, Procs
<1>9. NothingLost'
  BY <1>1 DEF NothingLost, StagesTellTheDisk, ArtefactIsWhole, Before, Over, WorkerAlive, TypeOK, Procs
<1> QED
  BY <1>2, <1>3, <1>4, <1>5, <1>6, <1>7, <1>8, <1>9

LEMMA SpawnKeeps == ASSUME BuildInv, NEW b \in Builds, Spawn(b) PROVE BuildInv'
<1> USE DEF BuildInv, Spawn, disk, work, faults, Gives
<1>1. b \in Procs /\ pc[b] = "staged" /\ b \notin Sweepers /\ b # Free
  BY BuildAssumption DEF Procs, TypeOK
<1>2. TypeOK'
  BY <1>1, HolderIsAlone DEF TypeOK, Holding, WrapperAt, LeaseFree, Procs
<1>3. CopiesAreLater'
  BY <1>1 DEF CopiesAreLater, Before, TypeOK, Calls, Procs
<1>4. AdmissionSeesAll'
  BY <1>1 DEF AdmissionSeesAll, TypeOK, Procs
<1>5. StagesTellTheDisk'
  BY <1>1 DEF StagesTellTheDisk, Before, Over, TypeOK, Procs
<1>6. ArtefactIsWhole'
  BY <1>1 DEF ArtefactIsWhole, Before, Over, Unused, WorkerAlive, TypeOK, Procs
<1>7. CallKnows'
  BY <1>1 DEF CallKnows, Over, Unused, WorkerAlive, TypeOK, Calls, Procs
<1>8. LiveWorkKept'
  BY <1>1 DEF LiveWorkKept, StagesTellTheDisk, ArtefactIsWhole, Before, Over, WorkerAlive, TypeOK, Procs
<1>9. NothingLost'
  BY <1>1 DEF NothingLost, TypeOK, Procs
<1> QED
  BY <1>2, <1>3, <1>4, <1>5, <1>6, <1>7, <1>8, <1>9

LEMMA SavePidKeeps == ASSUME BuildInv, NEW b \in Builds, SavePid(b) PROVE BuildInv'
<1> USE DEF BuildInv, SavePid, disk, work, faults, Gives
<1>1. b \in Procs /\ pc[b] = "spawned" /\ b \notin Sweepers /\ b # Free
  BY BuildAssumption DEF Procs, TypeOK
<1>2. TypeOK'
  <2>1. PICK to \in {"saved", "ended"} : pc' = [pc EXCEPT ![b] = to]
    OBVIOUS
  <2>2. to \in WrapperAt /\ lease # b /\ to \notin Holding
    BY <1>1, <2>1 DEF TypeOK, Holding, WrapperAt
  <2>3. \A p \in Procs : fin[p] # Off => p # b
    BY <1>1 DEF TypeOK
  <2>4. job' \in [Builds -> Jobs]
    <3>1. job \in [Builds -> Jobs]
      BY DEF TypeOK
    <3>2. job' = job \/ job' = [job EXCEPT ![b].pid = TRUE]
      OBVIOUS
    <3> HIDE DEF BuildInv, SavePid
    <3> QED
      BY <3>1, <3>2, JobUpdates
  <2> QED
    BY <2>1, <2>2, <2>3, <2>4, Placed DEF TypeOK
<1>3. CopiesAreLater'
  BY <1>1 DEF CopiesAreLater, Before, TypeOK, Calls, Procs
<1>4. AdmissionSeesAll'
  BY <1>1 DEF AdmissionSeesAll, TypeOK, Procs
<1>5. StagesTellTheDisk'
  <2>1. \A a \in Builds : /\ a # b => pc'[a] = pc[a] /\ job'[a] = job[a]
                        /\ pc'[b] \in {"saved", "ended"} /\ (pc'[b] = "saved" => job'[b].pid)
    BY <1>1 DEF TypeOK, Procs, Jobs
  <2> QED
    BY <1>1, <2>1 DEF StagesTellTheDisk, Before, Over
<1>6. ArtefactIsWhole'
  BY <1>1 DEF ArtefactIsWhole, Before, Over, Unused, WorkerAlive, TypeOK, Procs
<1>7. CallKnows'
  BY <1>1 DEF CallKnows, Over, Unused, WorkerAlive, TypeOK, Calls, Procs
<1>8. LiveWorkKept'
  <2>1. job \in [Builds -> Jobs]
    BY DEF TypeOK
  <2>2. CASE job' = job
    BY <2>2 DEF LiveWorkKept, WorkerAlive
  <2>3. CASE job' = [job EXCEPT ![b].pid = TRUE]
    <3>1. job'[b].pid /\ \A a \in Builds : a # b => job'[a] = job[a]
      BY <2>1, <2>3, JobUpdates
    <3> QED
      BY <3>1 DEF LiveWorkKept, WorkerAlive
  <2> QED
    BY <2>2, <2>3
<1>9. NothingLost'
  BY <1>1 DEF NothingLost, TypeOK, Procs
<1> QED
  BY <1>2, <1>3, <1>4, <1>5, <1>6, <1>7, <1>8, <1>9

LEMMA SendRunKeeps == ASSUME BuildInv, NEW b \in Builds, SendRun(b) PROVE BuildInv'
<1> USE DEF BuildInv, SendRun, disk, work, faults, Gives, RunAt
<1>1. b \in Procs /\ pc[b] = "saved" /\ b \notin Sweepers /\ b # Free
  BY BuildAssumption DEF Procs, TypeOK, RunAt
<1>2. TypeOK'
  BY <1>1, HolderIsAlone DEF TypeOK, Holding, WrapperAt, LeaseFree, Procs
<1>3. CopiesAreLater'
  BY <1>1 DEF CopiesAreLater, Before, TypeOK, Calls, Procs
<1>4. AdmissionSeesAll'
  BY <1>1 DEF AdmissionSeesAll, TypeOK, Procs
<1>5. StagesTellTheDisk'
  BY <1>1 DEF StagesTellTheDisk, Before, Over, TypeOK, Procs
<1>6. ArtefactIsWhole'
  BY <1>1 DEF ArtefactIsWhole, Before, Over, Unused, WorkerAlive, TypeOK, Procs
<1>7. CallKnows'
  BY <1>1 DEF CallKnows, Over, Unused, WorkerAlive, TypeOK, Calls, Procs
<1>8. LiveWorkKept'
  BY <1>1 DEF LiveWorkKept, StagesTellTheDisk, ArtefactIsWhole, Before, Over, WorkerAlive, TypeOK, Procs
<1>9. NothingLost'
  BY <1>1 DEF NothingLost, TypeOK, Procs
<1> QED
  BY <1>2, <1>3, <1>4, <1>5, <1>6, <1>7, <1>8, <1>9

LEMMA SaveFinishedKeeps == ASSUME BuildInv, NEW b \in Builds, SaveFinished(b) PROVE BuildInv'
<1> USE DEF BuildInv, SaveFinished, disk, work, faults, Gives
<1>1. b \in Procs /\ pc[b] \in {"ended", "running"} /\ b \notin Sweepers /\ b # Free
  BY BuildAssumption DEF Procs, TypeOK
<1>10. /\ job' \in [Builds -> Jobs] /\ \A a \in Builds : a # b => job'[a] = job[a]
       /\ job'[b].pid = (worker[b] # "none")
  <2> DEFINE v == (worker[b] # "none")
             k == [job EXCEPT ![b].pid = v]
  <2>1. v \in BOOLEAN /\ job \in [Builds -> Jobs]
    BY DEF TypeOK
  <2>2. job' = [k EXCEPT ![b].finished = TRUE]
    BY <2>1 DEF TypeOK
  <2> HIDE DEF v
  <2>3. k \in [Builds -> Jobs] /\ k[b].pid = v /\ \A a \in Builds : a # b => k[a] = job[a]
    <3>1. k = [job EXCEPT ![b].pid = v]
      OBVIOUS
    <3> HIDE DEF k, BuildInv, SaveFinished
    <3> QED
      BY <2>1, <3>1, JobUpdates
  <2> HIDE DEF k, BuildInv, SaveFinished
  <2>4. job' \in [Builds -> Jobs] /\ job'[b].pid = v /\ \A a \in Builds : a # b => job'[a] = job[a]
    <3>0. k \in [Builds -> Jobs] /\ TRUE \in BOOLEAN
      BY <2>3
    <3>1. \A a \in Builds : a # b => job'[a] = k[a]
      BY <2>2, <3>0
    <3>3. job' \in [Builds -> Jobs]
      <4> DEFINE j == k[b]
                 x == [j EXCEPT !.finished = TRUE]
      <4>1. j \in Jobs /\ job' = [k EXCEPT ![b] = x]
        BY <2>2, <3>0
      <4> HIDE DEF j
      <4>2. x \in Jobs
        BY <4>1 DEF Jobs
      <4> HIDE DEF x
      <4> QED
        BY <3>0, <4>1, <4>2
    <3>2. job'[b].pid = k[b].pid
      BY <2>2, <2>3, TRUE \in BOOLEAN, JobUpdates
    <3> QED
      BY <2>3, <3>1, <3>2, <3>3
  <2> QED
    BY <2>4 DEF v
<1>2. TypeOK'
  <2>1. "finished" \in WrapperAt /\ lease # b /\ "finished" \notin Holding
    BY <1>1 DEF TypeOK, Holding, WrapperAt
  <2>2. \A p \in Procs : fin[p] # Off => p # b
    BY <1>1 DEF TypeOK
  <2> QED
    BY <1>10, <2>1, <2>2, Placed DEF TypeOK
<1>3. CopiesAreLater'
  BY <1>1 DEF CopiesAreLater, Before, TypeOK, Calls, Procs
<1>4. AdmissionSeesAll'
  BY <1>1 DEF AdmissionSeesAll, TypeOK, Procs
<1>5. StagesTellTheDisk'
  BY <1>1 DEF StagesTellTheDisk, Before, Over, TypeOK, Procs
<1>6. ArtefactIsWhole'
  BY <1>1 DEF ArtefactIsWhole, Before, Over, Unused, WorkerAlive, TypeOK, Procs
<1>7. CallKnows'
  BY <1>1 DEF CallKnows, Over, Unused, WorkerAlive, TypeOK, Calls, Procs
<1>8. LiveWorkKept'
  <2>1. worker[b] = "running" => job'[b].pid
    BY <1>10
  <2> QED
    BY <1>10, <2>1 DEF LiveWorkKept, WorkerAlive
<1>9. NothingLost'
  BY <1>1 DEF NothingLost, TypeOK, Procs
<1> QED
  BY <1>2, <1>3, <1>4, <1>5, <1>6, <1>7, <1>8, <1>9

-----------------------------------------------------------------------------
(* Calls of finishJob.                                                     *)

\* A call starts with the copy it is given.
LEMMA CallStarts ==
    ASSUME NEW c \in [b : Builds, job : Jobs]
    PROVE  /\ Called(c) \in Calls /\ Called(c) # Off
           /\ Called(c).b = c.b /\ Called(c).job = c.job /\ Called(c).step = "inspect"
BY DEF Called, Calls, Working, Off

\* A call goes on to another step about the same build, and is the only one there is.
LEMMA CallGoes ==
    ASSUME TypeOK, NEW p \in Procs, fin[p] # Off, NEW step \in Working, Goes(p, step)
    PROVE  /\ fin' \in [Procs -> Calls \cup {Off}]
           /\ fin'[p] # Off /\ fin'[p].step = step /\ fin'[p].b = fin[p].b
           /\ fin'[p].job = fin[p].job /\ fin'[p].version = fin[p].version
           /\ \A q \in Procs : q # p => fin'[q] = fin[q]
<1> DEFINE c == fin[p]
           x == [c EXCEPT !.step = step]
<1>1. c \in Calls /\ fin \in [Procs -> Calls \cup {Off}] /\ fin' = [fin EXCEPT ![p] = x]
  BY DEF TypeOK, Goes
<1> HIDE DEF c
<1>2. /\ x \in Calls /\ x # Off
      /\ x.step = step /\ x.b = c.b /\ x.job = c.job /\ x.version = c.version
  BY <1>1 DEF Calls, Working, Off
<1> HIDE DEF x
<1> QED
  BY <1>1, <1>2 DEF c

LEMMA LockOwnKeeps == ASSUME BuildInv, NEW b \in Builds, LockOwn(b) PROVE BuildInv'
<1> USE DEF BuildInv, LockOwn, Gives, disk, work, faults
<1>1. /\ b \in Procs /\ pc[b] = "finished" /\ b \notin Sweepers /\ b # Free /\ b \in recorded
      /\ fin[b] = Off
  BY BuildAssumption DEF Procs, TypeOK, StagesTellTheDisk, Before, Over
<1> DEFINE c == [b |-> b, job |-> job[b]]
<1>2. c \in [b : Builds, job : Jobs] /\ c.b = b
  BY DEF TypeOK
<1> HIDE DEF c
<1>3. CASE LeaseFree
  <2>1. /\ lease = Free /\ lease' = b
        /\ pc' = [pc EXCEPT ![b] = "publishing"]
        /\ fin' = [fin EXCEPT ![b] = Called(c)]
    BY <1>3 DEF LeaseFree, c
  <2>2. "publishing" \in WrapperAt /\ "publishing" \in Holding
    BY DEF WrapperAt, Holding
  <2>3. /\ fin' \in [Procs -> Calls \cup {Off}]
        /\ fin'[b] # Off /\ fin'[b].b = b /\ fin'[b].step = "inspect"
        /\ \A p \in Procs : p # b => fin'[p] = fin[p] /\ fin[p] = Off
    <3>1. \A p \in Procs : fin[p] = Off
      BY <1>3, HolderIsAlone
    <3> QED
      BY <1>1, <1>2, <2>1, <3>1, CallStarts DEF TypeOK
  <2>4. TypeOK'
    BY <1>1, <2>1, <2>2, <2>3, Placed DEF TypeOK
  <2>5. \A a \in Procs : pc'[a] = IF a = b THEN "publishing" ELSE pc[a]
    BY <2>1 DEF TypeOK
  <2>6. CopiesAreLater'
    <3>1. \A p \in Procs : \A x \in todo[p] : x.b \in Procs
      BY DEF TypeOK, Procs
    <3>2. \A a \in Procs : pc[a] \notin Before => pc'[a] \notin Before
      BY <2>5 DEF Before
    <3>3. \A p \in Procs : fin'[p] # Off => p = b
      BY <2>3
    <3>4. pc'[b] \notin Before
      BY <1>1, <2>5 DEF Before
    <3> QED
      BY <1>1, <2>3, <3>1, <3>2, <3>3, <3>4 DEF CopiesAreLater
  <2>7. AdmissionSeesAll'
    BY <1>1, <2>3, <2>5 DEF AdmissionSeesAll, TypeOK, Procs
  <2>8. StagesTellTheDisk' /\ ArtefactIsWhole'
    BY <1>1, <2>5 DEF StagesTellTheDisk, ArtefactIsWhole, Before, Over, Unused, WorkerAlive, Procs
  <2>9. CallKnows' /\ LiveWorkKept' /\ NothingLost'
    BY <2>3 DEF CallKnows, LiveWorkKept, NothingLost, WorkerAlive
  <2> QED
    BY <2>4, <2>6, <2>7, <2>8, <2>9
<1>4. CASE ~LeaseFree
  <2>1. lease' = lease /\ pc' = [pc EXCEPT ![b] = "gone"] /\ fin' = fin
    BY <1>4
  <2>2. "gone" \in WrapperAt /\ "gone" \notin Holding /\ lease # b
    BY <1>1 DEF WrapperAt, Holding, TypeOK
  <2>3. TypeOK'
    BY <1>1, <2>1, <2>2, Placed DEF TypeOK
  <2>4. \A a \in Procs : pc'[a] = IF a = b THEN "gone" ELSE pc[a]
    BY <2>1 DEF TypeOK
  <2>5. CopiesAreLater' /\ AdmissionSeesAll'
    BY <1>1, <2>1, <2>4 DEF CopiesAreLater, AdmissionSeesAll, Before, TypeOK, Calls, Procs
  <2>6. StagesTellTheDisk' /\ ArtefactIsWhole'
    BY <1>1, <2>4 DEF StagesTellTheDisk, ArtefactIsWhole, Before, Over, Unused, WorkerAlive, Procs
  <2>7. CallKnows'
    BY <1>1, <2>1, <2>4 DEF CallKnows, Over, Unused, WorkerAlive, TypeOK, Calls, Procs
  <2>8. LiveWorkKept' /\ NothingLost'
    BY DEF LiveWorkKept, NothingLost, WorkerAlive
  <2> QED
    BY <2>3, <2>5, <2>6, <2>7, <2>8
<1> QED
  BY <1>3, <1>4

-----------------------------------------------------------------------------
(* The sweep.                                                              *)

\* A sweeper moves, reads or forgets; no build notices.
LEMMA SweeperMoves ==
    ASSUME BuildInv, NEW s \in Sweepers, NEW to \in SweeperAt,
           UNCHANGED <<fin, disk, work, faults>>, fin[s] = Off,
           pc' = [pc EXCEPT ![s] = to],
           to \in Holding => lease \in {s, Free},
           lease' = IF to \in Holding THEN s ELSE IF lease = s THEN Free ELSE lease,
           \/ todo' = [todo EXCEPT ![s] = {}]
           \/ todo' = [todo EXCEPT ![s] = Copies]
           \/ UNCHANGED todo
    PROVE  BuildInv'
<1> USE DEF BuildInv, disk, work, faults
<1>1. s \in Procs /\ s \notin Builds /\ Free \notin Procs
  BY BuildAssumption DEF Procs
<1>2. \A p \in Procs : pc'[p] = IF p = s THEN to ELSE pc[p]
  BY <1>1 DEF TypeOK
<1>3. /\ Copies \in SUBSET [b : Builds, job : Jobs]
      /\ \A c \in Copies : c.b \in recorded /\ c.b \in Builds
  <2> SUFFICES ASSUME NEW c \in Copies
               PROVE  /\ c \in [b : Builds, job : Jobs] /\ c.b \in recorded /\ c.b \in Builds
    OBVIOUS
  <2>1. PICK a \in recorded : c = [b |-> a, job |-> job[a]]
    BY DEF Copies
  <2>2. a \in Builds /\ job[a] \in Jobs
    BY DEF TypeOK
  <2> QED
    BY <2>1, <2>2
<1> HIDE DEF Copies
<1>4. /\ todo' \in [Procs -> SUBSET [b : Builds, job : Jobs]]
      /\ \A p \in Procs : \A c \in todo'[p] : c \notin todo[p] => c.b \in recorded
      /\ \A b \in Builds : todo'[b] = todo[b]
  <2>1. todo \in [Procs -> SUBSET [b : Builds, job : Jobs]] /\ Builds \subseteq Procs
    BY DEF TypeOK, Procs
  <2>2. CASE todo' = [todo EXCEPT ![s] = {}]
    BY <1>1, <2>1, <2>2
  <2>3. CASE todo' = [todo EXCEPT ![s] = Copies]
    BY <1>1, <1>3, <2>1, <2>3
  <2>4. CASE UNCHANGED todo
    BY <2>1, <2>4
  <2> QED
    BY <2>2, <2>3, <2>4
<1>5. TypeOK'
  <2>1. /\ pc' \in [Procs -> WrapperAt \cup SweeperAt]
        /\ \A b \in Builds : pc'[b] \in WrapperAt
        /\ \A r \in Sweepers : pc'[r] \in SweeperAt
    BY <1>1, <1>2 DEF TypeOK, Procs
  <2>2. lease' \in Procs \cup {Free} /\ \A p \in Procs : pc'[p] \in Holding <=> lease' = p
    BY <1>1, <1>2 DEF TypeOK
  <2>3. \A p \in Procs : fin'[p] # Off => pc'[p] \in {"admitting", "publishing", "sweeping"}
    BY <1>1, <1>2 DEF TypeOK
  <2> QED
    BY <1>4, <2>1, <2>2, <2>3 DEF TypeOK
<1>6. \A b \in Builds : pc'[b] = pc[b]
  BY <1>1, <1>2 DEF Procs
<1>7. CopiesAreLater'
  <2>1. \A p \in Procs : /\ \A c \in todo[p] : c.b \in Builds
                         /\ fin[p] # Off => fin[p].b \in Builds
    BY DEF TypeOK, Calls
  <2>2. \A b \in recorded : b \in Builds /\ pc[b] \notin Before
    BY DEF StagesTellTheDisk, TypeOK
  <2> QED
    BY <1>4, <1>6, <2>1, <2>2 DEF CopiesAreLater
<1>8. AdmissionSeesAll'
  BY <1>4, <1>6 DEF AdmissionSeesAll
<1>9. StagesTellTheDisk' /\ ArtefactIsWhole'
  BY <1>6 DEF StagesTellTheDisk, ArtefactIsWhole, Unused, WorkerAlive
<1>10. CallKnows'
  BY <1>6 DEF CallKnows, Unused, WorkerAlive, TypeOK, Calls
<1>11. LiveWorkKept' /\ NothingLost'
  BY DEF LiveWorkKept, NothingLost, WorkerAlive
<1> QED
  BY <1>5, <1>7, <1>8, <1>9, <1>10, <1>11

LEMMA SweeperKeeps == ASSUME BuildInv, NEW s \in Sweepers, Sweeper(s) PROVE BuildInv'
<1>1. s \in Procs /\ TypeOK /\ Free \notin Procs
  BY BuildAssumption DEF Procs, BuildInv
<1>2. {"idle", "read", "sweeping"} \subseteq SweeperAt
  BY DEF SweeperAt
<1>3. CASE SweepRead(s)
  <2>1. fin[s] = Off /\ lease # s
    BY <1>1, <1>3 DEF SweepRead, TypeOK, Holding
  <2> QED
    BY <1>2, <1>3, <2>1, SweeperMoves DEF SweepRead, Gives, Holding
<1>4. CASE SweepLock(s)
  <2>1. fin[s] = Off /\ lease # s
    BY <1>1, <1>4 DEF SweepLock, TypeOK, Holding
  <2> QED
    BY <1>1, <1>2, <1>4, <2>1, SweeperMoves DEF SweepLock, Gives, Holding, LeaseFree
<1>5. CASE SweepEnds(s)
  <2>1. fin[s] = Off /\ lease = s
    BY <1>1, <1>5 DEF SweepEnds, TypeOK, Holding
  <2> QED
    BY <1>2, <1>5, <2>1, SweeperMoves DEF SweepEnds, Gives, Holding
<1> QED
  BY <1>3, <1>4, <1>5 DEF Sweeper

-----------------------------------------------------------------------------
(* Calls that end early, and deaths.                                       *)

\* Processes give up or die, and take no part any more; the disk stays as it is.
LEMMA SomeDepart ==
    ASSUME BuildInv, TypeOK', UNCHANGED disk,
           \A p \in Procs : /\ fin'[p] # fin[p] => fin'[p] = Off
                            /\ todo'[p] \subseteq todo[p],
           \A b \in Builds : \/ pc'[b] = pc[b] /\ todo'[b] = todo[b] /\ fin'[b] = fin[b]
                             \/ pc'[b] = "gone" /\ pc[b] # "new"
                             \/ pc'[b] = "new" /\ pc[b] = "new",
           \A b \in Builds : /\ worker'[b] # worker[b] => worker[b] # "none" /\ worker'[b] = "ended"
                             /\ b \in strag' => b \in strag
    PROVE  BuildInv'
<1> USE DEF BuildInv, disk
<1>1. \A b \in Builds : /\ Unused(b) => Unused(b)'
                        /\ WorkerAlive(b)' => WorkerAlive(b)
                        /\ worker'[b] = "running" => worker[b] = "running"
                        /\ pc[b] \in Over => pc'[b] \in Over
                        /\ pc[b] \notin Before => pc'[b] \notin Before
                        /\ pc'[b] \notin {"gone", "new"} => pc'[b] = pc[b]
                        /\ pc'[b] = "new" => pc[b] = "new"
  BY DEF Unused, WorkerAlive, Before, Over
<1>2. \A p \in Procs : /\ \A c \in todo[p] : c.b \in Builds
                       /\ fin[p] # Off => fin[p].b \in Builds
  BY DEF TypeOK, Calls
<1>3. CopiesAreLater'
  BY <1>1, <1>2 DEF CopiesAreLater
<1>4. AdmissionSeesAll'
  BY <1>1 DEF AdmissionSeesAll
<1>5. StagesTellTheDisk'
  BY <1>1 DEF StagesTellTheDisk, Before, Over
<1>6. ArtefactIsWhole'
  BY <1>1 DEF ArtefactIsWhole
<1>7. CallKnows'
  BY <1>1, <1>2 DEF CallKnows
<1>8. LiveWorkKept' /\ NothingLost'
  BY <1>1 DEF LiveWorkKept, NothingLost
<1> QED
  BY <1>3, <1>4, <1>5, <1>6, <1>7, <1>8

LEMMA RetainedKeeps ==
    ASSUME BuildInv, NEW p \in Procs, fin[p] # Off, Retained(p), UNCHANGED <<work, crashes>>,
           failures' \in 0..MaxFailures
    PROVE  BuildInv'
<1> USE DEF BuildInv, work
<1>1. /\ TypeOK /\ Free \notin Procs /\ \A s \in Sweepers : s \notin Builds
      /\ pc[p] \in {"admitting", "publishing", "sweeping"} /\ lease = p
  BY BuildAssumption DEF TypeOK, Holding, Procs
<1>2. /\ fin' = [fin EXCEPT ![p] = Off] /\ fin' \in [Procs -> Calls \cup {Off}]
      /\ todo' \in [Procs -> SUBSET [b : Builds, job : Jobs]]
      /\ \A q \in Procs : todo'[q] \subseteq todo[q] /\ (q # p => todo'[q] = todo[q])
      /\ UNCHANGED disk
  BY DEF Retained, TypeOK
<1>3. CASE p \in Builds
  <2>1. pc' = [pc EXCEPT ![p] = "gone"] /\ lease' = Free
    BY <1>3 DEF Retained, EndsRetained
  <2>2. "gone" \in WrapperAt /\ "gone" \notin Holding
    BY DEF WrapperAt, Holding
  <2>3. TypeOK'
    BY <1>1, <1>2, <1>3, <2>1, <2>2, Placed DEF TypeOK, disk
  <2>4. pc[p] # "new" /\ pc'[p] = "gone" /\ \A b \in Builds : b # p => pc'[b] = pc[b]
    BY <1>1, <2>1 DEF TypeOK, Procs
  <2>5. \A b \in Builds : \/ pc'[b] = pc[b] /\ todo'[b] = todo[b] /\ fin'[b] = fin[b]
                          \/ pc'[b] = "gone" /\ pc[b] # "new"
    BY <1>2, <2>4 DEF Procs
  <2>6. \A q \in Procs : fin'[q] # fin[q] => fin'[q] = Off
    BY <1>2 DEF TypeOK
  <2> QED
    BY <1>2, <2>3, <2>5, <2>6, SomeDepart
<1>4. CASE p \notin Builds
  <2>1. UNCHANGED <<pc, lease>>
    BY <1>4 DEF Retained, EndsRetained
  <2>2. TypeOK'
    BY <1>1, <1>2, <2>1 DEF TypeOK, disk
  <2>3. \A b \in Builds : pc'[b] = pc[b] /\ todo'[b] = todo[b] /\ fin'[b] = fin[b]
    BY <1>2, <1>4, <2>1 DEF Procs, TypeOK
  <2>4. \A q \in Procs : fin'[q] # fin[q] => fin'[q] = Off
    BY <1>2 DEF TypeOK
  <2> QED
    BY <1>2, <2>2, <2>3, <2>4, SomeDepart
<1> QED
  BY <1>3, <1>4

LEMMA FailsKeeps ==
    ASSUME BuildInv, NEW p \in Procs, fin[p] # Off, Fails(p), UNCHANGED work
    PROVE  BuildInv'
<1>1. failures' \in 0..MaxFailures
  BY BuildAssumption DEF Fails, BuildInv, TypeOK
<1> QED
  BY <1>1, RetainedKeeps DEF Fails

LEMMA KilledKeeps ==
    ASSUME BuildInv, NEW dead \in SUBSET Procs, Killed(dead),
           worker' \in [Builds -> {"none", "waiting", "running", "ended"}], strag' \subseteq strag,
           \A b \in Builds : worker'[b] # worker[b] => worker[b] # "none" /\ worker'[b] = "ended"
    PROVE  BuildInv'
<1> USE DEF BuildInv
<1>1. /\ TypeOK /\ Free \notin Procs /\ \A s \in Sweepers : s \notin Builds
      /\ Free \notin dead
  BY BuildAssumption DEF Procs
<1>2. \A p \in Procs : /\ pc'[p] = IF p \notin dead THEN pc[p]
                                   ELSE IF p \in Sweepers THEN "idle"
                                   ELSE IF pc[p] = "new" THEN "new" ELSE "gone"
                       /\ todo'[p] = (IF p \in dead THEN {} ELSE todo[p])
                       /\ fin'[p] = (IF p \in dead THEN Off ELSE fin[p])
  BY DEF Killed
<1>3. TypeOK'
  <2>1. /\ pc' \in [Procs -> WrapperAt \cup SweeperAt]
        /\ \A b \in Builds : pc'[b] \in WrapperAt
        /\ \A s \in Sweepers : pc'[s] \in SweeperAt
    BY <1>1, <1>2 DEF Killed, TypeOK, WrapperAt, SweeperAt, Procs
  <2>2. /\ todo' \in [Procs -> SUBSET [b : Builds, job : Jobs]]
        /\ fin' \in [Procs -> Calls \cup {Off}]
    BY DEF Killed, TypeOK
  <2>3. lease' \in Procs \cup {Free} /\ \A p \in Procs : pc'[p] \in Holding <=> lease' = p
    BY <1>1, <1>2 DEF Killed, TypeOK, Holding
  <2>4. \A p \in Procs : fin'[p] # Off => pc'[p] \in {"admitting", "publishing", "sweeping"}
    BY <1>1, <1>2 DEF TypeOK
  <2>5. crashes' \in 0..MaxCrashes
    BY <1>1, BuildAssumption DEF Killed, TypeOK
  <2> QED
    BY <1>1, <2>1, <2>2, <2>3, <2>4, <2>5 DEF Killed, TypeOK, disk
<1>4. \A b \in Builds : \/ pc'[b] = pc[b] /\ todo'[b] = todo[b] /\ fin'[b] = fin[b]
                        \/ pc'[b] = "gone" /\ pc[b] # "new"
                        \/ pc'[b] = "new" /\ pc[b] = "new"
  BY <1>1, <1>2 DEF Procs
<1>5. UNCHANGED disk
  BY DEF Killed
<1> QED
  BY <1>2, <1>3, <1>4, <1>5, SomeDepart

LEMMA CrashKeeps == ASSUME BuildInv, NEW p \in Procs, Crash(p) PROVE BuildInv'
BY KilledKeeps DEF Crash, work, BuildInv, TypeOK

LEMMA RebootKeeps == ASSUME BuildInv, Reboot PROVE BuildInv'
<1>1. worker \in [Builds -> {"none", "waiting", "running", "ended"}]
  BY DEF BuildInv, TypeOK
<1>2. /\ worker' \in [Builds -> {"none", "waiting", "running", "ended"}] /\ strag' \subseteq strag
      /\ \A b \in Builds : worker'[b] # worker[b] => worker[b] # "none" /\ worker'[b] = "ended"
  BY <1>1 DEF Reboot, WorkerAlive
<1> QED
  BY <1>2, KilledKeeps DEF Reboot

-----------------------------------------------------------------------------
(* The steps of a call that go on.                                         *)

LEMMA TakeNextKeeps == ASSUME BuildInv, NEW p \in Procs, TakeNext(p) PROVE BuildInv'
<1> USE DEF BuildInv, TakeNext, disk, work, faults
<1>1. PICK c \in todo[p] : /\ todo' = [todo EXCEPT ![p] = @ \ {c}]
                           /\ fin' = [fin EXCEPT ![p] = Called(c)]
  OBVIOUS
<1>2. c \in [b : Builds, job : Jobs] /\ c.b \in Builds
  BY DEF TypeOK
<1>3. /\ fin' \in [Procs -> Calls \cup {Off}]
      /\ fin'[p] # Off /\ fin'[p].b = c.b /\ fin'[p].step = "inspect"
      /\ \A q \in Procs : q # p => fin'[q] = fin[q]
  BY <1>1, <1>2, CallStarts DEF TypeOK
<1>4. /\ todo' \in [Procs -> SUBSET [b : Builds, job : Jobs]]
      /\ todo'[p] = todo[p] \ {c}
      /\ \A q \in Procs : q # p => todo'[q] = todo[q]
  BY <1>1 DEF TypeOK
<1>5. fin[p] = Off /\ UNCHANGED <<pc, lease, disk, work, faults>>
  OBVIOUS
<1>6. TypeOK'
  BY <1>3, <1>4, <1>5 DEF TypeOK
<1>7. CopiesAreLater'
  BY <1>3, <1>4, <1>5 DEF CopiesAreLater
<1>8. AdmissionSeesAll'
  BY <1>3, <1>4, <1>5 DEF AdmissionSeesAll, Procs
<1>9. StagesTellTheDisk' /\ ArtefactIsWhole' /\ LiveWorkKept' /\ NothingLost'
  BY DEF StagesTellTheDisk, ArtefactIsWhole, LiveWorkKept, NothingLost, Unused, WorkerAlive
<1>10. CallKnows'
  BY <1>3, <1>5 DEF CallKnows, Unused, WorkerAlive
<1> QED
  BY <1>6, <1>7, <1>8, <1>9, <1>10

\* Where a call goes on, and only the disk around its build changes, as its build allows.
LEMMA CallMoves ==
    ASSUME BuildInv, NEW p \in Procs, fin[p] # Off,
           UNCHANGED <<pc, lease, todo, files, work, faults>>,
           TypeOK', fin'[p] # Off, fin'[p].b = fin[p].b,
           \A q \in Procs : q # p => fin'[q] = fin[q],
           recorded' = recorded,
           pc[fin[p].b] \in Over, Unused(fin[p].b),
           \A b \in Builds : b # fin[p].b =>
               /\ job'[b] = job[b] /\ dir'[b] = dir[b] /\ receipt'[b] = receipt[b]
               /\ b \in published' <=> b \in published,
           dir'[fin[p].b] # "none" => dir[fin[p].b] # "none",
           fin[p].b \in published' => receipt'[fin[p].b].version = files[fin[p].b],
           dir'[fin[p].b] = "part" => fin[p].b \in published',
           dir'[fin[p].b] = "none" /\ files[fin[p].b] > 0 => fin[p].b \in published',
           CallKnows'
    PROVE  BuildInv'
<1> DEFINE c == fin[p].b
<1>1. c \in Builds /\ pc[c] \notin Before /\ ~WorkerAlive(c) /\ c \notin strag
  BY DEF BuildInv, TypeOK, Calls, CopiesAreLater, Unused
<1>2. \A q \in Procs : fin[q] # Off => q = p
  BY HolderIsAlone DEF BuildInv
<1> USE DEF BuildInv, work, faults
<1>3. CopiesAreLater'
  <2>1. \A q \in Procs : \A x \in todo[q] : x.b \in Builds
    BY DEF TypeOK
  <2> QED
    BY <1>1, <1>2, <2>1 DEF CopiesAreLater
<1>4. AdmissionSeesAll'
  BY <1>2 DEF AdmissionSeesAll, Procs
<1>5. StagesTellTheDisk'
  BY <1>1 DEF StagesTellTheDisk, Before, Over
<1>6. ArtefactIsWhole'
  BY <1>1 DEF ArtefactIsWhole, Unused, WorkerAlive
<1>7. LiveWorkKept'
  BY <1>1 DEF LiveWorkKept, WorkerAlive
<1>8. NothingLost'
  <2>1. \A b \in Builds : b # c /\ dir'[b] # "whole" /\ files[b] > 0 =>
            b \in published' /\ receipt'[b].version = files[b]
    BY DEF NothingLost
  <2>2. dir'[c] # "whole" /\ files[c] > 0 => c \in published'
    BY <1>1 DEF TypeOK
  <2> QED
    BY <1>1, <2>1, <2>2 DEF NothingLost
<1> QED
  BY <1>3, <1>4, <1>5, <1>6, <1>7, <1>8

LEMMA InspectKeeps == ASSUME BuildInv, NEW p \in Procs, Inspect(p) PROVE BuildInv'
<1> DEFINE b == fin[p].b
           busy == \/ b # p /\ Alive(b)
                   \/ fin[p].job.pid /\ WorkerAlive(b)
                   \/ IF dir[b] = "none" THEN ~Forgotten(fin[p].job) ELSE ~Unused(b)
<1>1. fin[p] # Off /\ fin[p].step = "inspect" /\ b \in Builds /\ UNCHANGED work
  BY DEF Inspect, At, BuildInv, TypeOK, Calls
<1>2. CASE busy /\ Retained(p) /\ UNCHANGED faults
  BY <1>1, <1>2, RetainedKeeps DEF BuildInv, TypeOK, faults
<1>3. CASE Fails(p)
  BY <1>1, <1>3, FailsKeeps
<1>4. CASE /\ ~busy
           /\ Goes(p, IF dir[b] = "none" THEN "unlink" ELSE "copy")
           /\ UNCHANGED <<pc, lease, todo, disk, faults>>
  <2> DEFINE step == IF dir[b] = "none" THEN "unlink" ELSE "copy"
  <2>1. step \in Working /\ TypeOK
    BY DEF Working, BuildInv
  <2>2. /\ fin' \in [Procs -> Calls \cup {Off}]
        /\ fin'[p] # Off /\ fin'[p].step = step /\ fin'[p].b = b
        /\ \A q \in Procs : q # p => fin'[q] = fin[q]
    BY <1>1, <1>4, <2>1, CallGoes
  <2> HIDE DEF step
  <2>3. pc[b] \in Over
    <3>1. pc[b] \notin Before
      BY <1>1 DEF BuildInv, CopiesAreLater
    <3>2. b = p => pc[p] \in {"admitting", "publishing", "sweeping"} /\ pc[p] \in WrapperAt
      BY <1>1 DEF BuildInv, TypeOK
    <3>3. b # p => pc[b] \in {"new", "gone"}
      BY <1>4 DEF Alive
    <3> QED
      BY <3>1, <3>2, <3>3 DEF Before, Over, WrapperAt
  <2>4. Unused(b)
    <3>1. dir[b] = "none" => Unused(b)
      BY <1>1 DEF Unused, BuildInv, LiveWorkKept
    <3> QED
      BY <1>4, <3>1
  <2>5. TypeOK'
    BY <1>1, <1>4, <2>1, <2>2 DEF TypeOK, disk, work, faults
  <2>6. \A q \in Procs : fin[q] # Off => q = p
    BY <1>1, <2>1, HolderIsAlone
  <2>7. CallKnows'
    BY <1>1, <1>4, <2>2, <2>3, <2>4, <2>6 DEF CallKnows, Unused, WorkerAlive, disk, work, step
  <2>8. /\ b \in published => receipt[b].version = files[b]
        /\ dir[b] = "part" => b \in published
        /\ dir[b] = "none" /\ files[b] > 0 => b \in published
    BY <1>1 DEF BuildInv, ArtefactIsWhole, NothingLost
  <2> HIDE DEF b, busy
  <2> QED
    BY <1>1, <1>4, <2>2, <2>3, <2>4, <2>5, <2>7, <2>8, CallMoves DEF disk, b
<1> QED
  BY <1>2, <1>3, <1>4 DEF Inspect

\* What a call past its inspection knows of its build.
LEMMA CallState ==
    ASSUME BuildInv, NEW p \in Procs, fin[p] # Off, fin[p].step # "inspect"
    PROVE  /\ fin[p].b \in Builds /\ fin[p].version \in Nat /\ fin[p].job \in Jobs
           /\ pc[fin[p].b] \in Over /\ Unused(fin[p].b)
           /\ fin[p].b \in published => receipt[fin[p].b].version = files[fin[p].b]
           /\ dir[fin[p].b] = "part" => fin[p].b \in published
           /\ dir[fin[p].b] = "none" /\ files[fin[p].b] > 0 => fin[p].b \in published
           /\ \A q \in Procs : fin[q] # Off => q = p
<1>1. fin[p] \in Calls /\ TypeOK
  BY DEF BuildInv, TypeOK
<1>2. \A q \in Procs : fin[q] # Off => q = p
  BY <1>1, HolderIsAlone
<1>3. fin[p].b \in Builds /\ fin[p].version \in Nat /\ fin[p].job \in Jobs
  BY <1>1 DEF Calls
<1> QED
  BY <1>2, <1>3 DEF BuildInv, CallKnows, ArtefactIsWhole, NothingLost

LEMMA CopyKeeps == ASSUME BuildInv, NEW p \in Procs, Copy(p) PROVE BuildInv'
<1> DEFINE b == fin[p].b
<1>1. fin[p] # Off /\ fin[p].step = "copy" /\ UNCHANGED work /\ TypeOK
  BY DEF Copy, At, BuildInv
<1>2. /\ b \in Builds /\ pc[b] \in Over /\ Unused(b) /\ dir[b] # "none"
      /\ \A q \in Procs : fin[q] # Off => q = p
  BY <1>1, CallState DEF BuildInv, CallKnows
<1>3. CASE Fails(p)
  BY <1>1, <1>3, FailsKeeps
<1>4. CASE ~Fails(p)
  <2>1. /\ UNCHANGED <<pc, lease, todo, disk, faults>>
        /\ IF Acknowledged(b) THEN Goes(p, "save")
           ELSE fin' = [fin EXCEPT ![p].step = "rename", ![p].version = Contents(b)]
    BY <1>4 DEF Copy
  <2>2. /\ fin' \in [Procs -> Calls \cup {Off}]
        /\ fin'[p] # Off /\ fin'[p].b = b
        /\ \A q \in Procs : q # p => fin'[q] = fin[q]
        /\ \/ b \in published /\ fin'[p].step = "save"
           \/ /\ b \notin published /\ fin'[p].step = "rename"
              /\ fin'[p].version = Contents(b)
    <3>1. CASE b \in published
      <4>1. Goes(p, "save") /\ "save" \in Working
        BY <2>1, <3>1 DEF Acknowledged, Working
      <4> QED
        BY <1>1, <3>1, <4>1, CallGoes
    <3>2. CASE b \notin published
      <4> DEFINE c == fin[p]
                 v == Contents(b)
                 x == [c EXCEPT !.step = "rename"]
                 y == [x EXCEPT !.version = v]
                 k == [fin EXCEPT ![p] = x]
      <4>1. c \in Calls /\ fin \in [Procs -> Calls \cup {Off}] /\ v \in Nat
        BY <1>1, <1>2, BuildAssumption DEF TypeOK, Contents
      <4>2. fin' = [fin EXCEPT ![p] = y]
        BY <2>1, <3>2, <4>1 DEF Acknowledged
      <4> HIDE DEF v
      <4>3. b = c.b
        OBVIOUS
      <4> HIDE DEF c
      <4>4. x \in Calls /\ x.b = c.b /\ x.step = "rename"
        BY <4>1 DEF Calls, Working
      <4> HIDE DEF x
      <4>5. y \in Calls /\ y.b = c.b /\ y.step = "rename" /\ y.version = v /\ y # Off
        BY <4>1, <4>4 DEF Calls, Working, Off
      <4> HIDE DEF y, b
      <4> QED
        BY <3>2, <4>1, <4>2, <4>3, <4>5 DEF v
    <3> QED
      BY <3>1, <3>2
  <2>3. TypeOK'
    BY <1>1, <2>1, <2>2 DEF TypeOK, disk, work, faults
  <2>4. b \notin published => dir[b] = "whole" /\ Contents(b) = files[b]
    BY <1>1, <1>2, CallState DEF TypeOK, Contents
  <2>5. CallKnows'
    BY <1>1, <1>2, <2>1, <2>2, <2>4 DEF CallKnows, Unused, WorkerAlive, disk, work
  <2>6. /\ b \in published => receipt[b].version = files[b]
        /\ dir[b] = "part" => b \in published
        /\ dir[b] = "none" /\ files[b] > 0 => b \in published
    BY <1>1, CallState
  <2> QED
    BY <1>1, <1>2, <2>1, <2>2, <2>3, <2>5, <2>6, CallMoves DEF disk
<1> QED
  BY <1>3, <1>4

LEMMA RenameKeeps == ASSUME BuildInv, NEW p \in Procs, Rename(p) PROVE BuildInv'
<1> DEFINE b == fin[p].b
<1>1. fin[p] # Off /\ fin[p].step = "rename" /\ UNCHANGED work /\ TypeOK
  BY DEF Rename, At, BuildInv
<1>2. /\ b \in Builds /\ pc[b] \in Over /\ Unused(b) /\ dir[b] = "whole"
      /\ fin[p].version = files[b] /\ fin[p].version \in Nat /\ fin[p].job \in Jobs
      /\ \A q \in Procs : fin[q] # Off => q = p
  BY <1>1, CallState DEF BuildInv, CallKnows
<1>3. CASE Fails(p)
  BY <1>1, <1>3, FailsKeeps
<1>4. CASE ~Fails(p)
  <2> DEFINE r == [version |-> fin[p].version, finished |-> fin[p].job.finished]
  <2>1. /\ published' = published \cup {b}
        /\ receipt' = [receipt EXCEPT ![b] = r]
        /\ Goes(p, "save") /\ "save" \in Working
        /\ UNCHANGED <<pc, lease, todo, recorded, job, dir, files, faults>>
    BY <1>4 DEF Rename, Working
  <2>2. r \in [version : Nat, finished : BOOLEAN] /\ r.version = files[b]
    BY <1>2 DEF Jobs
  <2> HIDE DEF r
  <2>3. /\ fin' \in [Procs -> Calls \cup {Off}]
        /\ fin'[p] # Off /\ fin'[p].step = "save" /\ fin'[p].b = b
        /\ \A q \in Procs : q # p => fin'[q] = fin[q]
    BY <1>1, <2>1, CallGoes
  <2>4. /\ receipt' \in [Builds -> [version : Nat, finished : BOOLEAN]]
        /\ receipt'[b].version = files[b]
        /\ \A a \in Builds : a # b => receipt'[a] = receipt[a]
    BY <1>1, <1>2, <2>1, <2>2 DEF TypeOK
  <2>5. TypeOK'
    BY <1>1, <1>2, <2>1, <2>3, <2>4 DEF TypeOK, work, faults
  <2>6. CallKnows'
    BY <1>1, <1>2, <2>1, <2>3 DEF CallKnows, Unused, WorkerAlive, work
  <2> QED
    BY <1>1, <1>2, <2>1, <2>3, <2>4, <2>5, <2>6, CallMoves
<1> QED
  BY <1>3, <1>4

LEMMA SavePublishedKeeps == ASSUME BuildInv, NEW p \in Procs, SavePublished(p) PROVE BuildInv'
<1> DEFINE b == fin[p].b
           saved == [fin[p].job EXCEPT !.published = TRUE]
<1>1. /\ fin[p] # Off /\ fin[p].step = "save" /\ TypeOK
      /\ recorded' = recorded \cup {b} /\ job' = [job EXCEPT ![b] = saved]
      /\ fin' = [fin EXCEPT ![p].step = "recheck", ![p].job = saved]
      /\ UNCHANGED <<pc, lease, todo, dir, files, published, receipt, work, faults>>
  BY DEF SavePublished, At, BuildInv
<1>2. /\ b \in Builds /\ pc[b] \in Over /\ Unused(b) /\ dir[b] # "none" /\ b \in published
      /\ fin[p].job \in Jobs
      /\ \A q \in Procs : fin[q] # Off => q = p
  BY <1>1, CallState DEF BuildInv, CallKnows
<1>3. recorded' = recorded
  BY <1>1, <1>2 DEF BuildInv, CopiesAreLater
<1>4. saved \in Jobs
  <2> DEFINE j == fin[p].job
  <2>1. j \in Jobs
    BY <1>2
  <2> HIDE DEF j
  <2>2. [j EXCEPT !.published = TRUE] \in Jobs
    BY <2>1 DEF Jobs
  <2> QED
    BY <2>2 DEF j
<1> HIDE DEF saved
<1>5. /\ fin' \in [Procs -> Calls \cup {Off}]
      /\ fin'[p] # Off /\ fin'[p].step = "recheck" /\ fin'[p].b = b
      /\ \A q \in Procs : q # p => fin'[q] = fin[q]
  <2> DEFINE c == fin[p]
             x == [c EXCEPT !.step = "recheck"]
             y == [x EXCEPT !.job = saved]
  <2>1. c \in Calls /\ fin \in [Procs -> Calls \cup {Off}]
    BY <1>1 DEF TypeOK
  <2>2. fin' = [fin EXCEPT ![p] = y] /\ b = c.b
    BY <1>1, <2>1
  <2> HIDE DEF c
  <2>3. x \in Calls /\ x.b = c.b /\ x.step = "recheck"
    BY <2>1 DEF Calls, Working
  <2> HIDE DEF x
  <2>4. y \in Calls /\ y.b = c.b /\ y.step = "recheck" /\ y # Off
    BY <1>4, <2>3 DEF Calls, Working, Off
  <2> HIDE DEF y, b
  <2> QED
    BY <2>1, <2>2, <2>4
<1>6. job' \in [Builds -> Jobs] /\ \A a \in Builds : a # b => job'[a] = job[a]
  BY <1>1, <1>2, <1>4 DEF TypeOK
<1>7. TypeOK'
  BY <1>1, <1>2, <1>3, <1>5, <1>6 DEF TypeOK, work, faults
<1>8. CallKnows'
  BY <1>1, <1>2, <1>5 DEF CallKnows, Unused, WorkerAlive, work
<1>9. /\ b \in published => receipt[b].version = files[b]
      /\ dir[b] = "part" => b \in published
      /\ dir[b] = "none" /\ files[b] > 0 => b \in published
  BY <1>1, CallState
<1> QED
  BY <1>1, <1>2, <1>3, <1>5, <1>6, <1>7, <1>8, <1>9, CallMoves

LEMMA RecheckKeeps == ASSUME BuildInv, NEW p \in Procs, Recheck(p) PROVE BuildInv'
<1> DEFINE b == fin[p].b
<1>1. fin[p] # Off /\ fin[p].step = "recheck" /\ UNCHANGED work /\ TypeOK
  BY DEF Recheck, At, BuildInv
<1>2. /\ b \in Builds /\ pc[b] \in Over /\ Unused(b) /\ dir[b] # "none" /\ b \in published
      /\ \A q \in Procs : fin[q] # Off => q = p
  BY <1>1, CallState DEF BuildInv, CallKnows
<1>3. CASE Fails(p)
  BY <1>1, <1>3, FailsKeeps
<1>4. CASE ~Fails(p)
  <2>1. /\ dir' = [dir EXCEPT ![b] = "part"]
        /\ Goes(p, "rm") /\ "rm" \in Working
        /\ UNCHANGED <<pc, lease, todo, recorded, job, files, published, receipt, faults>>
    BY <1>2, <1>4 DEF Recheck, Working
  <2>2. /\ fin' \in [Procs -> Calls \cup {Off}]
        /\ fin'[p] # Off /\ fin'[p].step = "rm" /\ fin'[p].b = b
        /\ \A q \in Procs : q # p => fin'[q] = fin[q]
    BY <1>1, <2>1, CallGoes
  <2>3. /\ dir' \in [Builds -> {"none", "whole", "part"}]
        /\ dir'[b] = "part" /\ \A a \in Builds : a # b => dir'[a] = dir[a]
    BY <1>1, <1>2, <2>1 DEF TypeOK
  <2>4. TypeOK'
    BY <1>1, <2>1, <2>2, <2>3 DEF TypeOK, work, faults
  <2>5. CallKnows'
    BY <1>1, <1>2, <2>1, <2>2, <2>3 DEF CallKnows, Unused, WorkerAlive, work
  <2>6. receipt[b].version = files[b]
    BY <1>1, <1>2, CallState
  <2> QED
    BY <1>1, <1>2, <2>1, <2>2, <2>3, <2>4, <2>5, <2>6, CallMoves
<1> QED
  BY <1>3, <1>4

LEMMA RmKeeps == ASSUME BuildInv, NEW p \in Procs, Rm(p) PROVE BuildInv'
<1> DEFINE b == fin[p].b
<1>1. /\ fin[p] # Off /\ fin[p].step = "rm" /\ TypeOK
      /\ dir' = [dir EXCEPT ![b] = "none"]
      /\ Goes(p, "unlink") /\ "unlink" \in Working
      /\ UNCHANGED <<pc, lease, todo, recorded, job, files, published, receipt, work, faults>>
  BY DEF Rm, At, BuildInv, Working
<1>2. /\ b \in Builds /\ pc[b] \in Over /\ Unused(b) /\ dir[b] = "part" /\ b \in published
      /\ \A q \in Procs : fin[q] # Off => q = p
  BY <1>1, CallState DEF BuildInv, CallKnows
<1>3. /\ fin' \in [Procs -> Calls \cup {Off}]
      /\ fin'[p] # Off /\ fin'[p].step = "unlink" /\ fin'[p].b = b
      /\ \A q \in Procs : q # p => fin'[q] = fin[q]
  BY <1>1, CallGoes
<1>4. /\ dir' \in [Builds -> {"none", "whole", "part"}]
      /\ dir'[b] = "none" /\ \A a \in Builds : a # b => dir'[a] = dir[a]
  BY <1>1, <1>2 DEF TypeOK
<1>5. TypeOK'
  BY <1>1, <1>3, <1>4 DEF TypeOK, work, faults
<1>6. CallKnows'
  BY <1>1, <1>2, <1>3, <1>4 DEF CallKnows, Unused, WorkerAlive, work
<1>7. receipt[b].version = files[b]
  BY <1>1, <1>2, CallState
<1> QED
  BY <1>1, <1>2, <1>3, <1>4, <1>5, <1>6, <1>7, CallMoves

LEMMA UnlinkKeeps == ASSUME BuildInv, NEW p \in Procs, Unlink(p) PROVE BuildInv'
<1> DEFINE b == fin[p].b
<1>1. /\ fin[p] # Off /\ fin[p].step = "unlink" /\ TypeOK /\ p # Free
      /\ recorded' = recorded \ {b} /\ fin' = [fin EXCEPT ![p] = Off]
      /\ UNCHANGED <<todo, job, dir, files, published, receipt, work, faults>>
  BY BuildAssumption DEF Unlink, At, BuildInv, Procs
<1>2. /\ b \in Builds /\ pc[b] \in Over /\ Unused(b) /\ dir[b] = "none"
      /\ \A q \in Procs : fin[q] # Off => q = p
  BY <1>1, CallState DEF BuildInv, CallKnows
<1>3. /\ fin' \in [Procs -> Calls \cup {Off}] /\ \A q \in Procs : fin'[q] = Off
  BY <1>1, <1>2 DEF TypeOK
<1>4. /\ pc' \in [Procs -> WrapperAt \cup SweeperAt]
      /\ \A a \in Builds : pc'[a] \in WrapperAt
      /\ \A s \in Sweepers : pc'[s] \in SweeperAt
      /\ lease' \in Procs \cup {Free}
      /\ \A q \in Procs : pc'[q] \in Holding <=> lease' = q
      /\ \A a \in Builds : pc'[a] # pc[a] => pc[a] = "publishing" /\ pc'[a] = "gone"
  <2>1. CASE p \in Builds /\ pc[p] = "publishing"
    <3>1. pc' = [pc EXCEPT ![p] = "gone"] /\ lease' = Free /\ lease = p
      BY <1>1, <2>1 DEF Unlink, TypeOK, Holding
    <3>2. "gone" \in WrapperAt /\ "gone" \notin Holding
      BY DEF WrapperAt, Holding
    <3> QED
      BY <1>1, <2>1, <3>1, <3>2, Placed DEF Procs
  <2>2. CASE ~(p \in Builds /\ pc[p] = "publishing")
    <3>1. UNCHANGED <<pc, lease>>
      BY <2>2 DEF Unlink
    <3> QED
      BY <1>1, <3>1 DEF TypeOK
  <2> QED
    BY <2>1, <2>2
<1>5. TypeOK'
  BY <1>1, <1>3, <1>4 DEF TypeOK, work, faults
<1>6. CopiesAreLater'
  <2>1. \A q \in Procs : \A c \in todo[q] : c.b \in Builds
    BY <1>1 DEF TypeOK
  <2>2. \A a \in Builds : pc[a] \notin Before => pc'[a] \notin Before
    BY <1>4 DEF Before
  <2> QED
    BY <1>1, <1>2, <1>3, <2>1, <2>2 DEF CopiesAreLater, BuildInv
<1>7. AdmissionSeesAll'
  <2>1. \A a \in Builds : pc'[a] \in {"admitting", "made"} => pc[a] = pc'[a]
    BY <1>4
  <2>2. \A a \in Builds : a \in Procs
    BY DEF Procs
  <2> QED
    BY <1>1, <1>2, <1>3, <2>1, <2>2 DEF AdmissionSeesAll, BuildInv
<1>8. StagesTellTheDisk'
  BY <1>1, <1>2, <1>4 DEF StagesTellTheDisk, BuildInv, Before, Over, work
<1>9. ArtefactIsWhole'
  BY <1>1, <1>4 DEF ArtefactIsWhole, BuildInv, Over, Unused, WorkerAlive, work
<1>10. CallKnows'
  BY <1>3 DEF CallKnows
<1>11. LiveWorkKept' /\ NothingLost'
  BY <1>1, <1>2 DEF LiveWorkKept, NothingLost, BuildInv, Unused, WorkerAlive, work
<1> QED
  BY <1>5, <1>6, <1>7, <1>8, <1>9, <1>10, <1>11 DEF BuildInv

-----------------------------------------------------------------------------
(* The theorems.                                                           *)

LEMMA NextKeeps == BuildInv /\ [Next]_vars => BuildInv'
<1> SUFFICES ASSUME BuildInv, [Next]_vars PROVE BuildInv'
  OBVIOUS
<1>1. CASE \E p \in Procs : FinishJob(p) \/ Crash(p)
  BY <1>1, InspectKeeps, CopyKeeps, RenameKeeps, SavePublishedKeeps, RecheckKeeps, RmKeeps,
     UnlinkKeeps, TakeNextKeeps, CrashKeeps DEF FinishJob
<1>2. CASE \E b \in Builds : Wrapper(b) \/ Refuse(b)
  BY <1>2, LockKeeps, ReadPriorsKeeps, RefuseKeeps, MakeDirKeeps, SaveNewKeeps, StageKeeps,
     SpawnKeeps, SavePidKeeps, SendRunKeeps, SaveFinishedKeeps, LockOwnKeeps DEF Wrapper
<1>3. CASE \E b \in Builds : \/ Write(b) \/ Straggle(b) \/ StragglerEnds(b)
                             \/ CommandEnds(b) \/ Disconnect(b)
  BY <1>3, WriteKeeps, CommandKeeps
<1>4. CASE \E s \in Sweepers : Sweeper(s)
  BY <1>4, SweeperKeeps
<1>5. CASE Reboot
  BY <1>5, RebootKeeps
<1>6. CASE UNCHANGED vars
  BY <1>6 DEF vars, disk, work, faults, BuildInv, TypeOK, CopiesAreLater, AdmissionSeesAll,
     StagesTellTheDisk, ArtefactIsWhole, CallKnows, LiveWorkKept, NothingLost, Unused, WorkerAlive
<1> QED
  BY <1>1, <1>2, <1>3, <1>4, <1>5, <1>6 DEF Next

\* The inductive invariant holds throughout: what wrappers, sweepers, calls of finishJob and the
\* disk know of each other survives every death and failure.
THEOREM BuildsStayKnown == Spec => []BuildInv
BY InitBuilds, NextKeeps, PTL DEF Spec

\* Every variable has its type: in particular who holds the lease is where the code holds it,
\* and only there is a call of finishJob under way.
THEOREM BuildTypes == Spec => []TypeOK
<1>1. BuildInv => TypeOK
  BY DEF BuildInv
<1> QED
  BY <1>1, BuildsStayKnown, PTL

\* Builds take their disk space one at a time: the lease, the finishing of every earlier job and
\* the first save together admit one build, whoever died where (runLocalBuildJob).
THEOREM BuildsAreSerial == Spec => []OneBuild
<1>1. BuildInv => OneBuild
  <2> SUFFICES ASSUME BuildInv, NEW a \in Builds, NEW b \in Builds, InProgress(a), InProgress(b)
               PROVE  a = b
    BY DEF OneBuild
  <2>1. pc[a] = "made" /\ pc[b] = "made" => a = b
    BY HolderIsAlone DEF BuildInv, Holding, Procs
  <2> QED
    BY <2>1 DEF InProgress, BuildInv, AdmissionSeesAll
<1> QED
  BY <1>1, BuildsStayKnown, PTL

\* Work that goes on, of the command or of what it left behind, keeps directory and record and is
\* not published (finishJob, execute).
THEOREM RunningWorkIsKept == Spec => []LiveWorkKept
<1>1. BuildInv => LiveWorkKept
  BY DEF BuildInv
<1> QED
  BY <1>1, BuildsStayKnown, PTL

\* A directory goes only after all that was written into it is published (finishJob, publish).
THEOREM NoWorkIsLost == Spec => []NothingLost
<1>1. BuildInv => NothingLost
  BY DEF BuildInv
<1> QED
  BY <1>1, BuildsStayKnown, PTL

=============================================================================
