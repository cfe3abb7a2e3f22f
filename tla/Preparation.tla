----------------------------- MODULE Preparation -----------------------------
(***************************************************************************)
(* Preparing and reading one dataset directory: preparations, one at a     *)
(* time under the exclusive dataset lock, run the job pools and then the   *)
(* ordered admission (build/runner.py, prepare and prepare_global);        *)
(* training runs read the result under the shared lock, or prepare it      *)
(* themselves.  A preparation may fail, be interrupted or killed at any    *)
(* step, and the next one continues from what is on disk.                  *)
(*                                                                         *)
(* A preparation takes the dataset lock exclusively, a training run        *)
(* shared, or exclusively when it may prepare what is missing itself;      *)
(* nobody waits for the lock (build/lock.py, data/ownership.py).  Only the *)
(* main rank of a run holds it, for all ranks: the ranks meet in exchanges *)
(* (all_gather_object, data/dataset_resolver.py), and on the way out in a  *)
(* barrier behind which the main rank lets go.  A rank that leaves on an   *)
(* exception does not meet the others again; the launcher then ends them.  *)
(***************************************************************************)
EXTENDS JobPools, GlobalAdmission

CONSTANTS
    Tool,          \* the stand-alone preparation
    SharedRuns,    \* training runs with auto_prepare off
    AutoRuns,      \* training runs with auto_prepare on
    World,         \* run -> its number of ranks; rank 0 is the main one
    MaxPreparations \* bound on stand-alone preparations started

Runs == SharedRuns \cup AutoRuns
Ranks(r) == 0..(World[r] - 1)
Holders == {Tool} \cup Runs

ASSUME AccessAssumption ==
    /\ \A r \in Runs : World[r] \in Nat \ {0}
    /\ Tool \notin Runs /\ SharedRuns \cap AutoRuns = {}

VARIABLES
    lock,    \* holder -> "none", "shared" or "exclusive"
    at,      \* run -> rank -> where it is
    met,     \* run -> exchange -> the ranks that have entered it
    refused  \* run -> the exchanges some rank entered with an error

accessVars == <<lock, at, met, refused>>

(* The exchanges of a run in order, and where a rank is behind each. *)
Exchanges == {"lock", "prepare", "resolve", "close"}
After == [lock |-> "prepare", prepare |-> "resolve",
          resolve |-> "reading", close |-> "left"]

Gone == {"raised", "dead", "left"}

(* Only the main rank has something to do in front of the first two        *)
(* exchanges: the others enter them as soon as they reach them.            *)
Others(r) == Ranks(r) \ {0}

AccessInit ==
    /\ lock = [h \in Holders |-> "none"]
    /\ at = [r \in Runs |-> [k \in Ranks(r) |-> "lock"]]
    /\ met = [r \in Runs |-> [e \in Exchanges |-> IF e = "lock" THEN Others(r) ELSE {}]]
    /\ refused = [r \in Runs |-> {}]

\* Mutant: only another exclusive holder is in the way.
GrantableBesideReaders(mode) ==
    \A h \in Holders : lock[h] # "exclusive"

(* flock without waiting: shared holders coexist, an exclusive one does    *)
(* not coexist with anyone.                                                *)
Grantable(mode) ==
    \A h \in Holders : lock[h] = "none" \/ (mode = "shared" /\ lock[h] = "shared")

Mode(r) == IF r \in SharedRuns THEN "shared" ELSE "exclusive"

Lost(r) == \E k \in Ranks(r) : at[r][k] \in {"raised", "dead"}

(* The dataset is open to a rank from the resolution of its rows until its *)
(* loaders are closed.                                                     *)
Reading(r, k) == at[r][k] = "reading"

Enter(r, k, e, ok) ==
    /\ at[r][k] = e /\ k \notin met[r][e]
    /\ met' = [met EXCEPT ![r][e] = @ \cup {k}]
    /\ refused' = IF ok THEN refused ELSE [refused EXCEPT ![r] = @ \cup {e}]
    /\ UNCHANGED at

(* The main rank takes the lock.  A run that is refused it raises on every *)
(* rank before it has touched anything, as if it had not been started.     *)
EnterLock(r) ==
    /\ Grantable(Mode(r))
    /\ Enter(r, 0, "lock", TRUE)
    /\ lock' = [lock EXCEPT ![r] = Mode(r)]

EnterResolve(r, k, valid) ==
    Enter(r, k, "resolve", valid) /\ UNCHANGED lock

EnterClose(r, k) ==
    Enter(r, k, "close", TRUE) /\ UNCHANGED lock

(* A rank is past an exchange once all have entered it: with an error when *)
(* some rank brought one.  The main rank leaves its lock behind when it    *)
(* raises, and when it is past the closing barrier.                        *)
MayPass(r, e) == met[r][e] = Ranks(r)

Release(h) == lock' = [lock EXCEPT ![h] = "none"]

Pass(r, k, e) ==
    /\ at[r][k] = e /\ k \in met[r][e] /\ MayPass(r, e)
    /\ LET next == IF e \in refused[r] THEN "raised" ELSE After[e]
       IN  /\ at' = [at EXCEPT ![r][k] = next]
           /\ met' = IF next = "prepare" /\ k # 0
                     THEN [met EXCEPT ![r][next] = @ \cup {k}] ELSE met
           /\ IF k = 0 /\ next \in Gone THEN Release(r) ELSE UNCHANGED lock
    /\ UNCHANGED refused

(* The loaders of a rank are closed before it goes to the barrier. *)
StopReading(r, k) ==
    /\ Reading(r, k)
    /\ at' = [at EXCEPT ![r][k] = "close"]
    /\ UNCHANGED <<lock, met, refused>>

(* An exception of one rank while it reads, met by no exchange. *)
RankRaises(r, k) ==
    /\ at[r][k] \in {"reading", "close"}
    /\ k \notin met[r]["close"]
    /\ at' = [at EXCEPT ![r][k] = "raised"]
    /\ IF k = 0 THEN Release(r) ELSE UNCHANGED lock
    /\ UNCHANGED <<met, refused>>

RankDies(r, k) ==
    /\ at[r][k] \notin Gone
    /\ at' = [at EXCEPT ![r][k] = "dead"]
    /\ IF k = 0 THEN Release(r) ELSE UNCHANGED lock
    /\ UNCHANGED <<met, refused>>

(* The launcher ends the remaining ranks of a run that lost one            *)
(* (external: torchrun).                                                   *)
Teardown(r) ==
    /\ Lost(r) /\ \E k \in Ranks(r) : at[r][k] \notin Gone
    /\ at' = [at EXCEPT ![r] =
                [k \in Ranks(r) |-> IF @[k] \in Gone THEN @[k] ELSE "dead"]]
    /\ Release(r)
    /\ UNCHANGED <<met, refused>>

-----------------------------------------------------------------------------
(* A preparation *)

VARIABLES
    owner,    \* who prepares, NoOne when nobody does
    stage,    \* "plan", "pools" or "admission" while someone prepares, or "idle"
    attempts  \* stand-alone preparations started

vars == <<diskVars, poolVars, admissionVars, accessVars, owner, stage, attempts>>
preparation == <<poolVars, admissionVars, owner, stage>>

NoOne == "no one"

Init ==
    /\ DiskInit /\ PoolInit /\ AdmissionIdle /\ AccessInit
    /\ owner = NoOne /\ stage = "idle" /\ attempts = 0

-----------------------------------------------------------------------------
(* prepare(): nothing to do on a complete dataset unless a source is       *)
(* reopened; else the exhausted flags named by --reopen are cleared and    *)
(* the round's jobs planned.                                               *)
Begin(h, reopened) ==
    /\ owner' = h /\ stage' = "plan"
    /\ exhausted' = [s \in Sources |-> exhausted[s] /\ s \notin reopened]

(* The round is planned with the flags already cleared. *)
PlanRound ==
    /\ stage = "plan" /\ stage' = "pools"
    /\ OpenPools
    /\ UNCHANGED <<diskVars, admissionVars, accessVars, owner, attempts>>

StartTool(reopened) ==
    /\ attempts < MaxPreparations
    /\ Grantable("exclusive")
    /\ reopened # {} \/ ~DatasetComplete
    /\ lock' = [lock EXCEPT ![Tool] = "exclusive"]
    /\ Begin(Tool, reopened)
    /\ attempts' = attempts + 1
    /\ UNCHANGED <<at, met, refused, poolVars, admissionVars>>
    /\ UNCHANGED <<avail, raw, cand, out, stray, issued, snapshot, faults>>

(* The main rank of a run assesses the dataset: a complete one is read, an *)
(* incomplete one refused or, with auto_prepare, prepared under the lock   *)
(* the run holds.                                                          *)
AssessDataset(r) ==
    /\ owner # r
    /\ DatasetComplete \/ r \in SharedRuns
    /\ Enter(r, 0, "prepare", DatasetComplete)
    /\ UNCHANGED <<lock, preparation, attempts, diskVars>>

StartAuto(r) ==
    /\ r \in AutoRuns /\ at[r][0] = "prepare" /\ 0 \notin met[r]["prepare"]
    /\ owner = NoOne /\ ~DatasetComplete
    /\ Begin(r, {})
    /\ UNCHANGED <<attempts, accessVars, poolVars, admissionVars>>
    /\ UNCHANGED <<avail, raw, cand, out, stray, issued, snapshot, faults>>

RunPools ==
    /\ stage = "pools"
    /\ PoolStep
    /\ UNCHANGED <<admissionVars, accessVars, owner, stage, attempts>>

BreakPools ==
    /\ stage = "pools"
    /\ PoolFault
    /\ UNCHANGED <<admissionVars, accessVars, owner, stage, attempts>>

(* Behind the pools, the first failure is raised; without one the          *)
(* admission starts.                                                       *)
Raises == failure # "none"

StartAdmission ==
    /\ stage = "pools" /\ PoolsClosed /\ ~Raises
    /\ stage' = "admission"
    /\ AdmissionReset("round")
    /\ UNCHANGED <<poolVars, accessVars, owner, attempts, diskVars>>

RunAdmission ==
    /\ stage = "admission"
    /\ AdmissionStep
    /\ UNCHANGED <<poolVars, accessVars, owner, stage, attempts>>

BreakAdmission ==
    /\ stage = "admission"
    /\ AdmissionFault
    /\ UNCHANGED <<poolVars, accessVars, owner, stage, attempts>>

(* A training run that prepares can be asked to stop: the jobs and the     *)
(* admission look for it between their steps.                              *)
RequestStop ==
    /\ owner \in AutoRuns /\ ~outer /\ faults < MaxFaults
    /\ outer' = TRUE /\ faults' = faults + 1
    /\ UNCHANGED <<job, handled, goal, flag, failure, interrupted>>
    /\ UNCHANGED <<admissionVars, accessVars, owner, stage, attempts>>
    /\ UNCHANGED <<avail, raw, exhausted, cand, out, stray, issued, snapshot>>

SeeStop ==
    /\ stage = "admission" /\ outer
    /\ step \in {"round", "build", "admit", "finish", "topup"}
    /\ RaiseInAdmission
    /\ UNCHANGED <<poolVars, accessVars, owner, stage, attempts, faults>>

(* Nobody prepares any more: the memory of the preparation is gone. *)
Forget ==
    /\ owner' = NoOne /\ stage' = "idle"
    /\ job' = [j \in Jobs |-> "none"] /\ handled' = {}
    /\ goal' = [s \in Sources |-> 0]
    /\ flag' = FALSE /\ outer' = FALSE
    /\ failure' = "none" /\ interrupted' = FALSE
    /\ AdmissionReset("off")

Ended ==
    \/ stage = "pools" /\ PoolsClosed /\ Raises
    \/ stage = "admission" /\ step \in {"returned", "raised"}

(* The tool lets go of the lock; the main rank of a run goes on when the   *)
(* dataset now serves every budget and the preparation did not raise.      *)
EndPreparation ==
    /\ Ended
    /\ Forget
    /\ IF owner = Tool
       THEN Release(Tool) /\ UNCHANGED <<at, met, refused>>
       ELSE /\ Enter(owner, 0, "prepare",
                     step = "returned" /\ \A s \in Sources : Satisfied(s))
            /\ UNCHANGED lock
    /\ UNCHANGED <<attempts, diskVars>>

(* The preparing process is killed.  Its descriptors close with it. *)
KillTool ==
    /\ owner = Tool /\ faults < MaxFaults
    /\ faults' = faults + 1
    /\ Forget /\ Release(Tool)
    /\ UNCHANGED <<at, met, refused, attempts>>
    /\ UNCHANGED <<avail, raw, exhausted, cand, out, stray, issued, snapshot>>

-----------------------------------------------------------------------------
(* The ranks of the training runs. *)

RankStep(r, k) ==
    /\ \/ k = 0 /\ EnterLock(r)
       \/ EnterResolve(r, k, SnapshotValid)
       \/ EnterClose(r, k)
       \/ \E e \in Exchanges : Pass(r, k, e)
       \/ StopReading(r, k)
    /\ UNCHANGED <<preparation, attempts, diskVars>>

LoseRank(r, k) ==
    /\ faults < MaxFaults
    /\ faults' = faults + 1
    /\ RankRaises(r, k) \/ RankDies(r, k)
    /\ IF owner = r /\ k = 0 THEN Forget ELSE UNCHANGED preparation
    /\ UNCHANGED attempts
    /\ UNCHANGED <<avail, raw, exhausted, cand, out, stray, issued, snapshot>>

Launcher(r) ==
    /\ Teardown(r)
    /\ IF owner = r THEN Forget ELSE UNCHANGED preparation
    /\ UNCHANGED <<attempts, diskVars>>

(* Rows are added upstream between preparations; a loader that grows while *)
(* it is read is one that had the rows before.                             *)
Upstreams ==
    /\ owner = NoOne
    /\ \E s \in Sources : UpstreamGrows(s)
    /\ UNCHANGED <<preparation, accessVars, attempts>>

-----------------------------------------------------------------------------

PreparationStep ==
    \/ PlanRound \/ RunPools \/ StartAdmission \/ RunAdmission \/ SeeStop
    \/ EndPreparation

(* Some thread of a preparation, some rank or the launcher goes on while   *)
(* one can; failures, kills, stop requests and new starts need not happen. *)
Progress ==
    \/ PreparationStep
    \/ \E r \in Runs :
         \/ AssessDataset(r) \/ StartAuto(r) \/ Launcher(r)
         \/ \E k \in Ranks(r) : RankStep(r, k)

Next ==
    \/ Progress
    \/ \E reopened \in SUBSET {s \in Sources : exhausted[s]} : StartTool(reopened)
    \/ \E r \in Runs : \E k \in Ranks(r) : LoseRank(r, k)
    \/ BreakPools \/ BreakAdmission \/ RequestStop \/ KillTool
    \/ Upstreams

Fairness == WF_vars(Progress)

Spec == Init /\ [][Next]_vars /\ Fairness

-----------------------------------------------------------------------------
(* Reference: one uninterrupted admission, without threads, batches or     *)
(* recovery, of the candidates the outputs up to a source account for.     *)

Consumed(i) ==
    out[Order[i]].frontier.consumed - out[Order[i]].start.consumed

ReferenceKeys(i) ==
    AdmitKeys(BitsOf(Seeds),
              FlattenSeq([j \in 1..i |-> SubSeq(Upstream[Order[j]], 1, Consumed(j))])).kept

(* The output of a source stands on complete outputs of the sources in     *)
(* front; one that does not is replayed before it is read.                 *)
Chained(i) ==
    /\ out[Order[i]].gen > 0
    /\ \A j \in 1..i :
         /\ out[Order[j]].start = IF j = 1 THEN FirstFrontier
                                  ELSE out[Order[j - 1]].frontier
         /\ out[Order[j]].deps = Dependencies(j)
         /\ j < i => out[Order[j]].complete

(* At every point, a crash between any two steps included, what an output  *)
(* lists is exactly what the uninterrupted admission retains of the        *)
(* candidates its frontier accounts for; a finished output accounts for    *)
(* all of its candidates, and a complete one has no file its manifest does *)
(* not list (global_build.py, the commits of _Writer and their recovery).  *)
CommittedIsReference ==
    \A i \in 1..Len(Order) : Chained(i) =>
        LET m == out[Order[i]]
        IN  /\ m.frontier.keys = ReferenceKeys(i)
            /\ m.frontier.keys = CommittedKeys(i)
            /\ m.frontier.index = i + 1 => Consumed(i) = m.covers
            /\ m.complete => stray[Order[i]] = <<>>

(* While the main rank of a run is there, none of its ranks has a dataset  *)
(* open that is not whole: the snapshot names the outputs on disk and they *)
(* are those of the uninterrupted admission, whoever prepared, failed or   *)
(* was killed before and whoever asks for the lock meanwhile               *)
(* (data/ownership.py, build/lock.py).                                     *)
ReadersSeeWholeDataset ==
    \A r \in Runs : at[r][0] \notin {"raised", "dead"} =>
        \A k \in Ranks(r) : Reading(r, k) =>
            /\ SnapshotValid
            /\ owner = NoOne
            /\ \A i \in 1..Len(Order) :
                 CommittedKeys(i) = ReferenceKeys(i) /\ stray[Order[i]] = <<>>

(* A source is never built while its own download runs, and behind a round *)
(* that did not raise every job succeeded and, unless the caller asked to  *)
(* stop, every source has the rows the plan wanted, built up to its budget *)
(* (runner.py, wait_for_jobs and raise_first_failure).                     *)
RoundHonest ==
    /\ \A s \in Sources : ~(job[Download(s)] = "running" /\ job[Build(s)] = "running")
    /\ stage = "admission" =>
         /\ \A j \in Jobs : job[j] \in {"none", "done"}
         /\ ~outer => \A s \in Sources :
              /\ raw[s] >= goal[s] \/ exhausted[s]
              /\ cand[s].built = raw[s] \/ cand[s].built >= Sufficient[s]

(* Whoever holds the dataset lock lets go of it, whatever fails: a         *)
(* preparation ends in a bounded number of rounds, and no rank waits for   *)
(* ever for one that left.                                                 *)
LockReleased == \A h \in Holders : lock[h] # "none" ~> lock[h] = "none"

=============================================================================
