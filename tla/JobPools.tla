------------------------------ MODULE JobPools ------------------------------
(***************************************************************************)
(* One round of downloads and builds side by side                          *)
(* (build/runner.py, download_and_build_missing): a pool of download jobs  *)
(* and a pool of build jobs under one stop flag.  The main thread waits    *)
(* for finished jobs, submits the build of a source whose download         *)
(* finished, and after a first failure or an interrupt cancels what has    *)
(* not started and waits for the rest to stop.                             *)
(*                                                                         *)
(* Each job writes one source; a pool hands its queued jobs out in any     *)
(* order.                                                                  *)
(***************************************************************************)
EXTENDS PreparedData

CONSTANTS MaxParallelDownloads, NumWorkers

ASSUME PoolAssumption ==
    MaxParallelDownloads \in Nat \ {0} /\ NumWorkers \in Nat \ {0}

VARIABLES
    job,          \* job -> where it is
    handled,      \* the finished jobs the main thread has seen
    goal,         \* source -> raw rows its download job is asked for
    flag,         \* the pools' own stop request
    outer,        \* the caller's stop request
    failure,      \* the worst failure collected: "none", "abort", "error"
    interrupted   \* the main thread left its wait at an interrupt

poolVars == <<job, handled, goal, flag, outer, failure, interrupted>>

Download(s) == <<"download", s>>
Build(s) == <<"build", s>>
Jobs == {"download", "build"} \X Sources
Finished == {"done", "failed", "aborted", "cancelled"}

PoolInit ==
    /\ job = [j \in Jobs |-> "none"]
    /\ handled = {}
    /\ goal = [s \in Sources |-> 0]
    /\ flag = FALSE /\ outer = FALSE
    /\ failure = "none" /\ interrupted = FALSE

ShouldStop == flag \/ outer
Running(kind) == {j \in Jobs : j[1] = kind /\ job[j] = "running"}
Workers(kind) == IF kind = "download" THEN MaxParallelDownloads ELSE NumWorkers

(* Cancelling reaches only the jobs no worker has started. *)
CancelQueued == [j \in Jobs |-> IF job[j] = "queued" THEN "cancelled" ELSE job[j]]

(* The jobs of a round: a download for every source with rows to fetch, a  *)
(* build for every other source with raw shards to build.                  *)
PlannedJobs ==
    LET fetching == {s \in Sources : RowsToFetch(s) > 0}
    IN  {Download(s) : s \in fetching}
          \cup {Build(s) : s \in {b \in Sources \ fetching : BuildPending(b)}}

OpenPools ==
    /\ goal' = [s \in Sources |-> raw[s] + RowsToFetch(s)]
    /\ job' = [j \in Jobs |-> IF j \in PlannedJobs THEN "queued" ELSE "none"]
    /\ handled' = {} /\ flag' = FALSE /\ failure' = "none" /\ interrupted' = FALSE
    \* the caller's request is the caller's: one made before the pools open stays
    /\ UNCHANGED outer

-----------------------------------------------------------------------------
(* A worker thread of a pool. *)

JobSteps(j, status) ==
    /\ job' = [job EXCEPT ![j] = status]
    /\ UNCHANGED <<handled, goal, flag, outer, failure, interrupted>>

OtherDisk == <<avail, out, stray, issued, snapshot, faults>>

(* A job dequeued after a stop request ends before its first step. *)
StartJob(j) ==
    /\ job[j] = "queued"
    /\ Cardinality(Running(j[1])) < Workers(j[1])
    /\ JobSteps(j, IF ShouldStop THEN "aborted" ELSE "running")
    /\ UNCHANGED diskVars

DownloadRow(s) ==
    /\ job[Download(s)] = "running" /\ ~ShouldStop
    /\ FetchRow(s, goal[s])
    /\ UNCHANGED <<poolVars, cand, OtherDisk>>

EndDownload(s) ==
    /\ job[Download(s)] = "running"
    /\ FetchEnds(s, goal[s])
    /\ JobSteps(Download(s), "done")
    /\ UNCHANGED <<cand, OtherDisk>>

StopDownload(s) ==
    /\ job[Download(s)] = "running" /\ ShouldStop /\ raw[s] < goal[s]
    /\ JobSteps(Download(s), "aborted")
    /\ UNCHANGED diskVars

(* A build looks for a stop only behind a raw shard it recorded. *)
BuildRow(s) ==
    /\ job[Build(s)] = "running"
    /\ \/ BeginCandidates(s, Sufficient[s]) /\ UNCHANGED poolVars
       \/ /\ AddCandidates(s, Sufficient[s])
          /\ JobSteps(Build(s), IF ShouldStop THEN "aborted" ELSE "running")
    /\ UNCHANGED <<raw, exhausted, OtherDisk>>

EndBuild(s) ==
    /\ job[Build(s)] = "running"
    /\ CompleteCandidates(s, Sufficient[s])
    /\ JobSteps(Build(s), "done")
    /\ UNCHANGED <<raw, exhausted, OtherDisk>>

(* Any other exception of a job: it raises the flag for the other jobs. *)
FailJob(j) ==
    /\ job[j] = "running" /\ faults < MaxFaults
    /\ job' = [job EXCEPT ![j] = "failed"]
    /\ flag' = TRUE
    /\ faults' = faults + 1
    /\ UNCHANGED <<handled, goal, outer, failure, interrupted>>
    /\ UNCHANGED <<avail, raw, exhausted, cand, out, stray, issued, snapshot>>

-----------------------------------------------------------------------------
(* The main thread. *)

Unhandled == {j \in Jobs : job[j] # "none"} \ handled

\* Mutant: a job that stopped without an error of its own is not collected.
CollectedFailed(j) == IF job[j] = "failed" THEN "error" ELSE failure

Collected(j) == IF job[j] = "failed" \/ failure = "error" THEN "error" ELSE "abort"

(* The source of a finished download is built next, unless a stop was      *)
(* requested in between.                                                   *)
FollowUp(j) ==
    IF j[1] = "download" /\ ~ShouldStop /\ BuildPending(j[2])
    THEN [job EXCEPT ![Build(j[2])] = "queued"] ELSE job

HandleJob(j) ==
    /\ ~interrupted
    /\ j \in Unhandled /\ job[j] \in Finished
    /\ handled' = handled \cup {j}
    /\ CASE job[j] = "cancelled" -> UNCHANGED <<job, flag, failure>>
         [] job[j] \in {"failed", "aborted"} ->
              /\ flag' = TRUE
              /\ job' = CancelQueued
              /\ failure' = Collected(j)
         [] job[j] = "done" -> job' = FollowUp(j) /\ UNCHANGED <<flag, failure>>
    /\ UNCHANGED <<goal, outer, interrupted, diskVars>>

Interrupt ==
    /\ ~interrupted /\ Unhandled # {} /\ faults < MaxFaults
    /\ interrupted' = TRUE
    /\ flag' = TRUE
    /\ job' = CancelQueued
    /\ failure' = IF failure = "error" THEN "error" ELSE "abort"
    /\ faults' = faults + 1
    /\ UNCHANGED <<handled, goal, outer>>
    /\ UNCHANGED <<avail, raw, exhausted, cand, out, stray, issued, snapshot>>

(* Leaving the pools waits for the running jobs. *)
PoolsClosed ==
    /\ interrupted \/ Unhandled = {}
    /\ \A j \in Jobs : job[j] \notin {"queued", "running"}

PoolStep ==
    \/ \E j \in Jobs : StartJob(j) \/ HandleJob(j)
    \/ \E s \in Sources : \/ DownloadRow(s) \/ EndDownload(s) \/ StopDownload(s)
                          \/ BuildRow(s) \/ EndBuild(s)

PoolFault == Interrupt \/ \E j \in Jobs : FailJob(j)

=============================================================================
