----------------------------- MODULE ShardBuild -----------------------------
(***************************************************************************)
(* A per-raw-shard build of one source, with or without worker processes,  *)
(* over any number of interruptions (data_preparation/lib/stages/build.py, *)
(* build_workers.py, build_output.py).                                     *)
(*                                                                         *)
(* The build thread owns the dedup filter and the manifest; the workers    *)
(* read, filter, hash and hold the rows of a raw shard, and write those    *)
(* the build thread keeps.  The pool of raw shard k has one process and    *)
(* serves the shards k, k + Processes, k + 2 Processes ...: its queue is   *)
(* prepare k, write k, prepare k + Processes, ..., so the order in it is   *)
(* that the write of a shard precedes the prepare of its successor.        *)
(* Shard files a build wrote but did not record are overwritten by the     *)
(* next one, which names its files after the manifest: they are left out.  *)
(***************************************************************************)
EXTENDS Integers, Sequences, FiniteSets

CONSTANTS
    Raw, MinChars, QualityFilter, Dedup, Bits, Limited, Target,
    UsesWorkers,  \* pass_workers > 1, a pretrain source, no decontamination
    Processes     \* pass_workers

VARIABLES
    saved,  \* the saved manifest
    thread, \* "idle", or where the build thread is
    mem,    \* the manifest in memory
    base,   \* raw shards that were covered when the build began
    seen,   \* the keys inserted into the filter
    keep,   \* positions the build thread keeps of the shard under way
    task    \* raw shard -> how far its worker is

buildVars == <<saved, thread, mem, base, seen, keep, task>>

\* the row pipeline and the manifest are those of the sequential build
Sequential == INSTANCE SequentialBuild WITH manifest <- saved

NumRaw == Len(Raw)
Current == mem.covered + 1

NoTasks == [k \in 1..NumRaw |-> "none"]

\* queued ahead of the loop: one raw shard per worker
QueuedAhead(covered) ==
    [k \in 1..NumRaw |->
        IF covered < k /\ k <= covered + Processes THEN "queued" ELSE "none"]

ShardsLeft(manifest) == manifest.covered < NumRaw /\ ~Sequential!Enough(manifest)

----------------------------------------------------------------------------
BuildInit ==
    /\ saved = Sequential!EmptyManifest
    /\ mem = Sequential!EmptyManifest
    /\ thread = "idle"
    /\ base = 0
    /\ seen = {}
    /\ keep = {}
    /\ task = NoTasks

\* ProcessedOutput.resume, restore_dedup_filter and the head start of the workers
BeginBuild ==
    /\ thread = "idle"
    /\ ShardsLeft(saved)
    /\ thread' = "head"
    /\ mem' = saved
    /\ base' = saved.covered
    /\ seen' = Sequential!StoredKeys(saved)
    /\ keep' = {}
    /\ task' = IF UsesWorkers THEN QueuedAhead(saved.covered) ELSE NoTasks
    /\ UNCHANGED saved

\* no raw shard is left, or the rows serve the budget: the workers are closed
FinishBuild ==
    /\ thread = "head"
    /\ ~ShardsLeft(mem)
    /\ thread' = "idle"
    /\ task' = NoTasks
    /\ UNCHANGED <<saved, mem, base, seen, keep>>

\* the in-thread path: filter, deduplicate and publish one raw shard
RunPipeline ==
    /\ thread = "head"
    /\ ShardsLeft(mem)
    /\ ~UsesWorkers
    /\ keep' = Sequential!Kept(seen, Current)
    /\ seen' = Sequential!Inserted(seen, Current, keep')
    /\ mem' = Sequential!AddShards(mem, Current, keep')
    /\ thread' = "save"
    /\ UNCHANGED <<saved, base, task>>

AwaitPrepared ==
    /\ thread = "head"
    /\ ShardsLeft(mem)
    /\ UsesWorkers
    /\ thread' = "take"
    /\ UNCHANGED <<saved, mem, base, seen, keep, task>>

\* deduplicate what the worker found, queue its write and, if the rows kept so
\* far do not serve the budget, the raw shard it takes next
TakePrepared ==
    /\ thread = "take"
    /\ task[Current] = "held"
    /\ keep' = Sequential!Kept(seen, Current)
    /\ seen' = Sequential!Inserted(seen, Current, keep')
    /\ LET needsMore == Limited => mem.rows + Cardinality(keep') < Target
           following == Current + Processes
       IN  task' = [k \in 1..NumRaw |->
                        IF k = Current THEN "writing"
                        ELSE IF k = following /\ needsMore THEN "queued"
                        ELSE task[k]]
    /\ thread' = "write"
    /\ UNCHANGED <<saved, mem, base>>

\* the staged files are moved into place and recorded in the manifest
PublishPrepared ==
    /\ thread = "write"
    /\ task[Current] = "written"
    /\ mem' = Sequential!AddShards(mem, Current, keep)
    /\ thread' = "save"
    /\ UNCHANGED <<saved, base, seen, keep, task>>

Save ==
    /\ thread = "save"
    /\ saved' = mem
    /\ thread' = "head"
    /\ UNCHANGED <<mem, base, seen, keep, task>>

\* the shard the worker of k served before k is written
WorkerFree(k) == k - Processes > base => task[k - Processes] = "written"

PrepareShard(k) ==
    /\ task[k] = "queued"
    /\ WorkerFree(k)
    /\ task' = [task EXCEPT ![k] = "held"]
    /\ UNCHANGED <<saved, thread, mem, base, seen, keep>>

WriteShard(k) ==
    /\ task[k] = "writing"
    /\ task' = [task EXCEPT ![k] = "written"]
    /\ UNCHANGED <<saved, thread, mem, base, seen, keep>>

\* a stop, an error, a worker that died or the end of the process: what was
\* not saved is lost and the workers are gone
Abort ==
    /\ thread # "idle"
    /\ thread' = "idle"
    /\ mem' = saved
    /\ seen' = {}
    /\ keep' = {}
    /\ task' = NoTasks
    /\ UNCHANGED <<saved, base>>

BuildNext ==
    \/ BeginBuild \/ FinishBuild \/ RunPipeline \/ AwaitPrepared
    \/ TakePrepared \/ PublishPrepared \/ Save \/ Abort
    \/ \E k \in 1..NumRaw : PrepareShard(k) \/ WriteShard(k)

BuildSpec == BuildInit /\ [][BuildNext]_buildVars

----------------------------------------------------------------------------
(* The shard the build thread waits for is always on its way: it was       *)
(* queued, although only a build that needs more rows queues a successor   *)
(* (else the thread would fail on a missing entry), its worker has nothing *)
(* else to do first, and a write is never waited for before it was asked.  *)
NeverWaitsInVain ==
    /\ thread = "take" =>
        \/ task[Current] = "held"
        \/ task[Current] = "queued" /\ WorkerFree(Current)
    /\ thread = "write" => task[Current] \in {"writing", "written"}

(* A worker holds the texts of one raw shard at a time: it reads the next  *)
(* one only when the rows of the last one are written.                     *)
OneShardPerWorker ==
    \A k, l \in 1..NumRaw :
        (l = k + Processes /\ task[l] = "held") =>
            task[k] \in {"none", "written"}

(* Workers, interruptions and restarts leave no trace in what is stored:   *)
(* the saved manifests are those of one sequential pass.                   *)
ImplementsSequentialBuild == Sequential!Spec
=============================================================================
