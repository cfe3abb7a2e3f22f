---------------------------- MODULE RawDownload ----------------------------
(***************************************************************************)
(* Downloading rows of a group of sources into their raw folders           *)
(* (data_preparation/lib/stages/download.py, download_state.py,            *)
(* download_workers.py, storage/raw_folder.py, storage/parquet.py).        *)
(*                                                                         *)
(* A pass has two threads.  The fetch thread pulls rows, counts and        *)
(* converts them and submits batches; the token worker drops the rows that *)
(* are too long and appends the others shard by shard, recording with      *)
(* every shard the offset and the reject counters as of its last row.      *)
(* Stops, failures of the network, the tokenizer or the disk, and crashes  *)
(* may come at any moment; the next pass continues from the manifests.     *)
(*                                                                         *)
(* A row of the upstream is "ok", too "long" for its instruct source,      *)
(* "bad" (malformed), an "orphan" (malformed in a way that says nothing of *)
(* the schema) or "filtered"; rows of other sources are always "ok".       *)
(***************************************************************************)
EXTENDS Integers, Sequences, FiniteSets, FiniteSetsExt, SequencesExt

CONSTANTS
    Group,         \* the groups of sources that are downloaded in one pass
    Upstream,      \* per group, the rows of its repository: [name, kind]
    Instruct,      \* the sources of instruct rows; a group of one each
    Limits,        \* the values check_limit may have, NoLimit among them
    NoLimit,
    Needs,         \* the numbers of rows a pass may be asked for
    BatchSize,     \* TOKEN_BATCH
    ShardSize,
    QueueDepth,    \* TOKEN_QUEUE_DEPTH
    InFlight,      \* batches the worker starts before the oldest is finished
    MaxMalformed,  \* MAX_CONSECUTIVE_MALFORMED
    MaxPasses,     \* bound: passes of a behaviour
    MaxFaults      \* bound: failures, crashes and lost shards of a behaviour

ASSUME DownloadAssumption ==
    /\ BatchSize \in Nat \ {0} /\ ShardSize \in Nat \ {0}
    /\ QueueDepth \in Nat \ {0} /\ InFlight \in Nat \ {0} /\ MaxMalformed \in Nat \ {0}
    /\ Limits \subseteq Nat \cup {NoLimit} /\ NoLimit \notin Nat
    /\ Needs \subseteq Nat
    /\ \A g \in Group : Cardinality(g) > 1 => g \cap Instruct = {}

ASSUME UpstreamAssumption ==
    \A g \in Group :
        /\ Upstream[g] \in Seq([name : UNION Group, kind : {"ok", "long", "bad", "orphan", "filtered"}])
        /\ \A p \in DOMAIN Upstream[g] : Upstream[g][p].name \notin Instruct => Upstream[g][p].kind = "ok"

VARIABLES
    group,    \* the group this behaviour downloads
    disk,     \* per source, the manifest as saved
    folder,   \* per source, the manifest in memory during a pass
    inc,      \* the increments of the pass
    pos,      \* rows of the upstream the loader has passed
    fetch,    \* the fetch thread
    queue,    \* batches submitted and not taken; End closes it
    worker,   \* the token worker
    buffer,   \* per source, the rows its shard writer holds
    gate,     \* _StopGate: [requested, suspended]
    primary,  \* _DownloadFailures: "none", "stop" or "error"
    outcome,  \* how the last pass ended
    faulted,  \* a substantive error happened in this pass
    passes, faults

vars == <<group, disk, folder, inc, pos, fetch, queue, worker, buffer, gate, primary, outcome, faulted, passes, faults>>

fetchVars == <<inc, pos, fetch>>
writeVars == <<disk, folder, buffer>>

End == [name |-> "end", batch |-> <<>>]
Rows == Upstream[group]
\* A row is its place in the upstream; offsets count the rows of a source.
Ordinals == [g \in Group |-> [p \in DOMAIN Upstream[g] |->
    Cardinality({i \in 1..p : Upstream[g][i].name = Upstream[g][p].name})]]
Ordinal(p) == Ordinals[group][p]
Own(n) == {p \in DOMAIN Rows : Rows[p].name = n}
Between(n, from, upto) == {p \in Own(n) : from < Ordinal(p) /\ Ordinal(p) <= upto}
Storable(n, from, upto) == {p \in Between(n, from, upto) : Rows[p].kind = "ok"}
CountKinds(n, upto, kinds) == Cardinality({p \in Between(n, 0, upto) : Rows[p].kind \in kinds})

-----------------------------------------------------------------------------
(* Manifests *)

NewManifest == [shards |-> <<>>, fetched |-> 0, skipped |-> 0, dropped |-> 0, exhausted |-> FALSE, reached |-> NoLimit]
RowsOf(m) == FlattenSeq([i \in DOMAIN m.shards |-> m.shards[i].rows])

\* The limit grew or was removed: a source exhausted by it is open again.
Reopened(m, limit) ==
    IF m.exhausted /\ m.reached # NoLimit /\ (limit = NoLimit \/ limit > m.reached)
    THEN [m EXCEPT !.exhausted = FALSE, !.reached = NoLimit] ELSE m

\* Mutant: the limit that ended the reads is not recorded.
MarkDry(m, limit) == [m EXCEPT !.exhausted = TRUE]

MarkExhausted(m, limit) == [m EXCEPT !.exhausted = TRUE, !.reached = IF limit # NoLimit THEN limit ELSE @]

\* Mutant: the shard is recorded with where the fetch thread is by now.
AsOfFetch(i, progress) ==
    [fetched |-> i.base.fetched + i.consumed,
     skipped |-> i.base.skipped + i.skipped,
     dropped |-> i.base.dropped + i.dropped]

\* The offset and the counters of a row's progress, on top of what the folder held before the increment.
AsOf(i, progress) ==
    [fetched |-> i.base.fetched + progress.consumed,
     skipped |-> i.base.skipped + progress.skipped,
     dropped |-> i.base.dropped + progress.dropped]

Stored(m, asof) == [m EXCEPT !.fetched = asof.fetched, !.skipped = asof.skipped, !.dropped = asof.dropped]

\* A published shard is recorded with the progress of its last row.
RecordShard(m, i, rows) ==
    LET asof == AsOf(i, rows[Len(rows)].progress)
    IN Stored([m EXCEPT !.shards = Append(@, [rows |-> [j \in DOMAIN rows |-> rows[j].id], asof |-> asof])], asof)

-----------------------------------------------------------------------------
(* Increments *)

Increment(m, needed, limit) ==
    LET wanted == IF needed > Len(RowsOf(m)) THEN needed - Len(RowsOf(m)) ELSE 0
    IN [wanted |-> wanted, passive |-> wanted = 0, needed |-> needed, limit |-> limit,
        budget |-> IF limit = NoLimit THEN NoLimit ELSE limit - m.fetched,
        base |-> [fetched |-> m.fetched, skipped |-> m.skipped, dropped |-> m.dropped],
        consumed |-> 0, skipped |-> 0, streak |-> 0, kept |-> 0, dropped |-> 0,
        batch |-> <<>>, submitted |-> 0, settled |-> 0]

Spent(i) == i.budget # NoLimit /\ i.consumed >= i.budget

Done(n) ==
    /\ ~inc[n].passive
    /\ Spent(inc[n]) \/ (n \in Instruct /\ inc[n].kept >= inc[n].wanted)

AllDone == \A n \in DOMAIN inc : Done(n)

\* What the loader is asked for was yielded (it may finish a row group beyond it).
LoaderServed ==
    \A n \in DOMAIN inc : inc[n].passive \/ Spent(inc[n]) \/ (n \notin Instruct /\ inc[n].consumed >= inc[n].wanted)

ShardRows(n) == IF inc[n].passive THEN IF ShardSize \div 4 > 1 THEN ShardSize \div 4 ELSE 1 ELSE ShardSize

-----------------------------------------------------------------------------
(* Failures *)

\* A substantive error takes precedence over the stop.
Primary(old, new) == IF old = "none" \/ (old = "stop" /\ new = "error") THEN new ELSE old

Record(error) ==
    /\ primary' = Primary(primary, error)
    /\ gate' = [gate EXCEPT !.suspended = TRUE]

\* What happens by itself is an error; MaxFaults bounds how often.
Fault == /\ faults < MaxFaults
         /\ faults' = faults + 1
         /\ faulted' = TRUE

NoFault == UNCHANGED <<faults, faulted>>

\* Mutant: the first failure is the one that is reported.
RememberFirst(w, error) == IF w.failure = "none" THEN [w EXCEPT !.failure = error] ELSE w

Remember(w, error) ==
    IF w.failure = "none" THEN [w EXCEPT !.failure = error]
    ELSE IF w.failure = "stop" /\ error = "error" THEN [w EXCEPT !.failure = error, !.raised = FALSE]
    ELSE w

Unraised == worker.failure # "none" /\ ~worker.raised

NoWorker == [pending |-> <<>>, current |-> <<>>, rows |-> <<>>, storing |-> TRUE, stop |-> FALSE,
             failure |-> "none", raised |-> FALSE, closed |-> FALSE, ended |-> FALSE]

NoFetch == [pc |-> "idle", name |-> "none", batch |-> <<>>, back |-> "", kept |-> 0, todo |-> {}]

-----------------------------------------------------------------------------
(* The pass begins *)

Init ==
    /\ group \in Group
    /\ disk = [n \in group |-> NewManifest] /\ folder = disk
    /\ inc = <<>> /\ pos = 0 /\ fetch = NoFetch /\ queue = <<>> /\ worker = NoWorker
    /\ buffer = [n \in group |-> <<>>]
    /\ gate = [requested |-> FALSE, suspended |-> FALSE]
    /\ primary = "none" /\ outcome = "none" /\ faulted = FALSE
    /\ passes = 0 /\ faults = 0

Busy == fetch.pc # "idle"

\* The manifests are read anew; an exhausted source and one whose limit is spent (recorded as its
\* exhaustion) take no part; nothing is read when no source has rows to fetch.
StartPass ==
    /\ ~Busy /\ passes < MaxPasses
    /\ \E needed \in [group -> Needs], limit \in Limits :
        LET opened == [n \in group |-> Reopened(disk[n], limit)]
            spent == {n \in group : ~opened[n].exhausted /\ limit # NoLimit /\ limit <= opened[n].fetched}
            members == {n \in group \ spent : ~opened[n].exhausted}
            planned == [n \in members |-> Increment(opened[n], needed[n], limit)]
            reads == \E n \in members : ~planned[n].passive
        IN /\ disk' = [n \in group |-> IF n \in spent THEN MarkExhausted(opened[n], limit) ELSE disk[n]]
           /\ folder' = [n \in group |-> IF n \in spent THEN disk'[n] ELSE opened[n]]
           /\ inc' = planned
           /\ outcome' = IF reads THEN "none" ELSE "ok"
           /\ fetch' = [NoFetch EXCEPT !.pc = IF reads THEN "row" ELSE "idle"]
    /\ pos' = 0 /\ queue' = <<>> /\ worker' = NoWorker
    /\ buffer' = [n \in group |-> <<>>]
    /\ gate' = [requested |-> FALSE, suspended |-> FALSE]
    /\ primary' = "none" /\ faulted' = FALSE
    /\ passes' = passes + 1
    /\ UNCHANGED <<group, faults>>

RequestStop ==
    /\ Busy /\ ~gate.requested
    /\ gate' = [gate EXCEPT !.requested = TRUE]
    /\ UNCHANGED <<group, fetchVars, writeVars, queue, worker, primary, outcome, faulted, passes, faults>>

-----------------------------------------------------------------------------
(* The fetch thread *)

ToCleanup == [NoFetch EXCEPT !.pc = "settle", !.todo = DOMAIN inc]
EndRow == IF AllDone THEN ToCleanup ELSE [NoFetch EXCEPT !.pc = "row"]

\* The loader passes over the rows before a source's offset and those of sources that take no part.
HasRow ==
    /\ pos < Len(Rows)
    /\ Rows[pos + 1].name \in DOMAIN inc
    /\ Ordinal(pos + 1) > inc[Rows[pos + 1].name].base.fetched

SkipRow ==
    /\ fetch.pc = "row" /\ pos < Len(Rows)
    /\ IF HasRow THEN worker.failure = "none" /\ Done(Rows[pos + 1].name) /\ ~AllDone ELSE TRUE
    /\ pos' = pos + 1
    /\ UNCHANGED <<group, inc, fetch, writeVars, queue, worker, gate, primary, outcome, faulted, passes, faults>>

PullRow ==
    /\ fetch.pc = "row" /\ HasRow /\ worker.failure = "none"
    /\ LET n == Rows[pos + 1].name
           kind == Rows[pos + 1].kind
           i == inc[n]
           progress == [consumed |-> i.consumed + 1, skipped |-> i.skipped, dropped |-> 0]
           batch == Append(i.batch, [id |-> pos + 1, kind |-> kind, progress |-> progress])
           full == Len(batch) >= BatchSize
       IN /\ ~Done(n)
          /\ pos' = pos + 1
          /\ CASE kind = "filtered" ->
                    /\ inc' = [inc EXCEPT ![n].consumed = @ + 1]
                    /\ UNCHANGED fetch
                    /\ NoFault /\ UNCHANGED <<gate, primary>>
               [] kind = "bad" ->
                    /\ inc' = [inc EXCEPT ![n].consumed = @ + 1, ![n].skipped = @ + 1, ![n].streak = @ + 1]
                    /\ IF i.streak + 1 >= MaxMalformed
                       THEN /\ Record("error") /\ faulted' = TRUE
                            /\ fetch' = ToCleanup
                       ELSE UNCHANGED <<fetch, gate, primary, faulted>>
                    /\ UNCHANGED faults
               [] kind = "orphan" ->
                    /\ inc' = [inc EXCEPT ![n].consumed = @ + 1, ![n].skipped = @ + 1]
                    /\ UNCHANGED fetch
                    /\ NoFault /\ UNCHANGED <<gate, primary>>
               [] OTHER ->
                    /\ inc' = [inc EXCEPT ![n].consumed = @ + 1, ![n].streak = 0,
                                          ![n].batch = IF full THEN <<>> ELSE batch]
                    /\ fetch' = [NoFetch EXCEPT !.pc = "submit", !.name = n, !.back = "target",
                                                !.batch = IF full THEN batch ELSE <<>>]
                    /\ NoFault /\ UNCHANGED <<gate, primary>>
    /\ UNCHANGED <<group, writeVars, queue, worker, outcome, passes>>

\* The stream ends, a row finds every increment done, or a request fails.
EndOfRows ==
    /\ fetch.pc = "row"
    /\ \/ /\ LoaderServed \/ pos = Len(Rows) \/ (HasRow /\ AllDone /\ worker.failure = "none")
          /\ NoFault /\ UNCHANGED <<gate, primary>>
       \/ Fault /\ Record("error")
    /\ fetch' = ToCleanup
    /\ UNCHANGED <<group, inc, pos, writeVars, queue, worker, outcome, passes>>

\* A row that finds the worker failed waits for its queue; the failure is raised then.
SeeFailure ==
    /\ fetch.pc = "row" /\ HasRow /\ worker.failure # "none"
    /\ fetch' = [fetch EXCEPT !.pc = "drain"]
    /\ UNCHANGED <<group, inc, pos, writeVars, queue, worker, gate, primary, outcome, faulted, passes, faults>>

\* The worker's failure is raised instead of queueing the batch, which is gone with it.
Submit ==
    /\ fetch.pc = "submit"
    /\ IF Unraised
       THEN /\ worker' = [worker EXCEPT !.raised = TRUE]
            /\ Record(worker.failure)
            /\ fetch' = IF fetch.back = "settle" THEN [NoFetch EXCEPT !.pc = "settle", !.todo = fetch.todo] ELSE ToCleanup
            /\ UNCHANGED inc
       ELSE /\ inc' = [inc EXCEPT ![fetch.name].submitted = @ + Len(fetch.batch)]
            /\ fetch' = [fetch EXCEPT !.pc = IF fetch.batch = <<>> THEN fetch.back ELSE "put"]
            /\ UNCHANGED <<worker, gate, primary>>
    /\ UNCHANGED <<group, pos, writeVars, queue, outcome, faulted, passes, faults>>

Put ==
    /\ fetch.pc = "put" /\ Len(queue) < QueueDepth
    /\ queue' = Append(queue, [name |-> fetch.name, batch |-> fetch.batch])
    /\ fetch' = [fetch EXCEPT !.pc = fetch.back, !.batch = <<>>]
    /\ UNCHANGED <<group, inc, pos, writeVars, worker, gate, primary, outcome, faulted, passes, faults>>

\* The rows kept are read first, those in flight afterwards: the worker may settle a batch in between.
ReadKept ==
    /\ fetch.pc = "target"
    /\ fetch' = IF fetch.name \in Instruct
                THEN [fetch EXCEPT !.pc = "compare", !.kept = inc[fetch.name].kept] ELSE EndRow
    /\ UNCHANGED <<group, inc, pos, writeVars, queue, worker, gate, primary, outcome, faulted, passes, faults>>

\* The rows that may still be kept would meet the target.
MayMeetTarget(i, kept) == kept + (i.submitted - i.settled) + Len(i.batch) >= i.wanted

CompareTarget ==
    /\ fetch.pc = "compare"
    /\ IF MayMeetTarget(inc[fetch.name], fetch.kept)
       THEN /\ fetch' = [fetch EXCEPT !.pc = "submit", !.back = "drain", !.batch = inc[fetch.name].batch]
            /\ inc' = [inc EXCEPT ![fetch.name].batch = <<>>]
       ELSE fetch' = EndRow /\ UNCHANGED inc
    /\ UNCHANGED <<group, pos, writeVars, queue, worker, gate, primary, outcome, faulted, passes, faults>>

WorkerIdle == queue = <<>> /\ worker.pending = <<>> /\ worker.current = <<>>

Drain ==
    /\ fetch.pc = "drain" /\ WorkerIdle
    /\ IF Unraised
       THEN /\ worker' = [worker EXCEPT !.raised = TRUE]
            /\ Record(worker.failure)
            /\ fetch' = ToCleanup
       ELSE fetch' = EndRow /\ UNCHANGED <<worker, gate, primary>>
    /\ UNCHANGED <<group, inc, pos, writeVars, queue, outcome, faulted, passes, faults>>

-----------------------------------------------------------------------------
(* The token worker *)

\* Mutant: a failed worker takes nothing from the queue any more.
TakeUnlessFailed ==
    /\ worker.failure # "error"
    /\ worker.current = <<>> /\ ~worker.closed /\ queue # <<>> /\ Len(worker.pending) < InFlight
    /\ queue' = Tail(queue)
    /\ IF Head(queue) = End
       THEN worker' = [worker EXCEPT !.closed = TRUE] /\ NoFault
       ELSE LET started == [worker EXCEPT !.pending = Append(@, Head(queue))]
            IN \/ worker' = started /\ NoFault
               \/ /\ worker.storing /\ Fault
                  /\ worker' = [Remember(started, "error") EXCEPT !.storing = FALSE]
    /\ UNCHANGED <<group, fetchVars, writeVars, gate, primary, outcome, passes>>

\* A queued batch is started while the pipeline has room; End closes it.
TakeBatch ==
    /\ worker.current = <<>> /\ ~worker.closed /\ queue # <<>> /\ Len(worker.pending) < InFlight
    /\ queue' = Tail(queue)
    /\ IF Head(queue) = End
       THEN worker' = [worker EXCEPT !.closed = TRUE] /\ NoFault
       ELSE LET started == [worker EXCEPT !.pending = Append(@, Head(queue))]
            IN \/ worker' = started /\ NoFault
               \/ /\ worker.storing /\ Fault
                  /\ worker' = [Remember(started, "error") EXCEPT !.storing = FALSE]
    /\ UNCHANGED <<group, fetchVars, writeVars, gate, primary, outcome, passes>>

\* The rows of a tokenized batch that are not too long, each with the drops before it.
Fitting(n, batch) ==
    LET told(i) ==
            [batch[i] EXCEPT !.progress.dropped =
                inc[n].dropped + Cardinality({j \in 1..i : batch[j].kind = "long"})]
        fitting[i \in 0..Len(batch)] ==
            IF i = 0 THEN <<>>
            ELSE IF batch[i].kind = "long" THEN fitting[i - 1] ELSE Append(fitting[i - 1], told(i))
    IN fitting[Len(batch)]

\* The oldest batch is finished; after an error it is only settled.
FinishBatch ==
    /\ worker.current = <<>> /\ worker.pending # <<>>
    /\ LET item == Head(worker.pending)
           taken == [worker EXCEPT !.pending = Tail(@), !.current = <<item>>]
           fitting == Fitting(item.name, item.batch)
       IN IF worker.storing
          THEN \/ /\ worker' = [taken EXCEPT !.rows = fitting]
                  /\ inc' = [inc EXCEPT ![item.name].dropped = @ + Len(item.batch) - Len(fitting)]
                  /\ NoFault
               \/ /\ Fault
                  /\ worker' = [Remember(taken, "error") EXCEPT !.storing = FALSE]
                  /\ UNCHANGED inc
          ELSE worker' = taken /\ NoFault /\ UNCHANGED inc
    /\ UNCHANGED <<group, pos, fetch, writeVars, queue, gate, primary, outcome, passes>>

StopNow == gate.requested /\ ~gate.suspended

\* A row is handed to its writer.  A full shard is published, recorded and saved, and the stop checked:
\* it suspends the gate and the batch is stored on.  A shard that cannot be written is lost.
StoreRow ==
    /\ worker.rows # <<>>
    /\ LET n == worker.current[1].name
           rows == Append(buffer[n], Head(worker.rows))
           next == [worker EXCEPT !.rows = Tail(@)]
           shard == RecordShard(folder[n], inc[n], rows)
       IN IF Len(rows) < ShardRows(n)
          THEN /\ buffer' = [buffer EXCEPT ![n] = rows]
               /\ inc' = [inc EXCEPT ![n].kept = @ + 1]
               /\ worker' = next
               /\ NoFault /\ UNCHANGED <<disk, folder, gate>>
          ELSE /\ buffer' = [buffer EXCEPT ![n] = <<>>]
               /\ \/ /\ folder' = [folder EXCEPT ![n] = shard]
                     /\ disk' = [disk EXCEPT ![n] = shard]
                     /\ inc' = [inc EXCEPT ![n].kept = @ + 1]
                     /\ worker' = [next EXCEPT !.stop = @ \/ StopNow]
                     /\ gate' = [gate EXCEPT !.suspended = @ \/ StopNow]
                     /\ NoFault
                  \/ /\ Fault
                     /\ worker' = [Remember(worker, "error") EXCEPT !.storing = FALSE, !.stop = FALSE, !.rows = <<>>]
                     /\ UNCHANGED <<disk, folder, inc, gate>>
    /\ UNCHANGED <<group, pos, fetch, queue, primary, outcome, passes>>

\* Mutant: the worker stores nothing after a stop.
SettleAndEndStoring ==
    /\ worker.current # <<>> /\ worker.rows = <<>>
    /\ worker' = [IF worker.stop THEN Remember(worker, "stop") ELSE worker EXCEPT
                     !.current = <<>>, !.stop = FALSE, !.storing = @ /\ ~worker.stop]
    /\ inc' = [inc EXCEPT ![worker.current[1].name].settled = @ + Len(worker.current[1].batch)]
    /\ UNCHANGED <<group, pos, fetch, writeVars, queue, gate, primary, outcome, faulted, passes, faults>>

SettleBatch ==
    /\ worker.current # <<>> /\ worker.rows = <<>>
    /\ worker' = [IF worker.stop THEN Remember(worker, "stop") ELSE worker EXCEPT !.current = <<>>, !.stop = FALSE]
    /\ inc' = [inc EXCEPT ![worker.current[1].name].settled = @ + Len(worker.current[1].batch)]
    /\ UNCHANGED <<group, pos, fetch, writeVars, queue, gate, primary, outcome, faulted, passes, faults>>

EndWorker ==
    /\ worker.closed /\ ~worker.ended /\ worker.pending = <<>> /\ worker.current = <<>>
    /\ worker' = [worker EXCEPT !.ended = TRUE]
    /\ UNCHANGED <<group, fetchVars, writeVars, queue, gate, primary, outcome, faulted, passes, faults>>

-----------------------------------------------------------------------------
(* The ordered cleanup of a pass *)

First(names) == CHOOSE n \in names : TRUE
AtCleanup(pc) == [NoFetch EXCEPT !.pc = pc, !.todo = DOMAIN inc]

\* The rows still buffered for the tokenizer are submitted.
SettlePending ==
    /\ fetch.pc = "settle" /\ fetch.todo # {}
    /\ LET n == First(fetch.todo)
       IN /\ fetch' = [fetch EXCEPT !.pc = "submit", !.name = n, !.back = "settle", !.batch = inc[n].batch,
                                    !.todo = @ \ {n}]
          /\ inc' = [inc EXCEPT ![n].batch = <<>>]
    /\ UNCHANGED <<group, pos, writeVars, queue, worker, gate, primary, outcome, faulted, passes, faults>>

CloseRows ==
    /\ fetch.pc = "settle" /\ fetch.todo = {}
    /\ \/ NoFault /\ UNCHANGED <<gate, primary>>
       \/ Fault /\ Record("error")
    /\ fetch' = AtCleanup("close")
    /\ UNCHANGED <<group, inc, pos, writeVars, queue, worker, outcome, passes>>

CloseWorker ==
    /\ fetch.pc = "close" /\ Len(queue) < QueueDepth
    /\ queue' = Append(queue, End)
    /\ fetch' = AtCleanup("join")
    /\ UNCHANGED <<group, inc, pos, writeVars, worker, gate, primary, outcome, faulted, passes, faults>>

\* After a failure the partial shards are salvaged, otherwise the writers flush on their exit.
JoinWorker ==
    /\ fetch.pc = "join" /\ worker.ended
    /\ IF Unraised
       THEN worker' = [worker EXCEPT !.raised = TRUE] /\ Record(worker.failure)
       ELSE UNCHANGED <<worker, gate, primary>>
    /\ fetch' = AtCleanup(IF primary' = "none" THEN "exit" ELSE "salvage")
    /\ UNCHANGED <<group, inc, pos, writeVars, queue, outcome, faulted, passes, faults>>

FlushWriter ==
    /\ fetch.pc \in {"exit", "salvage"} /\ fetch.todo # {}
    /\ LET n == First(fetch.todo)
           shard == RecordShard(folder[n], inc[n], buffer[n])
       IN /\ fetch' = [fetch EXCEPT !.todo = @ \ {n}]
          /\ buffer' = [buffer EXCEPT ![n] = <<>>]
          /\ IF buffer[n] = <<>> THEN NoFault /\ UNCHANGED <<disk, folder, gate, primary>>
             ELSE \/ /\ folder' = [folder EXCEPT ![n] = shard]
                     /\ disk' = [disk EXCEPT ![n] = shard]
                     /\ IF StopNow THEN Record("stop") ELSE UNCHANGED <<gate, primary>>
                     /\ NoFault
                  \/ Fault /\ Record("error") /\ UNCHANGED <<disk, folder>>
    /\ UNCHANGED <<group, inc, pos, queue, worker, outcome, passes>>

\* The pass raises what failed it; only one without a failure establishes exhaustion.
WritersReleased ==
    /\ fetch.pc \in {"exit", "salvage"} /\ fetch.todo = {}
    /\ IF primary = "none"
       THEN fetch' = AtCleanup("finish") /\ UNCHANGED outcome
       ELSE fetch' = NoFetch /\ outcome' = IF primary = "stop" THEN "stopped" ELSE "error"
    /\ UNCHANGED <<group, inc, pos, writeVars, queue, worker, gate, primary, faulted, passes, faults>>

Untouched(n) == inc[n].consumed = 0 /\ folder[n].shards = <<>> /\ folder[n].fetched = 0

\* The totals of an increment become its folder's: the offset after every row that was consumed.
Finished(n) ==
    LET i == inc[n]
        exhausted == ~i.passive /\ i.kept < i.wanted
        byLimit == IF i.limit # NoLimit /\ i.base.fetched + i.consumed >= i.limit THEN i.limit ELSE NoLimit
        m == IF exhausted THEN MarkExhausted(folder[n], byLimit) ELSE folder[n]
    IN IF Untouched(n) /\ ~exhausted THEN disk[n] ELSE Stored(m, AsOf(i, i))

FinishIncrement ==
    /\ fetch.pc = "finish"
    /\ IF fetch.todo = {}
       THEN fetch' = NoFetch /\ outcome' = "ok" /\ UNCHANGED <<disk, folder>>
       ELSE LET n == First(fetch.todo)
            IN /\ disk' = [disk EXCEPT ![n] = Finished(n)]
               /\ folder' = [folder EXCEPT ![n] = Finished(n)]
               /\ fetch' = [fetch EXCEPT !.todo = @ \ {n}]
               /\ UNCHANGED outcome
    /\ UNCHANGED <<group, inc, pos, queue, worker, buffer, gate, primary, faulted, passes, faults>>

-----------------------------------------------------------------------------
(* Between passes *)

\* What is in memory is gone; the shards that were recorded are on disk.
Crash ==
    /\ Busy /\ Fault
    /\ folder' = disk /\ fetch' = NoFetch /\ queue' = <<>> /\ worker' = NoWorker
    /\ buffer' = [n \in group |-> <<>>] /\ outcome' = "crashed"
    /\ UNCHANGED <<group, disk, inc, pos, gate, primary, passes>>

\* prepare --reopen: the user says that the source has more rows.
Reopen(n) ==
    /\ ~Busy /\ disk[n].exhausted
    /\ disk' = [disk EXCEPT ![n].exhausted = FALSE, ![n].reached = NoLimit]
    /\ outcome' = "none"
    /\ UNCHANGED <<group, folder, fetchVars, queue, worker, buffer, gate, primary, faulted, passes, faults>>

\* What is left of a manifest whose first `good` shards are good.
Truncated(m, good) ==
    Stored([m EXCEPT !.shards = SubSeq(@, 1, good), !.exhausted = FALSE, !.reached = NoLimit], m.shards[good].asof)

\* A damaged shard: the repair keeps the shards before it and goes back to what the last of them recorded.
TruncateTo(n, good) ==
    /\ ~Busy /\ good < Len(disk[n].shards) /\ Fault
    /\ disk' = [disk EXCEPT ![n] = Truncated(@, good)]
    /\ outcome' = "none"
    /\ UNCHANGED <<group, folder, fetchVars, queue, worker, buffer, gate, primary, passes>>

FetchStep ==
    \/ SkipRow \/ PullRow \/ EndOfRows \/ SeeFailure \/ Submit \/ Put \/ ReadKept \/ CompareTarget \/ Drain
    \/ SettlePending \/ CloseRows \/ CloseWorker \/ JoinWorker \/ FlushWriter \/ WritersReleased \/ FinishIncrement

WorkerStep == TakeBatch \/ FinishBatch \/ StoreRow \/ SettleBatch \/ EndWorker

Next ==
    \/ StartPass \/ RequestStop \/ FetchStep \/ WorkerStep \/ Crash
    \/ \E n \in group : Reopen(n) \/ (\E good \in 1..Len(disk[n].shards) : TruncateTo(n, good))

Spec == Init /\ [][Next]_vars /\ WF_vars(FetchStep) /\ WF_vars(WorkerStep)

-----------------------------------------------------------------------------
(* Properties *)

\* What a manifest may say after the first `asof.fetched` rows of a source: the rows stored by then are exactly
\* the storable ones among them, in their order, and the reject counters count the others, each once.
Exact(n, rows, asof) ==
    /\ \A i, j \in DOMAIN rows : i < j => rows[i] < rows[j]
    /\ {rows[i] : i \in DOMAIN rows} = Storable(n, 0, asof.fetched)
    /\ asof.skipped = CountKinds(n, asof.fetched, {"bad", "orphan"})
    /\ asof.dropped = CountKinds(n, asof.fetched, {"long"})

\* Whatever fails or stops, and wherever the worker is behind the fetch thread, the offset on disk is the one
\* of the rows on disk, in total and for every prefix of shards a repair may go back to: no row is lost or
\* fetched twice and no rejected row counted twice (raw_folder.py RowProgress, record_shard).
OffsetMatchesRows ==
    \A n \in group :
        /\ Exact(n, RowsOf(disk[n]), disk[n])
        /\ \A s \in DOMAIN disk[n].shards :
              Exact(n, RowsOf([shards |-> SubSeq(disk[n].shards, 1, s)]), disk[n].shards[s].asof)

\* A folder is called exhausted only where its source ends or where the limit it names was reached: a stop, a
\* failure or a satisfied request of another source never ends a source early (finish_download_pass).
ExhaustedIsAtEnd ==
    \A n \in group : disk[n].exhausted =>
        \/ disk[n].fetched = Cardinality(Own(n))
        \/ disk[n].reached # NoLimit /\ disk[n].fetched >= disk[n].reached

\* After a stop the rows that were consumed are on disk, except at most the one batch whose submission found
\* the worker stopped (_StopGate, _TokenWorker).
StopLosesAtMostABatch ==
    outcome = "stopped" =>
        MapThenSumSet(LAMBDA n : Cardinality(Storable(n, disk[n].fetched, inc[n].base.fetched + inc[n].consumed)), DOMAIN inc)
            <= BatchSize

\* A pass that reports success has for every source the rows it was asked for or knows that there are no more;
\* one that reports a success or a stop hides no failure of the network, the tokenizer or the disk
\* (_DownloadFailures: a substantive error takes precedence over the stop).
OutcomeHonest ==
    /\ outcome \in {"ok", "stopped"} => ~faulted
    /\ outcome = "ok" => \A n \in group :
          disk[n].exhausted \/ (n \in DOMAIN inc /\ Len(RowsOf(disk[n])) >= inc[n].needed)

\* Every pass comes to an end, whichever thread fails: the fetch thread never waits for a queue that nobody
\* empties (_TokenWorker settles what is queued after an error).
PassEnds == Busy ~> ~Busy
=============================================================================
