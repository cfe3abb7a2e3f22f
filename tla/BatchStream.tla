---------------------------- MODULE BatchStream ----------------------------
(***************************************************************************)
(* The data stream of a run as the main rank reads it: one loader with one *)
(* worker process per source, its batches buffered, packed and counted,    *)
(* over several attempts that restore what a checkpoint stored             *)
(* (training/steps/batches.py, data/loader_state.py, data/datasets.py,     *)
(* data/collate.py, data/packing.py).                                      *)
(*                                                                         *)
(* A worker reads the rows of its range in order, a batch at a time and up *)
(* to Prefetch batches ahead, whatever the main process does; a batch it   *)
(* cannot hand over is lost.  A crash or a stop forgets the workers and    *)
(* what they read ahead; a checkpoint has the rows counted, the samples    *)
(* buffered and the pool.                                                  *)
(***************************************************************************)
EXTENDS Packing

CONSTANTS
    BatchRows,    \* TRAIN_LOADER_BATCH_ROWS
    Prefetch,     \* TRAIN_LOADER_PREFETCH_FACTOR
    MaxAttempts,  \* bound: attempts to run
    MaxLost       \* bound: batches lost by workers

ASSUME LoaderAssumption ==
    /\ {BatchRows, Prefetch} \subseteq Nat \ {0}
    /\ {MaxAttempts, MaxLost} \subseteq Nat

VARIABLES
    pc,        \* "down", "between" steps, or "pulling" packs
    main,      \* the state a checkpoint stores, with the run's progress
    loaders,   \* source -> its iterator and worker
    pending,   \* source -> rows its next epoch skips (pending_offsets)
    ckpts,     \* the states stored, with that of a new run
    attempts,  \* attempts so far
    lost,      \* batches lost so far
    silent     \* how an epoch with a lost batch closed without an error

vars == <<pc, main, loaders, pending, ckpts, attempts, lost, silent>>

\* No iterator; next: the row its worker reads next; full, expected, read and
\* samples: EpochCounters.
Closed == [open |-> FALSE, next |-> 1, queue |-> <<>>, ended |-> FALSE,
           full |-> TRUE, expected |-> 0, read |-> 0, samples |-> 0, gap |-> FALSE]

\* gap: a batch was passed over (for the properties; in a loader: by it).
Fresh == [step |-> 0, packs |-> 0, pool |-> <<>>,
          consumed |-> [s \in Source |-> 0],
          loaded |-> [s \in Source |-> 0],
          target |-> [s \in Source |-> 0],
          buffers |-> [s \in Source |-> <<>>],
          gap |-> [s \in Source |-> FALSE]]

Init ==
    /\ pc = "down"
    /\ main = Fresh
    /\ loaders = [s \in Source |-> Closed]
    /\ pending = [s \in Source |-> 0]
    /\ ckpts = {Fresh}
    /\ attempts = 0 /\ lost = 0
    /\ silent = {}

-----------------------------------------------------------------------------
(* A run starts, saves and ends.                                           *)

Start(c) ==
    /\ pc = "down" /\ attempts < MaxAttempts
    /\ pc' = "between"
    /\ main' = c
    /\ loaders' = [s \in Source |-> Closed]
    /\ pending' = c.consumed
    /\ attempts' = attempts + 1
    /\ UNCHANGED <<ckpts, lost, silent>>

BeginStep ==
    /\ pc = "between" /\ main.step < TotalSteps
    /\ pc' = "pulling"
    /\ UNCHANGED <<main, loaders, pending, ckpts, attempts, lost, silent>>

EndStep ==
    /\ pc = "pulling" /\ main.packs = PacksPerStep
    /\ pc' = "between"
    /\ main' = [main EXCEPT !.step = @ + 1, !.packs = 0]
    /\ UNCHANGED <<loaders, pending, ckpts, attempts, lost, silent>>

Save ==
    /\ pc = "between"
    /\ ckpts' = ckpts \union {main}
    /\ UNCHANGED <<pc, main, loaders, pending, attempts, lost, silent>>

\* A step that is not finite has read its packs; the state before its update
\* is stored with the stream behind them, unless no step was completed.
FailStep ==
    /\ pc = "pulling" /\ main.packs = PacksPerStep
    /\ pc' = "down"
    /\ ckpts' = ckpts \union (IF main.step = 0 THEN {} ELSE {[main EXCEPT !.packs = 0]})
    /\ UNCHANGED <<main, loaders, pending, attempts, lost, silent>>

\* A stop, a crash or the end of the run, at any moment.
Leave ==
    /\ pc # "down"
    /\ pc' = "down"
    /\ UNCHANGED <<main, loaders, pending, ckpts, attempts, lost, silent>>

-----------------------------------------------------------------------------
(* The workers.                                                            *)

Batch(from, to) == [from |-> from, to |-> to, lost |-> FALSE]

BatchFrom(s, i) ==
    Batch(i, IF i + BatchRows - 1 < Len(Rows[s]) THEN i + BatchRows - 1 ELSE Len(Rows[s]))

Busy(s) == pc # "down" /\ loaders[s].open /\ ~loaders[s].ended /\ Len(loaders[s].queue) < Prefetch

HandOver(s, batch) ==
    loaders' = [loaders EXCEPT ![s].queue = Append(@, batch), ![s].next = batch.to + 1]

ReadBatch(s) ==
    /\ Busy(s) /\ loaders[s].next <= Len(Rows[s])
    /\ HandOver(s, BatchFrom(s, loaders[s].next))
    /\ UNCHANGED <<pc, main, pending, ckpts, attempts, lost, silent>>

\* The worker runs out of file descriptors, say.
LoseBatch(s) ==
    /\ Busy(s) /\ loaders[s].next <= Len(Rows[s]) /\ lost < MaxLost
    /\ HandOver(s, [BatchFrom(s, loaders[s].next) EXCEPT !.lost = TRUE])
    /\ lost' = lost + 1
    /\ UNCHANGED <<pc, main, pending, ckpts, attempts, silent>>

EndOfRange(s) ==
    /\ Busy(s) /\ loaders[s].next > Len(Rows[s])
    /\ loaders' = [loaders EXCEPT ![s].ended = TRUE]
    /\ UNCHANGED <<pc, main, pending, ckpts, attempts, lost, silent>>

-----------------------------------------------------------------------------
(* The main rank: refill the pool, take a pack.                            *)

Refilling == pc = "pulling" /\ main.packs < PacksPerStep /\ NeedsRefill(main.pool)

Picked(s) == Refilling /\ s = PickSource(main.step, main.loaded, main.target)

\* next_train_batch is called when nothing is buffered.
Pulling(s) == Picked(s) /\ main.buffers[s] = <<>>

\* set_resume_offset
Skip(s, rows) == rows % Len(Rows[s])

Opened(s, offset) ==
    [Closed EXCEPT !.open = TRUE, !.next = offset + 1, !.full = offset = 0,
                   !.expected = Len(Rows[s]) - offset]

OpenIterator(s) ==
    /\ Pulling(s) /\ ~loaders[s].open
    /\ loaders' = [loaders EXCEPT ![s] = Opened(s, Skip(s, pending[s]))]
    /\ pending' = [pending EXCEPT ![s] = 0]
    /\ UNCHANGED <<pc, main, ckpts, attempts, lost, silent>>

\* The rows that keep a supervised label (collate_worker_batch).
Samples(s, batch) ==
    LET usable == {i \in batch.from..batch.to : Rows[s][i] > 0}
    IN [k \in 1..Cardinality(usable) |->
            DocumentOf(s, CHOOSE i \in usable : Cardinality({j \in usable : j <= i}) = k)]

\* Mutant: only the rows that became samples are counted.
RowsCountedAsSamples(s, batch) == Len(Samples(s, batch))

\* WorkerBatch.rows_read
RowsRead(s, batch) == batch.to - batch.from + 1

Ready(s) == loaders[s].open /\ loaders[s].queue # <<>>

PullBatch(s) ==
    /\ Pulling(s) /\ Ready(s)
    /\ LET batch == Head(loaders[s].queue) IN
        /\ ~batch.lost
        /\ loaders' = [loaders EXCEPT ![s].queue = Tail(@),
                                      ![s].read = @ + RowsRead(s, batch),
                                      ![s].samples = @ + Len(Samples(s, batch))]
        /\ main' = [main EXCEPT !.consumed[s] = @ + RowsRead(s, batch),
                                !.buffers[s] = Samples(s, batch)]
    /\ UNCHANGED <<pc, pending, ckpts, attempts, lost, silent>>

\* A lost batch is waited for until its worker reports the end of the range.
PassOverLost(s) ==
    /\ Pulling(s) /\ Ready(s) /\ Head(loaders[s].queue).lost /\ loaders[s].ended
    /\ loaders' = [loaders EXCEPT ![s].queue = Tail(@), ![s].gap = TRUE]
    /\ main' = [main EXCEPT !.gap[s] = TRUE]
    /\ UNCHANGED <<pc, pending, ckpts, attempts, lost, silent>>

EpochOver(s) == Pulling(s) /\ loaders[s].ended /\ loaders[s].queue = <<>>

\* Mutant: the rows of an epoch are not compared with those of the range.
ShortNever(l) == FALSE

Short(l) == l.read # l.expected

Useless(l) == l.full /\ l.samples = 0

RestartIterator(s) ==
    /\ EpochOver(s) /\ ~Short(loaders[s]) /\ ~Useless(loaders[s])
    /\ loaders' = [loaders EXCEPT ![s] = Opened(s, 0)]
    /\ silent' = silent \union (IF loaders[s].gap THEN {"in the same attempt"}
                                ELSE IF main.gap[s] THEN {"after a resume"} ELSE {})
    /\ UNCHANGED <<pc, main, pending, ckpts, attempts, lost>>

\* "the worker lost batches", "no usable sample in a full epoch"
RefuseEpoch(s) ==
    /\ EpochOver(s)
    /\ Short(loaders[s]) \/ Useless(loaders[s])
    /\ pc' = "down"
    /\ UNCHANGED <<main, loaders, pending, ckpts, attempts, lost, silent>>

AddDocument(s) ==
    /\ Picked(s) /\ main.buffers[s] # <<>>
    /\ LET d == Head(main.buffers[s]) IN
        main' = [main EXCEPT !.buffers[s] = Tail(@),
                             !.pool = Append(@, d),
                             !.loaded = Loaded(@, s, Slots(d)),
                             !.target = Earned(@, main.step, Slots(d))]
    /\ UNCHANGED <<pc, loaders, pending, ckpts, attempts, lost, silent>>

TakePack ==
    /\ pc = "pulling" /\ main.packs < PacksPerStep /\ ~NeedsRefill(main.pool)
    /\ main' = [main EXCEPT !.pool = Fill(@).kept, !.packs = @ + 1]
    /\ UNCHANGED <<pc, loaders, pending, ckpts, attempts, lost, silent>>

\* No further attempt within the bound.
Done == pc = "down" /\ attempts = MaxAttempts /\ UNCHANGED vars

Worker(s) == ReadBatch(s) \/ LoseBatch(s) \/ EndOfRange(s)

Reader(s) ==
    \/ OpenIterator(s) \/ PullBatch(s) \/ PassOverLost(s) \/ RestartIterator(s)
    \/ RefuseEpoch(s) \/ AddDocument(s)

Next ==
    \/ \E c \in ckpts : Start(c)
    \/ BeginStep \/ EndStep \/ Save \/ FailStep \/ Leave
    \/ \E s \in Source : Worker(s) \/ Reader(s)
    \/ TakePack
    \/ Done

Spec == Init /\ [][Next]_vars

-----------------------------------------------------------------------------
(* Properties.                                                             *)

MainType ==
    [step : 0..TotalSteps, packs : 0..PacksPerStep, pool : Seq(Document),
     consumed : [Source -> Nat], loaded : [Source -> Nat], target : [Source -> Nat],
     buffers : [Source -> Seq(Document)], gap : [Source -> BOOLEAN]]

LoaderType ==
    [open : BOOLEAN, next : Nat, ended : BOOLEAN,
     queue : Seq([from : Nat, to : Nat, lost : BOOLEAN]),
     full : BOOLEAN, expected : Nat, read : Nat, samples : Nat, gap : BOOLEAN]

\* Every variable stays in its type, what is stored lies between two steps.
TypeOK ==
    /\ pc \in {"down", "between", "pulling"}
    /\ main \in MainType
    /\ loaders \in [Source -> LoaderType]
    /\ pending \in [Source -> Nat]
    /\ \A c \in ckpts : c \in MainType /\ c.packs = 0
    /\ attempts \in 0..MaxAttempts /\ lost \in 0..MaxLost
    /\ silent \subseteq {"in the same attempt", "after a resume"}

(* The token shares: while the weights are constant, a source is           *)
(* over-served by at most one of its own documents and under-served by at  *)
(* most one document of every other active source (steps/batches.py,       *)
(* BatchStream).                                                           *)
LongestOf(s) == CHOOSE n \in ToSet(Rows[s]) : \A m \in ToSet(Rows[s]) : m <= n

SharesBounded ==
    (\A n \in 0..(TotalSteps - 1) : n <= main.step => Weight[n] = Weight[0]) =>
        \A s \in Active(0) :
            LET deficit == Deficit(main.loaded, main.target, s)
                others == [t \in Active(0) \ {s} |-> LongestOf(t)]
            IN /\ deficit >= -(Scale * LongestOf(s))
               /\ deficit <= Scale * Total(others)

(* No document starves in the pool: what enters it is packed within twice  *)
(* as many packs as the pool holds pack lengths, because two packs in a    *)
(* row take more than one pack length from what is in front of it          *)
(* (data/packing.py, PackPool.take_pack).                                  *)
NoDocumentStarves ==
    \A i \in DOMAIN main.pool : main.pool[i].waited < 2 * PoolFactor

(* A source of which no row is usable ends the run after one pass over it: *)
(* its rows are not read for ever in search of a sample (loader_state.py,  *)
(* _end_of_epoch: "would restart forever with a frozen step counter").     *)
UselessSourceReadOnce ==
    \A s \in Source : ToSet(Rows[s]) = {0} => main.consumed[s] <= Len(Rows[s])

(* An epoch in which a worker lost a batch ends the attempt with an error: *)
(* its rows do not go missing in an epoch that closes in order             *)
(* (loader_state.py, _end_of_epoch).                                       *)
LossFailsItsAttempt == "in the same attempt" \notin silent

(* "so the loss is an error and never silent": nor do they in any later    *)
(* attempt (data/loader_options.py).                                       *)
LossIsAnError == silent = {}

-----------------------------------------------------------------------------
(* The stream is the uninterrupted one, saved and restored.                *)

UsableBefore(s, n) == Cardinality({i \in 1..n : Rows[s][i] > 0})

\* Documents that left the buffer: those among the rows consumed, over the
\* epochs, less those still buffered.
Drawn(m, s) ==
    LET range == Len(Rows[s]) IN
    (m.consumed[s] \div range) * UsableBefore(s, range)
        + UsableBefore(s, m.consumed[s] % range) - Len(m.buffers[s])

StreamOf(m) ==
    [step |-> m.step, packs |-> m.packs, pool |-> m.pool,
     drawn |-> [s \in Source |-> Drawn(m, s)], loaded |-> m.loaded, target |-> m.target]

\* Nothing is claimed of a stream that lost a batch.
Intact(m) == \A s \in Source : ~m.gap[s]

\* The stream in memory, if it is intact.
LiveStream == IF pc # "down" /\ Intact(main) THEN StreamOf(main) ELSE [step |-> TotalSteps + 1]

SavedStreams == {StreamOf(c) : c \in {d \in ckpts : Intact(d)}}

Stream == INSTANCE DocumentStream WITH live <- LiveStream, saved <- SavedStreams

(* Whatever the workers read ahead and whenever the run is stopped, the    *)
(* documents, their order, the packs and the shares are those of one       *)
(* endless reading of the sources that is saved and restored               *)
(* (BatchStream.state_dict, load_state_dict).                              *)
ImplementsDocumentStream == Stream!StreamSpec
=============================================================================
