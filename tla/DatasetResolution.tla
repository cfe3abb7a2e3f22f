-------------------------- MODULE DatasetResolution --------------------------
(***************************************************************************)
(* What a training run makes of a prepared dataset                         *)
(* (training/data/dataset_resolver.py, loader.py, datasets.py): the split  *)
(* of every source into validation and training rows, the checks that      *)
(* every loader is fed, the validation passes of the ranks over their      *)
(* shards, and the check that a resumed run reads the dataset it was       *)
(* started on.  Between two attempts the dataset may be prepared anew.     *)
(*                                                                         *)
(* Abstractions. The ranks resolve the same folders under the dataset lock *)
(* (DatasetAccess) and take one resolution together. A row is its source,  *)
(* the generation of its folder and its place in it. The order of the      *)
(* training rows is the matter of BatchStream; here any row a train loader *)
(* reads may come next.                                                    *)
(***************************************************************************)
EXTENDS DatasetConfig

CONSTANTS
    World,      \* world size of every attempt
    Configs,    \* dataset configurations an attempt may be started with
    Runs,       \* run settings
    Disks       \* what a preparation, or damage, may leave in the folders

VARIABLES
    disk,       \* source -> its generation, the rows in its footers and its manifest;
                \* the snapshot
    phase,      \* "idle", "running" or "failed"
    dataset,    \* what the attempt resolved
    run,        \* its settings
    checkpoint, \* dataset part of the newest checkpoint's metadata, if any
    exact,      \* no attempt was resumed on another dataset
    trained, validated, \* rows read since the run was started afresh
    scoring     \* rank -> its validation pass

vars == <<disk, phase, dataset, run, checkpoint, exact, trained, validated, scoring>>

Ranks == 0..(World - 1)
Smaller(a, b) == IF a <= b THEN a ELSE b

-----------------------------------------------------------------------------
(* The validation split                                                     *)

\* All rows of a source for validation alone, a share of one used for both.
ValidationRowsOf(c, n, total) ==
    IF UsedInTrain(c, n)
    THEN CeilDiv(ValidationFractionOf(c, n) * total, c.unit) ELSE total

\* Every folder has shards, and as many rows as its manifest lists.
ProcessedRowsHold(c, d) ==
    \A n \in DOMAIN c.sources : d.footers[n] # None /\ d.listed[n] = d.footers[n]

ProcessedRowCounts(c, d) == [n \in DOMAIN c.sources |-> OrElse(d.footers[n], 0)]

ResolveSplits(c, rows) == [n \in DOMAIN c.sources |-> ValidationRowsOf(c, n, rows[n])]

-----------------------------------------------------------------------------
(* Entries: the rows one loader reads                                       *)

DataSignature(source) ==
    IF source.kind # "instruct" THEN "text"
    ELSE IF source.instruction_format = "messages" THEN "messages" ELSE "instruction"

DataEntry(c, n, weight, part, split) == [
    source |-> n, weight |-> weight, signature |-> DataSignature(c.sources[n]),
    skip_rows |-> IF part = "val" THEN 0 ELSE split[n],
    max_rows |-> When(part = "val", split[n])]

\* One entry per source any stage trains on, read by one loader all run.
ResolveTrainSources(c, split) ==
    [n \in {m \in DOMAIN c.sources : UsedInTrain(c, m)} |->
        DataEntry(c, n, c.unit, "train", split)]

ResolveValEntries(c, stage, split) ==
    [n \in DOMAIN stage.val |-> DataEntry(c, n, stage.val[n], "val", split)]

\* The entry's range, clipped to the rows of the folder.
RangeStart(entry, total) == Smaller(entry.skip_rows, total)
RangeStop(entry, total) ==
    IF entry.max_rows = None THEN total
    ELSE Smaller(total, RangeStart(entry, total) + OrElse(entry.max_rows, 0))
EntryRowsInRange(entry, total) == RangeStop(entry, total) - RangeStart(entry, total)

\* A loader deals its rows over the workers of every rank, itself one without workers.
LoaderShards(workers, world) == world * (IF workers = 0 THEN 1 ELSE workers)
TrainLoaderNumWorkers == 1

EntryHolds(entry, total, workers, world) ==
    /\ EntryRowsInRange(entry, total) > 0
    /\ EntryRowsInRange(entry, total) >= LoaderShards(workers, world)

CheckEntries(trainSources, stages, rows, world) ==
    /\ \A n \in DOMAIN trainSources :
        EntryHolds(trainSources[n], rows[n], TrainLoaderNumWorkers, 1)
    /\ \A i \in DOMAIN stages : \A n \in DOMAIN stages[i].val_data :
        EntryHolds(stages[i].val_data[n], rows[n], 0, world)

\* Batches one evaluation can draw on the rank with the fewest rows.
ValidationBatchesAvailable(entries, rows, batchSize, world) ==
    CeilDiv(MapThenSumSet(LAMBDA n : EntryRowsInRange(entries[n], rows[n]) \div world,
                          DOMAIN entries),
            batchSize)

CheckValidationBatches(stages, rows, batchSize, world) ==
    \A i \in DOMAIN stages :
        ValidationBatchesAvailable(stages[i].val_data, rows, batchSize, world) > 0

-----------------------------------------------------------------------------
(* The resolution                                                           *)

ValidateSettings(c, s) ==
    /\ s.training_max_sequence_length <= c.dataset_max_sequence_length
    /\ Len(s.stage_base_lrs) = Len(c.stages)

ResolveStagePlan(c, s, split) ==
    [i \in DOMAIN c.stages |-> [
        name |-> c.stages[i].name, tokens |-> c.stages[i].tokens,
        base_lr |-> s.stage_base_lrs[i], transition_pct |-> c.stages[i].transition_pct,
        train_weights |-> c.stages[i].train,
        val_data |-> ResolveValEntries(c, c.stages[i], split)]]

\* The snapshot is there and names this configuration and these folders.
SnapshotHolds(c, d) ==
    \E snapshot \in d.snapshot :
        /\ snapshot.config_hash = ConfigHashPayload(c)
        /\ snapshot.generations = [n \in DOMAIN c.sources |-> d.generation[n]]

Resolved(c, s, d) ==
    LET rows == ProcessedRowCounts(c, d)
        split == ResolveSplits(c, rows)
    IN [config_hash |-> ConfigHashPayload(c),
        stages |-> ResolveStagePlan(c, s, split),
        train_sources |-> ResolveTrainSources(c, split),
        validation_rows |-> split,
        source_rows |-> rows,
        snapshot |-> d.snapshot]

ResolveDataset(c, s, d) ==
    LET r == Resolved(c, s, d)
    IN /\ ValidateSettings(c, s)
       /\ ProcessedRowsHold(c, d)
       /\ CheckEntries(r.train_sources, r.stages, r.source_rows, World)
       /\ CheckValidationBatches(r.stages, r.source_rows, s.validation_batch_size, World)
       /\ SnapshotHolds(c, d)

\* What a checkpoint records of the dataset.
BuildIds(snapshots) == {snapshot.build_id : snapshot \in snapshots}
Metadata(r) == [build_id |-> BuildIds(r.snapshot), config_hash |-> r.config_hash,
                source_rows |-> r.source_rows, validation_rows |-> r.validation_rows]

\* The checkpoint's and the run's, all known and the same.
DatasetUnchanged(metadata, r) == metadata.build_id # None /\ metadata = Metadata(r)

-----------------------------------------------------------------------------
(* Loaders                                                                  *)

\* A row of the folders the snapshot names.
RowOf(n, i) == <<{snapshot.generations[n] : snapshot \in dataset.snapshot}, n, i>>

TrainRows(n) == LET total == dataset.source_rows[n]
                    entry == dataset.train_sources[n]
                IN RangeStart(entry, total)..(RangeStop(entry, total) - 1)

\* The k-th row of shard r, when the range of the entry has one.
ShardRow(entry, total, r, k) == RangeStart(entry, total) + r + k * World
HasRow(entry, total, r, k) == ShardRow(entry, total, r, k) < RangeStop(entry, total)

ValEntry(r, n) == dataset.stages[scoring[r].stage].val_data[n]
Members(r) == DOMAIN dataset.stages[scoring[r].stage].val_data

\* The members of the rank's mixture that have a row left.
Remaining(r) ==
    {n \in Members(r) : HasRow(ValEntry(r, n), dataset.source_rows[n], r, scoring[r].read[n])}

NotScoring == [stage |-> 0, read |-> <<>>, filled |-> 0, batches |-> 0]

\* The batches a rank scores at most: its share of eval_iters.
EvalItersPerRank == run.eval_iters \div World
PassOver(r) ==
    \/ scoring[r].batches = EvalItersPerRank
    \/ Remaining(r) = {} /\ scoring[r].filled = 0

-----------------------------------------------------------------------------
Init ==
    /\ disk \in Disks
    /\ phase = "idle" /\ dataset = <<>> /\ run = <<>>
    /\ checkpoint = None /\ exact = TRUE
    /\ trained = {} /\ validated = {}
    /\ scoring = [r \in Ranks |-> NotScoring]

\* A preparation, or somebody's hands, change the folders between attempts.
ChangeDisk ==
    /\ phase # "running"
    /\ disk' \in Disks
    /\ UNCHANGED <<phase, dataset, run, checkpoint, exact, trained, validated, scoring>>

Establish(c, s) ==
    /\ phase # "running"
    /\ ResolveDataset(c, s, disk)
    /\ phase' = "running"
    /\ dataset' = Resolved(c, s, disk) /\ run' = s
    /\ scoring' = [r \in Ranks |-> NotScoring]
    /\ UNCHANGED disk

StartAfresh(c, s) ==
    /\ Establish(c, s)
    /\ checkpoint' = None /\ exact' = TRUE
    /\ trained' = {} /\ validated' = {}

\* A changed dataset needs allow_dataset_change, and is no exact replay.
Resume(c, s) ==
    /\ checkpoint # None
    /\ Establish(c, s)
    /\ LET unchanged == \A m \in checkpoint : DatasetUnchanged(m, dataset')
       IN /\ unchanged \/ s.allow_dataset_change
          /\ exact' = (exact /\ unchanged)
    /\ UNCHANGED <<checkpoint, trained, validated>>

\* The main rank's loader of a source delivers a row.
TrainRow(n, i) ==
    /\ phase = "running" /\ n \in DOMAIN dataset.train_sources
    /\ i \in TrainRows(n)
    /\ trained' = trained \union {RowOf(n, i)}
    /\ UNCHANGED <<disk, phase, dataset, run, checkpoint, exact, validated, scoring>>

Idle == \A r \in Ranks : scoring[r] = NotScoring

\* Every rank starts a pass over its shard of a stage's validation rows.
StartEvaluation(i) ==
    /\ phase = "running" /\ Idle
    /\ i \in DOMAIN dataset.stages
    /\ scoring' = [r \in Ranks |-> [stage |-> i, filled |-> 0, batches |-> 0,
                      read |-> [n \in DOMAIN dataset.stages[i].val_data |-> 0]]]
    /\ UNCHANGED <<disk, phase, dataset, run, checkpoint, exact, trained, validated>>

\* The mixture draws the next row of one of the members that have one left.
DrawRow(r, n) ==
    /\ phase = "running" /\ scoring[r] # NotScoring /\ ~PassOver(r)
    /\ n \in Remaining(r)
    /\ validated' = validated \union
           {RowOf(n, ShardRow(ValEntry(r, n), dataset.source_rows[n], r, scoring[r].read[n]))}
    /\ LET pass == scoring[r]
           full == pass.filled + 1 = run.validation_batch_size
       IN scoring' = [scoring EXCEPT ![r] = [
            stage |-> pass.stage, read |-> [pass.read EXCEPT ![n] = @ + 1],
            filled |-> IF full THEN 0 ELSE pass.filled + 1,
            batches |-> IF full THEN pass.batches + 1 ELSE pass.batches]]
    /\ UNCHANGED <<disk, phase, dataset, run, checkpoint, exact, trained>>

\* The last batch is short when every member is exhausted.
ShortBatch(r) ==
    /\ phase = "running" /\ scoring[r] # NotScoring /\ ~PassOver(r)
    /\ Remaining(r) = {}
    /\ LET pass == scoring[r]
       IN scoring' = [scoring EXCEPT ![r] = [
            stage |-> pass.stage, read |-> pass.read,
            filled |-> 0, batches |-> pass.batches + 1]]
    /\ UNCHANGED <<disk, phase, dataset, run, checkpoint, exact, trained, validated>>

\* A rank that saw no batch raises before the metric collectives the others enter.
NoBatchSeen(r) == PassOver(r) /\ scoring[r].batches = 0

RaiseUnscored(r) ==
    /\ phase = "running" /\ scoring[r] # NotScoring /\ NoBatchSeen(r)
    /\ phase' = "failed"
    /\ UNCHANGED <<disk, dataset, run, checkpoint, exact, trained, validated, scoring>>

\* The losses are reduced once every rank scored its batches.
ReduceLosses ==
    /\ phase = "running"
    /\ \A r \in Ranks : scoring[r] # NotScoring /\ PassOver(r) /\ scoring[r].batches > 0
    /\ scoring' = [r \in Ranks |-> NotScoring]
    /\ UNCHANGED <<disk, phase, dataset, run, checkpoint, exact, trained, validated>>

SaveCheckpoint ==
    /\ phase = "running" /\ Idle
    /\ checkpoint' = Some(Metadata(dataset))
    /\ UNCHANGED <<disk, phase, dataset, run, exact, trained, validated, scoring>>

\* The attempt ends, however it does.
Stop ==
    /\ phase = "running"
    /\ phase' = "idle"
    /\ UNCHANGED <<disk, dataset, run, checkpoint, exact, trained, validated, scoring>>

Next ==
    \/ ChangeDisk
    \/ \E c \in Configs, s \in Runs : StartAfresh(c, s) \/ Resume(c, s)
    \/ /\ phase = "running"
       /\ \E n \in DOMAIN dataset.train_sources : \E i \in TrainRows(n) : TrainRow(n, i)
    \/ /\ phase = "running"
       /\ \E i \in DOMAIN dataset.stages : StartEvaluation(i)
    \/ \E r \in Ranks : ShortBatch(r) \/ RaiseUnscored(r)
    \/ \E r \in Ranks :
        /\ scoring[r] # NotScoring
        /\ \E n \in Members(r) : DrawRow(r, n)
    \/ ReduceLosses \/ SaveCheckpoint \/ Stop

Spec == Init /\ [][Next]_vars

-----------------------------------------------------------------------------
(* Properties                                                               *)

\* Rows a run is validated on are never rows it trained on, over all its attempts
\* and stages, unless one was resumed on a changed dataset: check_dataset_unchanged
\* compares the split a fraction, a row count or a usage changed would move.
HeldOut == exact => trained \intersect validated = {}

\* Every rank's shard has a row of every entry of every stage: an empty one would
\* have the ranks score different validation sources.
NoShardIsEmpty ==
    phase = "running" => \A i \in DOMAIN dataset.stages, r \in Ranks :
        \A n \in DOMAIN dataset.stages[i].val_data :
            HasRow(dataset.stages[i].val_data[n], dataset.source_rows[n], r, 0)

\* No rank's pass ends without a batch, so none raises while the others wait in the
\* reduction of the losses.
EveryRankScores == phase # "failed"

\* A training source has a row to restart its epochs with, whatever the holdout,
\* rounded up, took of it.
EpochsHaveRows ==
    phase = "running" => \A n \in DOMAIN dataset.train_sources : TrainRows(n) # {}

-----------------------------------------------------------------------------
(* What the theorems assume: the configurations are ones the loader of the  *)
(* config accepts, and the settings are RunSettings' for this world size.   *)

Assumptions ==
    /\ World \in Nat \ {0}
    /\ \A c \in Configs : c.unit \in Nat \ {0} /\ DatasetHolds(c)
    /\ \A s \in Runs :
        s.eval_iters \div World \in Nat \ {0} /\ s.validation_batch_size \in Nat \ {0}
    /\ \A c \in Configs, d \in Disks : \A n \in DOMAIN c.sources : d.footers[n] \subseteq Nat

=============================================================================
