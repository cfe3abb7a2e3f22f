# Verification of the multiblock recurrent transformer's training and data program

This directory models the program in `src/`: the preparation of a dataset (downloads, builds, deduplication,
publication, locks), the training run on it (settings, data stream, optimizer step, loop, checkpoints, resumes), and
the inference that runs beside it. TLA+ modules describe the code, TLC checks them on small instances, and TLAPS
proves what matters most for every value of the constants.

Sections: 1 inventory, 2 modules and runs at a glance, 3 training run, 4 source folder, 5 batch stream, 6 reading
the Hub, 7 downloading, 8 preparing a dataset, 9 the per-shard build, 10 configuration and resolution, 11 stages,
12 the optimizer step, 13 the forward pass, 14 inference sessions, 15 distributed evaluation, 16 the displays, 17 the
run's log, 18 disagreements between code and documentation, 19 not modelled.

## 1. Inventory

What the program consists of, the state each part keeps, its operations and how they meet. "Hard" names what a
unit test hardly reaches; "right" what makes the part correct. `PROJECT.json` lists the same parts with their status
and every hazard at its line.

### Training (`training/`)

* **Training loop** (`run.py`, `execution/loop.py`, `stopping.py`, `triggers.py`). State: `TrainingProgress.step`,
  `StopController.requested`, `checkpoint_fresh`. One step, validation when due, a checkpoint when due, samples
  and benchmarks when due, a poll for stop requests after each. Every rank executes the loop; ranks meet in
  collectives only. *Hard:* a request that some ranks saw and others did not; a failure on one rank while the
  others are on their way into a collective. *Right:* the ranks take the same branches, a stop ends within the
  step under way and leaves the state it ended in on disk.
* **Training step** (`step.py`, `steps/`). State: gradient and token sums of a rank, its replica of the weights.
  Packs dealt by the main rank, micro-batches accumulated, three reductions, one update. *Right:* every rank
  applies the mean over the supervised tokens of the whole step, and all refuse a step that one refuses.
* **Checkpoints and the run directory** (`checkpoint.py`, `execution/checkpoints.py`, `provenance.py`,
  `execution/lifecycle.py`, `logger.py: close`). State: the `.pth` files with step, weights, optimizer, stream
  position and one generator state per rank; `run_config.json`, `model_config.json`, `resumes/*.json`,
  `train_report.json`. Saved by the main rank after all ranks contributed, replaced atomically, found by file
  time. *Hard:* crashes between any two writes, explicit resumes of older or failed checkpoints. *Right:* a
  resumed run continues one pass over the data under the same optimizer, one directory holds one run.
* **Ownership and locks** (`data/ownership.py`, `data_preparation/lib/build/lock.py`). An exclusive `flock` per run
  directory, a shared or exclusive one per dataset root, taken by the main rank in that order; refusals reach the
  peers through an error exchange; a barrier before release. *Hard:* a death of the owner with readers left.
* **Batch stream** (`steps/batches.py`, `data/packing.py`, `data/datasets.py`, `data/loader.py`,
  `data/loader_state.py`, `data/collate.py`). State: rows consumed per source, credits of the token-share picker,
  the packing pool, the samples prefetched by loader workers. The main rank reads, packs and scatters. *Hard:*
  a checkpoint taken while workers are ahead; a source that wraps around; samples that fit nowhere. *Right:* a
  resume draws exactly the samples an uninterrupted run would have drawn.
* **Stage schedule** (`stage_manager.py`, `lr_schedule.py`, `triggers.py`): functions from the step to stage,
  weights and learning rate. *Hard:* stage boundaries and transition windows, off by one.
* **Settings and resolution** (`settings.py`, `execution/setup.py`, `data/dataset_resolver.py`,
  `tokenizer_contract.py`, `validation.py`). Value rules, the checks between run config, dataset and model, the
  validation split, the comparison on resume. *Hard:* a dataset that changes between plan, resolution and resume.
  *Right:* no row is both trained and validated on, every loader is fed.
* **Backends** (`backend/`): single device, or DDP with reductions, gathers, scatters. **Optimizers** (`optim/`):
  ELLIS, AdamW with sharded state (`zero1.py`) consolidated before a save; parameter groups.
* **Displays** (`ui/`, `../ui/`, `data_preparation/lib/ui/`). State: the Live and its refresh thread, the captured
  streams and log handlers, the kept lines, the SIGHUP handler. *Hard:* main, the refresh thread, a worker that logs and
  a signal handler meet under three locks while the terminal goes away or a frame fails. *Right:* nobody waits for ever,
  everything is handed back at the end, a kept line is printed once.
* **The run's log** (`logger.py`, `ui/throughput.py`). State: interval timer, side seconds, token and wait counters, status,
  estimators. *Right:* a metric dict reports its interval and nothing else, a failing run says so.

### Data preparation (`data_preparation/lib/`)

* **Dataset config** (`dataset_config.py`): schema, value rules, the content hashes that decide what is kept, budgets.
* **Runner, planner, repair** (`build/`). State: the verdict per source folder, the rounds. `prepare` inspects,
  asks once, repairs, then runs download and build jobs in two thread pools under one stop flag, at most five
  rounds. *Hard:* crashes inside a repair, a failing job while others run, a source that is never satisfied.
* **Atomic storage** (`storage/`). `write_atomically`, manifests, raw folders (`raw_folder.py`), owned build slots
  (`ownership.py`), snapshots. *Hard:* a crash between two renames. *Right:* the last complete generation
  survives, what is published matches its manifest.
* **Loaders** (`sources/`). A pass over a Hub repository reads each row group once for every source that wants rows
  of it and keeps an index of what it learned. *Hard:* offsets of sources that join, are satisfied or read along.
* **Download** (`stages/download*.py`). Rows are converted, tokenized by a worker thread, buffered and
  published shard by shard with offset and rejection counters. *Hard:* in-flight batches at a stop or failure,
  grouped passes with passively fed folders, resumption at an offset.
* **Build** (`stages/build*.py`, `exact_dedup.py`, `fuzzy_dedup.py`, `shuffle.py`, `row_pipeline.py`). Raw shards to
  processed shards, one by one and resumable with worker processes, or all at once and swapped into place.
* **Dataset-wide admission** (`stages/global_*.py`): one ordered pass over the candidates of all sources, a Bloom
  filter recovered from committed hashes, a frontier committed with each batch.

### Model, evaluation, tools

* **Model** (`model/`): prelude, recurrent blocks, coda; packs with block-diagonal masks, sampled depths with
  truncated backpropagation, chunked loss. *Right:* a document's loss does not depend on its neighbours.
* **Inference sessions** (`model/generation.py`): prefix, masks, positions, one slot of keys and values per
  occurrence of a layer. *Hard:* a forward that raises halfway. *Right:* the cached result is the uncached one.
* **Distributed evaluation** (`evaluation/`): jobs per round over the ranks, an error exchange and a poll between
  rounds, publication by the main rank.
* **Conversations** (`tokenization/chat.py`, `data_preparation/lib/conversation_format.py`,
  `training/data/formats.py`): a chat row is cut to complete exchanges at three places under three limits and counted
  at a fourth. *Right:* all of them mean the same tokens.
* **Inspection and tools** (`data_preparation/inspection`, `tools/`).

## 2. Modules and runs at a glance

| modules | what they model | checked by | proved |
|---|---|---|---|
| `TrainingRun`, `ResumableRun` | the loop on all ranks, stops, failures, checkpoints, restarts | `training_ranks` | all invariants, the refinement |
| `SourceFolder` | raw and processed folder of a source: download, build, swap, crash, repair | `folder_*` | all properties but the type |
| `Packing`, `DocumentStream`, `BatchStream` | sampling, packing pool, loader workers, save and restore | `batch_*` | all properties, the refinement |
| `HubReader` | the shared pass over a repository and its index | `hub_*` | |
| `RawDownload` | fetch thread, token worker, shard publication, resume at an offset | `raw_download` | offsets match rows, exhaustion is an end, honest outcomes |
| `PreparedData`, `JobPools`, `GlobalAdmission`, `Preparation` | whole preparations and the runs that read | `preparation` | |
| `SequentialBuild`, `ShardBuild` | the per-shard build with workers | | refinement, no vain waiting |
| `DatasetConfig`, `DatasetResolution`, `RunSettings` | configs, identities, split, checks, what a resume may change | assumptions of `folder_*` | hashes cover reads, held-out rows, accepted runs fit, resumes keep |
| `Conversation` | chat rows: encoding, cutting, counting, prompting | | cut and counted alike, prompts are prefixes |
| `StageSchedule`, `StageManager` | stages, weights, rates, triggers | assumptions of `training_ranks`, `batch_*` | for every plan |
| `OptimizerStep` | a step on all ranks | | token mean, replicas, refusal |
| `RecurrentForward` | packs through the model beside padded rows | | packing changes nothing |
| `Generation` | an inference session | `inference` | cache transparent, failures final |
| `DistributedEvaluation` | samples and benchmarks over the ranks | `inference` | all safety properties |
| `TerminalDisplay` | a live display, its threads and the terminal | `log_and_display`, `display_hangup` | |
| `RunLogger` | metrics, timers, status and end of a run's log | `log_and_display` | |

Composition. `Preparation` extends `JobPools` and `GlobalAdmission`, which share the folders of
`PreparedData`; there a source's folder is reduced to the verdicts `SourceFolder` works out in full, its download to
whole rows (`RawDownload` has the threads and offsets, `HubReader` the rows' origin) and its local build to a
prefix (`ShardBuild`). `BatchStream` details the position `stream` of `TrainingRun`; `OptimizerStep` details one of
its steps, `RecurrentForward` what a micro-batch of that step computes, `DistributedEvaluation` its collectives
"samples" and "benchmarks". `StageSchedule` gives `TrainingRun` and `BatchStream` their lengths, stage ends and weights,
`DatasetConfig` gives the instances of `SourceFolder` their identities and row counts. The theorems of `RunSettings`
conclude from the checks of `train()` what `DatasetResolution`, `OptimizerStep` and `RecurrentForward` assume.

Abstract specifications and what implements them, each checked or executable and proved: `ResumableRun`, one process
that saves and restores (`TrainingRun`); `DocumentStream`, an uninterrupted sampler (`BatchStream`);
`SequentialBuild`, one pass over the raw shards (`ShardBuild`).

Modules without a run have their properties as theorems; their definitions are executable, and a reader can hand them
to TLC with small constants. Proof modules state assumptions on constants as hypotheses (`Assumptions`) where no
run's module extends the component, and as named `ASSUME`s that TLC evaluates where one does.

What stays with TLC: liveness and everything under fairness, which the prover does not reach, and the properties of the
components whose row above names nothing proved (of `RawDownload`, `StopLosesAtMostABatch`, which adds up the batches in flight, and `PassEnds`). Induction over data needs no scheme with an operator as a parameter:
a proof picks a least counterexample (`WFMin`, `NatLessThanWellFounded`, or the smallest set that breaks a claim), and a
fold of the community modules is first shown to be a recursion on the sequence or set it folds. What `Fill`, `Total` and
the counting of rows compute is proved that way for all inputs. Sorting (`SetToSortSeq`) stays out of reach, so the
modules with proofs order the elements of a set by rank.

## 3. `TrainingRun`: one run directory over several attempts

### State and actions

The state of a rank is the collective it is at (`local[r].pc`), whether it has entered it (`entered`), what it
contributed (`flag`), and the locals of `train` and `run_training_loop` that decide where it goes next: `step`
(`TrainingProgress.step`), `requested` (`StopController.requested`), `fresh` (`checkpoint_fresh`), `saving` (which
call of `save_run_checkpoint` it is in). The control flow of the loop is a family of functions of these locals
(`LoopHead`, `AfterPoll`, `SaveIfDue`, `RunScheduledInference`, `FinishLoop`, ...), one per piece of code between
two collectives. A collective completes when every rank entered it; each rank then continues from *its own*
locals and the reduced result. Nothing in the model makes the ranks agree; that they do is proved.

Weights are the sequence of stream positions they were trained on, the stream is the position it has reached, a
generator is the number of draws taken from it. A checkpoint holds these three, the step and whether it is a
`-failed` one; its `mtime` is a tick of `clock`. The run directory has `run_config.json`, `model_config.json`, the
resume records and `train_report.json`, each reduced to the attempt it stems from.

| code | actions |
|---|---|
| `select_resume_checkpoint`, `check_fresh_run_directory` | `SelectResume`, `SelectDone`, `SelectRefused` |
| `publish_run_configuration` under `main_rank_phase` | `PublishRunConfig`, `PublishModelConfig`, `FinishConfiguration`, `ConfigureDone` |
| `StopController.poll` | `Enter`, `PollDone` |
| optimizer step, non-finite loss | `StepDone`, `StepNotFinite` |
| validation, samples, benchmarks | `EvaluateDone`, `InferenceDone`, `InferenceFails` |
| `save_run_checkpoint` | `GatherDone`, `PublishCheckpoint`, `PublishDone` |
| a failure of the main rank's file work | `MainWorkFails` |
| `logger.close` | `Close` |
| signal, kill, launcher | `Signal`, `Die`, `LauncherKill` |

### Assumptions

* All attempts use the same settings and world size; a resume path names a checkpoint of this directory.
* Two checkpoints never have the same file time. The code breaks such ties by the step.
* A collective returns on all ranks at once. A rank that has been released and one that has not yet cannot be told
  apart by anything a rank does before its next collective, except by dying, which may happen in either state.
* An exception on one rank that no error exchange covers is a death of that rank: its process ends and the launcher
  ends the others.
* Setup before the selection of a checkpoint, the export after the last poll and the barrier that closes
  `dataset_access` are left out.

### Runs

* `training_ranks`: two ranks, three steps, a checkpoint every two steps, validation, samples and benchmarks each due
  once, two attempts with every kind of start. Two ranks are enough for a disagreement; two steps between saves leave a
  step that is not saved; two attempts give a restart from every state. An attempt may or may not run under `torchrun`
  (`Supervised = {TRUE, FALSE}`): under it a step that is not finite ends the workers without a file; otherwise (one
  process, or another launcher that gives DDP its environment) it writes a `-failed` checkpoint, which the next
  attempt resumes explicitly or a plain resume passes over. How the attempt was launched is consulted nowhere else, so
  the model chooses where it matters. Besides the state invariants the run checks `AttemptEnds` under fairness and that
  `TrainingRun` implements `ResumableRun`.

What the properties say: the ranks never split (`CollectivesMatch`); what a stopped run ends in is what the next plain
resume takes, with every rank's generator (`StoppedStateSaved`); weights are always those of one pass over the data,
less what a user gave up by resuming a failed checkpoint (`OnePassOverData`); a crash costs at most one interval
(`LostWorkBounded`); a directory holds one run (`OneRunPerDirectory`).

Proved for all constants and not part of a run: a request stops the run within the step under way
(`StopsWithinOneStep`), its report is true (`ReportHonest`), and after an explicit resume from an older checkpoint a
plain resume may take the abandoned trajectory only until that attempt saved (`AbandonedOnlyUntilNextSave`, section 18).

The instance takes its number of steps, its stage ends and the steps of samples and benchmarks from
`StageSchedule`; the length of the run and every checkpoint step are therefore those of a real plan.

### Fairness

`FairSpec` assumes weak fairness of each rank's own steps (a running process proceeds), of the completion of a
collective every rank entered, of the main rank's file work, and of the launcher's kill once a worker is gone
(`torchrun` does this and the launchers of a cluster, with one process nobody is left waiting). Nothing is assumed of signals, deaths, failing saves or
new attempts. Under it `AttemptEnds` holds: every attempt ends.

### Proofs (`TrainingRunProofs`)

All hold for any finite set of ranks, any schedule and any number of attempts, from the two `ASSUME`s of the module
(the main rank is a rank of a finite world; steps and intervals are numbers).

`TypeCorrect` and `CollectivesAlwaysMatch`: `CollectivesMatch` is not inductive, since that no two ranks wait at
different places depends on the locals that chose the places. `IndInv` therefore adds

* `LocalsAgree`: two living ranks have the same control locals (everything but the generator);
* `SelectionAgrees`: while some ranks have selected a checkpoint and others not, no file changes, so all select the
  same one;
* `NewestExists`: a chosen checkpoint exists, so what is restored has the type of a checkpoint;
* that an entered rank is at a collective.

One lemma per piece of the loop's control flow shows that it keeps the type of the locals and maps equal locals to
equal locals; one per action shows that the invariant is kept.

The other invariants are read off `RunInv` (`RunInvariance`), which adds to `IndInv`

* `Flows`: where a rank is determines what its locals may be (a final save was requested, the export comes after the
  last step);
* `Votes`: what the main rank contributes is the outcome of its file work;
* `Times`: file times name files, and what a plain resume did not take is older or written by this attempt;
* `Origins`: all files stem from the attempt that owns the directory, and both configurations are there before
  training begins (`OneRunPerDirectory`);
* `Data`: every rank and every file holds one pass over the stream, with the failed step's packs set aside
  (`OnePassOverData`);
* `Saves`: what is published, or still fresh, or left by a stopped run, is what a plain resume takes
  (`StoppedStateSaved`); it needs `gathered` to be the generators' state while a save is written;
* `Recent`: between what is durable and the step no save was due, except while it is being written
  (`LostWorkBounded`, with the fact that among `SaveInterval` numbers one is a multiple of it);
* `Late`: after a step that a request overlapped the ranks only save and close (`StopsWithinOneStep`);
* `ReportHonest` itself, inductive with `Origins` and `Flows`.

`AbandonedGoesWithNextSave` adds to it that a save is newer than everything it supersedes. `Implementation` maps the
ranks to one process: the locals of a live rank are its state, a checkpoint its saved state, the collectives in which
nothing is decided stutter. It needs `RunInv`: without `LocalsAgree` there is no one state to map to, and without
`Saves` a file is no state the process was in. `AttemptEnds` speaks of fairness and stays with TLC.

## 4. `SourceFolder`: a source under preparation

### State and actions

`disk` maps the three places a processed folder can be in (`processed/<source>`, the build slots `temporary` and
`backup`) to what is there: the owner marker, the manifest, the shard files. `raw` is the raw folder's manifest and
files, `snapshot` what each config's published snapshot attests. `pc` and `run` are the memory of the running
`prepare` (`run.plan` the repair actions left, `run.out` the manifest a build holds); a crash forgets them. Files and
manifests are separate, so every point between two file operations is a state.

A document is a number; a raw shard is a sequence of documents, a processed shard the set of those that survived
filters and deduplication. What a processed manifest records of a raw shard is its row count, as in the code.

| code | definitions |
|---|---|
| `inspect_source`, `authorize_repairs` | `Plan`, `Refusals`, `Refusal`, `AsksFirst`, `Prepare` |
| `assess_processed_folder`, `next_shard_to_write` | `NeedsRebuild`, `IsWhole`, `CrashLeftover` |
| `perform_repairs` | `DeleteFolder`, `DeleteRaw`, `SwapIn`, `TruncateRaw` and their interrupted forms |
| `SourceLedger`, `run_preparation_rounds` | `RowsToFetch`, `TopUp`, `BuildPending`, `Satisfied`, `StartDownload`, `StartBuild`, `EndRound` |
| `ShardWriter`, `RawFolder` | `WriteRawShard`, `RecordRawShard`, `FinishDownload` |
| `build_source`, `ProcessedOutput` | `ResumeBuild`, `BeginGeneration`, `PublishShard`, `CoverShard`, `CloseBuild`, `SaveTemporary`, ... |
| `BuildWorkspace.publish` | `MarkFinal`, `ParkFinal`, `PlaceTemporary`, `DiscardBackup` |
| `publish_snapshot` | `Finish` |

### Assumptions

* One source, prepared under the dataset lock. Several configs may share the folder; two with the same hash of
  processed rows differ in their budgets only.
* `rmtree` cut off leaves any subset of a folder's entries (`Torn`). A rename or an atomic write happens entirely or
  not at all. A lost or damaged shard file is one that is missing.
* The loader of a raw identity yields a fixed sequence; the seeded shuffle is some fixed order.
* Left out: salvage of partial raw shards, tokenizer adoption, the outdated cap, the limit of a check to the first
  shards, unreadable manifests, legacy slots, false positives of the Bloom filter, the validation hold-out and
  dataset-wide deduplication. The user's answer covers the permission to delete a foreign raw folder.
* The refusals of `check_start`, `create_temporary` and `publish` are not branches of the model; `BuildNeverBlocked`
  says that they are never reached.

### Runs

* `folder_prepare`: up to four runs of `prepare` under four configs: a whole-source build, an incremental build with
  a larger and with a smaller budget, and one with another raw identity. Each run may be cut off anywhere, also
  in the middle of a deletion, and one shard file may be lost. The first download yields too few rows, so that
  top-ups and second rounds occur; one source runs dry. Three runs suffice for crash, repair and completion; the
  fourth lets a config come back after another one used the folder.
* `folder_first_shard` finds a disagreement reported below; it uses the config of the incremental build.

What the properties say: derived data always describes a prefix of the raw data present (`DerivedMatchesRaw`); what a
snapshot names is what it attested (`SnapshotAttests`); a satisfied run can publish (`SatisfiedIsPublishable`), and a
run that was not cut off is satisfied unless no row survives or the rounds are used up (`FinishedIsServed`); a download and an incremental build go on from what they have
(`WorkKept`), and neither a swap, cut off anywhere, nor a repair costs the last complete generation
(`LastGenerationKept`). That a build never finds its slots taken (`BuildNeverBlocked`) is proved and not part of a run.

Three outcomes are by design and not reported as findings. A backup that a crash left between placing the new
folder and discarding the old one makes `prepare` under a *changed* config refuse ("last backup"). A source of whose
first rows none survives ends unsatisfied, as no yield can be extrapolated from it. A final folder of which a
torn deletion left only an empty directory counts as surviving, so the repair leaves it and the build replaces it.

There is no fairness: a run of `prepare` may be cut off at any point, and nothing promises another one.
`FinishedIsServed` states progress as an
invariant of the runs that reach their end; `MaxRounds` bounds the rounds as in the code.

### Proofs (`SourceFolderProofs`)

Every property of `folder_prepare` is proved for all configs, upstreams and filters and any
number of runs and faults; `SourceAssumption` is the only assumption. The invariant `Inv` has five parts:

* `RawOk`: the raw folder is empty exactly when its manifest has no identity.
* `DisksOk`: in every place, also in slots a dead run left, the manifest is derived from the raw folder as it is now
  (`Describes`), a listed file is as listed (`Readable`), and the generation was given out (`GenOk`). A file of
  `processed/` that is not listed is the one an incremental build writes next (`LeftBehind`).
* `IdsOk`: generations are given out once, so what a snapshot names cannot come back with another content.
* `RunOk`: the memory of the running `prepare` fits its program counter.
* `StageOk`: what each point of a run knows of the disk. During the repair, the actions left are what is left to
  repair (`PlanOk`). After it the slots are free (`Settled`), the manifest in memory is the one being written
  (`WritingWhole`, `WritingNext`), and each step of the swap knows which of the three places is taken (`Parking`,
  `Placing`, `Discarding`). `Finishing` is why a run ended.

The hard part is the repair. The plan is computed once and performed one action at a time, and a crash may cut off each
of them. So the invariant relates the rest of the plan to the disk, in the order of `RankOf` (processed folders before
raw): a raw shard goes only when nothing that covers it is left. `Derivation`, `Attestation` and `FreeSlots` follow from
`Inv`; `Publication` and `Service` from `Finishing`. `WorkPreservation` and `GenerationPreservation` go through every
step again; for a repair they need of `PlanOk` that a folder is deleted only if another one is whole or it is not.

The four configs of the instance are not invented: `MCSourceFolder` holds the dataset configurations they stand for
and its `ASSUME`s check, through `DatasetConfig`, that each is accepted, which of them share a raw or a processed
identity, the rows each needs and is satisfied with, and which documents its quality rules keep.

## 5. `BatchStream`: the data of a run

### State and actions

`main` is what a checkpoint stores of the stream (rows consumed, buffered samples, loaded and target slots, the pool)
with the step and the packs taken in it; `loaders[s]` is the iterator of a source, its `EpochCounters` and its
worker: the row the worker reads next and the batches it has ready. `pending` holds the resume offsets, `ckpts` the
states an attempt may begin with. A worker reads ahead up to `Prefetch` batches, independently of the main process;
what it has read ahead is forgotten at the end of the attempt, as in the code.

`Packing` holds the functions of the pool and of the token shares; both `BatchStream` and its abstract
specification use them, so what the refinement compares is which documents enter, not how they are packed. A row is
the number of slots its document takes, 0 if the collate drops it.

| code | definitions |
|---|---|
| `load_state_dict`, `state_dict`, the failed step's checkpoint | `Start`, `Save`, `FailStep` |
| `ParquetTextDataset`, the `DataLoader`'s worker | `Skip`, `BatchFrom`, `ReadBatch`, `LoseBatch`, `EndOfRange` |
| `next_train_batch`, `_start_train_iterator`, `_end_of_epoch` | `OpenIterator`, `PullBatch`, `PassOverLost`, `RestartIterator`, `RefuseEpoch` |
| `_packs`, `_next_sample`, `_add_to_pool` | `Picked`, `Pulling`, `AddDocument`, `TakePack` |
| `_pick_source`, `PackPool` | `PickSource`, `Earned`, `NeedsRefill`, `Fill` |

`DocumentStream` has no loaders, workers, buffers or offsets: each source is read for ever, and a run begins exactly
with a state that was saved. `ImplementsDocumentStream` maps rows consumed and buffered samples to the number of
documents drawn. Nothing is claimed of a stream after a batch was passed over.

### Assumptions

* Weights and targets are whole numbers in units of `1/Scale`; the code's floating-point sums are exact here.
* torch's `DataLoader` with one worker hands batches over in order, keeps up to `Prefetch` ready, and skips a missing
  batch once the worker has reported the end of its range (what the docstring of `_end_of_epoch` says of it).
  A batch lost further than the prefetch depth from the end blocks the reader; the model shows that as a reader
  that waits until the run is ended from outside.
* Left out: sources that come or go and a pack length that changes on a resume, documents that fit no pack, the
  scatter of a pack. The tensors of a pack are in `RecurrentForward`, validation loaders in `DatasetResolution`. With several ranks the main rank takes the packs of
  all of them, so `PacksPerStep` counts those of the step.

### Runs

* `batch_resume`: three sources, one of them without a usable row and in use only in the last step, two with dropped
  rows and a range that is no multiple of the batch; a pool of two packs, two packs in each of four steps. Every
  source that is used wraps around. One attempt may be ended anywhere (a stop, a failed step, a crash, a refused
  epoch) and a second one starts from any stored state; one batch may be lost. Two attempts reach every offset.
* `batch_lost`: one source, one lost batch, no dropped rows; it finds the disagreement reported below.

What the properties say: the documents and packs are those of one uninterrupted reading
(`ImplementsDocumentStream`); shares stay within the bounds the docstring of `BatchStream` derives, while weights are
constant (`SharesBounded`); a document is packed within twice as many packs as the pool holds (`NoDocumentStarves`);
a loss fails its attempt (`LossFailsItsAttempt`). Proved only: a source without a usable row is read once
(`UselessSourceReadOnce`). The docstring of `PackPool` gives a smaller bound for the wait, one pack beyond the lookahead
of sixteen; documents of just over half a pack each need a pack of their own, and a pool holds up to 31 of them.

There is no fairness: a run may be ended at any moment, and the properties are all of safety.

### Proofs (`BatchStreamProofs`)

All properties of `batch_resume` and `UselessSourceReadOnce` hold for any set of sources, any rows, weights, batch size, prefetch depth, pool
and number of losses, from the two `ASSUME`s of `Packing` and `BatchStream` (there is a row in every source and no
document is longer than a pack, sizes are positive numbers, the weights of a step share it out in full).

* Loaders (`StreamInvariance`). `LossFailsItsAttempt` speaks of the moment an epoch closes; that the counts then differ
  depends on every batch before. `IndInv` says of each open iterator that its queue is `Gapless` and ends where the
  worker is, so that the reader's `Position` is known, and that its counts are `Accounted`: the rows read do not exceed
  those between offset and position, and are fewer once a batch was passed over. At the end of the range the position
  is its end, so a gap makes the comparison fail.
* Pool. First fit leaves a document behind only if the pack in front of it is nearly full, so two packs in a row take
  more than one pack length from what is in front of it (`KeptInv`). Nothing enters in front, and at most `PoolFactor`
  pack lengths were there when it entered: `PoolInv` bounds the packs waited by what is left, hence
  `NoDocumentEverStarves`.
* Shares. What enters is shared out in full, so the deficits of the active sources sum up to nothing (`Balance`); the
  source that is picked has the largest, which is then not negative. No source gets ahead by more than one document,
  and what one lacks the others have had in excess (`SharesAlwaysBounded`).
* `UselessSourceAlwaysReadOnce`: a source without a document keeps the reader in the pick until its epoch is refused
  (`FrozenInv`), so no state with its rows counted is ever stored.
* Order. `OrderInv` says of the live state and of every stored one that what is buffered of a source are the last
  documents of the rows counted, in order, and that the reader stands right behind these rows, modulo the range.
  With it `StreamImplementation` shows every step of the loaders, of the loop and of a restart to be a step of
  `DocumentStream` or a stutter: the document that is added is number `drawn + 1` of an endless reading. A state with a
  gap is mapped to a stream of which nothing is known.

## 6. `HubReader`: one pass over a repository for several sources

A repository is a sequence of files, a file a sequence of row groups, a group a sequence of keys (the language of each
row). `index` is the file index in memory, `saved` the one last written, `stored` what each source's folder keeps,
`cursors` the requests of the pass under way, `at` where the reader is. A pass seeks by the counts the index has
learned, reads a group once for everybody who wants rows of it, lets a satisfied source read on passively, and
admits keys nobody asked for. It can be stopped at any row (`Close`, which saves the index) or crash (`Crash`, which
forgets what was learned since the last save); a folder keeps all rows of a completed pass and any prefix of
those of another one.

| code | definitions |
|---|---|
| `FileIndex` and its records of footers, groups, complete files, streams | `KnownGroups`, `KnownCount`, `RecordFooter`, `RecordGroup`, `RecordComplete`, `RecordStream` |
| the cursors of a pass | `Requests`, `Cursor`, `Satisfied`, `Active`, `Collecting`, `PassesBy` |
| skipping files and groups, passive reading, discovery | `SkipFile`, `SkipGroups`, `SkipPassively`, `Discovered` |
| the reading loop | `StartPass`, `OpenParquet`, `EnterGroup`, `DecodeRow`, `LeaveGroup`, `EndFile`, `OpenStream`, `StreamRow`, `EndStream`, `EndPass` |

`hub_passes` runs three passes over five repositories that mix remote, cached and streamed files: groups skipped
between groups that are read, two groups in the first or the last file, a stream between remote files. The file's head
promises that every folder is a prefix of its source's order (`Contiguous`). The code breaks that on two of them
(section 18), and `hub_passive` expects it: on `MCTwoGroups` a request satisfied before the last group of a file reads
on passively in the next, on `MCBetween` a key is met behind a group that was skipped. The run holds both; TLC reports
the shorter trace, the first. Both feed a source behind rows in a group that an opened file still had; the history variables `left` and
`torn` record that, and on all five repositories every other source keeps its prefix (`ContiguousUnlessSkipped`),
whatever was skipped by counts, passed unopened, streamed or lost to a stop. The index never claims a count the repository does not have, though several
interrupted passes fill it in (`IndexTruthful`), and a completed pass serves what was asked (`ServedInFull`). Deadlock is not
checked because the number of passes is bounded. Left out: the prefetching reader, the check that a revision moved,
HTTP, keyed reads without a key function, the decoding of formats.

## 7. `RawDownload`: a pass of the download

Two threads: the fetch thread pulls, counts and converts rows and submits batches; the token worker drops rows that
are too long and appends the others shard by shard, recording with each shard the offset and the reject counters as
of its last row. `fetch` and `worker` are where the threads are, `inc` the increment of each source of the group (what
it had, what was consumed, what is in flight), `disk` its manifest and shards. The fetch thread's comparison with the
target is several steps, because the other thread settles batches while it adds up (`ReadKept`, `CompareTarget`). A
stop, one fault (network, tokenizer or disk) or a crash may come at any moment; the next pass continues from the
manifests.

`raw_download`: up to three passes of an instruct source with long, malformed and filtered rows, and of a group of two
whose rows alternate; a batch and a shard of two rows, a queue of one batch, two in flight, limits reached in one pass
and lifted in the next. Offsets and counters always belong to the rows stored, for every prefix of shards that a repair
may go back to (`OffsetMatchesRows`); a folder is called exhausted only where its source ends or its limit was reached
(`ExhaustedIsAtEnd`); a stop costs one batch at most (`StopLosesAtMostABatch`); the outcome hides no failure
(`OutcomeHonest`); every pass ends (`PassEnds`). Fairness: each thread proceeds when it can, which says that reads
return or fail and the processor is shared; nothing is assumed of stops, faults and crashes. Left out: languages
discovered during a pass, the processes of the tokenizer pool, progress bars. Whether a shard was saved before or
after the failure that ended it is one case, a lost shard. A row is its place in the upstream; a row is storable, too long
for the tokenizer, malformed (with or without a verdict on the schema) or filtered.

### Proofs (`DownloadProofs`)

`DownloadOffsetMatchesRows`, `DownloadExhaustedIsAtEnd` and `DownloadOutcomeHonest` are the properties of those names for any repository, group, batch, shard and queue size, number of
batches in flight, any number of passes and faults, from the two `ASSUME`s of the module (sizes are positive, limits and
needs are numbers, only instruct rows are rejected, a group of several sources has none of them).

A manifest says what was stored, but a shard records the progress of its last row, which was counted by the other thread
long before: the invariant has to follow every row from the pull to the shard. `Control` says where the two threads may
be together: which fields of the fetch thread and the worker mean something at a step, that nothing is in flight when
writers are flushed, that buffers are empty outside a pass. `Data` says per source what lies where. Its rows up to
some ordinal `w` are settled: stored in the folder, in its writer (`StoredOk`) or counted as too long; those from `w` to
`h` are in the batches under way, in the order pending, queue, at hand, then the batch that is filled (`LineOk`), each
carrying the counters as of itself (`Placed`, `Told`); and `h` is where the reads are, unless a failure has been
recorded and a batch was dropped (`FlowOk`). The loader is at the last row consumed or before the offset (`At`). One lemma per action
shows that rows only move from one part to the next. That the worker stops storing for good at its first failure is what
makes a recorded offset safe: a batch after a lost one would step over its rows. Repairs need the claim for every prefix
of shards (`GoodManifest`).

`Ends` adds why the two threads stopped: the fetch thread's end of rows, limit or stop with the reads where they say they
are, and that a mark of exhaustion on disk belongs to the end of its source or to a limit reached. `Honest` follows
a failure from the thread that met it to the outcome of the pass: recorded, remembered by the worker until it is raised,
or the reason the cleanup is under way; only then can the outcome call a pass successful.

## 8. `Preparation`: preparing and reading one dataset

Four modules. `PreparedData` has the folders and the planner's verdicts, with dataset-wide deduplication: per source raw
rows, candidates built from them and the output admitted from the candidates, and one snapshot. `JobPools` has a
round: two pools under one stop flag, the main thread that waits, submits follow-up builds, and on the first failure
cancels what has not started. `GlobalAdmission` has the ordered admission: extend the candidates, restore or replay
the output, admit batch by batch with a writer thread behind, finish the source or fetch more. `Preparation` has
the lock and the ranks' exchanges, and composes the others: a stand-alone preparation ("tool"), a training run of two
ranks that may prepare by itself and one that only reads.

| code | definitions |
|---|---|
| `prepare`, `prepare_global` | `Begin`, `PlanRound`, `RunPools`, `StartAdmission`, `RunAdmission`, `EndPreparation` |
| `download_and_build_missing` | `OpenPools`, `StartJob`, `DownloadRow`, `BuildRow`, `FollowUp`, `HandleJob`, `FailJob`, `Interrupt`, `PoolsClosed` |
| `global_build.py`, `_Writer` | `NextBatch`, `AdmitBatch`, `RecordPass`, `WriteShard`, `SaveManifest`, `DiscardBatch`, `FailCommit`, `LeavePass` |
| `global_output.py`, `global_session.py` | `Reusable`, `Resumable`, `DeleteOutput`, `BeginOutput`, `Restored`, `MayBorrow` |
| `dataset_lock`, `dataset_access`, `resolve_dataset` | `Grantable`, `Enter`, `Pass`, `Release`, `AssessDataset`, `StartAuto` |

`preparation`: two sources whose rows overlap; the loader of the first serves its second row later, which is the first row
of the second, so that outputs behind a reopened source have to be replayed; one key is a false positive of the
Bloom filter. One failure, kill, interrupt or stop anywhere. At every point what an output lists is what one
uninterrupted admission retains of the candidates its frontier accounts for (`CommittedIsReference`); while a run's
main rank is there, none of its ranks has a dataset open that is not whole (`ReadersSeeWholeDataset`; a main rank that
died is the documented exception of `ownership.py`); a round that did not raise did what it planned (`RoundHonest`); every
holder lets go of the lock (`LockReleased`). Fairness, `WF_vars(Progress)`: the processes that run go on, the launcher
ends the ranks of a run that lost one. A run happens once and the tool prepares once, so everything ends and
deadlock is not checked.

Assumptions: a raw shard holds one row, a row is its key, and every raw row survives the local build (sections 4, 7 and 9
have these parts); pools hand queued jobs out in any order; the reader thread and hash workers hand over candidates in
order and are not modelled; an upstream grows between preparations only. Left out: groups of sources in one job, the
capacity check of the filter, refusals of corrupt metadata, dry runs, `--steps` and `--sources`, the break of the rounds
when a top-up brought no row.

## 9. `ShardBuild`: the per-shard build

`SequentialBuild` is what the build promises: the manifests of one pass over the raw shards in order, each with the
rows quality and deduplication keep of it, reading no further than the budget asks. `ShardBuild` is the code: the build
thread with its filter and manifest in memory, a worker process per residue class of shards (or none), one shard
prepared ahead, the manifest saved after every shard, and an abort (crash, stop, death of a worker, failure) at
any step, after which the build restarts from the disk.

Proved in `SourceFolderProofs` for every source, budget and number of workers: `BuildIsSequential` (the refinement),
`NeverInVain` (the build thread never waits for a shard that is not on its way) and `HoldsOneShard` (a worker holds the
rows of one raw shard). The invariant says that memory is at most one shard ahead of the disk, that the filter holds the keys of the rows
memory keeps, and that the next round of shards is on its way while rows are needed. The filter is the set of bits
of the inserted keys, so false positives are part of it. Left out: the cut of the output into shards of a size, files a
build wrote but did not record (section 4 has them).

## 10. Configuration, resolution and resume

**`DatasetConfig`** has the value rules of a dataset config, the payloads of the raw, processed and config hashes, the
token budgets and row counts, as functions of the config record. A hash is its payload, an optional value a set of at
most one, a fraction its numerator over `c.unit`. Proved for every config: no setting a loader or a build reads is
missing from the hash by which its folder is kept (`RawHashCoversLoader`, `ProcessedHashCoversBuild`); rows at which a
source serves its budget are within what the planner downloads (`SufficientWithinNeeded`) and still serve it after the
holdout, up to one row (`TrainingPartServesBudget`). Left out: YAML, texts of errors, nested mappings, NaN; the
tolerance of the sum of weights is exact equality.

**`DatasetResolution`** is a state machine over attempts: a dataset is prepared anew or damaged between attempts
(`ChangeDisk`), an attempt starts afresh or resumes (`StartAfresh`, `Resume`, with `DatasetUnchanged` between
checkpoint and dataset), trains rows, evaluates its shards (`StartEvaluation`, `DrawRow`, `ShortBatch`,
`RaiseUnscored`, `ReduceLosses`) and saves. A row is its source, the generation of its folder and its place. Training
rows may come in any order (section 5 has the order). `RowsHeldOut`: over all attempts no row is trained and validated on,
unless an attempt was let resume on a changed dataset. `LoadersAreFed`: every rank's shard of every validation entry
and every training range has a row, and no evaluation ends without a batch, so no rank raises while its peers wait in the
reduction. The inductive invariant `ResolutionInv` says that a running attempt passed its checks on a known disk and
that what was trained and validated lies on the two sides of the split of the lineage.

**`RunSettings`** has the rules of the run config and of the model config, the derived sizes, the checks `train()` makes
between run config, dataset config, model and tokenizer in their order (`Starts`, planned on one dataset config and
resolved from another: the file is read again under the lock), and the steps that validate, probe and log. It is where the
assumptions of other modules come from: `StartedRunsFitTheDataset` gives `Assumptions` of `DatasetResolution`,
`StartedRunsFitTheModel` those of `RecurrentForward` (documents fit packs and position table, every token has a row in
the embedding, each block gets gradient), `SharesMakeTheStep` those of `OptimizerStep`. `IntervalsAreKept`: no
validation result and no gradient probe is computed on a step whose metrics are not written. Left out: type checks, the
values that only initialise weights.

`RunSettings` also has what a checkpoint says of its run, the parameter groups of the three optimizers, and what a
restore compares. `ResumeKeepsTheOptimizer`: with `allow_settings_change` or without, the optimizer, its betas,
epsilon, weight decay and grouping, its sharding, the number of ranks and the tokenizer are those of the checkpoint;
each is an equality, so it holds along any chain of resumes. `ResumeKeepsTheSettings`: without the flag neither the
model nor any setting that is not exempt changes. Left out: checkpoints in an older layout.

**`Conversation`** has no state either: messages become tokens that are supervised or not (`Written`, a recursive
function over the messages), with the literal profile or in the legacy format, and a limit keeps the complete exchanges
that fit (`Fit`; the legacy format stops at the first that does not, the profile counts the ends within the limit).
The download stores a row cut under its limit (`Downloaded`), the build takes it over or cuts it again (`Built`), the
collate cuts it to the training length (`Trained`), and the planner counts what a raw row is worth from its
`exchange_ends` without encoding anything (`Planned`). Limits are sets of bounds, so a cut under two limits is a cut
under their union. Proved for all conversations, limits and encoders: cutting again is cutting once under all limits
(`FittingAgain`, hence `BuiltAsFitted`, `TrainedAsFitted`), the planner never raises on a stored row and counts exactly
the positions trained at that length (`StoredIsCountable`, `PlannedIsTrained`), a cut row ends with a supervised token, so
the collate never drops it (`FittedIsSupervised`), a prompt and its supervised answer are the trained
conversation (`PromptIsTrained`), and with the profile no header becomes a label (`NoHeaderIsSupervised`). Induction
over the messages needs no scheme: `NaturalsAreInductive` picks the smallest interval that breaks a set, and
`RecursionExists` builds the function a recursion defines. Hypotheses: encoders return tokens (`EncodersAssumption`),
and structural tokens are not content (`StructuralTokens`, checked by `encode_chat` as `Plain`). One encoder stands for
the tokenizer: a build that refits (`sameTokenizer` false) is covered for rows cut under this encoder; what another
tokenizer kept is a conversation of its own, to which `FittingAgain` applies. Left out: `hash_conversation`, the counters of removed exchanges.

## 11. `StageSchedule` and `StageManager`

`StageSchedule` has the boundaries, blends, weights, learning rates and triggers as functions of the plan; fractions
stay fractions. `StageManager` is the life of the object: the walk over the stages that computes the boundaries, the
validation, then the steps of training. The walk is a state machine so that facts about all boundaries are invariants.
Proved (`StepAndScheduleProofs`) for every plan the constructor accepts: each step lies in exactly one stage (`StepsPartitioned`), each stage but
the last is ended by exactly one stage checkpoint (`StagesEndOnce`), warmup and cooldown lie where they belong and never
overlap (`RampsStayApart`), a learning rate never exceeds the plan's highest (`RateStaysWithinPlan`), the stage a run
is heading for never goes back (`NeverHeadsBack`). The tokens of a blend, `int(tokens * pct)`, are an input.

## 12. `OptimizerStep`: a step on all ranks

The main rank deals packs (`Scatter`), ranks accumulate at their own pace (`Backward`), meet in three reductions per
step (gradient, loss, counted tokens: `Reduce`), and apply or refuse (`Apply`, `Refuse`, `Raise`). A pack is its number
in the stream, a gradient one whole number, sums are exact, a quotient is kept as numerator and denominator; what the model
computes is uninterpreted. Proved (`StepAndScheduleProofs`) for every number of ranks and micro-batches and any supervised tokens per pack: the
applied gradient is the exact mean over the supervised tokens of the whole step (`TokenMean`), replicas about to run
the same step are equal (`Replicas`), a step one rank refuses is applied by none (`RefusedAlike`), packs are dealt by
step, micro-batch and rank alone (`Dealing`) and each once (`PacksAreDistinct`), nobody updates before all have trained
their share (`WholeSteps`). The invariant relates each rank's phase to the joined collectives, partial sums to the
prefix of micro-batches they cover, and each replica to the model after its step (`trained` and `model` are history
variables). Floating-point rounding is outside the model. A rank that raises leaves the others waiting: section 3 has how
a run then ends.

## 13. `RecurrentForward`: a pack through the model

A pool of documents is packed first fit and run through prelude, recurrent blocks and coda layer by layer, in lockstep
with the same documents in padded rows of their own, on the right as in validation and on the left as in batched
inference. A layer is uninterpreted: it sees a column's position and state and those of the columns its mask admits.
Proved for every pool, pack length, number of blocks, layers and depths: the states and losses of a document in a pack
are those of the document alone (`PackingChangesNothing`), a counted column is asked for its own document's next token
(`NextTokensOnly`), padding and the tail of a pack count nowhere (`PaddingIsIgnored`), a pack has a target
(`PacksAreSupervised`), the tail stays in the position table (`TailFits`, for a pool that holds more than a pack),
blocks run as deep as drawn and the iterations with gradient come last (`DepthsHold`, `GradientIsLast`), the chunked
loss covers each column once (`ChunksCover`). The argument: a document owns its columns and neither mask leaves them, so two
views that agree before a layer agree after it; the induction over layers, iterations and blocks is the state
machine's. Left out: kernels, dtypes, activation checkpointing, the function from seed to noise, values of gradients.
A row is given the noise and depths of the pack; that validation runs at the mean depths is a choice of `Asked`.

## 14. `Generation`: an inference session

`session` is `GenerationState`: the tokens, mask and positions published, the initial latents, one slot of keys and
values per occurrence of an attention layer (a layer of a recurrent block occurs once per iteration), the pending prefix
and whether it was invalidated. `forward` is the forward under way, layer by layer, with what the whole prefix gives
without a cache beside it (`full`). `Begin`, `Refuse` and `Generate` are the calls (the last through the wrapper of the
other library), `RunLayer` and `Finish` the forward, `Fail` an exception in a layer, `Interrupt` one that is no `Exception`
and so leaves the session pending.

`inference` (the part of it in `Generation`): one layer, two recurrent blocks, one layer; up to four tokens in any mixture of chunks, paddings and
schedules, with changed models, batches and modes. Results are terms, so two are equal exactly when computed alike.
`CacheIsTransparent` is checked there and proved for every architecture (`InferenceProofs`: `CacheSafe`), as is
`NothingAfterAFailure` (`FailureIsFinal`), with `SlotsSafe` (slots hold the published prefix), `LatentsSafe` and `PrefixStays`. The invariant
follows the chain of occurrences: the slots before the layer under way already hold the new columns, those behind it
the old ones. One row stands for the batch; growth of the buffers and dtype checks are left out; there is no fairness.

## 15. `DistributedEvaluation`: samples and benchmarks

After a step each rank walks the plan of samples, then serves the benchmark jobs that the evaluator's calls on the
main rank become. A rank is at a collective, has entered it or not, and continues from its own locals and from what was
gathered (`Meet`), as in `TrainingRun`. Rounds give each rank one job at most; replies are checked for sequence, owner
and count; a poll follows each round.

`inference`: three ranks, two batches of samples at two settings, two recurrences with two calls, so that rounds
are full and partly empty; requests to stop that reach ranks at different moments, and one failure anywhere. Ranks wait
in the same round (`RoundsMatch`), what is published is what one process would compute job by job
(`PublishedComplete`), inference ends on every rank (`InferenceEnds`). Proved only: after an agreed stop no job begins
and all ranks leave with the training's generators (`StopEndsTheJobs`). Fairness: jobs return, collectives that all
entered complete, the launcher ends the ranks of a run that lost one. Left out: the scoring of the evaluator, limits on
payload sizes, ranks whose plans differ in their fingerprint, an artifact of an earlier run of the same step; seeds are
taken to be distinct. `MCInference` puts the two specifications one after the other: they share no variable, and
sessions begin once every rank left an undisturbed run.

Proved in `InferenceProofs`, for every number of ranks, plan, list of calls and bound on failures: `RoundsAlwaysMatch`,
`PublishedAlwaysComplete`, `StopAlwaysEndsTheJobs`. `RoundsMatch` is not inductive: that no reply is refused needs to
know what was handed in, and that needs to know that all ranks decide alike. `EvaluationInv` therefore says that any two
living ranks share their control (place, phase, recurrence, sequence, jobs of the round, flags; the two may differ in a
cancellation only while the command that carries it is on its way: `SameControl`), that what was handed in follows from the
locals of who handed it in (`GivenHonestly`), and how far the main rank is: the answers it has are the reference's for a
prefix of the jobs (`SamplesInv`, `BenchmarksInv`). The steps follow the code: for each collective, two ranks with shared
control come out of it with shared control (`Meeting`), and the main rank's answers grow by the jobs of the round. That
each request is in exactly one job, and a job's positions are never met twice, is proved of the planning itself
(`GroupsLemma`, `ChunksLemma`: a fold over the documents in the order of their first requests), so the check for duplicate
and missing positions cannot fail (`NothingMisplaced`, `FilledLemma`). `PlanAssumption` asks that lists are sequences and that
a call of the evaluator has requests. `InferenceEnds` speaks of fairness and stays with TLC.

## 16. `TerminalDisplay`: a display and its terminal

`LiveDisplay` under its two subclasses, the preparation's `DataDashboard` and the `TrainingDashboard` (`Training`); a behaviour
starts with one of `Boards`. A thread is the list of steps it still has to take (`todo`), so that a call, a `with` block and an
exception out of the middle of a frame are operations on that list; between any two steps another thread or the signal
handler may run. Locks are reentrant and held by a thread: the display's `_lock`, that of the dashboard's log handler, and
rich's own per Live. rich is modelled by how the code uses it: a Live draws from its own thread under its lock, its stop
draws once more and erases. `display`, `rich`, `capture`, `signal` are the fields of the code, `tty` what the environment
did, `written` counts how often a record reached the terminal.

`log_and_display`: either dashboard, with a worker that logs, a prompt, a SIGHUP, a terminal that goes away and frames
that stop rendering, in any combination and order. The signal handler interrupts main between any two steps, also under
`_lock`, and logs there; another thread inside the log handler may wait for `_lock`. That circle is real (section 18):
`display_hangup` expects `NoWaitCycle` violated, on the smallest instance with it (the preparation's board, one Live, a
SIGHUP the terminal answers). But for main waiting to log inside the handler
there is no circle of waits (`CirclesOnlyThroughSighup`): frames, log lines, teardowns and the
hangup that is left to the refresh thread come through. Nothing is left of the display (`ClosedCleanly`), though the board
may be torn down by either thread (off the main thread the SIGHUP handler stays, as the code says); what the preparation
kept is printed once (`KeptOnce`). Bounds: one Live more than prompts, one kept record, one unfinished line, one SIGHUP, and
failures come before a second Live is up (`MayFail`). A run may end, hence no check for deadlock; the circles are the claim
about it. Left out: what a frame shows, `_silence_lock` (nothing else is taken under it), environment variables, forks.

## 17. `RunLogger`: the log of a run

The calls of `training/execution` in their order (`TrainStep`, `Evaluate`, `LogStep`, `WorkBlock`, ..., `Close`, `Exit`) on
the timers and counters of `RunLogger`; seconds pass in the calls that take time. `spent` is an observer that adds up what
really happened. `log_and_display`: a run resumed in the middle of a stage with a blend to the next, logged every second step; any
step may be followed by evaluation, checkpoint, samples and benchmarks, any of which may fail, as may export and report.
A metric dict reports the seconds, tokens and evaluation of its interval (`DictReportsItsInterval`), the estimators sample
training only (`SamplesAreTraining`), transitions are announced in turn (`TransitionsAnnounced`), and a run that fails says so before its dashboard is gone and leaves no report
(`FailureIsSaid`). `MCLogAndDisplay` explores the log and the display of section 16 in one run, either with the other at
rest: they share no variable. The two sources are symmetric (`SourceSymmetry`). Left out: the moving average (an estimator keeps its newest sample), the values of metrics, wandb.

## 18. Disagreements between code and documentation

Shown by a run:

* `data_preparation/lib/storage/raw_folder.py:183`: a crash between the first raw shard of a source and its first
  manifest makes every later run refuse the folder (`folder_first_shard`), where the README promises that a crash
  keeps everything fetched. From the second shard on the promise holds (`WorkKept`).
* `training/data/loader_state.py:156`: the comparison of an epoch's rows starts anew after a resume. When a lost batch
  was passed over before the checkpoint, the rows consumed lack it, the resumed epoch starts that many rows too
  early, and closes in order: the loss stays silent (`batch_lost`), where `loader_options.py` says it never is.
* `sources/hub_files.py:1394`: the loop over a file's groups ends with its last active request, which reads on passively
  in the next file; the rows of the groups left are lost to its folder (`hub_passive`). Lines 37-38 say that a folder
  fed passively is always a contiguous prefix.
* `sources/hub_files.py:1444`: a newly met key is admitted although a group with rows of it was skipped in this pass
  (`hub_passive`, with `Repo <- MCBetween` alone). The docstring (1423-1424) says that the groups between were decoded.
* `ui/display.py:427`: the SIGHUP handler logs on the main thread, which may hold `_lock`; with another thread inside the log
  handler both wait for ever (`display_hangup`). The head of the file says a living terminal costs one line.

Met while modelling, without a run of their own:

* `ui/display.py:442`: the handler of a hangup does the teardown itself when it finds no Live. If a broken frame closed the
  Live and the terminal is gone, that teardown logs on main, possibly under `_lock`, with the same circle, where the head
  of the file says that the run continues headless. `CirclesOnlyThroughSighup` excepts it together with the one of line
  427; TLC finds it as a violation of `display.headless => NoWaitCycle` with `Breaks` and `Loses` TRUE.
* `training/checkpoint.py:139`: between an accepted explicit resume from an older checkpoint and the first save of
  that attempt, a plain resume takes the abandoned trajectory, since the newest file is still one of it. The comment
  above the line promises otherwise; `AbandonedOnlyUntilNextSave` states what holds.
* `data_preparation/lib/storage/ownership.py:171`: `BuildWorkspace.remove` deletes a replaced backup file by file, possibly
  the owner marker first; cut off there, the repair step refuses the folder (`ownership.py:86`, `refused = "backup"` in
  `SourceFolder`) where the comment at `stages/build.py:330` says that it removes it.
* `ui/display.py:295`: a prompt that comes while the refresh thread closes a broken display is asked under a frame that is
  still drawn and erased, where `suspended` promises a closed display.
* `ui/display.py:466`: a record that another thread logs while the board demotes itself is kept after the kept lines were
  printed, and lost (the comment at `training/ui/board.py:186` says there is nothing
  left to print). `KeptOnce` is therefore claimed of the preparation.
* `stages/download.py:759`: the rows kept are read before those in flight; a batch settled in between is counted
  nowhere, and the thread reads past the target. The docstring (710-712) states the tighter bound; kept rows stay below
  the request plus the batches that can be in flight.
* `stages/download_workers.py:136-146`: a submission that meets a stop raises it instead of queueing its batch, so a
  consumed batch may not be stored. The docstrings (29-34, 104-110) say everything consumed is.
* `stages/global_build.py:139`: a source whose loader is exhausted is finished although raw shards beyond the capped local
  candidates are not built; the preparation ends incomplete and the next one extends them.
* `build/runner.py:701`: a stop raised between the success of a download and its follow-up build skips the build without a
  failure; `RoundHonest` leaves that case out.
* `training/optim/factory.py:51` and `execution/setup.py:108`: options of ELLISAdam under AdamW, and a training length
  above the model's, are refused only after the dataset was prepared, where a comment in `settings.py` (232-233) says
  that names are checked before.
* `training/settings.py`: `training_max_sequence_length` has no lower bound (every document is then dropped, and the
  stream ends the run), `validation_padding_multiple` is not checked (0 fails at the first validation).
* `training/data/dataset_resolver.py`: the comparison of splits and row counts on resume follows from build id and config
  hash, and a validation entry without a batch cannot pass `check_entries`; both are defence in depth.
* `data_preparation/lib/dataset_config.py: rows_needed` says the training part stays at the budget; a holdout that is
  rounded up may cost it one row (`TrainingPartServesBudget`).
* `PackPool`: the bound of its docstring on how long a document waits (section 5).
* `training/ui/board.py: _disable` checks and sets its once-only flag without a lock.

## 19. Not modelled

* **The content of consoles and dashboards** (`ui/`, `training/ui/`, `cli/`): rows, panels, formatting, the parsing of
  commands.
* **Numerics**: kernels, optimizer updates, initial weights, floating-point rounding, compilation. Layers, losses and
  gradients are uninterpreted, sums exact.
* **Conversions of text** (the encoder of a text, converters of rows, decontamination n-grams, hashing of documents), the
  decoding of file formats, HTTP: functions of their input, without state; their results are inputs of the models.
* **Inspection, tools, the contamination check**: read-only reports and benchmarks of the pipeline.
* **The lock of a run directory**: `TrainingRun` is a directory under its lock. **The final export** of a run and the
  **publication of the tokenizer** are single steps at an end of a run.
* What each module leaves out of its own code is said in its section.
