---------------------------- MODULE TrainingRun ----------------------------
(***************************************************************************)
(* One training run directory over several attempts to train in it         *)
(* (training/run.py, training/execution/*.py, training/stopping.py).       *)
(*                                                                         *)
(* An attempt is a world of ranks that execute the same program and meet   *)
(* only in collectives.  Between two collectives a rank runs code of its   *)
(* own: it reads its own stop request, and the main rank writes files.     *)
(* The state of a rank is therefore the collective it is at (pc), whether  *)
(* it already entered it (entered) and with which contribution (flag), and *)
(* the locals that decide where it goes next.  A collective completes when *)
(* every rank entered it; what a rank does after it is computed from its   *)
(* own locals and the reduced result, so nothing in the model makes the    *)
(* ranks agree: that they do is a property.                                *)
(*                                                                         *)
(* The weights are the sequence of data-stream positions they were trained *)
(* on, the data stream is the position it has reached, and the state of a  *)
(* random generator is the number of draws taken from it.                  *)
(***************************************************************************)
EXTENDS Naturals, Sequences, FiniteSets

CONSTANTS
    Rank,            \* the ranks of the world
    Main,            \* the rank that owns the stream and writes the files
    TotalSteps,      \* StageManager.total_steps
    SaveInterval,    \* settings.save_step_interval, 0 disables
    SaveLastStep,    \* settings.save_last_step
    StageEnds,       \* completed steps that follow the last step of a stage
    EvalInterval,    \* settings.eval_step_interval
    SampleSteps,     \* completed steps at which samples are due
    BenchmarkSteps,  \* completed steps at which benchmarks are due
    Supervised,      \* how an attempt may be launched: TRUE by torchrun, under
                     \* which a fatal error exits the worker, FALSE otherwise
    MaxLaunches      \* bound: attempts to train in the directory

ASSUME RankAssumption == Main \in Rank /\ IsFiniteSet(Rank)

ASSUME ScheduleAssumption ==
    /\ TotalSteps \in Nat \ {0}
    /\ SaveInterval \in Nat
    /\ EvalInterval \in Nat \ {0}
    /\ SaveLastStep \in BOOLEAN
    /\ Supervised \subseteq BOOLEAN
    /\ MaxLaunches \in Nat
    /\ StageEnds \subseteq Nat
    /\ SampleSteps \subseteq Nat
    /\ BenchmarkSteps \subseteq Nat

VARIABLES
    local,    \* rank -> its locals
    entered,  \* rank -> it is blocked in the collective local[r].pc
    flag,     \* rank -> what it contributed to that collective
    sig,      \* rank -> its process received a stop signal
    stream,   \* position of the data stream, owned by the main rank
    gathered, \* rank -> generator state the main rank gathered for a save
    work,     \* the main rank's part of the current phase: todo, ok, error
    ckpts,    \* the checkpoint files
    config,   \* the other files of the run directory
    attempt,  \* the current attempt: how it was started and what it did
    cut,      \* the last accepted explicit resume: when, and from which step
    skipped,  \* positions that resuming a failed checkpoint agreed to skip
    clock     \* file times: one tick per checkpoint written

vars == <<local, entered, flag, sig, stream, gathered, work, ckpts, config, attempt, cut, skipped, clock>>

Polls == {"before step", "after step", "after validation", "after checkpoint",
          "after samples", "after benchmarks", "before export"}

Inference == {"samples", "benchmarks"}

\* The collectives; samples and benchmarks poll between their jobs as well.
Collectives == Polls \union Inference \union
    {"select", "configure", "step", "evaluate", "gather", "publish"}

\* A process that left train() or was killed.
Ended == {"down", "closed", "failed", "dead"}

Alive(r) == local[r].pc \notin Ended

NoReport == [attempt |-> 0, step |-> 0, stopped |-> FALSE, origin |-> 0]

Idle == [pc |-> "down", step |-> 0, requested |-> FALSE, fresh |-> FALSE,
         saving |-> "no", trained |-> <<>>, rng |-> 0, from |-> 0]

Init ==
    /\ local = [r \in Rank |-> Idle]
    /\ entered = [r \in Rank |-> FALSE]
    /\ flag = [r \in Rank |-> FALSE]
    /\ sig = [r \in Rank |-> FALSE]
    /\ stream = 0
    /\ gathered = [r \in Rank |-> 0]
    /\ work = "todo"
    /\ ckpts = {}
    /\ config = [run |-> 0, model |-> 0, resumes |-> {}, report |-> NoReport]
    /\ attempt = [n |-> 0, mode |-> "fresh", path |-> 0, at |-> 0, origin |-> 0,
                  base |-> 0, durable |-> 0, late |-> 0]
    /\ cut = [at |-> 0, step |-> TotalSteps]
    /\ skipped = {}
    /\ clock = 0

-----------------------------------------------------------------------------
(* The control flow of the loop, as functions of one rank's locals.        *)

\* Mutant: the interval rule is forgotten.
CheckpointDueNoInterval(n) == (SaveLastStep /\ n >= TotalSteps) \/ n \in StageEnds

CheckpointDue(n) ==
    \/ SaveInterval > 0 /\ n % SaveInterval = 0
    \/ SaveLastStep /\ n >= TotalSteps
    \/ n \in StageEnds

EvaluationDue(n) == n % EvalInterval = 0 \/ n >= TotalSteps

Goto(l, place) == [l EXCEPT !.pc = place]

Save(l, why) == [l EXCEPT !.pc = "gather", !.saving = why]

\* A stopped run saves unless the last thing it did was to save.
SaveAndClose(l) ==
    IF l.requested /\ ~l.fresh THEN Save(l, "final") ELSE Goto(l, "close")

FinishLoop(l) ==
    IF l.requested THEN SaveAndClose(l) ELSE Goto(l, "before export")

LoopHead(l) ==
    IF l.step < TotalSteps THEN Goto(l, "before step") ELSE FinishLoop(l)

BenchmarksIfDue(l) ==
    IF l.step \in BenchmarkSteps
    THEN [l EXCEPT !.pc = "benchmarks", !.fresh = FALSE]
    ELSE LoopHead(l)

\* Mutant: samples leave the checkpoint marked as fresh.
RunScheduledInferenceStale(l) ==
    IF l.step \in SampleSteps THEN Goto(l, "samples") ELSE BenchmarksIfDue(l)

RunScheduledInference(l) ==
    IF l.step \in SampleSteps
    THEN [l EXCEPT !.pc = "samples", !.fresh = FALSE]
    ELSE BenchmarksIfDue(l)

SaveIfDue(l) ==
    IF CheckpointDue(l.step)
    THEN Save(l, "due")
    ELSE RunScheduledInference([l EXCEPT !.fresh = FALSE])

AfterStep(l) == IF l.requested THEN FinishLoop(l) ELSE SaveIfDue(l)

StartStep(l) == [l EXCEPT !.pc = "step", !.fresh = FALSE]

\* Where each poll leads once its result is in l.requested.
AfterPoll(place, l) ==
    CASE place = "before step" ->
            IF l.requested THEN FinishLoop(l) ELSE StartStep(l)
      [] place = "after step" ->
            IF ~l.requested /\ EvaluationDue(l.step) THEN Goto(l, "evaluate") ELSE AfterStep(l)
      [] place = "after validation" -> AfterStep(l)
      [] place = "after checkpoint" ->
            IF l.requested THEN FinishLoop(l) ELSE RunScheduledInference(l)
      [] place = "after samples" ->
            IF l.requested THEN FinishLoop(l) ELSE BenchmarksIfDue(l)
      [] place = "after benchmarks" ->
            IF l.requested THEN FinishLoop(l) ELSE LoopHead(l)
      [] place = "before export" -> SaveAndClose(l)

-----------------------------------------------------------------------------
(* Files of the run directory.                                             *)

\* Mutant: a -failed checkpoint is resumed like any other.
RegularAll(files) == files

Regular(files) == {c \in files : ~c.failed}

\* The newest regular checkpoint by file time (0: none); the step would only
\* break ties, and the clock of the model has none.
FindLatest(files) ==
    IF Regular(files) = {} THEN 0
    ELSE (CHOOSE c \in Regular(files) : \A d \in Regular(files) : d.mtime <= c.mtime).mtime

ResolveResume ==
    CASE attempt.mode = "fresh" -> 0
      [] attempt.mode = "explicit" -> attempt.path
      [] attempt.mode = "plain" -> FindLatest(ckpts)

FileOf(mtime) == CHOOSE c \in ckpts : c.mtime = mtime

\* Mutant: only checkpoints prove an established run.
EstablishedByCheckpoint == ckpts # {}

\* What check_fresh_run_directory takes for an established run.
Established ==
    \/ config.run # 0
    \/ config.model # 0
    \/ config.report # NoReport
    \/ config.resumes # {}
    \/ ckpts # {}

\* Mutant: the main rank's generator stands for every rank's.
SnapshotMainRng(l) ==
    [step |-> l.step, failed |-> l.saving = "failed", trained |-> l.trained,
     stream |-> stream, rng |-> [r \in Rank |-> gathered[Main]],
     mtime |-> clock + 1, origin |-> attempt.origin]

\* The checkpoint of the main rank's state and of every rank's generator.
Snapshot(l) ==
    [step |-> l.step, failed |-> l.saving = "failed", trained |-> l.trained,
     stream |-> stream, rng |-> gathered,
     mtime |-> clock + 1, origin |-> attempt.origin]

-----------------------------------------------------------------------------
(* Starting an attempt.                                                    *)

\* One process per rank is started, with resume: false, resume: true, or
\* resume: true and the path of a checkpoint of this directory.
Launch(mode, path) ==
    /\ attempt.n < MaxLaunches
    /\ \A r \in Rank : ~Alive(r)
    /\ local' = [r \in Rank |-> [Idle EXCEPT !.pc = "select"]]
    /\ entered' = [r \in Rank |-> FALSE]
    /\ flag' = [r \in Rank |-> FALSE]
    /\ sig' = [r \in Rank |-> FALSE]
    /\ stream' = 0
    /\ gathered' = [r \in Rank |-> 0]
    /\ work' = "todo"
    /\ attempt' = [n |-> attempt.n + 1, mode |-> mode, path |-> path, at |-> clock,
                   origin |-> 0, base |-> 0, durable |-> 0, late |-> 0]
    /\ UNCHANGED <<ckpts, config, cut, skipped, clock>>

Start ==
    \/ \E mode \in {"fresh", "plain"} : Launch(mode, 0)
    \/ \E c \in ckpts : Launch("explicit", c.mtime)

\* Every rank selects the checkpoint; the main rank refuses a fresh start in
\* an established directory, and main_rank_phase tells the others.
SelectResume(r) ==
    /\ local[r].pc = "select"
    /\ ~entered[r]
    /\ entered' = [entered EXCEPT ![r] = TRUE]
    /\ local' = [local EXCEPT ![r].from = ResolveResume]
    /\ flag' = [flag EXCEPT ![r] = r = Main /\ ResolveResume = 0 /\ Established]
    /\ UNCHANGED <<sig, stream, gathered, work, ckpts, config, attempt, cut, skipped, clock>>

-----------------------------------------------------------------------------
(* Entering a collective and leaving it.                                   *)

\* The main rank may enter the vote on its own work only when that ended.
Ready(r) ==
    r = Main /\ local[r].pc \in {"configure", "publish"} => work # "todo"

Contribution(r) ==
    CASE local[r].pc \in Polls \union Inference -> local[r].requested \/ sig[r]
      [] local[r].pc \in {"configure", "publish"} -> r = Main /\ work = "error"
      [] OTHER -> FALSE

Enter(r) ==
    /\ local[r].pc \in Collectives \ {"select"}
    /\ ~entered[r]
    /\ Ready(r)
    /\ entered' = [entered EXCEPT ![r] = TRUE]
    /\ flag' = [flag EXCEPT ![r] = Contribution(r)]
    /\ UNCHANGED <<local, sig, stream, gathered, work, ckpts, config, attempt, cut, skipped, clock>>

AllIn(place) == \A r \in Rank : entered[r] /\ local[r].pc = place

AnyFlag == \E r \in Rank : flag[r]

Leave ==
    /\ entered' = [r \in Rank |-> FALSE]
    /\ flag' = [r \in Rank |-> FALSE]
    /\ UNCHANGED sig

FailAll == local' = [r \in Rank |-> Goto(local[r], "failed")]

\* load_training_checkpoint: the model every rank loads, and its own generator.
Loaded(l, c) == [l EXCEPT !.step = c.step, !.trained = c.trained]

TakeUp(l, c, r) == Goto([Loaded(l, c) EXCEPT !.rng = c.rng[r]], "configure")

\* restore_checkpoint of rank r, or the state a fresh run is built with.
Restored(r) ==
    IF local[r].from = 0 THEN Goto(local[r], "configure")
    ELSE TakeUp(local[r], FileOf(local[r].from), r)

SelectDone ==
    /\ AllIn("select")
    /\ ~AnyFlag
    /\ Leave
    /\ local' = [r \in Rank |-> Restored(r)]
    /\ IF local[Main].from = 0
       THEN /\ attempt' = [attempt EXCEPT !.origin = attempt.n]
            /\ UNCHANGED <<stream, skipped>>
       ELSE LET c == FileOf(local[Main].from) IN
            /\ stream' = c.stream
            /\ skipped' = IF c.failed /\ attempt.mode = "explicit" THEN skipped \union {c.stream} ELSE skipped
            /\ attempt' = [attempt EXCEPT !.origin = c.origin, !.base = c.step,
                                          !.durable = c.step]
    /\ UNCHANGED <<gathered, work, ckpts, config, cut, clock>>

\* The main rank's refusal reaches every rank.
SelectRefused ==
    /\ AllIn("select")
    /\ AnyFlag
    /\ Leave
    /\ FailAll
    /\ UNCHANGED <<stream, gathered, work, ckpts, config, attempt, cut, skipped, clock>>

ConfigureDone ==
    /\ AllIn("configure")
    /\ Leave
    /\ IF AnyFlag THEN FailAll
       ELSE local' = [r \in Rank |-> LoopHead(local[r])]
    /\ work' = "todo"
    /\ UNCHANGED <<stream, gathered, ckpts, config, attempt, cut, skipped, clock>>

\* Mutant: each rank follows its own request.
PollDoneLocally(place) ==
    /\ AllIn(place)
    /\ Leave
    /\ local' = [r \in Rank |-> AfterPoll(place, [local[r] EXCEPT !.requested = flag[r]])]
    /\ UNCHANGED <<stream, gathered, work, ckpts, config, attempt, cut, skipped, clock>>

\* StopController.poll: every rank takes the reduced request.
PollDone(place) ==
    /\ AllIn(place)
    /\ Leave
    /\ local' = [r \in Rank |-> AfterPoll(place, [local[r] EXCEPT !.requested = AnyFlag])]
    /\ UNCHANGED <<stream, gathered, work, ckpts, config, attempt, cut, skipped, clock>>

\* A rank draws n times from its generator.
Drawn(l, n) == [l EXCEPT !.rng = @ + n]

\* optimizer.step(), which the first step of a run skips.
Learned(l) == IF l.step > 0 THEN [l EXCEPT !.trained = Append(@, stream + 1)] ELSE l

Advanced(l) == [l EXCEPT !.step = @ + 1]

Updated(l) == Goto(Advanced(Learned(Drawn(l, 1))), "after step")

\* The forward and backward passes, the reduced loss and the update.
StepDone ==
    /\ AllIn("step")
    /\ Leave
    /\ local' = [r \in Rank |-> Updated(local[r])]
    /\ stream' = stream + 1
    /\ attempt' = [attempt EXCEPT !.late = @ + IF \E r \in Rank : sig[r] THEN 1 ELSE 0]
    /\ UNCHANGED <<gathered, work, ckpts, config, cut, skipped, clock>>

\* A step whose reduced loss is not finite: supervised workers exit, a
\* library caller saves the state before it, unless no step completed.
NonFinite(l, supervised) ==
    IF supervised \/ l.step = 0
    THEN Goto(Drawn(l, 1), "failed")
    ELSE Save(Drawn(l, 1), "failed")

StepNotFinite ==
    /\ AllIn("step")
    /\ Leave
    /\ \E supervised \in Supervised :
         local' = [r \in Rank |-> NonFinite(local[r], supervised)]
    /\ stream' = stream + 1
    /\ UNCHANGED <<gathered, work, ckpts, config, attempt, cut, skipped, clock>>

\* Validation draws under fork_rng: the generators are as before.
EvaluateDone ==
    /\ AllIn("evaluate")
    /\ Leave
    /\ local' = [r \in Rank |-> Goto(local[r], "after validation")]
    /\ UNCHANGED <<stream, gathered, work, ckpts, config, attempt, cut, skipped, clock>>

PollAfter(place) == IF place = "samples" THEN "after samples" ELSE "after benchmarks"

\* Inference jobs differ between ranks and may draw from their generators.
InferenceDone(place) ==
    /\ AllIn(place)
    /\ Leave
    /\ \E drawn \in [Rank -> {0, 1}] :
         local' = [r \in Rank |->
            Goto(Drawn([local[r] EXCEPT !.requested = AnyFlag], drawn[r]), PollAfter(place))]
    /\ UNCHANGED <<stream, gathered, work, ckpts, config, attempt, cut, skipped, clock>>

\* A job failed: the error exchange raises it on every rank.
InferenceFails(place) ==
    /\ AllIn(place)
    /\ Leave
    /\ FailAll
    /\ UNCHANGED <<stream, gathered, work, ckpts, config, attempt, cut, skipped, clock>>

GatherDone ==
    /\ AllIn("gather")
    /\ Leave
    /\ local' = [r \in Rank |-> Goto(local[r], "publish")]
    /\ gathered' = [r \in Rank |-> local[r].rng]
    /\ work' = "todo"
    /\ UNCHANGED <<stream, ckpts, config, attempt, cut, skipped, clock>>

\* Where save_run_checkpoint returns to, by the reason it was called for.
AfterPublish(l) ==
    CASE l.saving = "due"    -> [l EXCEPT !.pc = "after checkpoint", !.saving = "no", !.fresh = TRUE]
      [] l.saving = "final"  -> [l EXCEPT !.pc = "close", !.saving = "no"]
      [] l.saving = "failed" -> [l EXCEPT !.pc = "failed", !.saving = "no"]
      [] OTHER -> l

\* Mutant: only the main rank learns that publishing failed.
PublishDoneUnshared ==
    /\ AllIn("publish")
    /\ Leave
    /\ local' = [r \in Rank |-> IF flag[r] THEN Goto(local[r], "failed") ELSE AfterPublish(local[r])]
    /\ work' = "todo"
    /\ UNCHANGED <<stream, gathered, ckpts, config, attempt, cut, skipped, clock>>

PublishDone ==
    /\ AllIn("publish")
    /\ Leave
    /\ IF AnyFlag THEN FailAll
       ELSE local' = [r \in Rank |-> AfterPublish(local[r])]
    /\ work' = "todo"
    /\ UNCHANGED <<stream, gathered, ckpts, config, attempt, cut, skipped, clock>>

-----------------------------------------------------------------------------
(* The main rank's work before it votes.                                   *)

Publishing(place) ==
    /\ local[Main].pc = place
    /\ ~entered[Main]
    /\ work = "todo"
    /\ UNCHANGED <<local, entered, flag, sig, stream, gathered>>

\* Original evidence first, each file only if absent.
PublishRunConfig ==
    /\ Publishing("configure")
    /\ config.run = 0
    /\ config' = [config EXCEPT !.run = attempt.origin]
    /\ UNCHANGED <<work, ckpts, attempt, cut, skipped, clock>>

PublishModelConfig ==
    /\ Publishing("configure")
    /\ config.run # 0 /\ config.model = 0
    /\ config' = [config EXCEPT !.model = attempt.origin]
    /\ UNCHANGED <<work, ckpts, attempt, cut, skipped, clock>>

\* The record of an accepted resume comes last; a fresh run writes none.
FinishConfiguration ==
    /\ Publishing("configure")
    /\ config.run # 0 /\ config.model # 0
    /\ work' = "ok"
    /\ config' = IF local[Main].from = 0 THEN config
                 ELSE [config EXCEPT !.resumes = @ \union {attempt.n}]
    /\ cut' = IF attempt.mode = "explicit" THEN [at |-> clock, step |-> local[Main].step]
              ELSE cut
    /\ UNCHANGED <<ckpts, attempt, skipped, clock>>

\* write_atomically: the file of the same name is replaced in one step.
WriteCheckpoint(outcome) ==
    /\ Publishing("publish")
    /\ LET c == Snapshot(local[Main]) IN
       /\ ckpts' = {d \in ckpts : d.step # c.step \/ d.failed # c.failed} \union {c}
       /\ attempt' = IF c.failed THEN attempt ELSE [attempt EXCEPT !.durable = c.step]
    /\ clock' = clock + 1
    /\ work' = outcome
    /\ UNCHANGED <<config, cut, skipped>>

\* The file is published; what is logged after it may still fail.
PublishCheckpoint == \E outcome \in {"ok", "error"} : WriteCheckpoint(outcome)

\* A full disk, say: nothing is replaced and the vote reports it.
MainWorkFails ==
    /\ \E place \in {"configure", "publish"} : Publishing(place)
    /\ work' = "error"
    /\ UNCHANGED <<ckpts, config, attempt, cut, skipped, clock>>

\* logger.close: the main rank writes the report of a run that ended well.
Close(r) ==
    /\ local[r].pc = "close"
    /\ local' = [local EXCEPT ![r].pc = "closed"]
    /\ config' = IF r = Main
                 THEN [config EXCEPT !.report =
                         [attempt |-> attempt.n, step |-> local[r].step,
                          stopped |-> local[r].requested /\ local[r].step < TotalSteps,
                          origin |-> attempt.origin]]
                 ELSE config
    /\ UNCHANGED <<entered, flag, sig, stream, gathered, work, ckpts, attempt, cut, skipped, clock>>

-----------------------------------------------------------------------------
(* The environment.                                                        *)

\* The first Ctrl-C or SIGTERM reaches the ranks one by one, or only some.
Signal(r) ==
    /\ Alive(r)
    /\ ~sig[r]
    /\ sig' = [sig EXCEPT ![r] = TRUE]
    /\ UNCHANGED <<local, entered, flag, stream, gathered, work, ckpts, config, attempt, cut, skipped, clock>>

\* A second signal, an out-of-memory kill, a lost node.
Die(r) ==
    /\ Alive(r)
    /\ local' = [local EXCEPT ![r] = [Idle EXCEPT !.pc = "dead"]]
    /\ entered' = [entered EXCEPT ![r] = FALSE]
    /\ UNCHANGED <<flag, sig, stream, gathered, work, ckpts, config, attempt, cut, skipped, clock>>

\* The launcher ends the other workers once one of them is gone.
LauncherKill ==
    /\ \E r \in Rank : local[r].pc = "dead"
    /\ \E r \in Rank : Alive(r)
    /\ local' = [r \in Rank |-> IF Alive(r) THEN [Idle EXCEPT !.pc = "dead"] ELSE local[r]]
    /\ entered' = [r \in Rank |-> FALSE]
    /\ UNCHANGED <<flag, sig, stream, gathered, work, ckpts, config, attempt, cut, skipped, clock>>

Done ==
    /\ attempt.n = MaxLaunches
    /\ \A r \in Rank : ~Alive(r)
    /\ UNCHANGED vars

RankStep(r) == SelectResume(r) \/ Enter(r) \/ Close(r)

CollectiveDone ==
    \/ SelectDone
    \/ SelectRefused
    \/ ConfigureDone
    \/ \E place \in Polls : PollDone(place)
    \/ StepDone
    \/ StepNotFinite
    \/ EvaluateDone
    \/ \E place \in Inference : InferenceDone(place) \/ InferenceFails(place)
    \/ GatherDone
    \/ PublishDone

MainWork ==
    \/ PublishRunConfig
    \/ PublishModelConfig
    \/ FinishConfiguration
    \/ PublishCheckpoint
    \/ MainWorkFails

Next ==
    \/ Start
    \/ \E r \in Rank : RankStep(r) \/ Signal(r) \/ Die(r)
    \/ CollectiveDone
    \/ MainWork
    \/ LauncherKill
    \/ Done

Spec == Init /\ [][Next]_vars

\* A running process proceeds, a collective every rank entered completes, and
\* the launcher notices a dead worker; nobody has to start an attempt.
Fairness ==
    /\ \A r \in Rank : WF_vars(RankStep(r))
    /\ WF_vars(CollectiveDone)
    /\ WF_vars(MainWork)
    /\ WF_vars(LauncherKill)

FairSpec == Spec /\ Fairness

-----------------------------------------------------------------------------
(* Properties.                                                             *)

Places == Collectives \union Ended \union {"close"}

LocalType ==
    [pc : Places, step : 0..TotalSteps, requested : BOOLEAN, fresh : BOOLEAN,
     saving : {"no", "due", "final", "failed"}, trained : Seq(Nat), rng : Nat, from : Nat]

CheckpointType ==
    [step : 0..TotalSteps, failed : BOOLEAN, trained : Seq(Nat), stream : Nat,
     rng : [Rank -> Nat], mtime : Nat, origin : Nat]

ConfigType ==
    [run : Nat, model : Nat, resumes : SUBSET Nat,
     report : [attempt : Nat, step : Nat, stopped : BOOLEAN, origin : Nat]]

AttemptType ==
    [n : Nat, mode : {"fresh", "plain", "explicit"}, path : Nat, at : Nat,
     origin : Nat, base : Nat, durable : Nat, late : Nat]

\* Every variable stays in its type.
TypeOK ==
    /\ local \in [Rank -> LocalType]
    /\ entered \in [Rank -> BOOLEAN]
    /\ flag \in [Rank -> BOOLEAN]
    /\ sig \in [Rank -> BOOLEAN]
    /\ stream \in Nat
    /\ gathered \in [Rank -> Nat]
    /\ work \in {"todo", "ok", "error"}
    /\ ckpts \subseteq CheckpointType
    /\ config \in ConfigType
    /\ attempt \in AttemptType
    /\ cut \in [at : Nat, step : Nat]
    /\ skipped \subseteq Nat
    /\ clock \in Nat

\* No rank waits in a collective while another rank is on its way to a
\* different one, or has left train() by returning or raising (a killed rank
\* is the launcher's business): stop requests that reach the ranks at
\* different moments, saves, failures and refusals never split the world.
CollectivesMatch ==
    \A r, s \in Rank :
        entered[r] => local[s].pc = "dead" \/ local[s].pc = local[r].pc

\* What the weights were trained on: nothing twice, in stream order, every
\* position up to the stream's except the first step's, which updates
\* nothing, and the positions that were given up explicitly.
TrainedOn(trained, step, read, givenUp) ==
    /\ Len(trained) = IF step = 0 THEN 0 ELSE step - 1
    /\ \A i, j \in 1..Len(trained) : i < j => trained[i] < trained[j]
    /\ 1..read \ {trained[i] : i \in 1..Len(trained)} \subseteq {1} \union givenUp

\* Through crashes, restarts and failed steps, the state of every rank and of
\* every checkpoint is that of one pass over the stream.  Only a user who
\* resumes a -failed checkpoint gives up the documents of its failed step.
OnePassOverData ==
    /\ \A r \in Rank : local[r].pc \in Collectives \ {"select"} =>
         TrainedOn(local[r].trained, local[r].step, stream,
                   skipped \union IF local[r].saving = "failed" THEN {stream} ELSE {})
    /\ \A c \in ckpts :
         TrainedOn(c.trained, c.step, c.stream,
                   skipped \union IF c.failed THEN {c.stream} ELSE {})

\* A run that a stop request ended has on disk, as the checkpoint the next
\* plain resume takes, exactly the state its ranks ended in: the weights, the
\* data stream and the generator of every rank.
StoppedStateSaved ==
    local[Main].pc = "closed" /\ local[Main].requested =>
        /\ FindLatest(ckpts) # 0
        /\ LET c == FileOf(FindLatest(ckpts)) IN
           /\ c.step = local[Main].step
           /\ c.trained = local[Main].trained
           /\ c.stream = stream
           /\ \A r \in Rank : local[r].pc # "dead" => c.rng[r] = local[r].rng

\* A request that reached any rank ends the training of all of them: at most
\* the step under way is still finished.
StopsWithinOneStep == attempt.late <= 1

\* A crash costs at most SaveInterval steps: the attempt is never further
\* ahead of what it restored or saved, and what it saved is what the next
\* plain resume takes.
LostWorkBounded ==
    SaveInterval > 0 /\ local[Main].pc \in Collectives \ {"select"} =>
        /\ local[Main].step <= attempt.durable + SaveInterval
        /\ attempt.durable > attempt.base =>
               FindLatest(ckpts) # 0 /\ FileOf(FindLatest(ckpts)).step = attempt.durable

\* One directory holds one run: the configuration files, the report and all
\* checkpoints stem from the same fresh start, whatever crashed in between.
OneRunPerDirectory ==
    /\ \A c \in ckpts : c.origin = config.run
    /\ ckpts # {} => config.run # 0 /\ config.model = config.run
    /\ config.report # NoReport => config.report.origin = config.run

\* The report tells the truth: a run it calls stopped can be resumed from the
\* step it names, any other made all its steps.
ReportHonest ==
    config.report # NoReport =>
        IF config.report.stopped
        THEN \E c \in Regular(ckpts) : c.step = config.report.step
        ELSE config.report.step = TotalSteps

\* Checkpoints beyond the step from which the last accepted explicit resume
\* continued, written before it.
Abandoned(c) == c.mtime <= cut.at /\ c.step > cut.step

ResumesAbandoned ==
    /\ attempt.mode = "plain"
    /\ local[Main].from # 0
    /\ \E c \in ckpts : c.mtime = local[Main].from /\ Abandoned(c)

\* "after an explicit resume from an older checkpoint, a higher step of the
\* abandoned trajectory must not win the next plain resume": this much holds of
\* it. Once an attempt after the explicit resume saved a checkpoint of its own,
\* no plain resume takes one of the abandoned trajectory.
AbandonedOnlyUntilNextSave ==
    ResumesAbandoned =>
        \A c \in Regular(ckpts) : c.mtime <= cut.at \/ c.mtime > attempt.at

\* No attempt hangs: with a process that dies the launcher ends the rest, and
\* otherwise all ranks leave train().
AttemptEnds == (\E r \in Rank : Alive(r)) ~> (\A r \in Rank : ~Alive(r))

-----------------------------------------------------------------------------
(* The ranks together implement one process that saves and restores.       *)

\* The state the world is in, while all of it runs; the main rank still
\* publishes what it gathered when another rank dies during the save.
WorldState ==
    LET l == local[Main]
        whole == \A r \in Rank : local[r].pc # "dead"
    IN IF l.pc \in (Collectives \ {"select"}) \union {"close"} /\ (whole \/ l.pc = "publish")
       THEN [step |-> l.step, trained |-> l.trained, stream |-> stream, running |-> TRUE,
             rng |-> IF l.pc = "publish" THEN gathered ELSE [r \in Rank |-> local[r].rng]]
       ELSE [step |-> 0, trained |-> <<>>, stream |-> 0, rng |-> <<>>, running |-> FALSE]

SavedStates ==
    {[step |-> c.step, trained |-> c.trained, stream |-> c.stream,
      rng |-> c.rng, running |-> TRUE] : c \in ckpts}

Abstract == INSTANCE ResumableRun WITH live <- WorldState, saved <- SavedStates

\* Every step of the ranks, of the main rank's file work and of the
\* environment is a step of one process whose saves are whole and whose
\* restarts take up a saved state as it was, the generator of each rank
\* included.
ImplementsResumableRun == Abstract!AbsSpec
=============================================================================
