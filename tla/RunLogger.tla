------------------------------ MODULE RunLogger ------------------------------
(***************************************************************************)
(* The log of one training process: which seconds, tokens and waits a      *)
(* metric dict reports, the status and the events of the dashboard, the    *)
(* last record of a failing run and the report of a finished one           *)
(* (training/logger.py, training/ui/throughput.py), under the calls        *)
(* training/execution makes, in their order.                               *)
(*                                                                         *)
(* Time is a whole number of seconds that passes in the calls that take    *)
(* it.  The moving average of Throughput is left out: an estimator holds   *)
(* its newest sample.  So are the metrics a step computes.                 *)
(***************************************************************************)
EXTENDS StageSchedule

CONSTANTS
    StartStep,    \* progress.step when the logger opens
    LogInterval,  \* settings.log_step_interval
    IsMain,       \* backend.is_main
    Sources,      \* the data ids of the train sources
    WarnPercent,  \* 100 * DATA_WAIT_WARNING_FRACTION
    WarnQuiet,    \* DATA_WAIT_WARNING_INTERVAL_SECONDS
    Durations     \* bound: the seconds a step or a block may take

ASSUME LoggerAssumption ==
    /\ StartStep \in Nat /\ LogInterval \in Nat \ {0}
    /\ IsMain \in BOOLEAN
    /\ WarnPercent \in Nat /\ WarnQuiet \in Nat
    /\ Durations \subseteq Nat

VARIABLES
    phase,      \* where the process is between two calls of the logger
    clock, step,
    result,     \* the step that is not logged yet, and the last block after it
    block,      \* the open timed block: its text, its start, the status before
    status,     \* _status, which the dashboard shows
    interval,   \* the interval timer: its start, its first step, the side seconds
    counter,    \* _token_counter
    waits,      \* _data_wait
    warnedAt,   \* _data_wait_warned_at
    evaluation, \* _evaluation_seconds
    estimator,  \* the Throughput of the logger and of the dashboard
    metrics,    \* the last metric dict given to wandb
    events,     \* the transition events, oldest first
    records,    \* the kept records, each with whether the dashboard still had it
    board,      \* the dashboard is open (on _exit_stack)
    report,     \* _report
    spent       \* observer: what happened since the last dict and the last sample

vars == <<phase, clock, step, result, block, status, interval, counter, waits, warnedAt,
          evaluation, estimator, metrics, events, records, board, report, spent>>
timers == <<interval, counter, waits, warnedAt, evaluation, metrics, events>>

None == "none"
Never == -1  \* Python's None among numbers
Plan == Boundaries
TotalSteps == TotalStepsOf(Plan)

Positive(n) == IF n > 0 THEN n ELSE 0
Zero == [s \in Sources |-> 0]
Sum(f) == LET of[S \in SUBSET Sources] ==
                  IF S = {} THEN 0 ELSE LET s == CHOOSE x \in S : TRUE IN f[s] + of[S \ {s}]
          IN  of[Sources]
Plus(f, s, n) == [f EXCEPT ![s] = @ + n]

----------------------------------------------------------------------------
(* Throughput *)

NoSample == [seconds |-> 0, steps |-> 0]

Throughput ==
    [time |-> 0, step |-> StartStep, warming |-> TRUE, sample |-> NoSample,
     until |-> (IF StartStep > 1 THEN StartStep ELSE 1) + 1]

Record(e, n) ==
    IF n <= e.step THEN e
    ELSE [e EXCEPT !.time = clock, !.step = n, !.warming = e.warming /\ n < e.until,
                   !.sample = IF e.warming THEN @
                              ELSE [seconds |-> Positive(clock - e.time), steps |-> n - e.step]]

Discount(e, seconds) == [e EXCEPT !.time = @ + seconds]

\* a NullDashboard keeps no estimate
Both(eta, onBoard) == [eta |-> eta, board |-> IF IsMain THEN onBoard ELSE estimator.board]

----------------------------------------------------------------------------
(* Opening: RunLogger.open, then prepare_run_stream *)

NoResult == [source |-> None, wait |-> 0, validated |-> FALSE, block |-> 0]
NoBlock == [text |-> None, started |-> 0, previous |-> None]
NoMetrics == [step |-> Never, seconds |-> 0, steps |-> 0, tokens |-> Zero, wait |-> 0,
              evaluation |-> Never, remaining |-> FALSE]
NoReport == [steps |-> Never, stopped |-> FALSE]

Init ==
    /\ phase = "open" /\ clock = 0 /\ step = StartStep
    /\ result = NoResult /\ block = NoBlock /\ status = "starting"
    /\ interval = [started |-> 0, step |-> StartStep, side |-> 0]
    /\ counter = Zero /\ waits = Zero /\ warnedAt = Never /\ evaluation = Never
    /\ estimator = [eta |-> Throughput, board |-> Throughput]
    /\ metrics = NoMetrics /\ events = <<>> /\ records = <<>>
    /\ board = TRUE /\ report = NoReport
    /\ spent = [interval |-> 0, sample |-> 0, tokens |-> Zero, evaluation |-> Never]

\* the status of the dashboard
Status(text) == status' = text

\* startup work is part of the first interval
Prepare ==
    /\ phase = "open"
    /\ \E d \in Durations :
        /\ clock' = clock + d
        /\ spent' = [spent EXCEPT !.interval = @ + d, !.sample = @ + d]
    /\ Status("training") /\ phase' = "train"
    /\ UNCHANGED <<step, result, block, timers, estimator, records, board, report>>

----------------------------------------------------------------------------
(* One optimizer step *)

\* run_one_optimizer_step, the batch of one source after the seconds its
\* loader blocked, and progress.advance
TrainStep ==
    /\ phase = "train" /\ step < TotalSteps
    /\ \E d \in Durations, s \in Sources : \E w \in {0, d} :
        /\ clock' = clock + d
        /\ result' = [NoResult EXCEPT !.source = s, !.wait = w]
        /\ spent' = [spent EXCEPT !.interval = @ + d, !.sample = @ + d,
                                  !.tokens = Plus(@, s, TokensPerStep)]
    /\ step' = step + 1 /\ phase' = "stepped"
    /\ UNCHANGED <<block, status, timers, estimator, records, board, report>>

\* a loss that is not finite: the state before the step may still be saved
FailStep ==
    /\ phase = "train" /\ step < TotalSteps
    /\ phase' = "nonfinite" /\ result' = NoResult
    /\ UNCHANGED <<clock, step, block, status, timers, estimator, records, board, report, spent>>

\* Mutant: every step of a transition announces it.
NoteEveryStep(before, after) ==
    IF TransitionTo(Plan, after) # NoStage
    THEN events' = Append(events, [kind |-> "starting", stage |-> StageIndex(Plan, after)])
    ELSE UNCHANGED events

NoteTransition(before, after) ==
    IF TransitionTo(Plan, after) # NoStage /\ TransitionTo(Plan, before) = NoStage
    THEN events' = Append(events, [kind |-> "starting", stage |-> StageIndex(Plan, after)])
    ELSE IF TransitionTo(Plan, before) # NoStage /\ TransitionTo(Plan, after) = NoStage
    THEN events' = Append(events, [kind |-> "complete", stage |-> StageIndex(Plan, after)])
    ELSE UNCHANGED events

IsLogStep == step % LogInterval = 0 \/ step >= TotalSteps

TooLong(wait, training) == training > 0 /\ 100 * wait > WarnPercent * training
WarnsOf(wait, training) ==
    TooLong(wait, training) /\ (warnedAt = Never \/ clock - warnedAt >= WarnQuiet)

\* Mutant: the side seconds are not reset at a log step.
RestartedClock == [interval EXCEPT !.started = clock, !.step = step]

Restarted == [started |-> clock, step |-> step, side |-> 0]

\* _step_metrics and _data_wait_metrics
LogMetrics(tokens, waited, eta, valTime) ==
    LET training == Positive(clock - interval.started - interval.side)
        done == step - interval.step
        wait == Sum(waited)
    IN  /\ metrics' = [step |-> step, seconds |-> training, steps |-> IF done > 1 THEN done ELSE 1,
                       tokens |-> tokens, wait |-> wait, evaluation |-> valTime,
                       remaining |-> eta.sample # NoSample]
        /\ interval' = Restarted
        /\ counter' = Zero /\ waits' = Zero
        /\ IF WarnsOf(wait, training)
           THEN warnedAt' = clock
                /\ records' = Append(records, [text |-> "waiting", shown |-> board])
           ELSE UNCHANGED <<warnedAt, records>>

LogStep ==
    LET tokens == Plus(counter, result.source, TokensPerStep)
        waited == Plus(waits, result.source, result.wait)
        eta == Record(estimator.eta, step)
        valTime == IF ~result.validated THEN Never ELSE Positive(evaluation)
    IN  /\ phase = "stepped" /\ block = NoBlock
        /\ estimator' = Both(eta, Record(estimator.board, step))
        /\ NoteTransition(step - 1, step)
        /\ evaluation' = IF result.validated THEN Never ELSE evaluation
        /\ IF IsLogStep
           THEN LogMetrics(tokens, waited, eta, valTime)
           ELSE /\ counter' = tokens /\ waits' = waited
                /\ UNCHANGED <<metrics, interval, warnedAt, records>>
        /\ spent' = [spent EXCEPT !.sample = 0, !.evaluation = Never,
                                  !.interval = IF IsLogStep THEN 0 ELSE @,
                                  !.tokens = IF IsLogStep THEN Zero ELSE @]
        /\ phase' = "logged"
        /\ UNCHANGED <<clock, step, result, block, status, board, report>>

----------------------------------------------------------------------------
(* Blocks that are not training: _timed_status *)

Work == <<"saving checkpoint", "generating samples", "benchmarking">>

OpenBlock(text) ==
    /\ block = NoBlock
    /\ block' = [text |-> text, started |-> clock, previous |-> status]
    /\ Status(text)
    /\ UNCHANGED <<phase, clock, step, timers, estimator, records, board, report, spent>>

\* after the step, when no stop was requested
Evaluate ==
    /\ phase = "stepped" /\ ~result.validated
    /\ OpenBlock("evaluating")
    /\ result' = [result EXCEPT !.validated = TRUE]

\* checkpoint, samples and benchmarks in their order, each when due; a last
\* checkpoint on a stop, unless one was just saved, or before a failed step
WorkBlock ==
    \E k \in DOMAIN Work :
        /\ \/ phase = "logged" /\ k > result.block
           \/ phase \in {"finishing", "nonfinite"} /\ k = 1 /\ result.block # 1
        /\ OpenBlock(Work[k])
        /\ result' = [result EXCEPT !.block = k]

\* Mutant: the estimators are not told of side work.
ChargeInterval(seconds) ==
    interval' = [interval EXCEPT !.side = @ + seconds] /\ UNCHANGED estimator

\* seconds that are not training, off every estimate
Charge(seconds) ==
    /\ interval' = [interval EXCEPT !.side = @ + seconds]
    /\ estimator' = Both(Discount(estimator.eta, seconds), Discount(estimator.board, seconds))

\* the way out of the block, a failing one included
CloseBlock ==
    /\ block # NoBlock
    /\ \E d \in Durations, ok \in BOOLEAN :
        LET seconds == clock + d - block.started
        IN  /\ clock' = clock + d
            /\ Charge(seconds)
            /\ IF block.text = "evaluating"
               THEN evaluation' = seconds /\ spent' = [spent EXCEPT !.evaluation = d]
               ELSE UNCHANGED <<evaluation, spent>>
            /\ phase' = IF ok THEN phase ELSE "failing"
    /\ Status(block.previous) /\ block' = NoBlock
    /\ UNCHANGED <<step, result, counter, waits, warnedAt, metrics, events, records, board, report>>

----------------------------------------------------------------------------
(* The end of the loop: finish_training_loop *)

NextStep ==
    /\ phase = "logged" /\ block = NoBlock /\ step < TotalSteps
    /\ phase' = "train"
    /\ UNCHANGED <<clock, step, result, block, status, timers, estimator, records, board, report, spent>>

\* a stop was requested: the completed state is saved before the report
Stop ==
    /\ phase = "logged" /\ block = NoBlock
    /\ Status("stopping") /\ phase' = "finishing"
    /\ UNCHANGED <<clock, step, result, block, timers, estimator, records, board, report, spent>>

\* every step is done: the export, when wanted, may fail
Export ==
    /\ phase = "logged" /\ block = NoBlock /\ step = TotalSteps
    /\ \/ Status("exporting") /\ phase' \in {"finishing", "failing"}
       \/ UNCHANGED status /\ phase' = "finishing"
    /\ result' = [result EXCEPT !.block = 1]
    /\ UNCHANGED <<clock, step, block, timers, estimator, records, board, report, spent>>

Say(text) == records' = Append(records, [text |-> text, shown |-> board])

\* RunLogger.close up to the dashboard
Close ==
    /\ phase = "finishing" /\ block = NoBlock /\ result.block = 1
    /\ Say("finished") /\ Status("finished")
    /\ board' = FALSE /\ phase' = "closing"
    /\ UNCHANGED <<clock, step, result, block, timers, estimator, report, spent>>

\* the report, which may fail to be written
WriteReport ==
    /\ phase = "closing"
    /\ \/ /\ report' = [steps |-> step - StartStep, stopped |-> step < TotalSteps]
          /\ phase' = "closed"
       \/ IsMain /\ phase' = "failing" /\ UNCHANGED report
    /\ UNCHANGED <<clock, step, result, block, status, timers, estimator, records, board, spent>>

\* Mutant: the resources are released before the failure is said.
ExitReleasingFirst ==
    /\ phase \in {"failing", "nonfinite", "closed"} /\ block = NoBlock
    /\ IF phase # "closed" /\ report = NoReport
       THEN records' = Append(records, [text |-> "failed", shown |-> FALSE]) /\ Status("failed")
       ELSE UNCHANGED <<records, status>>
    /\ board' = FALSE /\ phase' = "left"
    /\ UNCHANGED <<clock, step, result, block, timers, estimator, report, spent>>

\* __exit__: every resource is released, whichever release raises
Exit ==
    /\ phase \in {"failing", "nonfinite", "closed"} /\ block = NoBlock
    /\ IF phase # "closed" /\ report = NoReport
       THEN Say("failed") /\ Status("failed")
       ELSE UNCHANGED <<records, status>>
    /\ board' = FALSE /\ phase' = "left"
    /\ UNCHANGED <<clock, step, result, block, timers, estimator, report, spent>>

Next ==
    \/ Prepare \/ TrainStep \/ FailStep \/ LogStep \/ Evaluate \/ WorkBlock \/ CloseBlock
    \/ NextStep \/ Stop \/ Export \/ Close \/ WriteReport \/ Exit

Spec == Init /\ [][Next]_vars

----------------------------------------------------------------------------
(* Properties *)

\* A metric dict reports the work of its interval and nothing else: the
\* seconds spent in the steps (and the startup) since the dict before, no
\* evaluation, checkpoint, sample or benchmark, whatever came in between and
\* after which step; every document token trained since then; and the duration
\* of the evaluation of its own step.
DictReportsItsInterval ==
    [][metrics' # metrics =>
        /\ metrics'.seconds = spent.interval
        /\ metrics'.tokens = spent.tokens
        /\ metrics'.steps = step - interval.step
        /\ metrics'.evaluation = spent.evaluation]_vars

\* The two estimators behind remaining_time and the dashboard's ETA take the
\* same samples, each the training seconds of the steps since the one before:
\* startup and side work never count.
SamplesAreTraining ==
    [][estimator'.eta.sample # estimator.eta.sample =>
        /\ estimator'.eta.sample = [seconds |-> spent.sample, steps |-> 1]
        /\ IsMain => estimator'.board = estimator'.eta]_vars

\* Starting and completing a transition alternate and name the stage the step
\* is in: a transition that was announced and not completed is the one the
\* next step is in, for every plan the schedule's validation accepts.
TransitionsAnnounced ==
    LET n == Len(events)
        first == IF TransitionTo(Plan, StartStep) # NoStage THEN "complete" ELSE "starting"
    IN  /\ \A i \in 1..n : (events[i].kind = first) <=> (i % 2 = 1)
        /\ \A i \in 1..(n - 1) :
            events[i + 1].stage = events[i].stage + (IF events[i].kind = "starting" THEN 1 ELSE 0)
        /\ phase = "logged" /\ n > 0 =>
            /\ events[n].stage = StageIndex(Plan, step)
            /\ (events[n].kind = "starting") <=> (TransitionTo(Plan, step) # NoStage)

\* A run that ends by raising without having reached close says so once, while
\* the dashboard (the terminal and train.log) still has the record, and writes
\* no report; a report is never written for a run that said it failed.  Either
\* way the dashboard is gone when the block is left.
FailureIsSaid ==
    LET said == {i \in DOMAIN records : records[i].text = "failed"}
        closed == \E i \in DOMAIN records : records[i].text = "finished"
    IN  phase = "left" =>
        /\ ~board
        /\ report = NoReport <=> said # {}
        /\ \A i \in said : closed \/ records[i].shown
=============================================================================
