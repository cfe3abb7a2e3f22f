--------------------------- MODULE StageSchedule ---------------------------
(***************************************************************************)
(* The stages of a run as step numbers: where each stage begins and ends,  *)
(* the sampling weights and the learning rate of a step, and the steps     *)
(* after which a stage checkpoint, samples or benchmarks are due           *)
(* (training/stage_manager.py, training/lr_schedule.py,                    *)
(* training/triggers.py).                                                  *)
(*                                                                         *)
(* A stage is [tokens, transition, weights, lr]: transition is             *)
(* int(tokens * transition_pct), the tokens of the blend into the next     *)
(* stage; weights maps every train source to a share of a common scale;    *)
(* lr counts a smallest unit of the learning rate.  Fractions stay         *)
(* fractions: a progress is the pair done, length, and a learning rate the *)
(* pair num, den.  Stages are numbered from 1.                             *)
(***************************************************************************)
EXTENDS Integers, Sequences

CONSTANTS
    Stages,         \* the resolved stages, in order
    TokensPerStep,  \* settings.tokens_per_optimizer_step
    WarmupSteps,    \* settings.warmup_steps
    CooldownSteps,  \* settings.cooldown_steps
    MinLR           \* settings.min_lr

NumStages == Len(Stages)
NoStage == 0  \* Python's None

ASSUME PlanAssumption ==
    /\ NumStages \in Nat
    /\ \A i \in 1..NumStages :
        /\ Stages[i].tokens \in Nat
        /\ Stages[i].transition \in Nat
        /\ Stages[i].lr \in Nat
    /\ TokensPerStep \in Nat \ {0}
    /\ WarmupSteps \in Nat
    /\ CooldownSteps \in Nat
    /\ MinLR \in Nat

----------------------------------------------------------------------------
(* Boundaries *)

StageSteps(i) == Stages[i].tokens \div TokensPerStep

\* the blend out of a stage, in whole steps; the last stage has none
TransitionSteps(i) ==
    IF i < NumStages THEN Stages[i].transition \div TokensPerStep ELSE 0

BoundaryAt(i, current) ==
    [start |-> current, end |-> current + StageSteps(i),
     transitionStart |-> (current + StageSteps(i)) - TransitionSteps(i)]

EndOf(boundaries) ==
    IF boundaries = <<>> THEN 0 ELSE boundaries[Len(boundaries)].end

AddStage(boundaries, i) == Append(boundaries, BoundaryAt(i, EndOf(boundaries)))

\* the manager's boundaries, all stages taken in order
BoundariesOf[k \in 0..NumStages] ==
    IF k = 0 THEN <<>> ELSE AddStage(BoundariesOf[k - 1], k)
Boundaries == BoundariesOf[NumStages]

TotalStepsOf(b) == b[NumStages].end

\* _validate_lr_schedule, and the constructor's refusal of an empty list
ValidSchedule(b) ==
    /\ NumStages > 0
    /\ \A i \in 1..NumStages :
        /\ b[i].end - b[i].start >= 1
        /\ b[i].end - b[i].transitionStart < b[i].end - b[i].start
    /\ WarmupSteps > 0 => WarmupSteps < b[1].transitionStart - b[1].start
    /\ CooldownSteps > 0 =>
        CooldownSteps < b[NumStages].end - b[NumStages].start
    /\ NumStages = 1 => WarmupSteps + CooldownSteps <= TotalStepsOf(b)

----------------------------------------------------------------------------
(* Where a step stands *)

InStage(boundary, n) == boundary.start <= n /\ n < boundary.end
InTransition(boundary, n) == boundary.transitionStart <= n /\ n < boundary.end

\* the first stage that contains the step
IsStageOf(b, i, n) == InStage(b[i], n) /\ \A j \in 1..(i - 1) : ~InStage(b[j], n)

StageIndex(b, n) ==
    IF \E i \in 1..NumStages : InStage(b[i], n)
    THEN CHOOSE i \in 1..NumStages : IsStageOf(b, i, n)
    ELSE NumStages

TransitionTo(b, n) ==
    LET i == StageIndex(b, n)
    IN  IF InTransition(b[i], n) THEN i + 1 ELSE NoStage

TransitionProgress(b, n) ==
    LET boundary == b[StageIndex(b, n)]
    IN  IF InTransition(boundary, n)
        THEN [done |-> n - boundary.transitionStart,
              length |-> boundary.end - boundary.transitionStart]
        ELSE [done |-> 0, length |-> 1]

\* the validation data after step n, and the stage of its checkpoint
EnteringStageAt(b, n) ==
    IF TransitionTo(b, n) = NoStage THEN StageIndex(b, n) ELSE TransitionTo(b, n)

\* n is the last plain step before a transition: the code takes the first match
EndsStage(b, i, n) == n + 1 = b[i].transitionStart

StageEndingAt(b, n) ==
    IF \E i \in 1..(NumStages - 1) : EndsStage(b, i, n)
    THEN CHOOSE i \in 1..(NumStages - 1) :
            EndsStage(b, i, n) /\ \A j \in 1..(i - 1) : ~EndsStage(b, j, n)
    ELSE NoStage

----------------------------------------------------------------------------
(* What a step uses *)

\* (1 - p) * current + p * entering, in parts of p.length
DataWeights(b, n) ==
    LET now == Stages[StageIndex(b, n)].weights
        p == TransitionProgress(b, n)
    IN  IF TransitionTo(b, n) = NoStage THEN now
        ELSE [s \in DOMAIN now |->
                (p.length - p.done) * now[s]
                    + p.done * Stages[TransitionTo(b, n)].weights[s]]

Rate(num, den) == [num |-> num, den |-> den]
AtLeastMinLR(rate) == IF rate.num < MinLR * rate.den THEN Rate(MinLR, 1) ELSE rate

\* only the warmup is not held above min_lr
ScheduledLR(b, n) ==
    LET total == TotalStepsOf(b)
        base == Stages[StageIndex(b, n)].lr
        p == TransitionProgress(b, n)
    IN  IF n < WarmupSteps THEN Rate(Stages[1].lr * n, WarmupSteps)
        ELSE IF n > total THEN Rate(MinLR, 1)
        ELSE IF n + CooldownSteps > total
        THEN AtLeastMinLR(Rate(Stages[NumStages].lr * (total - n), CooldownSteps))
        ELSE IF TransitionTo(b, n) = NoStage THEN AtLeastMinLR(Rate(base, 1))
        ELSE AtLeastMinLR(Rate((p.length - p.done) * base
                                + p.done * Stages[TransitionTo(b, n)].lr, p.length))

----------------------------------------------------------------------------
(* Steps after which something is due, by completed steps *)

\* a checkpoint at the end of a stage: completed n steps, the last was n - 1
StageEndSteps(b) == {n \in 1..TotalStepsOf(b) : StageEndingAt(b, n - 1) # NoStage}

Clamp(n, low, high) == IF n < low THEN low ELSE IF n > high THEN high ELSE n

\* int(total * percentage / 100 + 0.5), at least 1 and at most the last step
ProgressSteps(percentages, total) ==
    {Clamp((2 * total * p + 100) \div 200, 1, total) : p \in percentages}

Due(interval, steps, n) == (interval > 0 /\ n % interval = 0) \/ n \in steps

TriggerSteps(interval, percentages, total) ==
    {n \in 1..total : Due(interval, ProgressSteps(percentages, total), n)}
=============================================================================
