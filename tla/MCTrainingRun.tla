--------------------------- MODULE MCTrainingRun ---------------------------
(* A small instance of TrainingRun for TLC. *)
EXTENDS TrainingRun, StageSchedule
CONSTANTS r0, r1

MCTwoRanks == {r0, r1}

\* the plan of the run: its length and its stage ends follow from the stages
MCStage(tokens, transition) ==
    [tokens |-> tokens, transition |-> transition, weights |-> <<1>>, lr |-> 1]
MCOneStage == <<MCStage(7, 0)>>                 \* three steps of 2 tokens
MCTotalSteps == TotalStepsOf(Boundaries)
MCStageEnds == StageEndSteps(Boundaries)
ASSUME ValidSchedule(Boundaries)

\* when samples and benchmarks run: by interval and by percentage
MCTriggers(interval, percentages) ==
    TriggerSteps(interval, percentages, TotalStepsOf(Boundaries))
MCAtStart == MCTriggers(0, {0})
MCAtHalf == MCTriggers(0, {50})
=============================================================================
