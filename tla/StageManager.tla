---------------------------- MODULE StageManager ----------------------------
(***************************************************************************)
(* The life of a StageManager: its constructor walks the stages and        *)
(* validates the boundaries, then the training loop asks it after every    *)
(* step which stage that step ended (training/stage_manager.py,            *)
(* training/execution/checkpoints.py).                                     *)
(***************************************************************************)
EXTENDS StageSchedule

VARIABLES
    phase,       \* "boundaries", "running" or "refused" (ValueError)
    boundaries,  \* the boundaries of the stages walked so far
    step,        \* progress.step: completed optimizer steps
    ended        \* the stage-end checkpoints written: <<stage, completed steps>>

scheduleVars == <<phase, boundaries, step, ended>>

ScheduleInit ==
    /\ phase = "boundaries"
    /\ boundaries = <<>>
    /\ step = 0
    /\ ended = {}

CalculateBoundary ==
    /\ phase = "boundaries"
    /\ Len(boundaries) < NumStages
    /\ boundaries' = AddStage(boundaries, Len(boundaries) + 1)
    /\ UNCHANGED <<phase, step, ended>>

Validate ==
    /\ phase = "boundaries"
    /\ Len(boundaries) = NumStages
    /\ phase' = IF ValidSchedule(boundaries) THEN "running" ELSE "refused"
    /\ UNCHANGED <<boundaries, step, ended>>

\* one optimizer step and the checkpoint that marks the end of a stage
TrainStep ==
    /\ phase = "running"
    /\ step < TotalStepsOf(boundaries)
    /\ step' = step + 1
    /\ ended' = IF StageEndingAt(boundaries, step) = NoStage THEN ended
                ELSE ended \cup {<<StageEndingAt(boundaries, step), step + 1>>}
    /\ UNCHANGED <<phase, boundaries>>

ScheduleNext == CalculateBoundary \/ Validate \/ TrainStep

ScheduleSpec == ScheduleInit /\ [][ScheduleNext]_scheduleVars

----------------------------------------------------------------------------
Boundary == [start : Nat, end : Nat, transitionStart : Int]

ScheduleTypeOK ==
    /\ phase \in {"boundaries", "running", "refused"}
    /\ boundaries \in Seq(Boundary)
    /\ Len(boundaries) <= NumStages
    /\ step \in Nat
    /\ ended \in SUBSET ((1..NumStages) \X Nat)

(* Every step of the run belongs to exactly one stage: no step is trained  *)
(* between two stages, and none in two (_calculate_stage_boundaries).      *)
EveryStepInOneStage ==
    phase = "running" =>
        \A n \in 0..(TotalStepsOf(boundaries) - 1) :
            \E i \in 1..NumStages :
                \A j \in 1..NumStages : InStage(boundaries[j], n) <=> j = i

(* Every stage but the last is ended by exactly one stage checkpoint, at   *)
(* the step before its blend begins: by the time the run is over none is   *)
(* missing, and no step ends two stages (stage_ending_at).                 *)
StageEndsOnce ==
    phase = "running" =>
        ended = {<<i, boundaries[i].transitionStart>> :
                    i \in {j \in 1..(NumStages - 1) :
                            boundaries[j].transitionStart <= step}}

(* The learning-rate ramps do not meet a blend or each other: a warming    *)
(* step lies in the plain part of the first stage, a cooling one in the    *)
(* last stage, and no step before the end of the run is both              *)
(* (_validate_lr_schedule, the branch order of _scheduled_lr).             *)
RampsApart ==
    phase = "running" =>
        \A n \in 0..(TotalStepsOf(boundaries) - 1) :
            /\ n < WarmupSteps =>
                InStage(boundaries[1], n) /\ ~InTransition(boundaries[1], n)
            /\ n + CooldownSteps > TotalStepsOf(boundaries) =>
                InStage(boundaries[NumStages], n) /\ n >= WarmupSteps

(* No ramp, blend or cooldown overshoots: the learning rate of every step  *)
(* is a proper fraction no higher than the highest rate the plan names     *)
(* (_scheduled_lr).                                                        *)
RateWithinPlan ==
    phase = "running" =>
        \A n \in 0..(TotalStepsOf(boundaries) - 1), top \in Nat :
            (MinLR <= top /\ \A i \in 1..NumStages : Stages[i].lr <= top) =>
                LET rate == ScheduledLR(boundaries, n)
                IN  /\ rate.num \in Nat
                    /\ rate.den \in Nat \ {0}
                    /\ rate.num <= top * rate.den

(* The stage a run is heading for, whose data it validates on and whose    *)
(* number its checkpoints carry, is always a stage of the plan and never   *)
(* goes back (entering_stage_at).                                          *)
HeadingOnward ==
    [][phase = "running" =>
        /\ EnteringStageAt(boundaries, step') \in 1..NumStages
        /\ EnteringStageAt(boundaries, step)
            <= EnteringStageAt(boundaries', step')]_scheduleVars
=============================================================================
