---------------------------- MODULE ResumableRun ----------------------------
(***************************************************************************)
(* What a training run directory promises, without ranks, collectives,     *)
(* signals or files: one process trains on a stream, can save the state it *)
(* is in, may disappear at any moment, and begins again either with the    *)
(* initial state, while nothing was saved, or with exactly a saved state.  *)
(***************************************************************************)
EXTENDS Naturals, Sequences

CONSTANTS Rank, TotalSteps

VARIABLES
    live,   \* the state in memory, or None
    saved   \* the states on disk

absVars == <<live, saved>>

None == [step |-> 0, trained |-> <<>>, stream |-> 0, rng |-> <<>>, running |-> FALSE]

Initial == [step |-> 0, trained |-> <<>>, stream |-> 0,
            rng |-> [r \in Rank |-> 0], running |-> TRUE]

AbsInit == live = None /\ saved = {}

Begin ==
    /\ live = None
    /\ live' \in (IF saved = {} THEN {Initial} ELSE saved)
    /\ UNCHANGED saved

\* One position of the stream is read and trained on; the first step's is
\* not, and a failed step's is not.
Train ==
    /\ live # None /\ live.step < TotalSteps
    /\ live' = [live EXCEPT !.step = @ + 1, !.stream = @ + 1,
                            !.rng = [r \in Rank |-> @[r] + 1],
                            !.trained = IF live.step > 0 THEN Append(@, live.stream + 1) ELSE @]
    /\ UNCHANGED saved

FailStep ==
    /\ live # None /\ live.step < TotalSteps
    /\ live' = [live EXCEPT !.stream = @ + 1, !.rng = [r \in Rank |-> @[r] + 1]]
    /\ UNCHANGED saved

\* Inference may draw from the generators and changes nothing else.
Draw ==
    /\ live # None
    /\ \E rng \in [Rank -> 0..1] :
         live' = [live EXCEPT !.rng = [r \in Rank |-> @[r] + rng[r]]]
    /\ UNCHANGED saved

\* The state in memory is added; it may replace one of the same step.
Keep ==
    /\ live # None
    /\ live \in saved'
    /\ \A s \in saved : s \in saved' \/ s.step = live.step
    /\ saved' \subseteq saved \union {live}
    /\ UNCHANGED live

Stop == live' = None /\ UNCHANGED saved

AbsNext == Begin \/ Train \/ FailStep \/ Draw \/ Keep \/ Stop

AbsSpec == AbsInit /\ [][AbsNext]_absVars
=============================================================================
