------------------------------ MODULE Packing ------------------------------
(***************************************************************************)
(* How documents of several sources are mixed and packed, as functions of  *)
(* the state they work on (training/steps/batches.py, data/packing.py).    *)
(*                                                                         *)
(* A source is a range of rows; a row is known by the slots its document   *)
(* occupies in a pack, 0 for one the collate drops.  Weights are in units  *)
(* of 1/Scale, and targets in units of 1/Scale slots, so that all numbers  *)
(* are whole (the code computes them in floating point).                   *)
(***************************************************************************)
EXTENDS Integers, FiniteSets, SequencesExt

CONSTANTS
    Source,      \* the train sources; their order is that of their names
    Rows,        \* source -> the slots of each of its rows, 0: dropped
    Weight,      \* step -> source -> its share at that step, times Scale
    Scale,       \* what the shares of a step sum up to
    PackLength,  \* tokens_per_micro_batch
    PoolFactor,  \* POOL_TOKEN_FACTOR
    PacksPerStep, \* micro_batches_per_step, over all ranks
    TotalSteps   \* StageManager.total_steps

Total(f) == FoldFunction(LAMBDA a, b : a + b, 0, f)

ASSUME PackingAssumption ==
    /\ Source \subseteq Nat /\ IsFiniteSet(Source)
    /\ Rows \in [Source -> Seq(0..PackLength)]
    /\ \A s \in Source : Rows[s] # <<>>
    /\ {Scale, PackLength, PoolFactor, PacksPerStep, TotalSteps} \subseteq Nat \ {0}
    /\ Weight \in [0..(TotalSteps - 1) -> [Source -> 0..Scale]]
    /\ \A n \in 0..(TotalSteps - 1) : Total(Weight[n]) = Scale

Document == [source : Source, row : Nat \ {0}, waited : Nat]

\* A row as it enters the pool; waited: packs taken while it was there.
DocumentOf(s, i) == [source |-> s, row |-> i, waited |-> 0]

Slots(d) == Rows[d.source][d.row]

Tokens(pool) == FoldLeft(LAMBDA n, d : n + Slots(d), 0, pool)

NeedsRefill(pool) == Tokens(pool) < PoolFactor * PackLength

Waiting(d) == [d EXCEPT !.waited = @ + 1]

\* One document offered to a pack that is being filled.
Offer(fill, d) ==
    IF Slots(d) <= fill.room
    THEN [fill EXCEPT !.taken = Append(@, d), !.room = @ - Slots(d)]
    ELSE [fill EXCEPT !.kept = Append(@, Waiting(d))]

EmptyPack == [taken |-> <<>>, kept |-> <<>>, room |-> PackLength]

\* Mutant: the pack is filled from the back of the pool.
FillFromBack(pool) ==
    LET fill == FoldRight(LAMBDA d, f : Offer(f, d), pool, EmptyPack)
    IN [fill EXCEPT !.kept = Reverse(@)]

\* First fit from the front; what does not fit leads the next pack.
Fill(pool) == FoldLeft(Offer, EmptyPack, pool)

-----------------------------------------------------------------------------
(* The source of the next document.                                        *)

Active(step) == {s \in Source : Weight[step][s] > 0}

Deficit(loaded, target, s) == target[s] - Scale * loaded[s]

\* Mutant: the source with the fewest slots so far, whatever its share.
LeastLoaded(step, loaded, target) ==
    CHOOSE s \in Active(step) : \A t \in Active(step) :
        loaded[s] < loaded[t] \/ (loaded[s] = loaded[t] /\ s <= t)

\* The largest deficit; a tie goes to the smallest name.
PickSource(step, loaded, target) ==
    CHOOSE s \in Active(step) : \A t \in Active(step) :
        LET mine == Deficit(loaded, target, s)
            other == Deficit(loaded, target, t)
        IN mine > other \/ (mine = other /\ s <= t)

\* A document of n slots enters: its source has them, every share earns.
Loaded(loaded, s, n) == [loaded EXCEPT ![s] = @ + n]

Earned(target, step, n) == [s \in Source |-> target[s] + Weight[step][s] * n]
=============================================================================
