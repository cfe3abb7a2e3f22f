--------------------------- MODULE OptimizerStep ---------------------------
(* The optimizer steps of a run as its ranks compute them (training/step.py,*)
(* steps/operations.py, steps/state.py, RankBatches in steps/batches.py and *)
(* the collectives of backend/ddp.py): packs dealt by the main rank, token  *)
(* sums accumulated over the micro-batches of a rank, reduced over the      *)
(* ranks, divided once by the supervised tokens of the whole step, and the  *)
(* update every replica applies.                                            *)
(*                                                                          *)
(* Ranks run at their own pace and meet in the collectives: the reduction   *)
(* of the gradients that DDP joins to the last backward, then the summed    *)
(* loss, then the counted tokens. A reduction adds the ranks one by one.    *)
(*                                                                          *)
(* Abstractions. A pack is its number in the stream. A gradient is one      *)
(* whole number, what the model computes is uninterpreted, and sums are     *)
(* exact. A quotient is kept as numerator and denominator. Clipping belongs *)
(* to Update; learning rate and stage are functions of the step. A rank     *)
(* that raised leaves the others waiting in their next collective: how a    *)
(* run ends then is in TrainingRun.                                         *)
EXTENDS Integers, Sequences

CONSTANTS
    World,        \* the ranks are 1..World, 1 the main rank
    Micro,        \* micro_batches_per_rank
    PackLength,   \* tokens_per_micro_batch
    TotalSteps,
    Weights,
    Initial,      \* the weights DDP broadcasts at the start
    Gradient(_, _, _, _, _), \* of weights, pack, step, micro-batch, rank
    Loss(_, _, _, _, _),     \* the loss summed over the pack's targets
    Supervised(_),           \* the targets of a pack that count
    Update(_, _, _, _),      \* step, weights, numerator, denominator
    Finite(_, _)             \* of a numerator and a denominator

VARIABLES
    rank,       \* what each rank holds
    box,        \* rank -> the packs scattered to it and not yet taken
    scattered,  \* scatters the main rank has made
    reduction,  \* step -> quantity -> ranks added so far, and their sum
    trained,    \* history: step -> k -> what the packs ranks 1..k trained sum to
    model       \* history: step -> the weights its forwards use

vars == <<rank, box, scattered, reduction, trained, model>>

Ranks == 1..World
Steps == 0..(TotalSteps - 1)
Main == 1
Quantities == {"gradient", "loss", "count"}
Zeros == [q \in Quantities |-> 0]
Nothing == [upto |-> 0, sum |-> 0]

\* The tokens one rank has room for in a step, local_capacity.
Capacity == Micro * PackLength

\* What the forward and backward of one micro-batch give.
Outputs(w, pack, s, n, r) ==
    [gradient |-> Gradient(w, pack, s, n, r), loss |-> Loss(w, pack, s, n, r),
     count |-> Supervised(pack)]

Plus(a, b) == [q \in Quantities |-> a[q] + b[q]]

\* noted: packs whose statistics the rank recorded for the step's report.
AtStepStart(s, w) ==
    [step |-> s, micro |-> 0, noted |-> 0, acc |-> Zeros, got |-> Zeros, weights |-> w,
     phase |-> IF s < TotalSteps THEN "accumulate" ELSE "done"]

Init ==
    /\ rank = [r \in Ranks |-> AtStepStart(0, Initial)]
    /\ box = [r \in Ranks |-> <<>>]
    /\ scattered = 0
    /\ reduction = [s \in Steps |-> [q \in Quantities |-> Nothing]]
    /\ trained = [s \in Steps |-> [k \in 0..World |-> Zeros]]
    /\ model = [s \in 0..TotalSteps |-> Initial]

-----------------------------------------------------------------------------
(* Packs and micro-batches                                                  *)

\* The pack the n-th scatter gives rank r.
PackNumber(n, r) == n * World + r

\* RankBatches.__next__ on the main rank: a pack per rank, in rank order. It
\* keeps the statistics of all of them; the others receive none.
Scatter ==
    /\ rank[Main].phase = "accumulate" /\ box[Main] = <<>>
    /\ box' = [r \in Ranks |-> Append(box[r], PackNumber(scattered, r))]
    /\ scattered' = scattered + 1
    /\ rank' = [rank EXCEPT ![Main].noted = @ + World]
    /\ UNCHANGED <<reduction, trained, model>>

\* The last backward of a step ends in the reduction of the gradients; the
\* earlier ones run under no_sync.
AfterBackward(n) == IF n = Micro THEN "gradient" ELSE "accumulate"

Backward(r) ==
    /\ rank[r].phase = "accumulate" /\ box[r] # <<>>
    /\ LET me == rank[r]
           out == Outputs(me.weights, Head(box[r]), me.step, me.micro, r)
       IN /\ rank' = [rank EXCEPT ![r] =
                [me EXCEPT !.acc = Plus(me.acc, out), !.micro = me.micro + 1,
                           !.phase = AfterBackward(me.micro + 1)]]
          /\ trained' = [trained EXCEPT ![me.step] = [k \in 0..World |->
                IF k < r THEN trained[me.step][k] ELSE Plus(trained[me.step][k], out)]]
    /\ box' = [box EXCEPT ![r] = Tail(@)]
    /\ UNCHANGED <<scattered, reduction, model>>

-----------------------------------------------------------------------------
(* The collectives of a step                                                *)

After(q) == CASE q = "gradient" -> "loss" [] q = "loss" -> "count" [] q = "count" -> "check"

\* Every rank has to be there before the first contribution is added.
Reduce(s, q) ==
    /\ \A r \in Ranks : rank[r].step = s /\ rank[r].phase = q
    /\ LET k == reduction[s][q].upto + 1
       IN /\ k \in Ranks
          /\ reduction' = [reduction EXCEPT ![s][q] =
                [upto |-> k, sum |-> reduction[s][q].sum + rank[k].acc[q]]]
    /\ UNCHANGED <<rank, box, scattered, trained, model>>

Leave(r, q) ==
    /\ rank[r].phase = q /\ reduction[rank[r].step][q].upto = World
    /\ rank' = [rank EXCEPT ![r] = [rank[r] EXCEPT
            !.got[q] = reduction[rank[r].step][q].sum, !.phase = After(q)]]
    /\ UNCHANGED <<box, scattered, reduction, trained, model>>

-----------------------------------------------------------------------------
(* The update                                                               *)

\* The backward divided each loss by the capacity and DDP by the ranks; the
\* correction multiplies by both and divides by the tokens counted.
Numerator(sums) == sums.gradient * (World * Capacity)
Denominator(sums) == (Capacity * World) * sums.count

\* reduce_supervised_loss and normalize_and_clip_gradients refuse the rest.
Usable(sums) ==
    /\ sums.count # 0
    /\ Finite(sums.loss, sums.count)
    /\ Finite(Numerator(sums), Denominator(sums))

\* The first step of a run trains nothing.
Stepped(s, w, sums) ==
    IF s = 0 THEN w ELSE Update(s, w, Numerator(sums), Denominator(sums))

Apply(r) ==
    /\ rank[r].phase = "check" /\ Usable(rank[r].got)
    /\ LET s == rank[r].step
           w == Stepped(s, rank[r].weights, rank[r].got)
       IN /\ rank' = [rank EXCEPT ![r] = AtStepStart(s + 1, w)]
          /\ model' = [model EXCEPT ![s + 1] = w]
    /\ UNCHANGED <<box, scattered, reduction, trained>>

Refuse(r) ==
    /\ rank[r].phase = "check" /\ ~Usable(rank[r].got)
    /\ rank' = [rank EXCEPT ![r] = [rank[r] EXCEPT !.phase = "refused"]]
    /\ UNCHANGED <<box, scattered, reduction, trained, model>>

\* A forward, a backward or the stream raises, or the process dies.
Raise(r) ==
    /\ rank[r].phase \notin {"refused", "raised", "done"}
    /\ rank' = [rank EXCEPT ![r] = [rank[r] EXCEPT !.phase = "raised"]]
    /\ UNCHANGED <<box, scattered, reduction, trained, model>>

RankStep(r) ==
    Backward(r) \/ (\E q \in Quantities : Leave(r, q)) \/ Apply(r) \/ Refuse(r) \/ Raise(r)

Next ==
    \/ Scatter
    \/ \E s \in Steps, q \in Quantities : Reduce(s, q)
    \/ \E r \in Ranks : RankStep(r)

Spec == Init /\ [][Next]_vars

-----------------------------------------------------------------------------
(* Properties                                                               *)

\* The gradient a rank is about to apply is the sum over the targets of all
\* packs of the step divided by their number, whatever the number of ranks
\* and however the targets are spread over them (step.py's token mean).
GradientIsTokenMean ==
    \A r \in Ranks : rank[r].phase = "check" =>
        LET all == trained[rank[r].step][World]
        IN Numerator(rank[r].got) * all.count = all.gradient * Denominator(rank[r].got)

\* Two ranks about to run the same step hold the same weights.
ReplicasAgree ==
    \A a, b \in Ranks : rank[a].step = rank[b].step => rank[a].weights = rank[b].weights

\* A step one rank refuses is applied by no rank: the weights train() saves
\* after a non-finite step are those of the completed steps.
RefusedByAll ==
    \A a, b \in Ranks : rank[a].phase = "refused" => rank[b].step <= rank[a].step

\* The pack a rank trains next is decided by its step and micro-batch alone,
\* whatever the pace of the ranks: the order train_stream saves.
DealtInOrder ==
    \A r \in Ranks : rank[r].phase = "accumulate" /\ box[r] # <<>> =>
        Head(box[r]) = PackNumber(rank[r].step * Micro + rank[r].micro, r)

\* When a rank is about to apply a step, every rank has trained its share of
\* it, and the main rank's report counts the packs of all of them.
StepIsWhole ==
    \A a, b \in Ranks : rank[a].phase = "check" =>
        \/ rank[b].step > rank[a].step
        \/ /\ rank[b].step = rank[a].step /\ rank[b].micro = Micro
           /\ b = Main => rank[b].noted = Micro * World
=============================================================================
