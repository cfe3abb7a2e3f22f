----------------------- MODULE StepAndScheduleProofs -----------------------
(* For every number of ranks and micro-batches: the ranks train each step   *)
(* whole, apply its exact token mean, and stay replicas of one model.  For  *)
(* every plan of stages: each step has one stage, and a proper rate.        *)
EXTENDS OptimizerStep, StageManager, TLAPS

Sums == [Quantities -> Int]
Phases == {"accumulate", "gradient", "loss", "count", "check", "refused", "raised", "done"}

Assumptions ==
    /\ World \in Nat \ {0}
    /\ Micro \in Nat \ {0}
    /\ PackLength \in Nat
    /\ TotalSteps \in Nat
    /\ Initial \in Weights
    /\ \A w, pack, s, n, r : Gradient(w, pack, s, n, r) \in Int /\ Loss(w, pack, s, n, r) \in Int
    /\ \A pack : Supervised(pack) \in Int
    /\ \A s, w, n, d : Update(s, w, n, d) \in Weights

RankState == [step : 0..TotalSteps, micro : 0..Micro, noted : Nat, acc : Sums, got : Sums,
              weights : Weights, phase : Phases]

TypeOK ==
    /\ rank \in [Ranks -> RankState]
    /\ box \in [Ranks -> Seq(Int)]
    /\ scattered \in Nat
    /\ reduction \in [Steps -> [Quantities -> [upto : 0..World, sum : Int]]]
    /\ trained \in [Steps -> [0..World -> Sums]]
    /\ model \in [0..TotalSteps -> Weights]

-----------------------------------------------------------------------------
(* The inductive invariant                                                  *)

InStep == {"gradient", "loss", "count", "check", "refused"}

\* Quantities a rank in this phase has the sum of.
Has(at, q) ==
    \/ at \in {"check", "refused"}
    \/ at = "count" /\ q \in {"gradient", "loss"}
    \/ at = "loss" /\ q = "gradient"

Phased == \A r \in Ranks :
    /\ rank[r].phase # "done" => rank[r].step < TotalSteps
    /\ rank[r].phase = "accumulate" => rank[r].micro < Micro
    /\ rank[r].phase \in InStep => rank[r].micro = Micro

Finished(b, s) == rank[b].step > s \/ (rank[b].step = s /\ rank[b].micro = Micro)

\* A reduction has begun only when every rank has trained its share.
Joined == \A s \in Steps, q \in Quantities :
    reduction[s][q].upto > 0 => \A b \in Ranks : Finished(b, s)

Summed == \A s \in Steps, q \in Quantities :
    reduction[s][q].sum = trained[s][reduction[s][q].upto][q]

\* What a rank has accumulated is its share of what was trained.
Prefix == \A s \in Steps, q \in Quantities :
    /\ trained[s][0][q] = 0
    /\ \A k \in Ranks :
        /\ rank[k].step = s => trained[s][k][q] = trained[s][k - 1][q] + rank[k].acc[q]
        /\ rank[k].step < s => trained[s][k][q] = trained[s][k - 1][q]

Passed == \A r \in Ranks, q \in Quantities :
    /\ Has(rank[r].phase, q) =>
        /\ reduction[rank[r].step][q].upto = World
        /\ rank[r].got[q] = trained[rank[r].step][World][q]
    /\ \A s \in Steps : s < rank[r].step => reduction[s][q].upto = World

Modelled == \A r \in Ranks :
    /\ rank[r].weights = model[rank[r].step]
    /\ \A s \in Steps : s < rank[r].step =>
        /\ Usable(trained[s][World])
        /\ model[s + 1] = Stepped(s, model[s], trained[s][World])

Taken(r) == rank[r].step * Micro + rank[r].micro

Dealt == \A r \in Ranks :
    /\ Len(box[r]) = scattered - Taken(r)
    /\ \A i \in 1..Len(box[r]) : box[r][i] = PackNumber(Taken(r) + i - 1, r)

\* The main rank trains the pack it dealt itself before it deals again.
Noted ==
    /\ Len(box[Main]) > 0 => Len(box[Main]) = 1 /\ rank[Main].micro < Micro
    /\ rank[Main].noted = World * (rank[Main].micro + Len(box[Main]))

IInv ==
    /\ TypeOK /\ Phased /\ Joined /\ Summed /\ Prefix /\ Passed /\ Modelled /\ Dealt /\ Noted
-----------------------------------------------------------------------------
(* Facts about the operators                                                *)

LEMMA PlusAt ==
    ASSUME NEW a \in Sums, NEW b \in Sums
    PROVE  Plus(a, b) \in Sums /\ \A q \in Quantities : Plus(a, b)[q] = a[q] + b[q]
BY DEF Sums, Plus

LEMMA OutputsType ==
    ASSUME Assumptions, NEW w, NEW pack, NEW s, NEW n, NEW r
    PROVE  Outputs(w, pack, s, n, r) \in Sums
<1> DEFINE out == Outputs(w, pack, s, n, r)
<1>3. out = [q \in Quantities |-> out[q]] BY DEF Outputs, Quantities
<1>4. \A q \in Quantities : out[q] \in Int BY DEF Quantities, Assumptions, Outputs
<1>5. out \in Sums
  <2> HIDE DEF out
  <2> QED BY <1>3, <1>4 DEF Sums
<1> QED BY <1>5

LEMMA ZerosType == Zeros \in Sums /\ \A q \in Quantities : Zeros[q] = 0
BY DEF Zeros, Sums

LEMMA StartType ==
    ASSUME Assumptions, NEW s \in 0..TotalSteps, NEW w \in Weights
    PROVE  AtStepStart(s, w) \in RankState
<1> QED BY ZerosType DEF AtStepStart, RankState, Assumptions, Phases

LEMMA SteppedType ==
    ASSUME Assumptions, NEW s, NEW w \in Weights, NEW sums
    PROVE  Stepped(s, w, sums) \in Weights
BY DEF Stepped, Assumptions

\* Sums that agree on every quantity lead to the same update.
LEMMA SameUpdate ==
    ASSUME NEW a, NEW b, \A q \in Quantities : a[q] = b[q], NEW s, NEW w
    PROVE  /\ Usable(a) <=> Usable(b)
           /\ Stepped(s, w, a) = Stepped(s, w, b)
<1> QED BY DEF Usable, Stepped, Numerator, Denominator, Quantities

LEMMA Numbers ==
    ASSUME Assumptions
    PROVE  /\ 1 \in Ranks /\ Main \in Ranks /\ World \in Ranks /\ Ranks \subseteq Nat
           /\ \A k \in Ranks : k - 1 \in 0..World /\ k \in 0..World
           /\ 0 \in 0..World /\ World \in 0..World
BY DEF Assumptions, Ranks, Main

\* The next micro-batch of a step follows the last, and a step the one before.
LEMMA TakenNext ==
    ASSUME Assumptions, NEW s \in Nat, NEW n \in Nat
    PROVE  /\ s * Micro + n \in Nat
           /\ s * Micro + (n + 1) = (s * Micro + n) + 1
           /\ (s + 1) * Micro + 0 = s * Micro + Micro
<1> DEFINE product == s * Micro  next == (s + 1) * Micro
<1> HIDE DEF product, next
<1> QED BY DEF product, next, Assumptions

-----------------------------------------------------------------------------
(* What a step leaves alone, and what a rank is at afterwards               *)

LEMMA RankFields ==
    ASSUME Assumptions, TypeOK, NEW r \in Ranks
    PROVE  /\ rank[r] \in RankState
           /\ rank[r].step \in 0..TotalSteps /\ rank[r].step \in Nat
           /\ rank[r].micro \in 0..Micro /\ rank[r].micro \in Nat
           /\ rank[r].noted \in Nat
           /\ rank[r].acc \in Sums /\ rank[r].got \in Sums
           /\ \A q \in Quantities : rank[r].acc[q] \in Int /\ rank[r].got[q] \in Int
           /\ rank[r].weights \in Weights /\ rank[r].phase \in Phases
           /\ box[r] \in Seq(Int) /\ Len(box[r]) \in Nat
<1>1. rank[r] \in RankState BY DEF TypeOK
<1>5. box[r] \in Seq(Int) /\ Len(box[r]) \in Nat BY DEF TypeOK
<1> QED BY <1>1, <1>5 DEF Assumptions, Sums, RankState

LEMMA TableFields ==
    ASSUME Assumptions, TypeOK, NEW s \in Steps, NEW q \in Quantities
    PROVE  /\ reduction[s][q].upto \in 0..World /\ reduction[s][q].upto \in Nat
           /\ reduction[s][q].sum \in Int
           /\ \A k \in 0..World : trained[s][k] \in Sums /\ trained[s][k][q] \in Int
           /\ s \in Nat /\ s \in 0..TotalSteps /\ s + 1 \in 0..TotalSteps
<1>4. \A k \in 0..World : trained[s][k] \in Sums BY DEF TypeOK
<1>6. s \in Nat /\ s \in 0..TotalSteps /\ s + 1 \in 0..TotalSteps BY DEF Steps, Assumptions
<1> QED BY <1>4, <1>6 DEF Assumptions, TypeOK, Sums

\* A micro-batch: the rank's sums and the history of its step grow together.
LEMMA BackwardEffect ==
    ASSUME Assumptions, TypeOK, Phased, NEW r \in Ranks, Backward(r)
    PROVE  \E out \in Sums :
           /\ rank[r].step \in Steps /\ rank[r].micro < Micro /\ Len(box[r]) > 0
           /\ rank' \in [Ranks -> RankState]
           /\ \A x \in Ranks \ {r} : rank'[x] = rank[x] /\ box'[x] = box[x]
           /\ rank'[r].step = rank[r].step /\ rank'[r].micro = rank[r].micro + 1
           /\ rank'[r].noted = rank[r].noted /\ rank'[r].weights = rank[r].weights
           /\ rank'[r].got = rank[r].got
           /\ rank'[r].phase = AfterBackward(rank[r].micro + 1)
           /\ \A q \in Quantities : rank'[r].acc[q] = rank[r].acc[q] + out[q]
           /\ trained' \in [Steps -> [0..World -> Sums]]
           /\ \A s \in Steps \ {rank[r].step} : trained'[s] = trained[s]
           /\ \A k \in 0..World, q \in Quantities : trained'[rank[r].step][k][q] =
                IF k < r THEN trained[rank[r].step][k][q] ELSE trained[rank[r].step][k][q] + out[q]
           /\ box' \in [Ranks -> Seq(Int)] /\ Len(box'[r]) = Len(box[r]) - 1
           /\ \A i \in 1..Len(box'[r]) : box'[r][i] = box[r][i + 1]
<1> DEFINE me == rank[r]
           out == Outputs(me.weights, Head(box[r]), me.step, me.micro, r)
           new == [me EXCEPT !.acc = Plus(me.acc, out), !.micro = me.micro + 1,
                             !.phase = AfterBackward(me.micro + 1)]
           row == [k \in 0..World |-> IF k < r THEN trained[me.step][k]
                                     ELSE Plus(trained[me.step][k], out)]
<1>1. out \in Sums BY OutputsType
<1>2. /\ me.phase = "accumulate" /\ box[r] # <<>>
      /\ rank' = [rank EXCEPT ![r] = new]
      /\ trained' = [trained EXCEPT ![me.step] = row]
      /\ box' = [box EXCEPT ![r] = Tail(@)]
  BY DEF Backward
<1>3. me \in RankState /\ me.step \in Steps /\ me.micro < Micro /\ me.micro + 1 \in 0..Micro
  <2>2. me.step < TotalSteps /\ me.micro < Micro BY <1>2 DEF Phased
  <2> QED BY <2>2, RankFields DEF Steps, Assumptions
<1>4. Plus(me.acc, out) \in Sums /\ \A q \in Quantities : Plus(me.acc, out)[q] = me.acc[q] + out[q]
  BY <1>1, RankFields, PlusAt
<1>5. AfterBackward(me.micro + 1) \in Phases BY DEF AfterBackward, Phases
<1>6. /\ new.step = me.step /\ new.micro = me.micro + 1 /\ new.noted = me.noted
      /\ new.weights = me.weights /\ new.got = me.got
      /\ new.acc = Plus(me.acc, out) /\ new.phase = AfterBackward(me.micro + 1)
      /\ new \in RankState
  <2> HIDE DEF out, me
  <2> QED BY <1>3, <1>4, <1>5 DEF RankState
<1>7. \A k \in 0..World : trained[me.step][k] \in Sums BY <1>3 DEF TypeOK
<1>8. row \in [0..World -> Sums] /\ \A k \in 0..World, q \in Quantities :
        row[k][q] = IF k < r THEN trained[me.step][k][q] ELSE trained[me.step][k][q] + out[q]
  BY <1>1, <1>7, PlusAt
<1> HIDE DEF new, row, out
<1>9. /\ rank' \in [Ranks -> RankState] /\ rank'[r] = new
      /\ \A x \in Ranks \ {r} : rank'[x] = rank[x]
  BY <1>2, <1>6 DEF TypeOK
<1>10. /\ trained' \in [Steps -> [0..World -> Sums]] /\ trained'[me.step] = row
       /\ \A s \in Steps \ {me.step} : trained'[s] = trained[s]
  BY <1>2, <1>3, <1>8 DEF TypeOK
<1>12. /\ Tail(box[r]) \in Seq(Int) /\ Len(box[r]) > 0 /\ Len(Tail(box[r])) = Len(box[r]) - 1
       /\ \A i \in 1..Len(Tail(box[r])) : Tail(box[r])[i] = box[r][i + 1]
  BY <1>2 DEF TypeOK
<1>13. /\ box' \in [Ranks -> Seq(Int)] /\ box'[r] = Tail(box[r])
       /\ \A x \in Ranks \ {r} : box'[x] = box[x]
  BY <1>2, <1>12 DEF TypeOK
<1> QED BY <1>1, <1>3, <1>4, <1>6, <1>8, <1>9, <1>10, <1>12, <1>13, ZenonT(60)

\* A rank leaves a collective with its sum.
LEMMA LeaveEffect ==
    ASSUME Assumptions, TypeOK, NEW r \in Ranks, NEW q \in Quantities, Leave(r, q), Phased
    PROVE  /\ rank[r].step \in Steps /\ rank[r].phase = q
           /\ reduction[rank[r].step][q].upto = World
           /\ rank' \in [Ranks -> RankState]
           /\ \A x \in Ranks \ {r} : rank'[x] = rank[x]
           /\ rank'[r].step = rank[r].step /\ rank'[r].micro = rank[r].micro
           /\ rank'[r].noted = rank[r].noted /\ rank'[r].weights = rank[r].weights
           /\ rank'[r].acc = rank[r].acc /\ rank'[r].phase = After(q)
           /\ rank'[r].got[q] = reduction[rank[r].step][q].sum
           /\ \A p \in Quantities \ {q} : rank'[r].got[p] = rank[r].got[p]
<1> DEFINE me == rank[r]
           sum == reduction[me.step][q].sum
           got == [me.got EXCEPT ![q] = sum]
           new == [me EXCEPT !.got = got, !.phase = After(q)]
<1>1. /\ me.phase = q /\ reduction[me.step][q].upto = World
      /\ rank' = [rank EXCEPT ![r] = [rank[r] EXCEPT !.got[q] = sum, !.phase = After(q)]]
  BY DEF Leave
<1>2. me \in RankState /\ me.step \in Steps BY <1>1, RankFields DEF Quantities, Phased, Steps, Assumptions
<1>4. [rank[r] EXCEPT !.got[q] = sum, !.phase = After(q)] = new BY <1>2 DEF RankState
<1>6. got \in Sums /\ got[q] = sum /\ \A p \in Quantities \ {q} : got[p] = me.got[p]
  BY <1>2, TableFields, RankFields DEF Sums
<1>7. After(q) \in Phases BY DEF After, Phases, Quantities
<1>8. /\ new.step = me.step /\ new.micro = me.micro /\ new.noted = me.noted
      /\ new.weights = me.weights /\ new.acc = me.acc /\ new.got = got
      /\ new.phase = After(q) /\ new \in RankState
  <2> HIDE DEF got, me
  <2> QED BY <1>2, <1>6, <1>7 DEF RankState
<1> HIDE DEF new, got, sum
<1>9. /\ rank' \in [Ranks -> RankState] /\ rank'[r] = new
      /\ \A x \in Ranks \ {r} : rank'[x] = rank[x]
  BY <1>1, <1>4, <1>8 DEF TypeOK
<1> QED BY <1>1, <1>2, <1>6, <1>8, <1>9 DEF sum

\* The update: the rank starts the next step with the weights it computed.
LEMMA ApplyEffect ==
    ASSUME Assumptions, TypeOK, Phased, NEW r \in Ranks, Apply(r)
    PROVE  LET s == rank[r].step
               w == Stepped(s, rank[r].weights, rank[r].got)
           IN /\ s \in Steps /\ s \in Nat /\ s + 1 \in 0..TotalSteps /\ rank[r].micro = Micro
              /\ rank[r].phase = "check" /\ Usable(rank[r].got) /\ w \in Weights
              /\ rank' \in [Ranks -> RankState]
              /\ \A x \in Ranks \ {r} : rank'[x] = rank[x]
              /\ rank'[r] = AtStepStart(s + 1, w)
              /\ model' \in [0..TotalSteps -> Weights] /\ model'[s + 1] = w
              /\ \A m \in 0..TotalSteps : m # s + 1 => model'[m] = model[m]
<1> DEFINE s == rank[r].step
           w == Stepped(s, rank[r].weights, rank[r].got)
<1>1. /\ rank[r].phase = "check" /\ Usable(rank[r].got)
      /\ rank' = [rank EXCEPT ![r] = AtStepStart(s + 1, w)]
      /\ model' = [model EXCEPT ![s + 1] = w]
  BY DEF Apply
<1>2. s < TotalSteps /\ rank[r].micro = Micro BY <1>1 DEF InStep, Phased
<1>4. w \in Weights BY RankFields, SteppedType
<1> HIDE DEF s, w
<1> QED BY <1>1, <1>2, <1>4, StartType, RankFields DEF s, w, TypeOK, Steps, Assumptions

LEMMA StartFields ==
    ASSUME NEW s, NEW w
    PROVE  LET new == AtStepStart(s, w)
           IN /\ new.step = s /\ new.micro = 0 /\ new.noted = 0 /\ new.weights = w
              /\ new.acc = Zeros
              /\ new.phase \in {"accumulate", "done"}
              /\ new.phase = "accumulate" <=> s < TotalSteps
BY DEF AtStepStart

\* A refusal or a raise changes the rank's phase alone.
LEMMA PhaseEffect ==
    ASSUME Assumptions, TypeOK, NEW r \in Ranks, Refuse(r) \/ Raise(r)
    PROVE  /\ rank' \in [Ranks -> RankState]
           /\ \A x \in Ranks : /\ rank'[x].step = rank[x].step /\ rank'[x].micro = rank[x].micro
                               /\ rank'[x].acc = rank[x].acc /\ rank'[x].got = rank[x].got
                               /\ rank'[x].weights = rank[x].weights
                               /\ rank'[x].noted = rank[x].noted
           /\ \A x \in Ranks \ {r} : rank'[x].phase = rank[x].phase
           /\ \/ rank[r].phase = "check" /\ rank'[r].phase = "refused"
              \/ rank[r].phase # "done" /\ rank'[r].phase = "raised"
           /\ rank'[r].phase = "refused" => ~Usable(rank[r].got)
           /\ UNCHANGED <<box, scattered, reduction, trained, model>>
<1>1. PICK p \in Phases :
        /\ rank' = [rank EXCEPT ![r] = [rank[r] EXCEPT !.phase = p]]
        /\ \/ p = "refused" /\ rank[r].phase = "check" /\ ~Usable(rank[r].got)
           \/ p = "raised" /\ rank[r].phase # "done"
  <2>1. "refused" \in Phases /\ "raised" \in Phases BY DEF Phases
  <2>2. CASE Refuse(r) BY <2>1, <2>2 DEF Refuse
  <2>3. CASE Raise(r)
    <3>1. rank[r].phase # "done" BY <2>3 DEF Raise
    <3> QED BY <2>1, <2>3, <3>1 DEF Raise
  <2> QED BY <2>2, <2>3
<1> DEFINE new == [rank[r] EXCEPT !.phase = p]
<1>3. /\ new \in RankState /\ new.phase = p /\ new.step = rank[r].step
      /\ new.micro = rank[r].micro /\ new.acc = rank[r].acc /\ new.got = rank[r].got
      /\ new.weights = rank[r].weights /\ new.noted = rank[r].noted
  BY RankFields DEF RankState
<1>4. rank' = [rank EXCEPT ![r] = new] BY <1>1
<1> HIDE DEF new
<1>5. /\ rank' \in [Ranks -> RankState] /\ rank'[r] = new
      /\ \A x \in Ranks \ {r} : rank'[x] = rank[x]
  BY <1>3, <1>4 DEF TypeOK
<1>8. "refused" # "raised" OBVIOUS
<1> QED BY <1>1, <1>3, <1>5, <1>8 DEF Refuse, Raise

\* A scatter adds a pack to every box and notes its packs with the main rank.
LEMMA ScatterEffect ==
    ASSUME Assumptions, TypeOK, Scatter
    PROVE  /\ rank' \in [Ranks -> RankState]
           /\ \A x \in Ranks : /\ rank'[x].step = rank[x].step /\ rank'[x].micro = rank[x].micro
                               /\ rank'[x].acc = rank[x].acc /\ rank'[x].got = rank[x].got
                               /\ rank'[x].weights = rank[x].weights
                               /\ rank'[x].phase = rank[x].phase
           /\ rank'[Main].noted = rank[Main].noted + World
           /\ rank[Main].phase = "accumulate" /\ Len(box[Main]) = 0
           /\ box' \in [Ranks -> Seq(Int)]
           /\ \A x \in Ranks :
                /\ Len(box'[x]) = Len(box[x]) + 1
                /\ box'[x][Len(box[x]) + 1] = PackNumber(scattered, x)
                /\ \A i \in 1..Len(box[x]) : box'[x][i] = box[x][i]
           /\ scattered' = scattered + 1
           /\ UNCHANGED <<reduction, trained, model>>
<1> DEFINE new == [rank[Main] EXCEPT !.noted = rank[Main].noted + World]
<1>1. /\ rank[Main].phase = "accumulate" /\ box[Main] = <<>>
      /\ box' = [x \in Ranks |-> Append(box[x], PackNumber(scattered, x))]
      /\ scattered' = scattered + 1
      /\ rank' = [rank EXCEPT ![Main] = new]
      /\ UNCHANGED <<reduction, trained, model>>
  BY Numbers, RankFields DEF RankState, Scatter
<1>2. Main \in Ranks /\ rank[Main] \in RankState /\ rank[Main].noted + World \in Nat
  BY Numbers, RankFields DEF Assumptions
<1>3. /\ new \in RankState /\ new.phase = rank[Main].phase /\ new.step = rank[Main].step
      /\ new.micro = rank[Main].micro /\ new.acc = rank[Main].acc /\ new.got = rank[Main].got
      /\ new.weights = rank[Main].weights /\ new.noted = rank[Main].noted + World
  BY <1>2 DEF RankState
<1> HIDE DEF new
<1>5. ASSUME NEW x \in Ranks
      PROVE  /\ box'[x] \in Seq(Int) /\ Len(box'[x]) = Len(box[x]) + 1
             /\ box'[x][Len(box[x]) + 1] = PackNumber(scattered, x)
             /\ \A i \in 1..Len(box[x]) : box'[x][i] = box[x][i]
  BY <1>1 DEF PackNumber, TypeOK, Assumptions, Ranks
<1>7. Len(box[Main]) = 0 BY <1>1
<1> QED BY <1>1, <1>3, <1>5, <1>7, <1>2 DEF TypeOK

\* A contribution is the sum and the accumulated quantity of one more rank.
LEMMA ReduceEffect ==
    ASSUME Assumptions, TypeOK, NEW s \in Steps, NEW q \in Quantities, Reduce(s, q)
    PROVE  LET k == reduction[s][q].upto + 1
           IN /\ \A r \in Ranks : rank[r].step = s /\ rank[r].phase = q
              /\ k \in Ranks /\ k - 1 = reduction[s][q].upto
              /\ reduction' \in [Steps -> [Quantities -> [upto : 0..World, sum : Int]]]
              /\ reduction'[s][q].upto = k
              /\ reduction'[s][q].sum = reduction[s][q].sum + rank[k].acc[q]
              /\ \A t \in Steps, p \in Quantities :
                    ~(t = s /\ p = q) => reduction'[t][p] = reduction[t][p]
              /\ UNCHANGED <<rank, box, scattered, trained, model>>
<1> DEFINE k == reduction[s][q].upto + 1
           new == [upto |-> k, sum |-> reduction[s][q].sum + rank[k].acc[q]]
           row == [reduction[s] EXCEPT ![q] = new]
<1>1. /\ \A r \in Ranks : rank[r].step = s /\ rank[r].phase = q
      /\ k \in Ranks
      /\ reduction' = [reduction EXCEPT ![s][q] = new]
      /\ UNCHANGED <<rank, box, scattered, trained, model>>
  BY DEF Reduce
<1>2. k \in 0..World /\ k - 1 = reduction[s][q].upto BY <1>1, Numbers, TableFields
<1> HIDE DEF k
<1>4. new \in [upto : 0..World, sum : Int] /\ new.upto = k
      /\ new.sum = reduction[s][q].sum + rank[k].acc[q]
  BY <1>2, <1>1, RankFields, TableFields
<1> HIDE DEF new
<1> HIDE DEF row
<1> QED BY <1>1, <1>2, <1>4 DEF k, TypeOK

-----------------------------------------------------------------------------
(* Every step keeps the invariant                                           *)

LEMMA InitInv == Assumptions /\ Init => IInv
<1> SUFFICES ASSUME Assumptions, Init PROVE IInv OBVIOUS
<1>1. \A r \in Ranks : rank[r] = AtStepStart(0, Initial) /\ box[r] = <<>> BY DEF Init
<1>3. \A r \in Ranks : /\ rank[r].step = 0 /\ rank[r].micro = 0 /\ rank[r].noted = 0
                       /\ rank[r].weights = Initial /\ rank[r].acc = Zeros
                       /\ rank[r].phase \in {"accumulate", "done"}
                       /\ rank[r].phase = "accumulate" <=> 0 < TotalSteps
  BY <1>1, StartFields
<1>4. \A q \in Quantities : Zeros[q] = 0 BY ZerosType
<1>6. \A s \in Steps, k \in 0..World : trained[s][k] = Zeros BY DEF Init
<1>t. TypeOK BY Numbers, ZerosType, StartType DEF Init, Nothing, TypeOK, Assumptions
<1>b. Joined /\ Summed BY <1>4, <1>6, Numbers DEF Joined, Summed, Init, Nothing
<1>c. Prefix BY <1>3, <1>4, <1>6, Numbers DEF Prefix
<1>d. Passed /\ Modelled
  <2>3. \A r \in Ranks : rank[r].weights = model[rank[r].step] BY <1>3 DEF Init, Assumptions
  <2> QED BY <2>3, <1>3 DEF Passed, Modelled, Has, Steps, Assumptions
<1>e. Dealt /\ Noted BY <1>1, <1>3, Numbers DEF Taken, Assumptions, Init, Dealt, Noted
<1> QED BY <1>t, <1>b, <1>c, <1>d, <1>e, <1>3 DEF IInv, Phased, InStep, Assumptions

\* What depends on the ranks' sums and phases alone survives a step that
\* leaves them, whatever it does to the packs.
LEMMA SumsKept ==
    ASSUME Assumptions, IInv, rank' \in [Ranks -> RankState],
           \A x \in Ranks : /\ rank'[x].step = rank[x].step /\ rank'[x].micro = rank[x].micro
                            /\ rank'[x].acc = rank[x].acc /\ rank'[x].got = rank[x].got
                            /\ rank'[x].weights = rank[x].weights,
           \A x \in Ranks : \/ rank'[x].phase = rank[x].phase
                            \/ rank[x].phase = "check" /\ rank'[x].phase = "refused"
                            \/ rank[x].phase # "done" /\ rank'[x].phase = "raised",
           UNCHANGED <<reduction, trained, model>>
    PROVE  Phased' /\ Joined' /\ Summed' /\ Prefix' /\ Passed' /\ Modelled'
<1> USE DEF IInv
<1>4. Prefix' BY DEF Prefix
<1>5. Passed' BY DEF Has, Passed
<1>6. Modelled'
  <2>1. \A sums : Usable(sums)' <=> Usable(sums) BY DEF Usable, Numerator, Denominator
  <2> QED BY DEF Modelled, Usable, Stepped, Numerator, Denominator, Capacity
<1> QED BY <1>4, <1>5, <1>6 DEF Phased, InStep, Joined, Finished, Summed

LEMMA ScatterKeeps == Assumptions /\ IInv /\ Scatter => IInv'
<1> SUFFICES ASSUME Assumptions, IInv, Scatter PROVE IInv' OBVIOUS
<1>0. TypeOK /\ Phased /\ Dealt /\ Noted /\ Main \in Ranks BY Numbers DEF IInv
<1>3. Dealt'
  <2> SUFFICES ASSUME NEW r \in Ranks
               PROVE  /\ Len(box'[r]) = scattered' - Taken(r)'
                      /\ \A i \in 1..Len(box'[r]) : box'[r][i] = PackNumber(Taken(r)' + i - 1, r)
    BY DEF Dealt, PackNumber
  <2>2. Taken(r) \in Nat /\ Len(box[r]) \in Nat /\ scattered \in Nat
    BY <1>0, RankFields, TakenNext DEF Taken, TypeOK
  <2>4. /\ Len(box'[r]) = Len(box[r]) + 1 /\ scattered' = scattered + 1
        /\ box'[r][Len(box[r]) + 1] = PackNumber(scattered, r)
        /\ \A i \in 1..Len(box[r]) : box'[r][i] = box[r][i]
    BY <1>0, ScatterEffect
  <2> DEFINE taken == Taken(r)
  <2> HIDE DEF taken
  <2>5. Taken(r)' = taken /\ taken \in Nat BY <2>2, <1>0, ScatterEffect DEF taken, Taken
  <2>6. /\ Len(box[r]) = scattered - taken
        /\ \A i \in 1..Len(box[r]) : box[r][i] = PackNumber(taken + i - 1, r)
    BY <1>0 DEF taken, Dealt
  <2>7. ASSUME NEW i \in 1..Len(box'[r]) PROVE box'[r][i] = PackNumber(taken + i - 1, r)
    <3>1. CASE i \in 1..Len(box[r]) BY <3>1, <2>4, <2>6
    <3>2. CASE i = Len(box[r]) + 1 BY <3>2, <2>2, <2>5, <2>6, <2>4
    <3> QED BY <3>1, <3>2, <2>2, <2>4
  <2> QED BY <2>5, <2>7, <2>2, <2>4, <2>6
<1>4. Noted'
  <2>1. /\ rank[Main].phase = "accumulate" /\ Len(box[Main]) = 0 /\ Len(box'[Main]) = Len(box[Main]) + 1
        /\ rank'[Main].noted = rank[Main].noted + World /\ rank'[Main].micro = rank[Main].micro
    BY <1>0, ScatterEffect
  <2>2. rank[Main].micro < Micro /\ rank[Main].micro \in Nat BY <1>0, <2>1, RankFields DEF Phased
  <2> QED BY <2>1, <2>2, <1>0 DEF Noted, Main, Assumptions
<1> QED BY <1>3, <1>4, <1>0, ScatterEffect, SumsKept DEF IInv, TypeOK

LEMMA PhaseKeeps ==
    ASSUME Assumptions, IInv, NEW r \in Ranks, Refuse(r) \/ Raise(r)
    PROVE  IInv'
<1>0. TypeOK /\ Dealt /\ Noted /\ Main \in Ranks BY Numbers DEF IInv
<1>4. Dealt' /\ Noted' BY <1>0, PhaseEffect DEF Dealt, Noted, Taken
<1> QED BY <1>4, <1>0, PhaseEffect, SumsKept DEF IInv, TypeOK

LEMMA ReduceKeeps ==
    ASSUME Assumptions, IInv, NEW s \in Steps, NEW q \in Quantities, Reduce(s, q)
    PROVE  IInv'
<1> DEFINE k == reduction[s][q].upto + 1
<1>0. /\ TypeOK /\ Phased /\ Joined /\ Summed /\ Prefix /\ Passed /\ Modelled /\ Dealt /\ Noted BY DEF IInv
<1>1. /\ \A r \in Ranks : rank[r].step = s /\ rank[r].phase = q
      /\ k \in Ranks /\ k - 1 = reduction[s][q].upto
      /\ reduction' \in [Steps -> [Quantities -> [upto : 0..World, sum : Int]]]
      /\ reduction'[s][q].upto = k
      /\ reduction'[s][q].sum = reduction[s][q].sum + rank[k].acc[q]
      /\ \A t \in Steps, p \in Quantities :
            ~(t = s /\ p = q) => reduction'[t][p] = reduction[t][p]
      /\ rank' = rank /\ box' = box /\ scattered' = scattered
      /\ trained' = trained /\ model' = model
  BY <1>0, ReduceEffect
<1>2. TypeOK' BY <1>0, <1>1 DEF TypeOK
<1>3. Joined'
  <2>3. ASSUME NEW t \in Steps, NEW p \in Quantities, reduction'[t][p].upto > 0, NEW b \in Ranks
        PROVE  Finished(b, t)
    <3>1. CASE t = s /\ p = q BY <3>1, <1>0, <1>1 DEF InStep, Quantities, Finished, Phased
    <3>2. CASE ~(t = s /\ p = q) BY <1>0, <1>1, <2>3, <3>2 DEF Joined
    <3> QED BY <3>1, <3>2
  <2> QED BY <2>3, <1>1 DEF Joined, Finished
<1>4. Summed'
  <2>2. ASSUME NEW t \in Steps, NEW p \in Quantities
        PROVE  reduction'[t][p].sum = trained[t][reduction'[t][p].upto][p]
    <3>1. CASE t = s /\ p = q
      <4>1. trained[s][k][q] = trained[s][k - 1][q] + rank[k].acc[q] BY <1>0, <1>1 DEF Prefix
      <4>2. reduction[s][q].sum = trained[s][k - 1][q] BY <1>0, <1>1 DEF Summed
      <4> QED BY <3>1, <1>1, <4>1, <4>2
    <3>2. CASE ~(t = s /\ p = q) BY <1>0, <1>1, <3>2 DEF Summed
    <3> QED BY <3>1, <3>2
  <2> QED BY <2>2, <1>1 DEF Summed
<1>5. Passed'
  <2>1. \A t \in Steps, p \in Quantities :
            reduction[t][p].upto = World => reduction'[t][p].upto = World
    BY <1>1 DEF Ranks, Assumptions
  <2> QED BY <1>0, <1>1, <2>1 DEF Passed
<1>6. Phased' /\ Prefix' /\ Dealt' /\ Noted' BY <1>0, <1>1 DEF Phased, Prefix, Dealt, Noted, Taken
<1>7. Modelled' BY <1>0, <1>1 DEF Modelled, Usable, Stepped, Numerator, Denominator, Capacity
<1> QED BY <1>2, <1>3, <1>4, <1>5, <1>6, <1>7 DEF IInv

LEMMA LeaveKeeps ==
    ASSUME Assumptions, IInv, NEW r \in Ranks, NEW q \in Quantities, Leave(r, q)
    PROVE  IInv'
<1> DEFINE s == rank[r].step
<1>0. /\ TypeOK /\ Phased /\ Joined /\ Summed /\ Prefix /\ Passed /\ Modelled /\ Dealt /\ Noted
      /\ box' = box /\ scattered' = scattered /\ reduction' = reduction
      /\ trained' = trained /\ model' = model
  BY DEF IInv, Leave
<1>1. /\ s \in Steps /\ rank[r].phase = q /\ reduction[s][q].upto = World
      /\ rank' \in [Ranks -> RankState]
      /\ \A x \in Ranks \ {r} : rank'[x] = rank[x]
      /\ rank'[r].step = s /\ rank'[r].micro = rank[r].micro
      /\ rank'[r].noted = rank[r].noted /\ rank'[r].weights = rank[r].weights
      /\ rank'[r].acc = rank[r].acc /\ rank'[r].phase = After(q)
      /\ rank'[r].got[q] = reduction[s][q].sum
      /\ \A p \in Quantities \ {q} : rank'[r].got[p] = rank[r].got[p]
  BY <1>0, LeaveEffect
<1>2. \A x \in Ranks : /\ rank'[x].step = rank[x].step /\ rank'[x].micro = rank[x].micro
                       /\ rank'[x].acc = rank[x].acc /\ rank'[x].weights = rank[x].weights
                       /\ rank'[x].noted = rank[x].noted
  BY <1>1
<1>4. Phased' BY <1>1, <1>0 DEF InStep, Quantities, After, Phased
<1>5. Joined' /\ Summed' /\ Prefix' /\ Dealt' /\ Noted'
  <2>3. Dealt' BY <1>0, <1>2 DEF Dealt, Taken
  <2>4. Noted' BY <1>0, <1>2, Numbers DEF Noted, Main
  <2> QED BY <2>3, <2>4, <1>0, <1>2 DEF Joined, Finished, Summed, Prefix
<1>6. Passed'
  <2>1. ASSUME NEW p \in Quantities, Has(After(q), p)
        PROVE  reduction[s][p].upto = World /\ rank'[r].got[p] = trained[s][World][p]
    <3>1. CASE p = q BY <1>0, <1>1, <3>1 DEF Summed
    <3>2. CASE p # q BY <2>1, <3>2, <1>0, <1>1 DEF Has, After, Quantities, Passed
    <3> QED BY <3>1, <3>2
  <2>2. ASSUME NEW x \in Ranks, NEW p \in Quantities, Has(rank'[x].phase, p)
        PROVE  /\ reduction[rank[x].step][p].upto = World
               /\ rank'[x].got[p] = trained[rank[x].step][World][p]
    BY <2>1, <2>2, <1>1, <1>0 DEF Passed
  <2> QED BY <1>0, <1>2, <2>2 DEF Passed
<1>7. Modelled' BY <1>0, <1>2 DEF Modelled, Usable, Stepped, Numerator, Denominator, Capacity
<1> QED BY <1>4, <1>5, <1>6, <1>7, <1>0, <1>1 DEF IInv, TypeOK

LEMMA BackwardKeeps ==
    ASSUME Assumptions, IInv, NEW r \in Ranks, Backward(r)
    PROVE  IInv'
<1> DEFINE s == rank[r].step
           n == rank[r].micro
<1>0. /\ TypeOK /\ Phased /\ Joined /\ Summed /\ Prefix /\ Passed /\ Modelled /\ Dealt /\ Noted
      /\ scattered' = scattered /\ reduction' = reduction /\ model' = model
  BY DEF IInv, Backward
<1>1. PICK out \in Sums :
           /\ s \in Steps /\ n < Micro /\ Len(box[r]) > 0
           /\ rank' \in [Ranks -> RankState]
           /\ \A x \in Ranks \ {r} : rank'[x] = rank[x] /\ box'[x] = box[x]
           /\ rank'[r].step = s /\ rank'[r].micro = n + 1
           /\ rank'[r].noted = rank[r].noted /\ rank'[r].weights = rank[r].weights
           /\ rank'[r].got = rank[r].got
           /\ rank'[r].phase = AfterBackward(n + 1)
           /\ \A q \in Quantities : rank'[r].acc[q] = rank[r].acc[q] + out[q]
           /\ trained' \in [Steps -> [0..World -> Sums]]
           /\ \A t \in Steps \ {s} : trained'[t] = trained[t]
           /\ \A k \in 0..World, q \in Quantities : trained'[s][k][q] =
                IF k < r THEN trained[s][k][q] ELSE trained[s][k][q] + out[q]
           /\ box' \in [Ranks -> Seq(Int)] /\ Len(box'[r]) = Len(box[r]) - 1
           /\ \A i \in 1..Len(box'[r]) : box'[r][i] = box[r][i + 1]
  BY <1>0, BackwardEffect
<1>2. TypeOK' BY <1>0, <1>1 DEF TypeOK
<1>f. s \in Nat /\ n \in Nat /\ n + 1 \in 0..Micro /\ Micro \in Nat
  BY <1>0, <1>1, RankFields, SMTT(40) DEF Assumptions
<1>3. \A x \in Ranks : rank'[x].step = rank[x].step /\ rank'[x].weights = rank[x].weights
  <2>1. \A x \in Ranks : x = r \/ rank'[x] = rank[x] BY <1>1
  <2> QED BY <1>1, <2>1
<1>u. \A q \in Quantities : reduction[s][q].upto = 0
  <2> SUFFICES ASSUME NEW q \in Quantities PROVE reduction[s][q].upto = 0 OBVIOUS
  <2>2. reduction[s][q].upto \in Nat BY <1>0, <1>1, TableFields
  <2>3. reduction[s][q].upto > 0 => Finished(r, s) BY <1>0, <1>1 DEF Joined
  <2>4. n # Micro BY <1>1, <1>f
  <2>5. ~Finished(r, s) BY <2>4, <1>f DEF Finished
  <2> QED BY <2>2, <2>3, <2>5
<1>w. \A x \in Ranks : ~(rank[x].step > s) /\ \A q \in Quantities : ~(rank[x].step = s /\ Has(rank[x].phase, q))
  <2> SUFFICES ASSUME NEW x \in Ranks
               PROVE  ~(rank[x].step > s) /\ \A q \in Quantities : ~(rank[x].step = s /\ Has(rank[x].phase, q))
    OBVIOUS
  <2>1. World # 0 /\ "count" \in Quantities BY DEF Assumptions, Quantities
  <2>3. ~(s < rank[x].step)
    <3>2. reduction[s]["count"].upto = 0 BY <1>u, <2>1
    <3> QED BY <3>2, <2>1, <1>0, <1>1 DEF Passed
  <2>4. \A q \in Quantities : ~(rank[x].step = s /\ Has(rank[x].phase, q)) BY <1>0, <1>u, <2>1 DEF Passed
  <2> QED BY <2>3, <2>4, <1>f, <1>0, RankFields
<1>4. Phased'
  <2>1. /\ rank'[r].phase # "done" => rank'[r].step < TotalSteps
        /\ rank'[r].phase = "accumulate" => rank'[r].micro < Micro
        /\ rank'[r].phase \in InStep => rank'[r].micro = Micro
    BY <1>1, <1>f DEF Steps, Assumptions, AfterBackward, InStep
  <2> QED BY <2>1, <1>0, <1>1 DEF Phased
<1>5. Joined'
  <2>1. \A b \in Ranks, t \in Steps : Finished(b, t) => Finished(b, t)'
    <3> SUFFICES ASSUME NEW b \in Ranks, NEW t \in Steps, Finished(b, t) PROVE Finished(b, t)' OBVIOUS
    <3>1. CASE b = r BY <3>1, <1>1, <1>f DEF Finished
    <3>2. CASE b # r BY <3>2, <1>1 DEF Finished
    <3> QED BY <3>1, <3>2
  <2> QED BY <2>1, <1>0 DEF Joined
<1>6. Summed'
  <2> SUFFICES ASSUME NEW t \in Steps, NEW q \in Quantities
               PROVE  reduction[t][q].sum = trained'[t][reduction[t][q].upto][q]
    BY <1>0 DEF Summed
  <2>1. reduction[t][q].sum = trained[t][reduction[t][q].upto][q] BY <1>0 DEF Summed
  <2>2. CASE t = s
    <3>1. reduction[s][q].upto = 0 /\ 0 < r /\ 0 \in 0..World BY <1>u, Numbers DEF Ranks, Assumptions
    <3> QED BY <2>1, <2>2, <3>1, <1>1
  <2>3. CASE t # s BY <2>1, <2>3, <1>1
  <2> QED BY <2>2, <2>3
<1>7. Prefix'
  <2> SUFFICES ASSUME NEW t \in Steps, NEW q \in Quantities
               PROVE  /\ trained'[t][0][q] = 0
                      /\ \A k \in Ranks :
                          /\ rank'[k].step = t =>
                                trained'[t][k][q] = trained'[t][k - 1][q] + rank'[k].acc[q]
                          /\ rank'[k].step < t => trained'[t][k][q] = trained'[t][k - 1][q]
    BY DEF Prefix
  <2>1. /\ trained[t][0][q] = 0
        /\ \A k \in Ranks :
             /\ rank[k].step = t => trained[t][k][q] = trained[t][k - 1][q] + rank[k].acc[q]
             /\ rank[k].step < t => trained[t][k][q] = trained[t][k - 1][q]
    BY <1>0 DEF Prefix
  <2>2. \A k \in Ranks : k = r \/ rank'[k] = rank[k] BY <1>1
  <2>3. CASE t # s
    <3>2. ASSUME NEW k \in Ranks
          PROVE  /\ rank'[k].step = t =>
                       trained[t][k][q] = trained[t][k - 1][q] + rank'[k].acc[q]
                 /\ rank'[k].step < t => trained[t][k][q] = trained[t][k - 1][q]
      BY <2>1, <2>2, <2>3, <1>1
    <3> QED BY <2>1, <3>2, <1>1, <2>3
  <2>4. CASE t = s
    <3>1. 0 < r /\ 0 \in 0..World /\ r \in Nat BY Numbers DEF Ranks, Assumptions
    <3>3. ASSUME NEW k \in Ranks
          PROVE  /\ rank'[k].step = s =>
                       trained'[s][k][q] = trained'[s][k - 1][q] + rank'[k].acc[q]
                 /\ rank'[k].step < s => trained'[s][k][q] = trained'[s][k - 1][q]
      <4>1. k \in 0..World /\ k - 1 \in 0..World /\ k \in Nat BY Numbers
      <4>2. /\ trained[s][k][q] \in Int /\ trained[s][k - 1][q] \in Int
            /\ rank[k].acc[q] \in Int /\ out[q] \in Int
        <5>1. out[q] \in Int BY <1>1 DEF Sums
        <5> QED BY <5>1, <4>1, <1>0, <1>1, TableFields, RankFields
      <4>3. /\ trained'[s][k][q] =
                   IF k < r THEN trained[s][k][q] ELSE trained[s][k][q] + out[q]
            /\ trained'[s][k - 1][q] =
                   IF k - 1 < r THEN trained[s][k - 1][q] ELSE trained[s][k - 1][q] + out[q]
        BY <4>1, <1>1
      <4>4. CASE k = r
        <5>1. rank[k].step = s /\ rank'[k].step = s /\ rank'[k].acc[q] = rank[k].acc[q] + out[q] BY <4>4, <1>1
        <5>2. trained[s][k][q] = trained[s][k - 1][q] + rank[k].acc[q] BY <2>1, <2>4, <5>1
        <5> QED BY <4>1, <4>2, <4>3, <4>4, <5>1, <5>2, <3>1, <1>f
      <4>5. CASE k # r
        <5>2. /\ rank[k].step = s => trained[s][k][q] = trained[s][k - 1][q] + rank[k].acc[q]
              /\ rank[k].step < s => trained[s][k][q] = trained[s][k - 1][q]
          BY <2>1, <2>4
        <5>3. k < r <=> k - 1 < r BY <4>1, <4>5, <3>1
        <5> QED BY <4>2, <4>3, <5>2, <5>3, <2>2, <4>5
      <4> QED BY <4>4, <4>5
    <3> QED BY <2>4, <3>3, <2>1, <3>1, <1>1
  <2> QED BY <2>3, <2>4
<1>8. Passed'
  <2>1. ASSUME NEW x \in Ranks, NEW q \in Quantities, Has(rank'[x].phase, q)
        PROVE  /\ reduction[rank[x].step][q].upto = World
               /\ rank'[x].got[q] = trained'[rank[x].step][World][q]
    <3>2. rank'[x] = rank[x] /\ Has(rank[x].phase, q) BY <2>1, <1>1 DEF AfterBackward, Has
    <3>3. rank[x].step # s /\ rank[x].step \in Steps
      BY <3>2, <1>0, RankFields, <1>w DEF Has, Phased, Steps, Assumptions
    <3>4. trained'[rank[x].step] = trained[rank[x].step] BY <3>3, <1>1
    <3> QED BY <3>2, <3>4, <1>0 DEF Passed
  <2> QED BY <2>1, <1>0, <1>3 DEF Passed
<1>9. Modelled'
  <2> SUFFICES ASSUME NEW x \in Ranks, NEW t \in Steps, t < rank[x].step
               PROVE  Usable(trained'[t][World])
                      /\ model[t + 1] = Stepped(t, model[t], trained'[t][World])
    BY <1>0, <1>3 DEF Modelled, Usable, Stepped, Numerator, Denominator, Capacity
  <2>2. trained'[t] = trained[t] BY <1>1, <1>w, <1>f, <1>0, RankFields
  <2> QED BY <2>2, <1>0 DEF Modelled
<1>10. Dealt'
  <2> SUFFICES ASSUME NEW x \in Ranks
               PROVE  /\ Len(box'[x]) = scattered - Taken(x)'
                      /\ \A i \in 1..Len(box'[x]) : box'[x][i] = PackNumber(Taken(x)' + i - 1, x)
    BY <1>0 DEF Dealt, PackNumber
  <2>1. CASE x # r
    <3>1. rank'[x] = rank[x] /\ box'[x] = box[x] BY <2>1, <1>1
    <3> QED BY <3>1, <1>0 DEF Dealt, Taken
  <2>2. CASE x = r
    <3>1. Taken(r)' = Taken(r) + 1 /\ Taken(r) \in Nat
      <4>2. s * Micro + n \in Nat /\ s * Micro + (n + 1) = (s * Micro + n) + 1 BY <1>f, TakenNext
      <4> QED BY <4>2, <1>1 DEF Taken
    <3> DEFINE taken == Taken(r)
    <3> HIDE DEF taken
    <3>3. Taken(r)' = taken + 1 /\ taken \in Nat /\ Len(box[r]) \in Nat /\ scattered \in Nat
      BY <3>1, <1>0, RankFields DEF taken, TypeOK
    <3>4. /\ Len(box[r]) = scattered - taken
          /\ \A i \in 1..Len(box[r]) : box[r][i] = PackNumber(taken + i - 1, r)
      BY <1>0 DEF taken, Dealt
    <3>5. ASSUME NEW i \in 1..Len(box'[r])
          PROVE  box'[r][i] = PackNumber(taken + 1 + i - 1, r)
      <4> QED BY <3>4, <1>1, <3>3
    <3> QED BY <2>2, <3>3, <3>5, <1>1, <3>4
  <2> QED BY <2>1, <2>2
<1>11. Noted'
  <2>1. CASE r = Main
    <3>1. Len(box[Main]) = 1 /\ Len(box'[Main]) = 0 BY <2>1, <1>0, <1>1 DEF Noted
    <3> QED BY <3>1, <2>1, <1>0, <1>1, <1>f DEF Noted, Main
  <2>2. CASE r # Main BY <2>2, <1>1, Numbers, <1>0 DEF Noted, Main
  <2> QED BY <2>1, <2>2
<1> QED BY <1>2, <1>4, <1>5, <1>6, <1>7, <1>8, <1>9, <1>10, <1>11 DEF IInv

LEMMA ApplyKeeps ==
    ASSUME Assumptions, IInv, NEW r \in Ranks, Apply(r)
    PROVE  IInv'
<1> DEFINE s == rank[r].step
           w == Stepped(s, rank[r].weights, rank[r].got)
<1>0. /\ TypeOK /\ Phased /\ Joined /\ Summed /\ Prefix /\ Passed /\ Modelled /\ Dealt /\ Noted
      /\ box' = box /\ scattered' = scattered /\ reduction' = reduction /\ trained' = trained
  BY DEF IInv, Apply
<1>1. /\ s \in Steps /\ s \in Nat /\ s + 1 \in 0..TotalSteps /\ rank[r].micro = Micro
      /\ rank[r].phase = "check" /\ Usable(rank[r].got) /\ w \in Weights
      /\ rank' \in [Ranks -> RankState]
      /\ \A x \in Ranks \ {r} : rank'[x] = rank[x]
      /\ rank'[r] = AtStepStart(s + 1, w)
      /\ model' \in [0..TotalSteps -> Weights] /\ model'[s + 1] = w
      /\ \A m \in 0..TotalSteps : m # s + 1 => model'[m] = model[m]
  BY <1>0, ApplyEffect
<1>2. /\ rank'[r].step = s + 1 /\ rank'[r].micro = 0 /\ rank'[r].noted = 0
      /\ rank'[r].weights = w /\ rank'[r].acc = Zeros
      /\ rank'[r].phase \in {"accumulate", "done"}
      /\ rank'[r].phase = "accumulate" <=> s + 1 < TotalSteps
  BY <1>1, StartFields
<1>3. \A x \in Ranks : x = r \/ rank'[x] = rank[x] BY <1>1
<1>4. \A x \in Ranks : rank[x].step \in Nat BY <1>0, RankFields
<1>5. \A q \in Quantities : rank[r].got[q] = trained[s][World][q] /\ reduction[s][q].upto = World
  BY <1>0, <1>1 DEF Passed, Has
<1>6. /\ Usable(trained[s][World])
      /\ w = Stepped(s, model[s], trained[s][World])
  BY <1>0, <1>1, <1>5, SameUpdate DEF Modelled
<1> HIDE DEF w
<1>7. TypeOK' BY <1>0, <1>1 DEF TypeOK
<1>8. Phased' BY <1>2, <1>0, <1>3 DEF InStep, Assumptions, Phased
<1>9. Joined' BY <1>1, <1>2, <1>3, <1>0, SMTT(30), Z3T(30) DEF Steps, Assumptions, Finished, Joined
<1>10. Summed' BY <1>0 DEF Summed
<1>11. Prefix'
  <2> SUFFICES ASSUME NEW t \in Steps, NEW q \in Quantities, NEW k \in Ranks
               PROVE  /\ rank'[k].step = t =>
                            trained[t][k][q] = trained[t][k - 1][q] + rank'[k].acc[q]
                      /\ rank'[k].step < t => trained[t][k][q] = trained[t][k - 1][q]
    BY <1>0 DEF Prefix
  <2>1. /\ rank[k].step = t => trained[t][k][q] = trained[t][k - 1][q] + rank[k].acc[q]
        /\ rank[k].step < t => trained[t][k][q] = trained[t][k - 1][q]
    BY <1>0 DEF Prefix
  <2>2. CASE k = r
    <3>2. trained[t][k - 1][q] \in Int /\ t \in Nat BY <1>0, Numbers, TableFields
    <3> QED BY <2>1, <3>2, <1>1, <2>2, <1>2, ZerosType
  <2>3. CASE k # r BY <2>1, <2>3, <1>3
  <2> QED BY <2>2, <2>3
<1>12. Passed'
  <2>1. ASSUME NEW x \in Ranks, NEW q \in Quantities
        PROVE  /\ Has(rank'[x].phase, q) =>
                    /\ reduction[rank'[x].step][q].upto = World
                    /\ rank'[x].got[q] = trained[rank'[x].step][World][q]
               /\ \A t \in Steps : t < rank'[x].step => reduction[t][q].upto = World
    <3>1. CASE x = r
      <4>2. ASSUME NEW t \in Steps, t < s + 1 PROVE reduction[t][q].upto = World
        BY <1>5, <4>2, <1>1, <1>0 DEF Steps, Assumptions, Passed
      <4> QED BY <3>1, <4>2, <1>2 DEF Has
    <3>2. CASE x # r BY <3>2, <1>0, <1>3 DEF Passed
    <3> QED BY <3>1, <3>2
  <2> QED BY <2>1, <1>0 DEF Passed
<1>13. Modelled'
  <2>1. \A m \in 0..TotalSteps : m <= s => model'[m] = model[m] BY <1>1 DEF Assumptions
  <2>2. ASSUME NEW x \in Ranks, rank[x].step > s
        PROVE  \A m \in 0..TotalSteps : model'[m] = model[m]
    BY <2>2, <1>0, <1>1, <1>4, <1>6 DEF Modelled
  <2>3. ASSUME NEW x \in Ranks
        PROVE  /\ rank'[x].weights = model'[rank'[x].step]
               /\ \A t \in Steps : t < rank'[x].step =>
                    /\ Usable(trained[t][World])
                    /\ model'[t + 1] = Stepped(t, model'[t], trained[t][World])
    <3>1. \A t \in Steps : t \in Nat /\ t \in 0..TotalSteps /\ t + 1 \in 0..TotalSteps
      BY DEF Steps, Assumptions
    <3>2. /\ rank[x].weights = model[rank[x].step] /\ rank[x].step \in 0..TotalSteps
          /\ \A t \in Steps : t < rank[x].step =>
                /\ Usable(trained[t][World])
                /\ model[t + 1] = Stepped(t, model[t], trained[t][World])
      BY <1>0, RankFields DEF Modelled
    <3>3. CASE x = r
      <4>1. ASSUME NEW t \in Steps, t < s + 1
            PROVE  /\ Usable(trained[t][World])
                   /\ model'[t + 1] = Stepped(t, model'[t], trained[t][World])
        <5>1. CASE t = s BY <5>1, <1>1, <1>6, <2>1, <3>1
        <5>2. CASE t # s
          <6>1. t < s /\ t + 1 <= s BY <5>2, <4>1, <3>1, <1>1
          <6> QED BY <6>1, <3>2, <3>3, <3>1, <2>1, <1>1
        <5> QED BY <5>1, <5>2
      <4> QED BY <3>3, <4>1, <1>1, <1>2
    <3>4. CASE x # r /\ rank[x].step > s BY <3>4, <2>2, <3>1, <3>2, <1>3
    <3>5. CASE x # r /\ ~(rank[x].step > s)
      <4>1. rank[x].step <= s BY <3>5, <1>4, <1>1
      <4>2. \A t \in Steps : t < rank[x].step => t <= s /\ t + 1 <= s BY <4>1, <3>1, <1>4, <1>1
      <4> QED BY <3>5, <4>1, <4>2, <2>1, <3>1, <3>2, <1>3
    <3> QED BY <3>3, <3>4, <3>5
  <2> QED BY <2>3, <1>0 DEF Modelled, Usable, Stepped, Numerator, Denominator, Capacity
<1>14. Dealt'
  <2>1. Taken(r)' = Taken(r) BY <1>2, <1>1, TakenNext DEF Taken, Assumptions
  <2> QED BY <1>0, <2>1, <1>3 DEF Dealt, Taken
<1>15. Noted'
  <2>1. CASE r = Main BY <2>1, <1>0, <1>1, RankFields, <1>2 DEF Assumptions, Noted, Main
  <2>2. CASE r # Main BY <2>2, <1>1, Numbers, <1>0 DEF Noted, Main
  <2> QED BY <2>1, <2>2
<1> QED BY <1>7, <1>8, <1>9, <1>10, <1>11, <1>12, <1>13, <1>14, <1>15 DEF IInv

LEMMA StutterKeeps == Assumptions /\ IInv /\ UNCHANGED vars => IInv'
<1> SUFFICES ASSUME Assumptions, IInv, UNCHANGED vars PROVE IInv' OBVIOUS
<1>0. /\ rank' = rank /\ box' = box /\ scattered' = scattered /\ reduction' = reduction
      /\ trained' = trained /\ model' = model
      /\ TypeOK /\ Dealt /\ Noted
  BY DEF vars, IInv
<1> QED BY <1>0, SumsKept DEF IInv, TypeOK, Dealt, Noted, Taken

LEMMA NextKeeps == Assumptions /\ IInv /\ [Next]_vars => IInv'
<1> SUFFICES ASSUME Assumptions, IInv, [Next]_vars PROVE IInv' OBVIOUS
<1>1. CASE Scatter BY <1>1, ScatterKeeps
<1>2. ASSUME NEW s \in Steps, NEW q \in Quantities, Reduce(s, q) PROVE IInv' BY <1>2, ReduceKeeps
<1>3. ASSUME NEW r \in Ranks, RankStep(r) PROVE IInv'
  BY BackwardKeeps, LeaveKeeps, ApplyKeeps, PhaseKeeps, <1>3 DEF RankStep
<1>4. CASE UNCHANGED vars BY <1>4, StutterKeeps
<1> QED BY <1>1, <1>2, <1>3, <1>4 DEF Next

THEOREM StepInvariant == ASSUME Assumptions PROVE Spec => []IInv
<1>1. Init => IInv BY InitInv
<1>2. IInv /\ [Next]_vars => IInv' BY NextKeeps
<1> QED BY <1>1, <1>2, PTL DEF Spec

\* A rank that refused did so for the sums it holds.
Refusals == \A r \in Ranks : rank[r].phase = "refused" => ~Usable(rank[r].got)

LEMMA RefusalsKept == Assumptions /\ IInv /\ Refusals /\ [Next]_vars => Refusals'
<1> SUFFICES ASSUME Assumptions, IInv, Refusals, [Next]_vars, NEW x \in Ranks,
                    rank'[x].phase = "refused"
             PROVE  ~Usable(rank'[x].got)
  BY DEF Refusals, Usable, Numerator, Denominator, Capacity
<1>0. TypeOK /\ Phased BY DEF IInv
<1>1. CASE rank'[x] = rank[x] BY <1>1 DEF Refusals
<1>2. CASE Scatter BY <1>0, <1>2, ScatterEffect DEF Refusals
<1>3. ASSUME NEW r \in Ranks, Backward(r) PROVE ~Usable(rank'[x].got)
  BY <1>0, <1>3, BackwardEffect, <1>1 DEF AfterBackward
<1>4. ASSUME NEW r \in Ranks, NEW q \in Quantities, Leave(r, q) PROVE ~Usable(rank'[x].got)
  BY <1>0, <1>4, LeaveEffect, <1>1 DEF After, Quantities
<1>5. ASSUME NEW r \in Ranks, Apply(r) PROVE ~Usable(rank'[x].got)
  BY <1>0, <1>5, ApplyEffect, StartFields, <1>1
<1>6. ASSUME NEW r \in Ranks, Refuse(r) \/ Raise(r) PROVE ~Usable(rank'[x].got)
  BY <1>0, <1>6, PhaseEffect DEF Refusals
<1>7. CASE UNCHANGED rank BY <1>1, <1>7
<1> QED BY <1>2, <1>3, <1>4, <1>5, <1>6, <1>7 DEF Next, RankStep, vars, Reduce

-----------------------------------------------------------------------------
(* What it gives                                                            *)

LEMMA MeanFromInv == Assumptions /\ IInv => GradientIsTokenMean
<1> SUFFICES ASSUME Assumptions, IInv, NEW r \in Ranks, rank[r].phase = "check"
             PROVE  Numerator(rank[r].got) * trained[rank[r].step][World].count
                        = trained[rank[r].step][World].gradient * Denominator(rank[r].got)
  BY DEF GradientIsTokenMean
<1> DEFINE all == trained[rank[r].step][World]
<1>1. TypeOK /\ Phased /\ Passed BY DEF IInv
<1> DEFINE g == rank[r].got["gradient"]  c == rank[r].got["count"]  capacity == Capacity
<1>4. capacity \in Int /\ World \in Int BY DEF Capacity, Assumptions
<1> HIDE DEF g, c, capacity
<1>5. (g * (World * capacity)) * c = g * ((capacity * World) * c)
  BY <1>4, <1>1, RankFields DEF g, c, Quantities
<1>7. all.count = c /\ all.gradient = g BY <1>1 DEF g, c, Passed, Has, Quantities
<1> QED BY <1>5, <1>7 DEF Numerator, Denominator, g, c, capacity

LEMMA ReplicasFromInv == Assumptions /\ IInv => ReplicasAgree
BY DEF IInv, Modelled, ReplicasAgree

LEMMA RefusedFromInv == Assumptions /\ IInv /\ Refusals => RefusedByAll
<1> SUFFICES ASSUME Assumptions, IInv, Refusals, NEW a \in Ranks, NEW b \in Ranks,
                    rank[a].phase = "refused"
             PROVE  rank[b].step <= rank[a].step
  BY DEF RefusedByAll
<1>1. TypeOK /\ Phased /\ Passed /\ Modelled BY DEF IInv
<1>2. rank[a].step \in Nat /\ rank[b].step \in Nat BY <1>1, RankFields
<1>5. ~Usable(trained[rank[a].step][World])
  <2> DEFINE mine == rank[a].got  all == trained[rank[a].step][World]
  <2>2. \A q \in Quantities : mine[q] = all[q] BY <1>1 DEF Passed, Has
  <2> HIDE DEF mine, all
  <2>3. Usable(mine) <=> Usable(all) BY <2>2, SameUpdate
  <2> QED BY <2>3 DEF mine, all, Refusals
<1> QED BY <1>2, <1>1, <1>5 DEF Modelled, Phased, Steps, Assumptions

LEMMA DealtFromInv == Assumptions /\ IInv => DealtInOrder
<1> SUFFICES ASSUME Assumptions, IInv, NEW r \in Ranks, box[r] # <<>>
             PROVE  Head(box[r]) = PackNumber(rank[r].step * Micro + rank[r].micro, r)
  BY DEF DealtInOrder
<1>1. TypeOK /\ Dealt BY DEF IInv
<1>4. Taken(r) \in Nat BY <1>1, RankFields, TakenNext DEF Taken
<1> QED BY <1>1, RankFields, <1>4 DEF Taken, Dealt

LEMMA WholeFromInv == Assumptions /\ IInv => StepIsWhole
<1> SUFFICES ASSUME Assumptions, IInv, NEW a \in Ranks, NEW b \in Ranks, rank[a].phase = "check"
             PROVE  \/ rank[b].step > rank[a].step
                    \/ /\ rank[b].step = rank[a].step /\ rank[b].micro = Micro
                       /\ b = Main => rank[b].noted = Micro * World
  BY DEF StepIsWhole
<1>1. TypeOK /\ Phased /\ Joined /\ Passed /\ Noted BY DEF IInv
<1>3. "count" \in Quantities /\ World > 0 BY DEF Quantities, Assumptions
<1>4. reduction[rank[a].step]["count"].upto = World BY <1>1, <1>3 DEF Passed, Has
<1>2. rank[a].step \in Steps BY <1>1, RankFields DEF Phased, Steps, Assumptions
<1>5. Finished(b, rank[a].step) BY <1>1, <1>2, <1>3, <1>4 DEF Joined
<1>6. ASSUME b = Main, rank[b].micro = Micro PROVE rank[b].noted = Micro * World
  <2>1. Len(box[Main]) \in Nat /\ Micro \in Nat /\ World \in Nat BY <1>1, Numbers, RankFields DEF Assumptions
  <2> QED BY <2>1, <1>1, <1>6 DEF Noted
<1> QED BY <1>5, <1>6 DEF Finished

\* The gradient every rank applies is the exact mean over the supervised
\* tokens of the whole step, however the packs spread them over the ranks.
THEOREM TokenMean == ASSUME Assumptions PROVE Spec => []GradientIsTokenMean
BY StepInvariant, MeanFromInv, PTL

\* Replicas that are about to run the same step hold the same weights.
THEOREM Replicas == ASSUME Assumptions PROVE Spec => []ReplicasAgree
BY StepInvariant, ReplicasFromInv, PTL

\* No rank applies a step that another rank refuses: what train() saves after a
\* non-finite step is the model of the completed steps, on every rank.
THEOREM RefusedAlike == ASSUME Assumptions PROVE Spec => []RefusedByAll
<1>1. Init => Refusals BY DEF Init, Refusals, AtStepStart
<1>2. Assumptions /\ IInv /\ Refusals /\ [Next]_vars => Refusals' BY RefusalsKept
<1> QED BY <1>1, <1>2, StepInvariant, RefusedFromInv, PTL DEF Spec

\* The pack of a rank's next micro-batch depends on its step alone, not on the
\* pace of the ranks: a resumed run deals the packs as the first one did.
THEOREM Dealing == ASSUME Assumptions PROVE Spec => []DealtInOrder
BY StepInvariant, DealtFromInv, PTL

\* No rank updates before all have trained their share, and the main rank's
\* report has the statistics of every pack.
THEOREM WholeSteps == ASSUME Assumptions PROVE Spec => []StepIsWhole
BY StepInvariant, WholeFromInv, PTL

\* No two micro-batches of a run are given the same pack.
THEOREM PacksAreDistinct ==
    ASSUME Assumptions, NEW m \in Nat, NEW n \in Nat, NEW a \in Ranks, NEW b \in Ranks,
           PackNumber(m, a) = PackNumber(n, b)
    PROVE  m = n /\ a = b
<1>0. World \in Nat /\ World > 0 /\ a \in 1..World /\ b \in 1..World BY DEF Assumptions, Ranks
<1>3. m * World + a = n * World + b BY DEF PackNumber
<1> QED BY <1>0, <1>3

-----------------------------------------------------------------------------
(* The schedule *)

StartOf(b, i) == IF i = 1 THEN 0 ELSE b[i - 1].end

(* Each stage starts where the one before it ended. *)
Chained ==
    \A i \in 1..Len(boundaries) : boundaries[i] = BoundaryAt(i, StartOf(boundaries, i))

Ordered ==
    \A i, j \in 1..Len(boundaries) :
        i < j => boundaries[i].end <= boundaries[j].start

Covered ==
    \A n \in 0..(EndOf(boundaries) - 1) :
        \E i \in 1..Len(boundaries) : InStage(boundaries[i], n)

Settled ==
    /\ phase = "boundaries" => step = 0 /\ ended = {}
    /\ phase = "running" =>
        /\ Len(boundaries) = NumStages
        /\ ValidSchedule(boundaries)
        /\ step \in 0..TotalStepsOf(boundaries)

ScheduleInv == ScheduleTypeOK /\ Chained /\ Ordered /\ Covered /\ Settled /\ StageEndsOnce

----------------------------------------------------------------------------
(* Lengths of stages and blends are step counts. *)
LEMMA StepCounts ==
    ASSUME NEW i \in 1..NumStages
    PROVE  StageSteps(i) \in Nat /\ TransitionSteps(i) \in Nat
<1>. QED BY PlanAssumption DEF StageSteps, TransitionSteps

LEMMA BoundaryTyped ==
    ASSUME NEW i \in 1..NumStages, NEW current \in Nat
    PROVE  /\ BoundaryAt(i, current) \in Boundary
           /\ BoundaryAt(i, current).start = current
           /\ current <= BoundaryAt(i, current).end
           /\ BoundaryAt(i, current).transitionStart <= BoundaryAt(i, current).end
  BY StepCounts DEF BoundaryAt, Boundary

LEMMA EndTyped ==
    ASSUME ScheduleTypeOK PROVE EndOf(boundaries) \in Nat
<1>1. CASE boundaries = <<>> BY <1>1 DEF EndOf
<1>2. CASE boundaries # <<>>
  <2>2. boundaries[Len(boundaries)] \in Boundary BY <1>2 DEF ScheduleTypeOK
  <2>. QED BY <1>2, <2>2 DEF EndOf, Boundary
<1>. QED BY <1>1, <1>2

(* What the boundaries of a schedule that passed the validation satisfy. *)
LEMMA ValidShape ==
    ASSUME ScheduleInv, phase = "running"
    PROVE  /\ NumStages \in Nat \ {0}
           /\ \A i \in 1..NumStages :
                /\ boundaries[i] \in Boundary
                /\ boundaries[i].start < boundaries[i].transitionStart
                /\ boundaries[i].transitionStart <= boundaries[i].end
           /\ \A i, j \in 1..NumStages :
                i < j => boundaries[i].end <= boundaries[j].start
           /\ \A i \in 1..(NumStages - 1) : boundaries[i + 1].start = boundaries[i].end
           /\ boundaries[1].start = 0
           /\ boundaries[NumStages].transitionStart = boundaries[NumStages].end
           /\ TotalStepsOf(boundaries) \in Nat
           /\ \A n \in 0..(TotalStepsOf(boundaries) - 1) :
                \E i \in 1..NumStages : InStage(boundaries[i], n)
<1>1. Len(boundaries) = NumStages /\ NumStages \in Nat \ {0}
  BY PlanAssumption DEF ScheduleInv, Settled, ValidSchedule
<1>2. \A i \in 1..NumStages : boundaries[i] \in Boundary BY <1>1 DEF ScheduleInv, ScheduleTypeOK
<1>3. ASSUME NEW i \in 1..NumStages
      PROVE  /\ boundaries[i] = BoundaryAt(i, StartOf(boundaries, i))
             /\ StartOf(boundaries, i) \in Nat
  BY <1>1, <1>2, SMTT(30) DEF ScheduleInv, Chained, StartOf, Boundary
<1>4. \A i \in 1..NumStages :
        /\ boundaries[i].start = StartOf(boundaries, i)
        /\ boundaries[i].transitionStart <= boundaries[i].end
  BY <1>3, BoundaryTyped
<1>5. \A i \in 1..NumStages : boundaries[i].start < boundaries[i].transitionStart
  BY <1>2 DEF ScheduleInv, Settled, ValidSchedule, Boundary
<1>6. \A i \in 1..(NumStages - 1) : boundaries[i + 1].start = boundaries[i].end
  <2>. TAKE i \in 1..(NumStages - 1)
  <2>. QED BY <1>4, <1>1 DEF StartOf
<1>7. boundaries[1].start = 0 BY <1>1, <1>4 DEF StartOf
<1>8. boundaries[NumStages].transitionStart = boundaries[NumStages].end
  BY <1>1, <1>3, StepCounts DEF TransitionSteps, BoundaryAt
<1>9. EndOf(boundaries) = TotalStepsOf(boundaries) BY <1>1 DEF EndOf, TotalStepsOf
<1>. QED
  BY <1>1, <1>2, <1>4, <1>5, <1>6, <1>7, <1>8, <1>9, EndTyped
     DEF ScheduleInv, Ordered, Covered

----------------------------------------------------------------------------
(* Which stage a step ends *)
LEMMA EndingStage ==
    ASSUME ScheduleInv, phase = "running", NEW n \in Nat
    PROVE  /\ \A i \in 1..(NumStages - 1) :
                EndsStage(boundaries, i, n) => StageEndingAt(boundaries, n) = i
           /\ StageEndingAt(boundaries, n) # NoStage =>
                /\ StageEndingAt(boundaries, n) \in 1..(NumStages - 1)
                /\ EndsStage(boundaries, StageEndingAt(boundaries, n), n)
<1>2. ASSUME NEW i \in 1..(NumStages - 1), EndsStage(boundaries, i, n)
      PROVE  StageEndingAt(boundaries, n) = i
  BY ValidShape, <1>2 DEF StageEndingAt, EndsStage, Boundary
<1>. QED BY <1>2 DEF StageEndingAt

(* Which stage contains a step *)
LEMMA ContainingStage ==
    ASSUME ScheduleInv, phase = "running", NEW n \in Nat
    PROVE  /\ \A i, j \in 1..NumStages :
                InStage(boundaries[i], n) /\ InStage(boundaries[j], n) => i = j
           /\ \A i \in 1..NumStages :
                InStage(boundaries[i], n) => StageIndex(boundaries, n) = i
           /\ StageIndex(boundaries, n) \in 1..NumStages
           /\ n < TotalStepsOf(boundaries) =>
                InStage(boundaries[StageIndex(boundaries, n)], n)
           /\ n >= TotalStepsOf(boundaries) => StageIndex(boundaries, n) = NumStages
<1>1. \A i, j \in 1..NumStages :
        InStage(boundaries[i], n) /\ InStage(boundaries[j], n) => i = j
  BY ValidShape DEF InStage, Boundary
<1>2. ASSUME NEW i \in 1..NumStages, InStage(boundaries[i], n)
      PROVE  StageIndex(boundaries, n) = i
  BY ValidShape, <1>1, <1>2 DEF IsStageOf, StageIndex
<1>4. ASSUME n >= TotalStepsOf(boundaries), NEW i \in 1..NumStages
      PROVE  ~InStage(boundaries[i], n)
  <2> DEFINE last == boundaries[NumStages]
  <2>1. NumStages \in Nat \ {0} /\ NumStages \in 1..NumStages BY ValidShape
  <2>2. last \in Boundary /\ boundaries[i] \in Boundary BY ValidShape, <2>1
  <2>3. last.start < last.transitionStart /\ last.transitionStart <= last.end BY ValidShape, <2>1
  <2>4. i # NumStages => boundaries[i].end <= last.start
    <3>1. i # NumStages => i < NumStages BY <2>1
    <3> QED BY <3>1, <2>1, ValidShape
  <2>5. n >= last.end BY <1>4 DEF TotalStepsOf
  <2> HIDE DEF last
  <2>6. i # NumStages => n >= boundaries[i].end BY <2>2, <2>3, <2>4, <2>5 DEF Boundary
  <2>7. n >= boundaries[i].end BY <2>5, <2>6 DEF last
  <2> QED BY <2>2, <2>7 DEF Boundary, InStage
<1>6. CASE \E i \in 1..NumStages : InStage(boundaries[i], n) BY <1>1, <1>2, <1>4, <1>6
<1>7. CASE ~\E i \in 1..NumStages : InStage(boundaries[i], n) BY <1>7, ValidShape DEF StageIndex
<1>. QED BY <1>6, <1>7

(* Where a run is heading *)
LEMMA Heading ==
    ASSUME ScheduleInv, phase = "running", NEW n \in Nat
    PROVE  /\ EnteringStageAt(boundaries, n) \in 1..NumStages
           /\ EnteringStageAt(boundaries, n) =
                IF InTransition(boundaries[StageIndex(boundaries, n)], n)
                THEN StageIndex(boundaries, n) + 1 ELSE StageIndex(boundaries, n)
<1>. DEFINE i == StageIndex(boundaries, n)
<1>1. i \in 1..NumStages BY ContainingStage
<1>3. EnteringStageAt(boundaries, n) = IF InTransition(boundaries[i], n) THEN i + 1 ELSE i
  BY <1>1, ValidShape DEF EnteringStageAt, TransitionTo, NoStage
<1>. HIDE DEF i
<1>. QED BY <1>3, <1>1, ValidShape DEF i, InTransition, Boundary

LEMMA HeadingGrows ==
    ASSUME ScheduleInv, phase = "running", NEW n \in Nat, n < TotalStepsOf(boundaries)
    PROVE  EnteringStageAt(boundaries, n) <= EnteringStageAt(boundaries, n + 1)
<1>. DEFINE i == StageIndex(boundaries, n)
            k == StageIndex(boundaries, n + 1)
<1>1. i \in 1..NumStages /\ k \in 1..NumStages /\ InStage(boundaries[i], n) BY ContainingStage
<1>2. /\ EnteringStageAt(boundaries, n) = IF InTransition(boundaries[i], n) THEN i + 1 ELSE i
      /\ EnteringStageAt(boundaries, n + 1) =
            IF InTransition(boundaries[k], n + 1) THEN k + 1 ELSE k
  BY Heading
<1>3. boundaries[i] \in Boundary BY <1>1, ValidShape
<1>4. CASE n + 1 < boundaries[i].end
  <2>2. k = i BY <1>1, ContainingStage, <1>3, <1>4 DEF InStage, Boundary
  <2>. HIDE DEF i, k
  <2>. QED BY <1>1, <1>2, <2>2, ValidShape, <1>3, <1>4 DEF InTransition, Boundary
<1>5. CASE n + 1 >= boundaries[i].end
  <2>1. boundaries[i].end = n + 1 BY <1>1, <1>3, <1>5 DEF InStage, Boundary
  <2>2. CASE i = NumStages
    BY <2>2, ValidShape, <2>1, ContainingStage, <1>1, <1>2 DEF InTransition, Boundary, TotalStepsOf
  <2>3. CASE i < NumStages
    <3>1. i \in 1..(NumStages - 1) /\ i + 1 \in 1..NumStages BY <1>1, <2>3, ValidShape
    <3>4. k = i + 1 BY <3>1, ContainingStage, <2>1, ValidShape, SMTT(30) DEF InStage, Boundary
    <3>. HIDE DEF i, k
    <3>. QED BY <1>1, <1>2, <3>4, ValidShape
  <2>. QED BY <1>1, <2>2, <2>3, ValidShape
<1>. QED BY <1>3, <1>4, <1>5 DEF Boundary

----------------------------------------------------------------------------
(* The invariant *)
THEOREM InitInvariant == ScheduleInit => ScheduleInv
<1>. SUFFICES ASSUME ScheduleInit PROVE ScheduleInv OBVIOUS
<1>1. boundaries = <<>> /\ phase = "boundaries" /\ step = 0 /\ ended = {} BY DEF ScheduleInit
<1>2. Len(boundaries) = 0 /\ boundaries \in Seq(Boundary) BY <1>1
<1>5. Chained /\ Ordered BY <1>2 DEF Chained, Ordered
<1>6. Covered BY <1>1 DEF Covered, EndOf
<1>. QED BY <1>1, <1>5, <1>6, <1>2, PlanAssumption DEF ScheduleInv, Settled, StageEndsOnce, ScheduleTypeOK

LEMMA WalkStage ==
    ASSUME ScheduleInv, CalculateBoundary PROVE ScheduleInv'
<1>. DEFINE i == Len(boundaries) + 1
            new == BoundaryAt(i, EndOf(boundaries))
<1>1. /\ phase = "boundaries" /\ phase' = phase /\ step' = step /\ ended' = ended
      /\ Len(boundaries) < NumStages
      /\ boundaries' = Append(boundaries, new)
  BY DEF CalculateBoundary, AddStage
<1>2. boundaries \in Seq(Boundary) /\ EndOf(boundaries) \in Nat BY EndTyped DEF ScheduleInv, ScheduleTypeOK
<1>3. i \in 1..NumStages BY <1>1, <1>2, PlanAssumption
<1>4. /\ new \in Boundary /\ new.start = EndOf(boundaries) /\ new.start <= new.end
  BY <1>2, <1>3, BoundaryTyped
<1>. HIDE DEF new
<1>5. /\ boundaries' \in Seq(Boundary)
      /\ Len(boundaries') = i
      /\ boundaries'[i] = new
      /\ \A k \in 1..Len(boundaries) : boundaries'[k] = boundaries[k]
  BY <1>1, <1>2, <1>4
<1>6. 1..Len(boundaries') = 1..Len(boundaries) \cup {i} BY <1>2, <1>5
<1>7. \A k \in 1..Len(boundaries) : boundaries[k].end <= EndOf(boundaries)
  <2>. TAKE k \in 1..Len(boundaries)
  <2>1. Len(boundaries) \in 1..Len(boundaries) /\ boundaries # <<>> BY <1>2
  <2>2. EndOf(boundaries) = boundaries[Len(boundaries)].end BY <2>1 DEF EndOf
  <2>3. boundaries[k] \in Boundary /\ boundaries[Len(boundaries)] \in Boundary BY <1>2, <2>1
  <2>4. CASE k < Len(boundaries)
    <3>3. StartOf(boundaries, Len(boundaries)) \in Nat
      <4>1. Len(boundaries) # 1 => Len(boundaries) - 1 \in 1..Len(boundaries)
        <5>1. Len(boundaries) \in Nat BY <1>2
        <5>2. \A m \in Nat : m \in 1..m /\ m # 1 => m - 1 \in 1..m OBVIOUS
        <5>. QED BY <5>1, <5>2, <2>1
      <4>2. Len(boundaries) # 1 => boundaries[Len(boundaries) - 1] \in Boundary BY <1>2, <4>1
      <4>. QED BY <4>2 DEF StartOf, Boundary
    <3>4. Len(boundaries) \in 1..NumStages BY <1>1, <1>2, <2>1, PlanAssumption
    <3>5. boundaries[Len(boundaries)].start <= boundaries[Len(boundaries)].end
      BY <3>3, <3>4, BoundaryTyped, <2>1 DEF ScheduleInv, Chained
    <3>. QED BY <2>2, <2>3, <3>5, <2>1, <2>4 DEF Boundary, ScheduleInv, Ordered
  <2>5. CASE k = Len(boundaries) BY <2>2, <2>3, <2>5 DEF Boundary
  <2>. QED BY <1>2, <2>4, <2>5
<1>9. Chained'
  <2>2. boundaries'[i] = BoundaryAt(i, StartOf(boundaries', i)) BY <1>5, <1>2 DEF new, StartOf, EndOf
  <2>3. ASSUME NEW k \in 1..Len(boundaries)
        PROVE  boundaries'[k] = BoundaryAt(k, StartOf(boundaries', k))
    BY <1>2, <1>5 DEF StartOf, ScheduleInv, Chained
  <2>. HIDE DEF i
  <2>. QED BY <1>6, <2>2, <2>3 DEF Chained, BoundaryAt, StageSteps, TransitionSteps
<1>10. Ordered' BY <1>5, <1>4, <1>7, <1>2, <1>6 DEF ScheduleInv, Ordered
<1>11. Covered'
  <2>2. ASSUME NEW n \in 0..(new.end - 1)
        PROVE  \E k \in 1..Len(boundaries') : InStage(boundaries'[k], n)
    <3>1. CASE n < EndOf(boundaries)
      <4>1. n \in 0..(EndOf(boundaries) - 1) BY <1>2, <1>4, <3>1 DEF Boundary
      <4>2. PICK k \in 1..Len(boundaries) : InStage(boundaries[k], n) BY <4>1 DEF ScheduleInv, Covered
      <4>. QED BY <1>5, <1>6, <4>2
    <3>2. CASE n >= EndOf(boundaries)
      <4>1. InStage(new, n) BY <1>2, <1>4, <3>2 DEF InStage, Boundary
      <4>. QED BY <1>5, <1>6, <4>1
    <3>. QED BY <1>2, <1>4, <3>1, <3>2 DEF Boundary
  <2>. QED BY <2>2, <1>2, <1>5 DEF Covered, InStage, EndOf
<1>. QED BY <1>9, <1>10, <1>11, <1>1, <1>3, <1>5 DEF ScheduleInv, Settled, StageEndsOnce, ScheduleTypeOK

LEMMA ValidatePlan ==
    ASSUME ScheduleInv, Validate PROVE ScheduleInv'
<1>1. /\ phase = "boundaries" /\ Len(boundaries) = NumStages
      /\ phase' = IF ValidSchedule(boundaries) THEN "running" ELSE "refused"
      /\ boundaries' = boundaries /\ step' = step /\ ended' = ended
  BY DEF Validate
<1>2. step = 0 /\ ended = {} BY <1>1 DEF ScheduleInv, Settled
<1>3. phase' \in {"running", "refused"} /\ phase' # "boundaries" BY <1>1
<1>4. ScheduleTypeOK' BY <1>1, <1>3 DEF ScheduleInv, ScheduleTypeOK
<1>5. Chained' /\ Ordered' /\ Covered'
  BY <1>1 DEF ScheduleInv, Chained, Ordered, Covered, StartOf, EndOf, InStage,
              BoundaryAt, StageSteps, TransitionSteps
<1>6. CASE ~ValidSchedule(boundaries) BY <1>1, <1>6, <1>3, <1>4, <1>5 DEF ScheduleInv, Settled, StageEndsOnce
<1>7. CASE ValidSchedule(boundaries)
  <2>1. NumStages \in Nat \ {0} /\ NumStages \in 1..NumStages BY <1>7, PlanAssumption DEF ValidSchedule
  <2>2. \A i \in 1..NumStages : boundaries[i] \in Boundary BY <1>1 DEF ScheduleInv, ScheduleTypeOK
  <2>4. \A i \in 1..NumStages : boundaries[i].transitionStart > 0
    <3>. TAKE i \in 1..NumStages
    <3>. QED BY <2>2, <1>7 DEF Boundary, ValidSchedule
  <2>5. {j \in 1..(NumStages - 1) : boundaries[j].transitionStart <= step} = {}
    BY <1>2, <2>1, <2>2, <2>4 DEF Boundary
  <2>8. Settled' BY <1>1, <1>3, <1>7, <1>2, <2>1, <2>2 DEF Settled, ValidSchedule, TotalStepsOf, Boundary
  <2>. QED BY <1>4, <1>5, <2>8, <1>1, <1>2, <2>5 DEF ScheduleInv, StageEndsOnce
<1>. QED BY <1>6, <1>7

LEMMA TrainOneStep ==
    ASSUME ScheduleInv, TrainStep PROVE ScheduleInv'
<1>. DEFINE e == StageEndingAt(boundaries, step)
            Begun(n) == {j \in 1..(NumStages - 1) : boundaries[j].transitionStart <= n}
<1>1. /\ phase = "running" /\ phase' = phase /\ boundaries' = boundaries
      /\ step < TotalStepsOf(boundaries) /\ step' = step + 1
      /\ ended' = IF e = NoStage THEN ended ELSE ended \cup {<<e, step + 1>>}
  BY DEF TrainStep
<1>2. /\ NumStages \in Nat /\ step \in Nat /\ TotalStepsOf(boundaries) \in Nat
      /\ \A i \in 1..NumStages : boundaries[i] \in Boundary
  BY <1>1, ValidShape DEF ScheduleInv, ScheduleTypeOK
<1>3. /\ \A i \in 1..(NumStages - 1) : EndsStage(boundaries, i, step) => e = i
      /\ e # NoStage => e \in 1..(NumStages - 1) /\ EndsStage(boundaries, e, step)
  BY <1>1, <1>2, EndingStage
<1>. HIDE DEF e
<1>4. \A i \in 1..(NumStages - 1) :
        EndsStage(boundaries, i, step) <=> boundaries[i].transitionStart = step + 1
  BY <1>2 DEF EndsStage, Boundary
<1>5. Begun(step + 1) = IF e = NoStage THEN Begun(step) ELSE Begun(step) \cup {e}
  BY <1>2, <1>3, <1>4 DEF Boundary, NoStage
<1>6. ended = {<<i, boundaries[i].transitionStart>> : i \in Begun(step)}
  BY <1>1 DEF ScheduleInv, StageEndsOnce
<1>. HIDE DEF Begun
<1>8. ended' = {<<i, boundaries[i].transitionStart>> : i \in Begun(step + 1)} BY <1>1, <1>5, <1>6, <1>3, <1>4
<1>11. Settled' BY <1>1, <1>2 DEF ScheduleInv, Settled, ValidSchedule, TotalStepsOf
<1>12. Chained' /\ Ordered' /\ Covered'
  BY <1>1 DEF ScheduleInv, Chained, Ordered, Covered, StartOf, EndOf, InStage,
              BoundaryAt, StageSteps, TransitionSteps
<1>. QED BY <1>11, <1>12, <1>1, <1>8, <1>2, <1>3 DEF ScheduleInv, StageEndsOnce, Begun, ScheduleTypeOK

LEMMA Unchanged ==
    ASSUME ScheduleInv, UNCHANGED scheduleVars PROVE ScheduleInv'
  BY DEF scheduleVars, ScheduleInv, ScheduleTypeOK, Chained, Ordered, Covered, Settled, StageEndsOnce,
         StartOf, EndOf, InStage, BoundaryAt, StageSteps, TransitionSteps,
         ValidSchedule, TotalStepsOf

(* The inductive invariant: the stages walked so far are contiguous and    *)
(* cover every step before their end, and the stage checkpoints written    *)
(* are those of the blends that began.                                     *)
THEOREM Invariance == ScheduleSpec => []ScheduleInv
<1>1. ScheduleInv /\ [ScheduleNext]_scheduleVars => ScheduleInv'
  BY WalkStage, ValidatePlan, TrainOneStep, Unchanged DEF ScheduleNext
<1>. QED BY InitInvariant, <1>1, PTL DEF ScheduleSpec

----------------------------------------------------------------------------
(* For every plan that the constructor accepts, each step up to the last   *)
(* one lies in exactly one stage.                                          *)
THEOREM StepsPartitioned == ScheduleSpec => []EveryStepInOneStage
<1>1. ScheduleInv => EveryStepInOneStage
  <2>. SUFFICES ASSUME ScheduleInv, phase = "running",
                       NEW n \in 0..(TotalStepsOf(boundaries) - 1)
                PROVE  \E i \in 1..NumStages :
                        \A j \in 1..NumStages : InStage(boundaries[j], n) <=> j = i
    BY DEF EveryStepInOneStage
  <2>2. /\ StageIndex(boundaries, n) \in 1..NumStages
        /\ \A j \in 1..NumStages :
            InStage(boundaries[j], n) <=> j = StageIndex(boundaries, n)
    BY ContainingStage, ValidShape, SMTT(30), Z3T(30)
  <2>. QED BY <2>2
<1>. QED BY Invariance, <1>1, PTL

(* For every plan, the stage checkpoints are exactly those of the blends   *)
(* that began: one for each stage but the last when the run is complete.   *)
THEOREM StagesEndOnce == ScheduleSpec => []StageEndsOnce
<1>1. ScheduleInv => StageEndsOnce BY DEF ScheduleInv
<1>. QED BY Invariance, <1>1, PTL

(* For every plan, warmup and cooldown lie in the plain part of the first  *)
(* and in the last stage and never overlap.                                *)
THEOREM RampsStayApart == ScheduleSpec => []RampsApart
<1>1. ScheduleInv => RampsApart
  <2>. SUFFICES ASSUME ScheduleInv, phase = "running",
                       NEW n \in 0..(TotalStepsOf(boundaries) - 1)
                PROVE  /\ n < WarmupSteps =>
                            InStage(boundaries[1], n) /\ ~InTransition(boundaries[1], n)
                       /\ n + CooldownSteps > TotalStepsOf(boundaries) =>
                            InStage(boundaries[NumStages], n) /\ n >= WarmupSteps
    BY DEF RampsApart
  <2>1. 1 \in 1..NumStages /\ NumStages \in 1..NumStages /\ n \in Nat BY ValidShape
  <2>2. /\ boundaries[1] \in Boundary /\ boundaries[NumStages] \in Boundary
        /\ boundaries[1].start = 0
        /\ boundaries[1].transitionStart <= boundaries[1].end
        /\ TotalStepsOf(boundaries) = boundaries[NumStages].end
        /\ WarmupSteps \in Nat /\ CooldownSteps \in Nat
        /\ n < TotalStepsOf(boundaries)
    BY <2>1, ValidShape, PlanAssumption DEF TotalStepsOf
  <2>3. /\ WarmupSteps > 0 => WarmupSteps < boundaries[1].transitionStart - boundaries[1].start
        /\ CooldownSteps > 0 =>
             CooldownSteps < boundaries[NumStages].end - boundaries[NumStages].start
        /\ NumStages = 1 => WarmupSteps + CooldownSteps <= boundaries[NumStages].end
    BY <2>2 DEF ScheduleInv, Settled, ValidSchedule
  <2>. QED BY <2>1, <2>2, <2>3, ValidShape DEF InStage, InTransition, Boundary
<1>. QED BY Invariance, <1>1, PTL

(* Arithmetic of fractions *)
LEMMA Products == \A a, b \in Nat : a * b \in Nat
  OBVIOUS

LEMMA ProductGrows ==
    ASSUME NEW a \in Nat, NEW b \in Nat, NEW c \in Nat, a <= b
    PROVE  c * a <= c * b /\ a * c <= b * c
<1>. QED BY Products

Within(rate, top) ==
    rate.num \in Nat /\ rate.den \in Nat \ {0} /\ rate.num <= top * rate.den

LEMMA FractionWithin ==
    ASSUME NEW lr \in Nat, NEW top \in Nat, lr <= top,
           NEW part \in Nat, NEW whole \in Nat \ {0}, part <= whole
    PROVE  Within(Rate(lr * part, whole), top)
<1>. QED BY ProductGrows, Products DEF Within, Rate

LEMMA BlendWithin ==
    ASSUME NEW a \in Nat, NEW b \in Nat, NEW top \in Nat, a <= top, b <= top,
           NEW done \in Nat, NEW length \in Nat \ {0}, done <= length
    PROVE  Within(Rate((length - done) * a + done * b, length), top)
<1>1. length - done \in Nat OBVIOUS
<1>4. /\ (length - done) * a \in Nat /\ done * b \in Nat /\ top * length \in Nat
      /\ (length - done) * top \in Nat /\ done * top \in Nat
  BY <1>1, Products
<1>. QED BY <1>4, <1>1, ProductGrows DEF Within, Rate

LEMMA RaisedWithin ==
    ASSUME NEW rate, NEW top \in Nat, MinLR <= top, Within(rate, top)
    PROVE  Within(AtLeastMinLR(rate), top)
  BY PlanAssumption DEF AtLeastMinLR, Within, Rate

(* For every plan, the learning rate of a step stays within the plan's.    *)
THEOREM RateStaysWithinPlan == ScheduleSpec => []RateWithinPlan
<1>1. ScheduleInv => RateWithinPlan
  <2>. SUFFICES ASSUME ScheduleInv, phase = "running",
                       NEW n \in 0..(TotalStepsOf(boundaries) - 1), NEW top \in Nat,
                       MinLR <= top, \A i \in 1..NumStages : Stages[i].lr <= top
                PROVE  Within(ScheduledLR(boundaries, n), top)
    BY DEF RateWithinPlan, Within
  <2>. DEFINE total == TotalStepsOf(boundaries)
              i == StageIndex(boundaries, n)
              p == TransitionProgress(boundaries, n)
              to == TransitionTo(boundaries, n)
  <2>1. /\ n \in Nat /\ total \in Nat /\ n < total
        /\ WarmupSteps \in Nat /\ CooldownSteps \in Nat
        /\ 1 \in 1..NumStages /\ NumStages \in 1..NumStages /\ i \in 1..NumStages
    BY ValidShape, ContainingStage, PlanAssumption
  <2>2. \A k \in 1..NumStages : Stages[k].lr \in Nat /\ Stages[k].lr <= top BY PlanAssumption
  <2>3. CASE n < WarmupSteps BY <2>3, <2>1, <2>2, FractionWithin DEF ScheduledLR
  <2>4. CASE n >= WarmupSteps /\ n + CooldownSteps > total
    <3>2. total - n \in Nat /\ total - n <= CooldownSteps /\ CooldownSteps # 0 BY <2>1, <2>4
    <3>. QED BY RaisedWithin, <2>1, <2>4, <2>2, <3>2, FractionWithin DEF ScheduledLR
  <2>5. CASE n >= WarmupSteps /\ n + CooldownSteps <= total /\ to = NoStage
    BY <2>1, <2>5, <2>2, RaisedWithin DEF ScheduledLR, Within, Rate
  <2>6. CASE n >= WarmupSteps /\ n + CooldownSteps <= total /\ to # NoStage
    <3>1. ScheduledLR(boundaries, n) =
            AtLeastMinLR(Rate((p.length - p.done) * Stages[i].lr
                                + p.done * Stages[to].lr, p.length))
      BY <2>1, <2>6 DEF ScheduledLR
    <3>2. InTransition(boundaries[i], n) /\ to = i + 1 BY <2>6 DEF TransitionTo
    <3>5. p.done \in Nat /\ p.length \in Nat \ {0} /\ p.done <= p.length
      BY <2>1, <3>2, ValidShape DEF InTransition, Boundary, TransitionProgress
    <3>6. to \in 1..NumStages BY <2>1, <3>2, Heading
    <3>. HIDE DEF p, i, to
    <3>7. Within(Rate((p.length - p.done) * Stages[i].lr
                        + p.done * Stages[to].lr, p.length), top)
      BY <2>1, <2>2, <3>5, <3>6, BlendWithin
    <3>. QED BY <3>1, <3>7, RaisedWithin
  <2>. QED BY <2>1, <2>3, <2>4, <2>5, <2>6
<1>. QED BY Invariance, <1>1, PTL

(* For every plan, the stage a run is heading for never goes back.         *)
THEOREM NeverHeadsBack == ScheduleSpec => HeadingOnward
<1>1. ScheduleInv /\ [ScheduleNext]_scheduleVars =>
        [phase = "running" =>
            /\ EnteringStageAt(boundaries, step') \in 1..NumStages
            /\ EnteringStageAt(boundaries, step)
                <= EnteringStageAt(boundaries', step')]_scheduleVars
  <2>. SUFFICES ASSUME ScheduleInv, ScheduleNext, phase = "running"
                PROVE  /\ EnteringStageAt(boundaries, step') \in 1..NumStages
                       /\ EnteringStageAt(boundaries, step)
                            <= EnteringStageAt(boundaries', step')
    OBVIOUS
  <2>3. step \in Nat /\ step + 1 \in Nat BY DEF ScheduleInv, ScheduleTypeOK
  <2>. QED BY <2>3, Heading, HeadingGrows DEF TrainStep, ScheduleNext, CalculateBoundary, Validate
<1>. QED BY Invariance, <1>1, PTL DEF ScheduleSpec, HeadingOnward
=============================================================================
