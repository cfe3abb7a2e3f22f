------------------------- MODULE BatchStreamProofs -------------------------
(***************************************************************************)
(* What holds of BatchStream for every set of sources and rows, every      *)
(* batch size and prefetch depth, every number of attempts and of lost     *)
(* batches.                                                                *)
(*                                                                         *)
(* Loaders.  What waits between a worker and the reader is a gapless piece *)
(* of the range, so the row the reader is at is known from the queue       *)
(* (Position), and the rows counted since the iterator was opened are at   *)
(* most those before it, fewer if a batch was passed over (Accounted).     *)
(* When the range has ended and the queue is empty, the reader is at its   *)
(* end, and the comparison of the two counts fails for such an epoch.      *)
(*                                                                         *)
(* The pool.  A document that does not fit is behind a pack that is nearly *)
(* full, so two packs in a row take more than one pack length from what is *)
(* in front of it (KeptInv); with what was in front of it when it entered, *)
(* that bounds the packs it waits for (PoolInv).                           *)
(*                                                                         *)
(* The shares.  What enters is shared out in full, so the deficits of the  *)
(* active sources sum up to nothing; the source that is picked has the     *)
(* largest one, which is then not negative, so no source falls behind by   *)
(* more than one of its documents, and what one source is owed the others  *)
(* have had in excess (Shares).                                            *)
(*                                                                         *)
(* The order.  The reader of a source stands behind the rows counted, and  *)
(* what is buffered are the documents of the last of them (OrderInv); so   *)
(* the first document of a buffer is the next one of an endless reading,   *)
(* and a state that is stored continues it (DocumentStream).               *)
(*                                                                         *)
(* The folds of the model are unfolded as recursions on the sequence or    *)
(* the set, and induction over data is by a least counterexample           *)
(* (WFMin, NatLessThanWellFounded).                                        *)
(***************************************************************************)
EXTENDS BatchStream, FiniteSetTheorems, WellFoundedInduction, TLAPS

-----------------------------------------------------------------------------
(* Induction, and the folds of the model as recursions.                    *)

\* A non-empty set of numbers has a least element.
LEMMA LeastElement ==
    ASSUME NEW T \in SUBSET Nat, T # {}
    PROVE  \E n \in T : \A m \in T : n <= m
<1> DEFINE R == OpToRel(<, Nat)
<1>1. IsWellFoundedOn(R, Nat) BY NatLessThanWellFounded DEF OpToRel
<1>2. \A m, n \in Nat : m < n => <<m, n>> \in R BY DEF OpToRel
<1> HIDE DEF R
<1>3. PICK n \in T : \A m \in T : ~ (<<m, n>> \in R) BY <1>1, WFMin
<1>4. ASSUME NEW m \in T PROVE n <= m
  <2>1. m \in Nat /\ n \in Nat /\ ~(m < n) BY <1>2, <1>3
  <2> QED BY <2>1
<1> QED BY <1>4

\* Induction, over the numbers that have a property rather than over the property.
LEMMA NumberInduction ==
    ASSUME NEW P, 0 \in P, \A n \in Nat : n \in P => n + 1 \in P
    PROVE  Nat \subseteq P
<1> DEFINE T == Nat \ P
<1> SUFFICES ASSUME T # {} PROVE FALSE OBVIOUS
<1>1. PICK n \in T : \A m \in T : n <= m BY LeastElement
<1> QED BY <1>1

\* The same for sequences, by their last element.
LEMMA SequenceInduction ==
    ASSUME NEW S, NEW P, <<>> \in P,
           \A q \in Seq(S), d \in S : q \in P => Append(q, d) \in P
    PROVE  Seq(S) \subseteq P
<1> DEFINE N == {n \in Nat : \A q \in Seq(S) : Len(q) = n => q \in P}
<1>1. 0 \in N OBVIOUS
<1>2. ASSUME NEW n \in Nat, n \in N PROVE n + 1 \in N
  <2> SUFFICES ASSUME NEW q \in Seq(S), Len(q) = n + 1 PROVE q \in P OBVIOUS
  <2> DEFINE p == [i \in 1..n |-> q[i]]
  <2>1. p \in Seq(S) /\ Len(p) = n /\ q[n + 1] \in S OBVIOUS
  <2>3. \A i \in 1..(n + 1) : Append(p, q[n + 1])[i] = q[i] BY <2>1
  <2> HIDE DEF p
  <2>4. q = Append(p, q[n + 1]) BY <2>3, <2>1
  <2>5. p \in P BY <1>2, <2>1
  <2> QED BY <2>1, <2>4, <2>5
<1> HIDE DEF N
<1>3. Nat \subseteq N BY <1>1, <1>2, NumberInduction
<1>4. ASSUME NEW q \in Seq(S) PROVE q \in P BY <1>3 DEF N
<1> QED BY <1>4

\* A fold over the subsets of a finite set: the function its recursion asks for exists.
Folds(iter, D, base, g, pick) ==
    \A s \in SUBSET D :
        iter[s] = IF s = {} THEN base ELSE g[<<pick[s], iter[s \ {pick[s]}]>>]

\* The recursion of a fold over a finite set has a solution: an element of the set
\* is picked, and what is folded of the others is combined with it.
LEMMA FoldExists ==
    ASSUME NEW D, IsFiniteSet(D), NEW V, NEW base \in V, NEW g \in [D \X V -> V],
           NEW pick, \A s \in SUBSET D : s # {} => pick[s] \in s
    PROVE  \E iter \in [SUBSET D -> V] : Folds(iter, D, base, g, pick)
<1> DEFINE next(f, s) == IF s = {} THEN base ELSE g[<<pick[s], f[s \ {pick[s]}]>>]
           Below(f, n) == \A s \in SUBSET D : Cardinality(s) <= n => f[s] = next(f, s)
           N == {n \in Nat : \E f \in [SUBSET D -> V] : Below(f, n)}
<1>1. \A s \in SUBSET D : IsFiniteSet(s) /\ Cardinality(s) \in Nat BY FS_Subset, FS_CardinalityType
<1>3. ASSUME NEW f \in [SUBSET D -> V], NEW s \in SUBSET D PROVE next(f, s) \in V OBVIOUS
<1>4. 0 \in N
  <2> DEFINE f == [s \in SUBSET D |-> base]
  <2>1. Below(f, 0) BY <1>1, FS_EmptySet
  <2> QED BY <2>1
<1>5. ASSUME NEW n \in Nat, n \in N PROVE n + 1 \in N
  <2>1. PICK f \in [SUBSET D -> V] : Below(f, n) BY <1>5
  <2> DEFINE h == [s \in SUBSET D |-> next(f, s)]
  <2>2. h \in [SUBSET D -> V] BY <1>3
  <2>3. ASSUME NEW s \in SUBSET D, Cardinality(s) <= n + 1 PROVE h[s] = next(h, s)
    <3>1. CASE s # {}
      <4> DEFINE r == s \ {pick[s]}
      <4>1. r \in SUBSET D /\ Cardinality(r) <= n BY <1>1, <3>1, FS_RemoveElement, <2>3
      <4>2. f[r] = h[r] BY <2>1, <4>1
      <4> QED BY <3>1, <4>2
    <3> QED BY <3>1
  <2> HIDE DEF h
  <2>4. Below(h, n + 1) BY <2>3
  <2>5. \E x \in [SUBSET D -> V] : Below(x, n + 1)
    <3> HIDE DEF Below
    <3> QED BY <2>2, <2>4
  <2> HIDE DEF Below
  <2> QED BY <2>5
<1> HIDE DEF N
<1>6. Cardinality(D) \in N BY <1>1, <1>4, <1>5, NumberInduction
<1>7. PICK f \in [SUBSET D -> V] : Below(f, Cardinality(D)) BY <1>6 DEF N
<1>8. \A s \in SUBSET D : Cardinality(s) <= Cardinality(D) BY FS_Subset
<1> QED BY <1>7, <1>8 DEF Folds

\* The largest number of an interval.
LEMMA MaxLemma == ASSUME NEW k \in Nat \ {0} PROVE Max(1..k) = k
<1> QED BY DEF Max

\* A nonempty set of positions has a last one.
LEMMA MaxExists == ASSUME NEW n \in Nat, NEW s \in SUBSET (1..n), s # {} PROVE Max(s) \in s
<1> DEFINE T == {n - x : x \in s}
<1>1. T \in SUBSET Nat /\ T # {}
  <2>1. \A x \in s : n - x \in Nat OBVIOUS
  <2> QED BY <2>1
<1>2. PICK m \in T : \A y \in T : m <= y BY <1>1, LeastElement
<1>3. PICK x \in s : m = n - x BY <1>2
<1>4. \A y \in s : x >= y
  <2> TAKE y \in s
  <2>1. n - x <= n - y BY <1>2, <1>3
  <2> QED BY <2>1
<1> QED BY <1>4 DEF Max

\* The fold of a sequence as a recursion on its initial segments.
IsFold(f, n, base, g) ==
    f = [s \in SUBSET (1..n) |-> IF s = {} THEN base ELSE g[<<Max(s), f[s \ {Max(s)}]>>]]

\* The recursion of a fold over a sequence has a solution.
LEMMA SequenceFold ==
    ASSUME NEW n \in Nat, NEW V, NEW base \in V, NEW g \in [(1..n) \X V -> V]
    PROVE  \E f \in [SUBSET (1..n) -> V] : IsFold(f, n, base, g)
<1> DEFINE D == 1..n
           pick == [s \in SUBSET D |-> Max(s)]
<1>1. IsFiniteSet(D) BY FS_Interval
<1>2. \A s \in SUBSET D : s # {} => pick[s] \in s BY MaxExists
<1> HIDE DEF D
<1>3. PICK f \in [SUBSET D -> V] : Folds(f, D, base, g, pick)
  <2> HIDE DEF pick
  <2> QED BY <1>1, <1>2, FoldExists DEF D
<1>4. f = [s \in SUBSET D |-> IF s = {} THEN base ELSE g[<<Max(s), f[s \ {Max(s)}]>>]] BY <1>3 DEF Folds
<1> QED BY <1>4 DEF D, IsFold

-----------------------------------------------------------------------------
\* A document whose row its source has.
Known == {d \in Document : d.row <= Len(Rows[d.source])}

\* A document takes at most one pack length.
LEMMA SlotsLemma ==
    ASSUME NEW d \in Known
    PROVE  Slots(d) \in 0..PackLength /\ Slots(d) \in Nat
<1>1. d.source \in Source /\ d.row \in 1..Len(Rows[d.source]) BY DEF Known, Document
<1>2. Rows[d.source] \in Seq(0..PackLength) /\ PackLength \in Nat BY <1>1, PackingAssumption
<1> QED BY <1>1, <1>2 DEF Slots


\* The fold that adds up the tokens of a pool.
IsTokensFold(f, pool) ==
    f = [s \in SUBSET DOMAIN pool |->
            IF s = {} THEN 0 ELSE f[s \ {Max(s)}] + Slots(pool[Max(s)])]

\* The tokens of a pool are the value of such a fold.
LEMMA TokensFold ==
    ASSUME NEW pool \in Seq(Known)
    PROVE  \E f : IsTokensFold(f, pool) /\ Tokens(pool) = f[DOMAIN pool]
<1> DEFINE n == Len(pool)
           g == [p \in (1..n) \X Nat |-> p[2] + Slots(pool[p[1]])]
<1>1. n \in Nat /\ DOMAIN pool = 1..n OBVIOUS
<1>2. g \in [(1..n) \X Nat -> Nat] BY SlotsLemma
<1> HIDE DEF n, g
<1>3. PICK f \in [SUBSET (1..n) -> Nat] : IsFold(f, n, 0, g) BY <1>1, <1>2, SequenceFold
<1>4. ASSUME NEW s \in SUBSET (1..n), s # {}
      PROVE  g[<<Max(s), f[s \ {Max(s)}]>>] = f[s \ {Max(s)}] + Slots(pool[Max(s)])
  <2>1. Max(s) \in 1..n /\ f[s \ {Max(s)}] \in Nat BY <1>1, <1>4, MaxExists
  <2> QED BY <2>1 DEF g
<1>5. f = [s \in SUBSET (1..n) |->
              IF s = {} THEN 0 ELSE f[s \ {Max(s)}] + Slots(pool[Max(s)])]
  BY <1>3, <1>4 DEF IsFold
<1>6. \E h : IsTokensFold(h, pool) BY <1>1, <1>5 DEF IsTokensFold
<1>7. \E h : h = (CHOOSE e : IsTokensFold(e, pool)) /\ Tokens(pool) = h[DOMAIN pool]
  BY Zenon DEF Tokens, FoldLeft, MapThenFoldSet, IsTokensFold
<1>8. IsTokensFold(CHOOSE e : IsTokensFold(e, pool), pool) BY <1>6, Zenon
<1> QED BY <1>7, <1>8, Zenon

\* A fold over the front of a pool adds one document.
LEMMA TokensFront ==
    ASSUME NEW pool \in Seq(Known), NEW f, IsTokensFold(f, pool)
    PROVE  /\ f[1..0] = 0
           /\ \A k \in 1..Len(pool) : f[1..k] = f[1..(k - 1)] + Slots(pool[k])
<1>2. f[1..0] = 0 BY DEF IsTokensFold
<1>3. ASSUME NEW k \in 1..Len(pool)
      PROVE  f[1..k] = f[1..(k - 1)] + Slots(pool[k])
  <2>1. 1..k \in SUBSET DOMAIN pool /\ k \in 1..k /\ (1..k) \ {k} = 1..(k - 1) OBVIOUS
  <2>2. Max(1..k) = k BY MaxLemma
  <2>3. f[1..k] = f[(1..k) \ {Max(1..k)}] + Slots(pool[Max(1..k)]) BY <2>1 DEF IsTokensFold
  <2> QED BY <2>1, <2>2, <2>3
<1> QED BY <1>2, <1>3

\* The tokens of a pool: those of its last document come last.
LEMMA TokensLemma ==
    /\ Tokens(<<>>) = 0
    /\ \A q \in Seq(Known), d \in Known : Tokens(Append(q, d)) = Tokens(q) + Slots(d)
<1>1. Tokens(<<>>) = 0
  <2>1. <<>> \in Seq(Known) /\ DOMAIN <<>> = 1..0 /\ Len(<<>>) = 0 OBVIOUS
  <2>2. PICK f : IsTokensFold(f, <<>>) /\ Tokens(<<>>) = f[DOMAIN <<>>] BY <2>1, TokensFold
  <2>3. f[1..0] = 0 BY <2>1, <2>2, TokensFront
  <2> QED BY <2>1, <2>2, <2>3
<1>2. ASSUME NEW q \in Seq(Known), NEW d \in Known
      PROVE  Tokens(Append(q, d)) = Tokens(q) + Slots(d)
  <2> DEFINE p == Append(q, d)
             n == Len(q)
  <2>1. /\ p \in Seq(Known) /\ Len(p) = n + 1 /\ n \in Nat
        /\ \A k \in 1..n : p[k] = q[k]
        /\ p[n + 1] = d
        /\ DOMAIN p = 1..(n + 1) /\ DOMAIN q = 1..n
    OBVIOUS
  <2> HIDE DEF p, n
  <2>2. PICK f : IsTokensFold(f, q) /\ Tokens(q) = f[DOMAIN q] BY TokensFold
  <2>3. PICK h : IsTokensFold(h, p) /\ Tokens(p) = h[DOMAIN p] BY <2>1, TokensFold
  <2>4. f[1..0] = 0 /\ \A k \in 1..n : f[1..k] = f[1..(k - 1)] + Slots(q[k]) BY <2>2, TokensFront DEF n
  <2>5. h[1..0] = 0 /\ \A k \in 1..(n + 1) : h[1..k] = h[1..(k - 1)] + Slots(p[k])
    <3>1. h[1..0] = 0 /\ \A k \in 1..Len(p) : h[1..k] = h[1..(k - 1)] + Slots(p[k])
      <4>1. p \in Seq(Known) BY <2>1
      <4>2. IsTokensFold(h, p) BY <2>3
      <4> QED BY <4>1, <4>2, TokensFront, Zenon
    <3>2. Len(p) = n + 1 BY <2>1
    <3> QED BY <3>1, <3>2, Zenon
  <2> DEFINE N == {k \in Nat : k <= n => h[1..k] = f[1..k]}
  <2>6. 0 \in N BY <2>4, <2>5
  <2>7. ASSUME NEW k \in Nat, k \in N PROVE k + 1 \in N BY <2>1, <2>7, <2>4, <2>5
  <2> HIDE DEF N
  <2>8. h[1..n] = f[1..n]
    <3>1. n \in N BY <2>1, <2>6, <2>7, NumberInduction
    <3> QED BY <3>1 DEF N
  <2> QED BY <2>8, <2>1, <2>5, <2>2, <2>3 DEF p
<1> QED BY <1>1, <1>2

\* The tokens of a pool are a number.
LEMMA TokensType == ASSUME NEW q \in Seq(Known) PROVE Tokens(q) \in Nat
<1> DEFINE P == {p \in Seq(Known) : Tokens(p) \in Nat}
<1>1. <<>> \in P BY TokensLemma
<1>2. \A p \in Seq(Known), d \in Known : p \in P => Append(p, d) \in P
  <2> TAKE p \in Seq(Known), d \in Known
  <2> HAVE p \in P
  <2> QED BY TokensLemma, SlotsLemma
<1> HIDE DEF P
<1>3. Seq(Known) \subseteq P BY <1>1, <1>2, SequenceInduction
<1> QED BY <1>3 DEF P

-----------------------------------------------------------------------------
\* A pack that is being filled.
FillType == [taken : Seq(Known), kept : Seq(Known), room : 0..PackLength]

\* Waiting changes nothing about a document but how long it has waited.
LEMMA WaitingLemma ==
    ASSUME NEW d \in Known
    PROVE  /\ Waiting(d) \in Known /\ Slots(Waiting(d)) = Slots(d)
           /\ Waiting(d).waited = d.waited + 1
<1> QED BY DEF Known, Slots, Waiting, Document

\* What becomes of the next document of the pool: it enters the pack if it fits.
LEMMA OfferLemma ==
    ASSUME NEW fill \in FillType, NEW d \in Known
    PROVE  /\ Offer(fill, d) \in FillType
           /\ Slots(d) <= fill.room =>
                  /\ Offer(fill, d).kept = fill.kept
                  /\ Offer(fill, d).taken = Append(fill.taken, d)
                  /\ Offer(fill, d).room = fill.room - Slots(d)
           /\ Slots(d) > fill.room =>
                  /\ Offer(fill, d).kept = Append(fill.kept, Waiting(d))
                  /\ Offer(fill, d).taken = fill.taken
                  /\ Offer(fill, d).room = fill.room
<1>1. Slots(d) \in Nat /\ Waiting(d) \in Known /\ PackLength \in Nat
  BY SlotsLemma, WaitingLemma, PackingAssumption
<1>2. fill.taken \in Seq(Known) /\ fill.kept \in Seq(Known) /\ fill.room \in 0..PackLength BY DEF FillType
<1>3. CASE Slots(d) <= fill.room
  <2> DEFINE taken == Append(fill.taken, d)
             room == fill.room - Slots(d)
  <2>2. Offer(fill, d) = [fill EXCEPT !.taken = taken, !.room = room] BY <1>3 DEF Offer
  <2> HIDE DEF taken, room
  <2>3. Offer(fill, d) = [taken |-> taken, kept |-> fill.kept, room |-> room] BY <2>2 DEF FillType
  <2> QED BY <1>1, <1>2, <1>3, <2>3 DEF taken, room, FillType
<1>4. CASE Slots(d) > fill.room
  <2> DEFINE kept == Append(fill.kept, Waiting(d))
  <2>3. Offer(fill, d) = [fill EXCEPT !.kept = kept] BY <1>1, <1>2, <1>4 DEF Offer
  <2> HIDE DEF kept
  <2>4. Offer(fill, d) = [taken |-> fill.taken, kept |-> kept, room |-> fill.room] BY <2>3 DEF FillType
  <2> QED BY <1>1, <1>2, <1>4, <2>4 DEF kept, FillType
<1> QED BY <1>1, <1>2, <1>3, <1>4

\* The pack starts empty.
LEMMA EmptyPackLemma == EmptyPack \in FillType
<1> QED BY PackingAssumption DEF EmptyPack, FillType

\* The fold that fills a pack.
IsFillFold(f, pool) ==
    f = [s \in SUBSET DOMAIN pool |->
            IF s = {} THEN EmptyPack ELSE Offer(f[s \ {Max(s)}], pool[Max(s)])]

\* Filling a pack is the value of such a fold.
LEMMA FillFold ==
    ASSUME NEW pool \in Seq(Known)
    PROVE  \E f : IsFillFold(f, pool) /\ Fill(pool) = f[DOMAIN pool]
<1> DEFINE n == Len(pool)
           g == [p \in (1..n) \X FillType |-> Offer(p[2], pool[p[1]])]
<1>1. n \in Nat /\ DOMAIN pool = 1..n OBVIOUS
<1>2. g \in [(1..n) \X FillType -> FillType] BY OfferLemma
<1> HIDE DEF n, g
<1>3. PICK f \in [SUBSET (1..n) -> FillType] : IsFold(f, n, EmptyPack, g)
  BY <1>1, <1>2, SequenceFold, EmptyPackLemma
<1>4. ASSUME NEW s \in SUBSET (1..n), s # {}
      PROVE  g[<<Max(s), f[s \ {Max(s)}]>>] = Offer(f[s \ {Max(s)}], pool[Max(s)])
  <2>1. Max(s) \in 1..n /\ f[s \ {Max(s)}] \in FillType BY <1>1, <1>4, MaxExists
  <2> QED BY <2>1 DEF g
<1>5. f = [s \in SUBSET (1..n) |->
              IF s = {} THEN EmptyPack ELSE Offer(f[s \ {Max(s)}], pool[Max(s)])]
  BY <1>3, <1>4 DEF IsFold
<1>6. \E h : IsFillFold(h, pool) BY <1>1, <1>5 DEF IsFillFold
<1>7. \E h : h = (CHOOSE e : IsFillFold(e, pool)) /\ Fill(pool) = h[DOMAIN pool]
  BY Zenon DEF Fill, FoldLeft, MapThenFoldSet, IsFillFold
<1>8. IsFillFold(CHOOSE e : IsFillFold(e, pool), pool) BY <1>6, Zenon
<1> QED BY <1>7, <1>8, Zenon

\* A fold over the front of a pool offers one document.
LEMMA FillFront ==
    ASSUME NEW pool \in Seq(Known), NEW f, IsFillFold(f, pool)
    PROVE  /\ f[1..0] = EmptyPack
           /\ \A k \in 1..Len(pool) : f[1..k] = Offer(f[1..(k - 1)], pool[k])
<1>2. f[1..0] = EmptyPack BY DEF IsFillFold
<1>3. ASSUME NEW k \in 1..Len(pool)
      PROVE  f[1..k] = Offer(f[1..(k - 1)], pool[k])
  <2>1. 1..k \in SUBSET DOMAIN pool /\ k \in 1..k /\ (1..k) \ {k} = 1..(k - 1) OBVIOUS
  <2>2. Max(1..k) = k BY MaxLemma
  <2>3. f[1..k] = Offer(f[(1..k) \ {Max(1..k)}], pool[Max(1..k)]) BY <2>1 DEF IsFillFold
  <2> QED BY <2>1, <2>2, <2>3
<1> QED BY <1>2, <1>3

\* A pack of a pool: its last document is offered last.
LEMMA FillLemma ==
    /\ Fill(<<>>) = EmptyPack
    /\ \A q \in Seq(Known), d \in Known : Fill(Append(q, d)) = Offer(Fill(q), d)
<1>1. Fill(<<>>) = EmptyPack
  <2>1. <<>> \in Seq(Known) /\ DOMAIN <<>> = 1..0 /\ Len(<<>>) = 0 OBVIOUS
  <2>2. PICK f : IsFillFold(f, <<>>) /\ Fill(<<>>) = f[DOMAIN <<>>] BY <2>1, FillFold
  <2>3. f[1..0] = EmptyPack BY <2>1, <2>2, FillFront
  <2> QED BY <2>1, <2>2, <2>3
<1>2. ASSUME NEW q \in Seq(Known), NEW d \in Known
      PROVE  Fill(Append(q, d)) = Offer(Fill(q), d)
  <2> DEFINE p == Append(q, d)
             n == Len(q)
  <2>1. /\ p \in Seq(Known) /\ Len(p) = n + 1 /\ n \in Nat
        /\ \A k \in 1..n : p[k] = q[k]
        /\ p[n + 1] = d
        /\ DOMAIN p = 1..(n + 1) /\ DOMAIN q = 1..n
    OBVIOUS
  <2> HIDE DEF p, n
  <2>2. PICK f : IsFillFold(f, q) /\ Fill(q) = f[DOMAIN q] BY FillFold
  <2>3. PICK h : IsFillFold(h, p) /\ Fill(p) = h[DOMAIN p] BY <2>1, FillFold
  <2>4. f[1..0] = EmptyPack /\ \A k \in 1..n : f[1..k] = Offer(f[1..(k - 1)], q[k]) BY <2>2, FillFront DEF n
  <2>5. h[1..0] = EmptyPack /\ \A k \in 1..(n + 1) : h[1..k] = Offer(h[1..(k - 1)], p[k])
    BY <2>1, <2>3, FillFront
  <2> DEFINE N == {k \in Nat : k <= n => h[1..k] = f[1..k]}
  <2>6. 0 \in N BY <2>4, <2>5
  <2>7. ASSUME NEW k \in Nat, k \in N PROVE k + 1 \in N BY <2>1, <2>7, <2>4, <2>5
  <2> HIDE DEF N
  <2>8. h[1..n] = f[1..n]
    <3>1. n \in N BY <2>1, <2>6, <2>7, NumberInduction
    <3> QED BY <3>1 DEF N
  <2> QED BY <2>8, <2>1, <2>5, <2>2, <2>3 DEF p
<1> QED BY <1>1, <1>2

-----------------------------------------------------------------------------
(* First fit: what a pack leaves in the pool.                              *)

\* The documents of a pool in front of one of them, and their tokens.
Leading(q, n) == [j \in 1..n |-> q[j]]

\* The tokens in front of a document of the pool.
Ahead(q, i) == Tokens(Leading(q, i - 1))

\* The documents in front of a position of the pool.
LEMMA FrontLemma ==
    ASSUME NEW q \in Seq(Known)
    PROVE  /\ \A n \in 0..Len(q) : Leading(q, n) \in Seq(Known)
           /\ Leading(q, Len(q)) = q
           /\ \A i \in 1..(Len(q) + 1) : Ahead(q, i) \in Nat
<1>1. ASSUME NEW n \in 0..Len(q) PROVE Leading(q, n) \in Seq(Known) BY DEF Leading
<1>3. ASSUME NEW i \in 1..(Len(q) + 1) PROVE Ahead(q, i) \in Nat BY <1>1, TokensType DEF Ahead
<1> QED BY <1>1, <1>3 DEF Leading

\* What stands behind a document does not matter to it.
LEMMA AheadLemma ==
    ASSUME NEW q \in Seq(Known), NEW d \in Known
    PROVE  /\ \A i \in 1..Len(q) : Ahead(Append(q, d), i) = Ahead(q, i)
           /\ Ahead(Append(q, d), Len(q) + 1) = Tokens(q)
<1> DEFINE p == Append(q, d)
<1>1. Len(p) = Len(q) + 1 /\ \A j \in 1..Len(q) : p[j] = q[j] OBVIOUS
<1> HIDE DEF p
<1>2. ASSUME NEW i \in 1..(Len(q) + 1) PROVE Leading(p, i - 1) = Leading(q, i - 1) BY <1>1 DEF Leading
<1>3. ASSUME NEW i \in 1..Len(q) PROVE Ahead(p, i) = Ahead(q, i) BY <1>2 DEF Ahead
<1> QED BY <1>3, <1>2, FrontLemma DEF p, Ahead

-----------------------------------------------------------------------------
\* Where a document that is kept stood, and how much of what was in front of it is gone.
KeptFrom(kept, j, q, i, room) ==
    /\ kept[j] = Waiting(q[i])
    /\ Ahead(kept, j) = Ahead(q, i) - PackLength + room
    /\ room <= PackLength - Slots(q[1])
    /\ j > 1 => room < Slots(kept[1])

\* What is left in front of a document that was left, or a full pack was taken from it.
KeptInv(q) ==
    LET f == Fill(q) IN
    /\ f \in FillType
    /\ q # <<>> => f.room <= PackLength - Slots(q[1])
    /\ f.kept # <<>> => f.room < Slots(f.kept[1])
    /\ Tokens(f.kept) = Tokens(q) - PackLength + f.room
    /\ \A j \in 1..Len(f.kept) :
           \E i \in 2..Len(q), room \in 0..PackLength : KeptFrom(f.kept, j, q, i, room)

\* Appended to the pool, a document changes nothing in front of it ...
LEMMA KeptAppend ==
    ASSUME NEW q \in Seq(Known), NEW d \in Known, NEW kept \in Seq(Known),
           \A j \in 1..Len(kept) :
               \E i \in 2..Len(q), room \in 0..PackLength : KeptFrom(kept, j, q, i, room)
    PROVE  \A j \in 1..Len(kept) :
               \E i \in 2..Len(Append(q, d)), room \in 0..PackLength :
                   KeptFrom(kept, j, Append(q, d), i, room)
<1> DEFINE p == Append(q, d)
<1>1. Len(p) = Len(q) + 1 /\ \A j \in 1..Len(q) : p[j] = q[j] OBVIOUS
<1>2. \A i \in 1..Len(q) : Ahead(p, i) = Ahead(q, i) BY AheadLemma
<1> HIDE DEF p
<1>3. ASSUME NEW j \in 1..Len(kept)
      PROVE  \E i \in 2..Len(p), room \in 0..PackLength : KeptFrom(kept, j, p, i, room)
  BY <1>1, <1>2 DEF KeptFrom
<1> QED BY <1>3 DEF p

\* ... and appended to what is kept, nor does it there.
LEMMA KeptMore ==
    ASSUME NEW q \in Seq(Known), NEW d \in Known, NEW kept \in Seq(Known),
           \A j \in 1..Len(kept) :
               \E i \in 2..Len(q), room \in 0..PackLength : KeptFrom(kept, j, q, i, room)
    PROVE  \A j \in 1..Len(kept) :
               \E i \in 2..Len(q), room \in 0..PackLength : KeptFrom(Append(kept, d), j, q, i, room)
<1> DEFINE p == Append(kept, d)
<1>1. Len(p) = Len(kept) + 1 /\ \A j \in 1..Len(kept) : p[j] = kept[j] OBVIOUS
<1>2. \A j \in 1..Len(kept) : Ahead(p, j) = Ahead(kept, j) BY AheadLemma
<1> HIDE DEF p
<1>3. ASSUME NEW j \in 1..Len(kept)
      PROVE  \E i \in 2..Len(q), room \in 0..PackLength : KeptFrom(p, j, q, i, room)
  BY <1>1, <1>2 DEF KeptFrom
<1> QED BY <1>3 DEF p

\* A pack of a longer pool.
LEMMA KeptStep ==
    ASSUME NEW q \in Seq(Known), NEW d \in Known, KeptInv(q)
    PROVE  KeptInv(Append(q, d))
<1> DEFINE p == Append(q, d)
           f == Fill(q)
           h == Fill(p)
<1>1. /\ p \in Seq(Known) /\ Len(p) = Len(q) + 1 /\ p # <<>>
      /\ Len(q) \in Nat /\ (q # <<>> => p[1] = q[1]) /\ (q = <<>> => p[1] = d)
      /\ p[Len(q) + 1] = d
  OBVIOUS
<1>2. h = Offer(f, d) /\ Tokens(p) = Tokens(q) + Slots(d) /\ Tokens(q) \in Nat
  BY FillLemma, TokensLemma, TokensType
<1>3. /\ f \in FillType /\ f.kept \in Seq(Known) /\ f.room \in 0..PackLength
      /\ q # <<>> => f.room <= PackLength - Slots(q[1])
      /\ f.kept # <<>> => f.room < Slots(f.kept[1])
      /\ Tokens(f.kept) = Tokens(q) - PackLength + f.room
      /\ \A j \in 1..Len(f.kept) :
             \E i \in 2..Len(q), room \in 0..PackLength : KeptFrom(f.kept, j, q, i, room)
  BY DEF KeptInv, FillType
<1>4. PackLength \in Nat /\ Slots(d) \in 0..PackLength BY PackingAssumption, SlotsLemma
<1>5. h \in FillType BY <1>2, <1>3, OfferLemma
<1>6. \A j \in 1..Len(f.kept) :
          \E i \in 2..Len(p), room \in 0..PackLength : KeptFrom(f.kept, j, p, i, room)
  BY <1>3, KeptAppend
<1>7. q = <<>> => f.room = PackLength /\ f.kept = <<>> BY FillLemma DEF EmptyPack
<1> HIDE DEF f, h
<1>9. CASE Slots(d) <= f.room
  <2>1. h.kept = f.kept /\ h.room = f.room - Slots(d) BY <1>2, <1>3, <1>9, OfferLemma
  <2>2. h.room <= PackLength - Slots(p[1]) BY <1>1, <1>4, <1>7, <2>1, <1>3, SlotsLemma
  <2>3. h.kept # <<>> => h.room < Slots(h.kept[1]) BY <1>3, <2>1, SlotsLemma, <1>4
  <2>4. Tokens(h.kept) = Tokens(p) - PackLength + h.room BY <1>2, <1>3, <1>4, <2>1
  <2> QED BY <1>5, <1>6, <2>1, <2>2, <2>3, <2>4 DEF KeptInv, h
<1>10. CASE Slots(d) > f.room
  <2> DEFINE kept == Append(f.kept, Waiting(d))
  <2>1. h.kept = kept /\ h.room = f.room BY <1>2, <1>3, <1>10, OfferLemma
  <2>2. q # <<>> BY <1>4, <1>7, <1>10
  <2>3. /\ Waiting(d) \in Known /\ Slots(Waiting(d)) = Slots(d)
        /\ kept \in Seq(Known) /\ Len(kept) = Len(f.kept) + 1 /\ Len(f.kept) \in Nat
        /\ kept[Len(f.kept) + 1] = Waiting(d)
        /\ f.kept # <<>> => kept[1] = f.kept[1]
        /\ f.kept = <<>> => kept[1] = Waiting(d)
    BY <1>3, WaitingLemma
  <2>4. Ahead(kept, Len(f.kept) + 1) = Tokens(f.kept) /\ Tokens(kept) = Tokens(f.kept) + Slots(d)
    BY <1>3, <2>3, AheadLemma, TokensLemma
  <2>5. \A j \in 1..Len(f.kept) :
            \E i \in 2..Len(p), room \in 0..PackLength : KeptFrom(kept, j, p, i, room)
    BY <1>1, <1>3, <1>6, <2>3, KeptMore
  <2>6. Ahead(p, Len(q) + 1) = Tokens(q) BY AheadLemma
  <2> HIDE DEF kept, p
  <2>7. f.room <= PackLength - Slots(p[1]) BY <1>1, <1>3, <2>2
  <2>8. KeptFrom(kept, Len(f.kept) + 1, p, Len(q) + 1, f.room)
    BY <1>3, <2>3, <1>1, <2>4, <2>6, <2>7 DEF KeptFrom
  <2>9. Len(q) + 1 \in 2..Len(p) BY <1>1, <2>2
  <2>10. \A j \in 1..Len(kept) :
            \E i \in 2..Len(p), room \in 0..PackLength : KeptFrom(kept, j, p, i, room)
    <3> TAKE j \in 1..Len(kept)
    <3>1. j \in 1..Len(f.kept) \/ j = Len(f.kept) + 1 BY <2>3
    <3> QED BY <1>3, <2>5, <2>8, <2>9, <3>1
  <2>11. f.room < Slots(kept[1]) BY <1>3, <1>10, <2>3
  <2>12. Tokens(kept) = Tokens(p) - PackLength + f.room BY <1>2, <1>3, <1>4, <2>4
  <2> QED BY <1>5, <2>1, <2>7, <2>10, <2>11, <2>12 DEF KeptInv, h, p
<1> QED BY <1>3, <1>4, <1>9, <1>10

\* What is kept of a pool of documents, for every pool.
LEMMA KeptLemma == ASSUME NEW q \in Seq(Known) PROVE KeptInv(q)
<1> DEFINE P == {p \in Seq(Known) : KeptInv(p)}
<1>1. <<>> \in P BY FillLemma, TokensLemma, PackingAssumption, EmptyPackLemma DEF EmptyPack, KeptInv
<1>2. \A p \in Seq(Known), d \in Known : p \in P => Append(p, d) \in P
  <2> TAKE p \in Seq(Known), d \in Known
  <2> HAVE p \in P
  <2> QED BY KeptStep
<1> HIDE DEF P
<1>3. Seq(Known) \subseteq P BY <1>1, <1>2, SequenceInduction
<1> QED BY <1>3 DEF P

-----------------------------------------------------------------------------
(* How long a document waits in the pool.                                  *)

\* The tokens that may still stand in front of a document after k pairs of packs.
Budget(k) == (PoolFactor - k) * PackLength

\* What may still be in front of a document decreases by a pack length a pack.
LEMMA BudgetLemma ==
    /\ Budget(0) = PoolFactor * PackLength
    /\ \A k \in Nat : Budget(k) \in Int /\ Budget(k + 1) = Budget(k) - PackLength
    /\ \A k \in Nat : Budget(k) > 0 => k < PoolFactor
<1>1. PoolFactor \in Nat \ {0} /\ PackLength \in Nat \ {0} BY PackingAssumption
<1>3. ASSUME NEW k \in Nat PROVE Budget(k) \in Int /\ Budget(k + 1) = Budget(k) - PackLength
  BY <1>1 DEF Budget
<1>4. ASSUME NEW k \in Nat, Budget(k) > 0 PROVE k < PoolFactor BY <1>1, <1>3, <1>4 DEF Budget
<1> QED BY <1>3, <1>4, <1>1 DEF Budget

\* A document that was passed over 2k times has less than Budget(k) in front of
\* it; once more, and that holds without the head, which the next pack takes.
Bounded(q, i) ==
    \E k \in Nat :
        /\ k < PoolFactor
        /\ \/ q[i].waited = 2 * k /\ Ahead(q, i) < Budget(k)
           \/ q[i].waited = 2 * k + 1 /\ (i > 1 => Ahead(q, i) - Slots(q[1]) < Budget(k + 1))

\* No document of the pool has waited for more packs than is accounted for by what
\* was in front of it.
PoolInv(q) == q \in Seq(Known) /\ \A i \in 1..Len(q) : Bounded(q, i)

\* The empty pool.
LEMMA EmptyPoolLemma == PoolInv(<<>>)
<1> QED BY DEF PoolInv

\* A document enters a pool that is to be refilled.
LEMMA EnterLemma ==
    ASSUME NEW q, PoolInv(q), NeedsRefill(q), NEW d \in Known, d.waited = 0
    PROVE  PoolInv(Append(q, d))
<1> DEFINE p == Append(q, d)
<1>1. q \in Seq(Known) /\ \A i \in 1..Len(q) : Bounded(q, i) BY DEF PoolInv
<1>2. /\ p \in Seq(Known) /\ Len(p) = Len(q) + 1 /\ Len(q) \in Nat
      /\ \A i \in 1..Len(q) : p[i] = q[i]
      /\ p[Len(q) + 1] = d
  BY <1>1
<1>3. /\ \A i \in 1..Len(q) : Ahead(p, i) = Ahead(q, i)
      /\ Ahead(p, Len(q) + 1) = Tokens(q)
  BY <1>1, AheadLemma
<1> HIDE DEF p
<1>4. ASSUME NEW i \in 1..Len(q) PROVE Bounded(p, i)
  <2>1. p[i] = q[i] /\ p[1] = q[1] /\ Ahead(p, i) = Ahead(q, i) /\ Bounded(q, i) BY <1>1, <1>2, <1>3
  <2> QED BY <2>1 DEF Bounded
<1>5. Bounded(p, Len(q) + 1)
  <2>2. 0 \in Nat /\ 0 < PoolFactor /\ 2 * 0 = 0 BY PackingAssumption
  <2>3. p[Len(q) + 1].waited = 2 * 0 /\ Ahead(p, Len(q) + 1) < Budget(0)
    BY <1>2, <1>3, <2>2, BudgetLemma DEF NeedsRefill
  <2> QED BY <2>2, <2>3 DEF Bounded
<1> QED BY <1>2, <1>4, <1>5 DEF PoolInv, p

\* A pack is taken.
LEMMA TakeLemma ==
    ASSUME NEW q, PoolInv(q)
    PROVE  PoolInv(Fill(q).kept)
<1> DEFINE kept == Fill(q).kept
<1>1. q \in Seq(Known) /\ \A i \in 1..Len(q) : Bounded(q, i) BY DEF PoolInv
<1>2. /\ kept \in Seq(Known)
      /\ \A j \in 1..Len(kept) :
             \E i \in 2..Len(q), room \in 0..PackLength : KeptFrom(kept, j, q, i, room)
  BY <1>1, KeptLemma DEF KeptInv, FillType
<1>3. PackLength \in Nat \ {0} /\ PoolFactor \in Nat \ {0} BY PackingAssumption
<1> HIDE DEF kept
<1>4. ASSUME NEW j \in 1..Len(kept) PROVE Bounded(kept, j)
  <2>1. PICK i \in 2..Len(q), room \in 0..PackLength : KeptFrom(kept, j, q, i, room) BY <1>2
  <2>2. /\ i \in 1..Len(q) /\ q[i] \in Known /\ q[1] \in Known /\ i > 1
        /\ kept[1] \in Known /\ Len(kept) \in Nat
    BY <1>1, <1>2
  <2>3. /\ Ahead(q, i) \in Nat /\ Ahead(kept, j) \in Nat
        /\ Slots(q[1]) \in Nat /\ Slots(kept[1]) \in Nat
    <3>1. i \in 1..(Len(q) + 1) /\ j \in 1..(Len(kept) + 1) BY <1>1, <2>2
    <3> QED BY <1>1, <1>2, <2>2, <3>1, FrontLemma, SlotsLemma
  <2>4. kept[j].waited = q[i].waited + 1 BY <2>1, <2>2, WaitingLemma DEF KeptFrom
  <2> DEFINE before == Ahead(q, i)  after == Ahead(kept, j)
             first == Slots(q[1])   lead == Slots(kept[1])
  <2>5. /\ after = before - PackLength + room
        /\ room <= PackLength - first
        /\ j > 1 => room < lead
    BY <2>1 DEF KeptFrom
  <2>6. before \in Nat /\ after \in Nat /\ first \in Nat /\ lead \in Nat BY <2>3
  <2>7. PICK k \in Nat :
            /\ k < PoolFactor
            /\ \/ q[i].waited = 2 * k /\ before < Budget(k)
               \/ q[i].waited = 2 * k + 1 /\ (i > 1 => before - first < Budget(k + 1))
    BY <1>1, <2>2 DEF Bounded
  <2> HIDE DEF before, after, first, lead
  <2>8. Budget(k) \in Int /\ Budget(k + 1) = Budget(k) - PackLength /\ k + 1 \in Nat
        /\ Budget(k + 1) \in Int /\ (Budget(k + 1) > 0 => k + 1 < PoolFactor)
    <3>1. k + 1 \in Nat OBVIOUS
    <3> QED BY <3>1, BudgetLemma
  <2>9. CASE q[i].waited = 2 * k /\ before < Budget(k)
    <3>1. /\ before < Budget(k) /\ Budget(k) \in Int /\ PackLength \in Nat /\ room \in Nat
          /\ Budget(k + 1) = Budget(k) - PackLength
      BY <2>9, <1>3, <2>8
    <3>2. j > 1 => after - lead < Budget(k + 1)
      <4> DEFINE wide == Budget(k)  narrow == Budget(k + 1)
      <4>1. j > 1 => room < lead BY <2>5
      <4>2. after = before - PackLength + room BY <2>5
      <4>3. wide \in Int /\ before < wide /\ narrow = wide - PackLength BY <3>1
      <4> HIDE DEF wide, narrow
      <4>4. j > 1 => after - lead < narrow BY <3>1, <4>1, <4>2, <4>3, <2>6
      <4> QED BY <4>4 DEF narrow
    <3> QED BY <2>7, <3>2, <2>9, <2>4 DEF Bounded, after, lead
  <2>10. CASE q[i].waited = 2 * k + 1 /\ (i > 1 => before - first < Budget(k + 1))
    <3>2. after < Budget(k + 1) BY <2>2, <2>10, <1>3, <2>5, <2>6, <2>8
    <3> QED BY <2>8, <3>2, <2>10, <2>4, <2>6 DEF Bounded, after
  <2> QED BY <2>7, <2>9, <2>10
<1> QED BY <1>2, <1>4 DEF PoolInv, kept

\* No document is passed over as often as the bound says.
LEMMA WaitedLemma ==
    ASSUME NEW q, PoolInv(q), NEW i \in 1..Len(q)
    PROVE  q[i].waited < 2 * PoolFactor
<1>1. PICK k \in Nat : k < PoolFactor /\ (q[i].waited = 2 * k \/ q[i].waited = 2 * k + 1)
  BY DEF PoolInv, Bounded
<1> QED BY <1>1, PackingAssumption

-----------------------------------------------------------------------------
(* The k-th element of a set, and sums.                                    *)

\* The elements of a set up to a bound.
UpTo(T, i) == {j \in T : j <= i}

\* A finite set of numbers has a first, a second, ..., a last element.
LEMMA RankLemma ==
    ASSUME NEW T \in SUBSET Nat, NEW n \in Nat, \A x \in T : x <= n,
           NEW k \in 1..Cardinality(T)
    PROVE  \E i \in T : Cardinality(UpTo(T, i)) = k
<1> DEFINE M == {i \in Nat : Cardinality(UpTo(T, i)) >= k}
<1>1. IsFiniteSet(T) /\ Cardinality(T) \in Nat BY FS_BoundedSetOfNaturals, FS_CardinalityType
<1>2. \A i \in Nat : IsFiniteSet(UpTo(T, i)) /\ Cardinality(UpTo(T, i)) \in Nat
  BY <1>1, FS_Subset, FS_CardinalityType DEF UpTo
<1>3. UpTo(T, n) = T BY DEF UpTo
<1>4. n \in M BY <1>1, <1>3
<1>5. PICK i \in M : \A m \in M : i <= m BY <1>4, LeastElement
<1>6. i \in Nat /\ Cardinality(UpTo(T, i)) >= k OBVIOUS
<1> DEFINE less == UpTo(T, i) \ {i}
<1> HIDE DEF M
<1>8. IsFiniteSet(less) /\ Cardinality(less) \in Nat /\ Cardinality(less) < k
  <2>1. CASE i = 0
    <3>1. less = {}
      <4>1. \A j \in T : j <= 0 => j = 0 OBVIOUS
      <4> QED BY <2>1, <4>1 DEF UpTo
    <3> QED BY <3>1, FS_EmptySet
  <2>2. CASE i # 0
    <3>1. i - 1 \in Nat /\ i - 1 < i BY <1>6, <2>2
    <3>2. less = UpTo(T, i - 1)
      <4>1. \A j \in T : j <= i - 1 <=> j <= i /\ j # i BY <1>6
      <4> QED BY <4>1 DEF UpTo
    <3>3. Cardinality(UpTo(T, i - 1)) \in Nat /\ ~(Cardinality(UpTo(T, i - 1)) >= k)
      BY <1>2, <3>1, <1>5, <1>6 DEF M
    <3> QED BY <1>2, <3>1, <3>2, <3>3
  <2> QED BY <2>1, <2>2
<1>9. i \in T BY <1>6, <1>8 DEF UpTo
<1> HIDE DEF less
<1>12. Cardinality(less) = Cardinality(UpTo(T, i)) - 1
  <2>1. i \in UpTo(T, i) BY <1>6, <1>9 DEF UpTo
  <2>2. IsFiniteSet(UpTo(T, i)) BY <1>2, <1>6
  <2> QED BY <2>1, <2>2, FS_RemoveElement DEF less
<1> QED BY <1>9, <1>2, <1>6, <1>8, <1>12

\* The documents of a source, as they come from its rows.
NewDocuments(s) == {DocumentOf(s, i) : i \in 1..Len(Rows[s])}

\* A document that is loaded has the tokens of a row, and has not waited.
LEMMA NewDocumentsLemma ==
    ASSUME NEW s \in Source, NEW d \in NewDocuments(s)
    PROVE  /\ d \in Known /\ d.waited = 0
           /\ Slots(d) \in {Rows[s][i] : i \in 1..Len(Rows[s])}
<1>1. PICK i \in 1..Len(Rows[s]) : d = DocumentOf(s, i) BY DEF NewDocuments
<1> QED BY <1>1, PackingAssumption DEF Known, Document, Slots, DocumentOf

-----------------------------------------------------------------------------
\* A sum over the subsets of a domain: any element may come last.
IsSum(f, D, h) ==
    /\ f \in [SUBSET D -> Int]
    /\ f[{}] = 0
    /\ \A s \in SUBSET D : \A x \in s : f[s] = h[x] + f[s \ {x}]

\* Induction over the subsets of a finite set.
LEMMA SubsetInduction ==
    ASSUME NEW D, IsFiniteSet(D), NEW P, {} \in P,
           \A s \in SUBSET D : s # {} /\ (\A x \in s : s \ {x} \in P) => s \in P
    PROVE  SUBSET D \subseteq P
<1> DEFINE N == {n \in Nat : \A s \in SUBSET D : Cardinality(s) = n => s \in P}
<1>1. \A s \in SUBSET D : IsFiniteSet(s) /\ Cardinality(s) \in Nat BY FS_Subset, FS_CardinalityType
<1>2. 0 \in N BY <1>1, FS_EmptySet
<1>3. ASSUME NEW n \in Nat, n \in N PROVE n + 1 \in N
  <2> SUFFICES ASSUME NEW s \in SUBSET D, Cardinality(s) = n + 1 PROVE s \in P OBVIOUS
  <2>1. s # {}
    <3>1. n + 1 # 0 OBVIOUS
    <3> QED BY <3>1, FS_EmptySet
  <2>2. ASSUME NEW x \in s PROVE s \ {x} \in P BY <1>1, FS_RemoveElement, <1>3
  <2> QED BY <2>1, <2>2
<1> HIDE DEF N
<1>4. Nat \subseteq N BY <1>2, <1>3, NumberInduction
<1>5. ASSUME NEW s \in SUBSET D PROVE s \in P BY <1>1, <1>4 DEF N
<1> QED BY <1>5

\* The recursion of a fold over a function, with the element it picks.
IsTotalFold(f, D, h) ==
    f = [s \in SUBSET D |->
            IF s = {} THEN 0
            ELSE h[CHOOSE x \in s : TRUE] + f[s \ {CHOOSE x \in s : TRUE}]]

\* The recursion of the sum over a finite set has a solution.
LEMMA TotalFoldExists ==
    ASSUME NEW D, IsFiniteSet(D), NEW h \in [D -> Int]
    PROVE  \E f : IsTotalFold(f, D, h)
<1> DEFINE pick == [s \in SUBSET D |-> CHOOSE x \in s : TRUE]
           g == [p \in D \X Int |-> h[p[1]] + p[2]]
<1>1. g \in [D \X Int -> Int] OBVIOUS
<1>2. \A s \in SUBSET D : s # {} => pick[s] \in s OBVIOUS
<1>3. 0 \in Int OBVIOUS
<1> HIDE DEF g
<1>4. PICK f \in [SUBSET D -> Int] : Folds(f, D, 0, g, pick)
  <2> HIDE DEF pick
  <2> QED BY <1>1, <1>2, <1>3, FoldExists
<1>5. ASSUME NEW s \in SUBSET D, s # {}
      PROVE  f[s] = h[CHOOSE x \in s : TRUE] + f[s \ {CHOOSE x \in s : TRUE}]
  <2> DEFINE x == pick[s]
  <2>1. x = CHOOSE y \in s : TRUE OBVIOUS
  <2>2. x \in D /\ s \ {x} \in SUBSET D BY <1>2, <1>5
  <2>3. f[s] = g[<<x, f[s \ {x}]>>] BY <1>4, <1>5 DEF Folds
  <2> HIDE DEF x
  <2>4. f[s] = h[x] + f[s \ {x}] BY <2>2, <2>3 DEF g
  <2> QED BY <2>1, <2>4
<1>6. f[{}] = 0 BY <1>4 DEF Folds
<1>7. f = [s \in SUBSET D |->
              IF s = {} THEN 0
              ELSE h[CHOOSE x \in s : TRUE] + f[s \ {CHOOSE x \in s : TRUE}]]
  BY <1>5, <1>6
<1> QED BY <1>7 DEF IsTotalFold

\* Whatever it picks, the result is the sum.
Splits(f, h, s) == f[s] \in Int /\ \A x \in s : f[s] = h[x] + f[s \ {x}]

\* A solution of that recursion sums up: an element can be taken out of any part.
LEMMA TotalFoldSum ==
    ASSUME NEW D, IsFiniteSet(D), NEW h \in [D -> Int], NEW f, IsTotalFold(f, D, h)
    PROVE  IsSum(f, D, h)
<1> DEFINE P == {s \in SUBSET D : Splits(f, h, s)}
           T == {s \in SUBSET D : f[s] \in Int}
<1>1. f[{}] = 0 BY DEF IsTotalFold
<1>2. ASSUME NEW s \in SUBSET D, s # {}, \A x \in s : s \ {x} \in T
      PROVE  s \in T
  <2> DEFINE p == CHOOSE x \in s : TRUE
  <2>1. p \in s BY <1>2
  <2> HIDE DEF p
  <2>3. h[p] \in Int /\ f[s \ {p}] \in Int BY <1>2, <2>1
  <2> QED BY <2>3, <1>2 DEF IsTotalFold
<1>3. \A s \in SUBSET D : f[s] \in Int
  <2>1. {} \in T BY <1>1
  <2> HIDE DEF T
  <2>2. SUBSET D \subseteq T BY <1>2, <2>1, SubsetInduction
  <2> QED BY <2>2 DEF T
<1> HIDE DEF T
<1>4. {} \in P BY <1>1 DEF Splits
<1>5. ASSUME NEW s \in SUBSET D, s # {}, \A x \in s : s \ {x} \in P
      PROVE  s \in P
  <2> DEFINE p == CHOOSE x \in s : TRUE
  <2>1. p \in s BY <1>5
  <2>2. f[s] = h[p] + f[s \ {p}] BY <1>5 DEF IsTotalFold
  <2> HIDE DEF p
  <2>3. \A x \in s : Splits(f, h, s \ {x}) BY <1>5
  <2>4. \A x \in s : f[s \ {x}] \in Int /\ h[x] \in Int BY <2>3 DEF Splits
  <2>5. ASSUME NEW x \in s, x # p PROVE f[s] = h[x] + f[s \ {x}]
    <3> DEFINE a == s \ {x}
               b == s \ {p}
    <3>1. p \in a /\ x \in b /\ a \ {p} = b \ {x} BY <2>1, <2>5
    <3>2. Splits(f, h, a) /\ Splits(f, h, b) BY <2>1, <2>3
    <3>3. f[s] = h[p] + f[b] /\ f[a] \in Int /\ f[b] \in Int /\ h[p] \in Int /\ h[x] \in Int
      BY <2>1, <2>2, <2>4
    <3> HIDE DEF a, b
    <3> DEFINE rest == f[b \ {x}]
    <3>5. rest = f[a \ {p}] /\ rest \in Int BY <1>3, <3>1 DEF b
    <3> HIDE DEF rest
    <3> DEFINE hp == h[p]  hx == h[x]
               fs == f[s]  fa == f[a]  fb == f[b]
    <3>7. /\ fs = hp + fb /\ fa = hp + rest /\ fb = hx + rest
          /\ hp \in Int /\ hx \in Int
      BY <3>3, <3>5, <3>1, <3>2 DEF rest, Splits
    <3> HIDE DEF hp, hx, fs, fa, fb
    <3> QED BY <3>5, <3>7 DEF a, hx, fs, fa
  <2>6. \A x \in s : f[s] = h[x] + f[s \ {x}] BY <2>2, <2>5
  <2>7. Splits(f, h, s) BY <1>3, <2>6 DEF Splits
  <2> QED BY <2>7
<1> HIDE DEF P
<1>6. SUBSET D \subseteq P BY <1>4, <1>5, SubsetInduction
<1>7. \A s \in SUBSET D : f[s] \in Int /\ \A x \in s : f[s] = h[x] + f[s \ {x}] BY <1>6 DEF P, Splits
<1>8. f \in [SUBSET D -> Int] BY <1>7 DEF IsTotalFold
<1> QED BY <1>1, <1>7, <1>8 DEF IsSum

\* The total of a function is such a sum.
LEMMA TotalSum ==
    ASSUME NEW D, IsFiniteSet(D), NEW h \in [D -> Int]
    PROVE  \E f : IsSum(f, D, h) /\ Total(h) = f[D]
<1>1. DOMAIN h = D OBVIOUS
<1>2. \E f : f = (CHOOSE e : IsTotalFold(e, DOMAIN h, h)) /\ Total(h) = f[DOMAIN h]
  BY Zenon DEF Total, FoldFunction, FoldFunctionOnSet, MapThenFoldSet, IsTotalFold
<1>4. IsSum(CHOOSE e : IsTotalFold(e, D, h), D, h) BY TotalFoldSum, TotalFoldExists
<1> QED BY <1>1, <1>2, <1>4, Zenon

\* One function as another and a multiple of a third.
Combined(m, h, c, k, D) == \A x \in D : m[x] = h[x] + c * k[x]

\* The total of functions that are combined from others.
LEMMA TotalCombined ==
    ASSUME NEW D, IsFiniteSet(D), NEW c \in Int,
           NEW h \in [D -> Int], NEW k \in [D -> Int], NEW m \in [D -> Int],
           Combined(m, h, c, k, D)
    PROVE  /\ Total(m) = Total(h) + c * Total(k)
           /\ Total(h) \in Int /\ Total(k) \in Int
<1>1. PICK f : IsSum(f, D, h) /\ Total(h) = f[D] BY TotalSum
<1>2. PICK g : IsSum(g, D, k) /\ Total(k) = g[D] BY TotalSum
<1>3. PICK e : IsSum(e, D, m) /\ Total(m) = e[D] BY TotalSum
<1> DEFINE P == {s \in SUBSET D : e[s] = f[s] + c * g[s]}
<1>4. {} \in P BY <1>1, <1>2, <1>3 DEF IsSum
<1>5. ASSUME NEW s \in SUBSET D, s # {}, \A x \in s : s \ {x} \in P
      PROVE  s \in P
  <2>1. PICK x \in s : TRUE BY <1>5
  <2> DEFINE r == s \ {x}
  <2>2. e[s] = m[x] + e[r] /\ f[s] = h[x] + f[r] /\ g[s] = k[x] + g[r] BY <1>1, <1>2, <1>3 DEF IsSum
  <2>4. f[r] \in Int /\ g[r] \in Int /\ h[x] \in Int /\ k[x] \in Int /\ m[x] = h[x] + c * k[x]
    BY <1>1, <1>2, <1>3 DEF IsSum, Combined
  <2> DEFINE fr == f[r]  gr == g[r]  hx == h[x]  kx == k[x]
  <2>5. fr \in Int /\ gr \in Int /\ hx \in Int /\ kx \in Int BY <2>4
  <2>6. e[s] = (hx + c * kx) + (fr + c * gr) /\ f[s] = hx + fr /\ g[s] = kx + gr BY <2>2, <2>4, <1>5
  <2> HIDE DEF fr, gr, hx, kx
  <2> QED BY <2>6, <2>5
<1> HIDE DEF P
<1>6. SUBSET D \subseteq P BY <1>4, <1>5, SubsetInduction
<1> QED BY <1>1, <1>2, <1>3, <1>6 DEF P, IsSum

\* One element apart from the others.
LEMMA TotalSplit ==
    ASSUME NEW D, IsFiniteSet(D), NEW h \in [D -> Int], NEW x \in D,
           NEW k, k = [y \in D \ {x} |-> h[y]]
    PROVE  Total(h) = h[x] + Total(k) /\ Total(k) \in Int
<1> DEFINE E == D \ {x}
<1>1. IsFiniteSet(E) /\ k \in [E -> Int] BY FS_Subset
<1>2. PICK f : IsSum(f, D, h) /\ Total(h) = f[D] BY TotalSum
<1>3. PICK g : IsSum(g, E, k) /\ Total(k) = g[E] BY <1>1, TotalSum
<1> DEFINE P == {s \in SUBSET E : g[s] = f[s]}
<1>4. {} \in P BY <1>2, <1>3 DEF IsSum
<1>5. ASSUME NEW s \in SUBSET E, s # {}, \A y \in s : s \ {y} \in P
      PROVE  s \in P
  <2>1. PICK y \in s : TRUE BY <1>5
  <2>2. g[s] = k[y] + g[s \ {y}] /\ f[s] = h[y] + f[s \ {y}] /\ k[y] = h[y]
    <3>1. g[s] = k[y] + g[s \ {y}] BY <1>3 DEF IsSum
    <3>2. f[s] = h[y] + f[s \ {y}] BY <1>2 DEF IsSum
    <3>3. k[y] = h[y] OBVIOUS
    <3> QED BY <3>1, <3>2, <3>3
  <2> QED BY <2>2, <1>5
<1> HIDE DEF P
<1>6. SUBSET E \subseteq P
  <2> HIDE DEF E
  <2> QED BY <1>1, <1>4, <1>5, SubsetInduction
<1> QED BY <1>2, <1>3, <1>6 DEF P, IsSum

\* Larger terms, larger total.
LEMMA TotalMonotone ==
    ASSUME NEW D, IsFiniteSet(D), NEW h \in [D -> Int], NEW k \in [D -> Int],
           \A x \in D : h[x] <= k[x]
    PROVE  Total(h) <= Total(k) /\ Total(h) \in Int /\ Total(k) \in Int
<1>1. PICK f : IsSum(f, D, h) /\ Total(h) = f[D] BY TotalSum
<1>2. PICK g : IsSum(g, D, k) /\ Total(k) = g[D] BY TotalSum
<1> DEFINE P == {s \in SUBSET D : f[s] <= g[s]}
<1>3. {} \in P BY <1>1, <1>2 DEF IsSum
<1>4. ASSUME NEW s \in SUBSET D, s # {}, \A x \in s : s \ {x} \in P
      PROVE  s \in P
  <2>1. PICK x \in s : TRUE BY <1>4
  <2> DEFINE r == s \ {x}
             fr == f[r]  gr == g[r]  hx == h[x]  kx == k[x]
  <2>2. f[s] = hx + fr /\ g[s] = kx + gr /\ fr \in Int /\ gr \in Int BY <1>1, <1>2 DEF IsSum
  <2>3. fr <= gr /\ hx <= kx /\ hx \in Int /\ kx \in Int BY <1>4
  <2> HIDE DEF fr, gr, hx, kx
  <2> QED BY <2>2, <2>3
<1> HIDE DEF P
<1>5. SUBSET D \subseteq P BY <1>3, <1>4, SubsetInduction
<1> QED BY <1>1, <1>2, <1>5 DEF P, IsSum

\* Terms that are zero do not count.
LEMMA TotalZero ==
    ASSUME NEW D, IsFiniteSet(D), NEW h \in [D -> Int], NEW E \in SUBSET D,
           \A x \in D \ E : h[x] = 0, NEW k, k = [x \in E |-> h[x]]
    PROVE  Total(h) = Total(k) /\ Total(k) \in Int
<1>2. PICK f : IsSum(f, D, h) /\ Total(h) = f[D] BY TotalSum
<1>3. PICK g : IsSum(g, E, k) /\ Total(k) = g[E] BY TotalSum, FS_Subset
<1> DEFINE P == {s \in SUBSET D : f[s] = g[s \cap E]}
<1>4. {} \in P BY <1>2, <1>3 DEF IsSum
<1>5. ASSUME NEW s \in SUBSET D, s # {}, \A x \in s : s \ {x} \in P
      PROVE  s \in P
  <2>1. PICK x \in s : TRUE BY <1>5
  <2>2. f[s] = h[x] + f[s \ {x}] /\ f[s \ {x}] = g[(s \ {x}) \cap E] /\ f[s \ {x}] \in Int
    BY <1>2, <1>5 DEF IsSum
  <2>3. CASE x \in E
    <3>1. (s \ {x}) \cap E = (s \cap E) \ {x} /\ x \in s \cap E /\ s \cap E \in SUBSET E BY <2>3
    <3>2. g[s \cap E] = k[x] + g[(s \cap E) \ {x}] /\ k[x] = h[x] BY <1>3, <2>3, <3>1 DEF IsSum
    <3> QED BY <2>2, <3>1, <3>2
  <2>4. CASE x \notin E
    <3>1. (s \ {x}) \cap E = s \cap E /\ h[x] = 0 BY <2>4
    <3> QED BY <2>2, <3>1
  <2> QED BY <2>3, <2>4
<1> HIDE DEF P
<1>6. SUBSET D \subseteq P BY <1>4, <1>5, SubsetInduction
<1> QED BY <1>2, <1>3, <1>6 DEF P, IsSum

-----------------------------------------------------------------------------
(* What a source is owed.                                                  *)

\* The sum of nothing.
LEMMA TotalNothing ==
    ASSUME NEW D, IsFiniteSet(D), NEW h \in [D -> Int], \A x \in D : h[x] = 0
    PROVE  Total(h) = 0
<1> DEFINE k == [x \in {} |-> h[x]]
<1>1. Total(h) = Total(k)
  <2>1. {} \in SUBSET D /\ \A x \in D \ {} : h[x] = 0 OBVIOUS
  <2> QED BY <2>1, TotalZero
<1>2. IsFiniteSet({}) /\ k \in [{} -> Int] BY FS_EmptySet
<1> HIDE DEF k
<1>3. PICK f : IsSum(f, {}, k) /\ Total(k) = f[{}] BY <1>2, TotalSum
<1> QED BY <1>1, <1>3 DEF IsSum

\* Every source has a longest document.
LEMMA LongestLemma ==
    ASSUME NEW s \in Source
    PROVE  /\ LongestOf(s) \in Nat
           /\ \A i \in 1..Len(Rows[s]) : Rows[s][i] <= LongestOf(s)
<1>1. /\ Rows[s] \in Seq(0..PackLength) /\ Rows[s] # <<>> /\ PackLength \in Nat BY PackingAssumption
<1> DEFINE S == {Rows[s][i] : i \in 1..Len(Rows[s])}
           T == {PackLength - x : x \in S}
<1>2. S = ToSet(Rows[s]) /\ S # {} /\ \A x \in S : x \in 0..PackLength
  <2>1. Len(Rows[s]) \in Nat \ {0} /\ DOMAIN Rows[s] = 1..Len(Rows[s]) BY <1>1
  <2>2. S = ToSet(Rows[s]) BY <2>1 DEF ToSet
  <2>3. 1 \in 1..Len(Rows[s]) /\ \A i \in 1..Len(Rows[s]) : Rows[s][i] \in 0..PackLength BY <1>1, <2>1
  <2> QED BY <2>2, <2>3
<1> HIDE DEF S
<1>3. T \in SUBSET Nat /\ T # {} BY <1>1, <1>2
<1>4. PICK m \in T : \A y \in T : m <= y BY <1>3, LeastElement
<1>5. PICK x \in S : m = PackLength - x BY <1>4
<1>6. \A y \in S : y <= x
  <2> TAKE y \in S
  <2>1. PackLength - x <= PackLength - y BY <1>4, <1>5
  <2> QED BY <1>1, <1>2, <2>1
<1>8. \A i \in 1..Len(Rows[s]) : Rows[s][i] \in S BY DEF S
<1> QED BY <1>2, <1>8, <1>6 DEF LongestOf

\* A largest value exists, and of those that have it the one with the smallest name.
LEMMA LargestExists ==
    ASSUME NEW D, IsFiniteSet(D), D \subseteq Nat, NEW d \in [D -> Int], D # {}
    PROVE  \E s \in D : \A t \in D : d[s] > d[t] \/ (d[s] = d[t] /\ s <= t)
<1> DEFINE Largest(A, s) == \A t \in A : d[s] > d[t] \/ (d[s] = d[t] /\ s <= t)
           P == {A \in SUBSET D : A = {} \/ \E s \in A : Largest(A, s)}
<1>1. {} \in P OBVIOUS
<1>2. ASSUME NEW A \in SUBSET D, A # {}, \A x \in A : A \ {x} \in P
      PROVE  A \in P
  <2>1. PICK x \in A : TRUE BY <1>2
  <2>2. CASE A \ {x} = {} BY <2>2
  <2>3. CASE A \ {x} # {}
    <3>1. PICK s \in A \ {x} : Largest(A \ {x}, s) BY <1>2, <2>3
    <3>2. d[s] \in Int /\ d[x] \in Int /\ s \in Nat /\ x \in Nat /\ \A t \in A : d[t] \in Int /\ t \in Nat
      OBVIOUS
    <3>3. CASE d[s] > d[x] \/ (d[s] = d[x] /\ s <= x) BY <3>1, <3>3
    <3>4. CASE ~(d[s] > d[x] \/ (d[s] = d[x] /\ s <= x))
      <4>2. Largest(A, x)
        <5> TAKE t \in A
        <5>1. CASE t = x BY <3>2, <5>1
        <5>2. CASE t # x BY <3>1, <5>2, <3>2, <3>4
        <5> QED BY <5>1, <5>2
      <4> QED BY <4>2
    <3> QED BY <3>3, <3>4
  <2> QED BY <2>2, <2>3
<1> HIDE DEF P
<1>3. SUBSET D \subseteq P BY <1>1, <1>2, SubsetInduction
<1> QED BY <1>3 DEF P

\* What a source is owed, over all sources.
Balance(loaded, target) == [s \in Source |-> Deficit(loaded, target, s)]

\* Tokens counted per source.
Counts == [Source -> Nat]

\* What the sources are owed are integers.
LEMMA BalanceType ==
    ASSUME NEW loaded \in Counts, NEW target \in Counts
    PROVE  Balance(loaded, target) \in [Source -> Int]
BY PackingAssumption DEF Balance, Deficit, Counts

\* The weights of a step share out all of what enters.
LEMMA WeightLemma ==
    ASSUME NEW step \in 0..(TotalSteps - 1)
    PROVE  /\ Weight[step] \in [Source -> 0..Scale] /\ Weight[step] \in [Source -> Int]
           /\ Total(Weight[step]) = Scale
           /\ \A s \in Source : Weight[step][s] \in Nat
           /\ Active(step) # {}
<1>1. /\ Weight[step] \in [Source -> 0..Scale] /\ Total(Weight[step]) = Scale
      /\ Scale \in Nat \ {0} /\ IsFiniteSet(Source)
  BY PackingAssumption
<1>2. Weight[step] \in [Source -> Int] /\ \A s \in Source : Weight[step][s] \in Nat BY <1>1
<1>3. ASSUME Active(step) = {} PROVE FALSE BY <1>2, <1>3, <1>1, TotalNothing DEF Active
<1> QED BY <1>1, <1>2, <1>3

\* The source that is picked is active, and owed the most.
LEMMA PickLemma ==
    ASSUME NEW step \in 0..(TotalSteps - 1), NEW loaded \in Counts, NEW target \in Counts
    PROVE  LET s == PickSource(step, loaded, target) IN
           /\ s \in Active(step)
           /\ \A t \in Active(step) : Deficit(loaded, target, t) <= Deficit(loaded, target, s)
<1> DEFINE A == Active(step)
           d == [s \in A |-> Deficit(loaded, target, s)]
           best(s) == \A t \in A : Deficit(loaded, target, s) > Deficit(loaded, target, t)
                          \/ (Deficit(loaded, target, s) = Deficit(loaded, target, t) /\ s <= t)
<1>1. A \subseteq Source /\ IsFiniteSet(A) /\ A \subseteq Nat /\ A # {}
  <2> QED BY FS_Subset, WeightLemma, PackingAssumption DEF Active
<1>2. \A s \in A : Deficit(loaded, target, s) \in Int BY <1>1, BalanceType DEF Balance
<1> HIDE DEF A
<1>3. d \in [A -> Int] BY <1>2
<1>4. \E s \in A : best(s)
  <2>1. PICK s \in A : \A t \in A : d[s] > d[t] \/ (d[s] = d[t] /\ s <= t) BY <1>1, <1>3, LargestExists
  <2> QED BY <2>1
<1> QED BY <1>2, <1>4 DEF A, PickSource

\* A function that is not 0 in one place only.
LEMMA TotalOne ==
    ASSUME NEW D, IsFiniteSet(D), NEW x \in D, NEW v \in Int,
           NEW k, k = [y \in D |-> IF y = x THEN v ELSE 0]
    PROVE  Total(k) = v
<1> DEFINE E == D \ {x}
           rest == [y \in E |-> k[y]]
<1>1. k \in [D -> Int] /\ k[x] = v OBVIOUS
<1>2. IsFiniteSet(E) /\ rest \in [E -> Int] /\ \A y \in E : rest[y] = 0 BY <1>1, FS_Subset
<1>3. Total(k) = k[x] + Total(rest) BY <1>1, TotalSplit
<1> HIDE DEF E, rest
<1> QED BY <1>1, <1>3, <1>2, TotalNothing

\* What holds of the balance while the weights are those of step 0.
Shares(loaded, target) ==
    /\ Total(Balance(loaded, target)) = 0
    /\ \A s \in Active(0) : Deficit(loaded, target, s) >= -(Scale * LongestOf(s))
    /\ \A s \in Source \ Active(0) : Deficit(loaded, target, s) = 0

\* Of numbers that sum up to 0, the largest is not negative.
LEMMA LargestLemma ==
    ASSUME NEW D, IsFiniteSet(D), NEW b \in [D -> Int], Total(b) = 0, NEW A \in SUBSET D,
           NEW s \in A, \A t \in A : b[t] <= b[s], \A t \in D \ A : b[t] = 0
    PROVE  b[s] >= 0
<1> SUFFICES ASSUME b[s] < 0 PROVE FALSE OBVIOUS
<1> DEFINE k == [t \in D |-> IF t = s THEN b[s] ELSE 0]
<1>1. s \in D /\ b[s] \in Int OBVIOUS
<1>2. k \in [D -> Int] /\ \A t \in D : b[t] <= k[t] BY <1>1
<1>3. Total(k) = b[s] BY <1>1, TotalOne
<1> HIDE DEF k
<1> QED BY <1>1, <1>3, <1>2, TotalMonotone

\* What a document of n slots of source s adds to what each source is owed.
Gained(step, s, n) ==
    [u \in Source |-> n * Weight[step][u] - (IF u = s THEN Scale * n ELSE 0)]

\* A document of n slots of source s enters.
Enters(e, t, loaded, target, step, s, n) ==
    e = Loaded(loaded, s, n) /\ t = Earned(target, step, n)

\* How the balance changes when a document of n slots enters.
LEMMA EnteredLemma ==
    ASSUME NEW step \in 0..(TotalSteps - 1), NEW loaded \in Counts, NEW target \in Counts,
           NEW s \in Source, NEW n \in Nat,
           NEW e, NEW t, Enters(e, t, loaded, target, step, s, n)
    PROVE  /\ e \in Counts /\ t \in Counts
           /\ \A u \in Source :
                 Deficit(e, t, u) = Deficit(loaded, target, u) + Gained(step, s, n)[u]
<1>1. \A u \in Source : Weight[step][u] \in Nat /\ loaded[u] \in Nat /\ target[u] \in Nat
  BY WeightLemma DEF Counts
<1>2. Scale \in Nat BY PackingAssumption
<1>3. e = [loaded EXCEPT ![s] = @ + n] /\ t = [u \in Source |-> target[u] + Weight[step][u] * n]
  BY DEF Loaded, Earned, Enters
<1>4. e \in Counts /\ \A u \in Source : e[u] = IF u = s THEN loaded[u] + n ELSE loaded[u]
  BY <1>1, <1>3 DEF Counts
<1>5. t \in Counts /\ \A u \in Source : t[u] = target[u] + Weight[step][u] * n BY <1>1, <1>3 DEF Counts
<1>6. ASSUME NEW u \in Source
      PROVE  Deficit(e, t, u) =
                Deficit(loaded, target, u) + n * Weight[step][u] - (IF u = s THEN Scale * n ELSE 0)
  BY <1>1, <1>4, <1>5, <1>2 DEF Deficit
<1>7. ASSUME NEW u \in Source
      PROVE  Deficit(e, t, u) = Deficit(loaded, target, u) + Gained(step, s, n)[u]
  BY <1>6, <1>1, <1>2, BalanceType DEF Gained, Balance
<1> QED BY <1>4, <1>5, <1>7

\* The shares stay what they are when the picked source's document enters.
LEMMA SharesLemma ==
    ASSUME NEW step \in 0..(TotalSteps - 1), NEW loaded \in Counts, NEW target \in Counts,
           Weight[step] = Weight[0], Shares(loaded, target),
           NEW n \in Nat, NEW s, s = PickSource(step, loaded, target), n <= LongestOf(s),
           NEW e, NEW t, Enters(e, t, loaded, target, step, s, n)
    PROVE  Shares(e, t)
<1> DEFINE b == Balance(loaded, target)
           c == Balance(e, t)
           w == Weight[step]
           mid == [u \in Source |-> b[u] + n * w[u]]
           drop == [u \in Source |-> IF u = s THEN 1 ELSE 0]
<1>1. /\ IsFiniteSet(Source) /\ Scale \in Nat
      /\ w \in [Source -> Int] /\ Total(w) = Scale /\ \A u \in Source : w[u] \in Nat
  BY WeightLemma, PackingAssumption
<1>2. Active(0) = Active(step) BY DEF Active
<1>3. /\ s \in Active(0) /\ s \in Source /\ Active(0) \in SUBSET Source
      /\ \A u \in Active(0) : Deficit(loaded, target, u) <= Deficit(loaded, target, s)
  BY <1>2, PickLemma DEF Active
<1>4. /\ b \in [Source -> Int] /\ Total(b) = 0
      /\ \A u \in Source : b[u] = Deficit(loaded, target, u)
      /\ \A u \in Active(0) : b[u] >= -(Scale * LongestOf(u))
      /\ \A u \in Source \ Active(0) : b[u] = 0
  BY <1>3, BalanceType DEF Shares, Balance
<1>5. /\ e \in Counts /\ t \in Counts
      /\ \A u \in Source : Deficit(e, t, u) = Deficit(loaded, target, u) + Gained(step, s, n)[u]
  BY <1>3, EnteredLemma
<1> HIDE DEF w
<1>6. /\ c \in [Source -> Int]
      /\ \A u \in Source : c[u] = Deficit(e, t, u)
  BY <1>5, BalanceType DEF Balance
<1> HIDE DEF b, c
<1>7. \A u \in Source : c[u] = b[u] + n * w[u] - (IF u = s THEN Scale * n ELSE 0)
  <2> TAKE u \in Source
  <2> DEFINE g == n * w[u]
             h == IF u = s THEN Scale * n ELSE 0
  <2>2. Gained(step, s, n)[u] = g - h BY DEF Gained, w
  <2> HIDE DEF g, h
  <2>4. c[u] = b[u] + g - h BY <2>2, <1>4, <1>5, <1>6, <1>1
  <2> QED BY <2>4 DEF g, h
<1>8. b[s] >= 0 BY <1>3, <1>4, <1>1, LargestLemma
<1>9. \A u \in Source : b[u] \in Int /\ w[u] \in Nat /\ n * w[u] \in Nat BY <1>1, <1>4
<1>10. Total(c) = 0
  <2>1. mid \in [Source -> Int] /\ \A u \in Source : mid[u] = b[u] + n * w[u] BY <1>9
  <2>2. drop \in [Source -> Int] /\ Total(drop) = 1 BY <1>1, <1>3, TotalOne
  <2>3. \A u \in Source : c[u] = mid[u] + (-(Scale * n)) * drop[u]
    <3> TAKE u \in Source
    <3>1. Scale * n \in Int BY <1>1
    <3>2. CASE u = s
      <4>1. drop[u] = 1 BY <3>2
      <4> HIDE DEF mid, drop
      <4> QED BY <3>1, <3>2, <4>1, <2>1, <1>7, <1>9
    <3>3. CASE u # s BY <3>3, <3>1, <2>1, <1>7, <1>9
    <3> QED BY <3>2, <3>3
  <2> HIDE DEF mid, drop
  <2>4. Total(mid) = Total(b) + n * Total(w)
    <3>1. IsFiniteSet(Source) /\ b \in [Source -> Int] /\ w \in [Source -> Int]
          /\ mid \in [Source -> Int]
      BY <1>1, <1>4, <2>1
    <3> QED BY <3>1, TotalCombined, <2>1 DEF Combined
  <2> DEFINE v == -(Scale * n)
  <2>5. v \in Int /\ v = -(Scale * n) BY <1>1
  <2>6. Combined(c, mid, v, drop, Source) BY <2>3 DEF Combined
  <2> HIDE DEF v
  <2>7. Total(c) = Total(mid) + v * Total(drop)
    <3>1. IsFiniteSet(Source) /\ c \in [Source -> Int] /\ drop \in [Source -> Int]
          /\ mid \in [Source -> Int] /\ v \in Int
      BY <1>1, <1>6, <2>1, <2>2, <2>5
    <3> QED BY <3>1, <2>6, TotalCombined
  <2> QED BY <1>1, <1>4, <2>2, <2>4, <2>5, <2>7
<1>11. \A u \in Active(0) : c[u] >= -(Scale * LongestOf(u))
  <2> TAKE u \in Active(0)
  <2>1. u \in Source /\ LongestOf(u) \in Nat BY <1>3, LongestLemma
  <2>2. CASE u = s
    <3>1. Scale * n <= Scale * LongestOf(s) /\ Scale * n \in Int /\ Scale * LongestOf(s) \in Int
      BY <1>1, <2>1, <2>2
    <3> QED BY <1>8, <1>9, <2>1, <2>2, <3>1, <1>7
  <2>3. CASE u # s BY <1>7, <2>1, <2>3, <1>1, <1>4, <1>9
  <2> QED BY <2>2, <2>3
<1>12. \A u \in Source \ Active(0) : c[u] = 0
  <2> TAKE u \in Source \ Active(0)
  <2> QED BY <1>4, <1>7, <1>3, <1>2, <1>9 DEF Active, w
<1> QED BY <1>3, <1>6, <1>10, <1>11, <1>12 DEF Shares, c

\* A run starts with nothing owed.
LEMMA FreshSharesLemma ==
    ASSUME NEW zero, zero = [s \in Source |-> 0]
    PROVE  Shares(zero, zero) /\ zero \in Counts
<1>2. Scale \in Nat /\ IsFiniteSet(Source) BY PackingAssumption
<1>5. \A s \in Active(0) : 0 >= -(Scale * LongestOf(s))
  <2> TAKE s \in Active(0)
  <2> QED BY <1>2, LongestLemma DEF Active
<1> QED BY <1>5, <1>2, TotalNothing DEF Shares, Active, Counts, Balance, Deficit

\* What a source is owed at most follows from what the others were given.
LEMMA UpperLemma ==
    ASSUME NEW loaded \in Counts, NEW target \in Counts, Shares(loaded, target),
           NEW s \in Active(0)
    PROVE  Deficit(loaded, target, s) <=
              Scale * Total([t \in Active(0) \ {s} |-> LongestOf(t)])
<1> DEFINE A == Active(0)
           b == Balance(loaded, target)
           onA == [u \in A |-> b[u]]
           E == A \ {s}
           rest == [u \in E |-> onA[u]]
           long == [u \in E |-> LongestOf(u)]
           v == -Scale
           low == [u \in E |-> v * long[u]]
           zero == [u \in E |-> 0]
<1>1. /\ IsFiniteSet(Source) /\ Scale \in Nat /\ A \in SUBSET Source
      /\ b \in [Source -> Int]
  BY PackingAssumption, BalanceType DEF Active
<1>2. /\ IsFiniteSet(A) /\ IsFiniteSet(E) /\ E \in SUBSET Source /\ s \in A
      /\ \A u \in E : u \in A
  BY <1>1, FS_Subset
<1>3. /\ Total(b) = 0 /\ \A u \in Source \ A : b[u] = 0
      /\ \A u \in A : b[u] >= -(Scale * LongestOf(u))
      /\ b[s] = Deficit(loaded, target, s)
  BY <1>1 DEF Shares, Balance
<1> HIDE DEF A, b
<1>4. \A u \in A : b[u] \in Int BY <1>1
<1>5. onA \in [A -> Int] /\ onA[s] = b[s] BY <1>2, <1>4
<1>6. Total(onA) = 0 BY <1>1, <1>3, TotalZero
<1>7. rest \in [E -> Int] /\ \A u \in E : rest[u] = b[u] BY <1>2, <1>4
<1>8. Total(onA) = onA[s] + Total(rest) /\ Total(rest) \in Int BY <1>2, <1>5, TotalSplit
<1> HIDE DEF onA
<1>9. long \in [E -> Int] /\ \A u \in E : long[u] = LongestOf(u) /\ LongestOf(u) \in Nat BY <1>2, LongestLemma
<1>10. v \in Int BY <1>1
<1>11. low \in [E -> Int] /\ \A u \in E : low[u] = v * long[u] BY <1>9, <1>10
<1>12. zero \in [E -> Int] /\ Total(zero) = 0 BY <1>2, TotalNothing
<1>13. Combined(low, zero, v, long, E) BY <1>9, <1>10, <1>11 DEF Combined
<1>14. \A u \in E : low[u] <= rest[u]
  <2> TAKE u \in E
  <2> QED BY <1>2, <1>3, <1>7, <1>1, <1>9, <1>11
<1> HIDE DEF E, rest, long, low, zero
<1>15. Total(low) <= Total(rest) /\ Total(low) \in Int BY <1>2, <1>7, <1>11, <1>14, TotalMonotone
<1> HIDE DEF v
<1>16. Total(low) = Total(zero) + v * Total(long) /\ Total(long) \in Int
  BY <1>2, <1>9, <1>10, <1>11, <1>12, <1>13, TotalCombined
<1>17. v * Total(long) = -(Scale * Total(long)) /\ Scale * Total(long) \in Int BY <1>1, <1>16 DEF v
<1>18. b[s] \in Int BY <1>1, <1>2
<1>19. b[s] <= Scale * Total(long) BY <1>5, <1>6, <1>8, <1>12, <1>15, <1>16, <1>17, <1>18
<1> QED BY <1>3, <1>19 DEF long, E, A

-----------------------------------------------------------------------------
(* The loaders.                                                            *)

Batches == [from : Nat, to : Nat, lost : BOOLEAN]

\* The row the reader of a source is at.
Position(l) == IF l.queue = <<>> THEN l.next ELSE l.queue[1].from

Gapless(q, next) ==
    /\ \A k \in 1..Len(q) : q[k].from <= q[k].to
    /\ \A k \in 1..(Len(q) - 1) : q[k + 1].from = q[k].to + 1
    /\ q # <<>> => q[Len(q)].to + 1 = next

\* The rows counted, against those between the offset and the reader.
Accounted(l, range) ==
    /\ l.read + range + 1 <= Position(l) + l.expected
    /\ l.gap => l.read + range + 1 < Position(l) + l.expected

Open(l, range) ==
    /\ l.open
    /\ Gapless(l.queue, l.next)
    /\ l.next <= range + 1
    /\ l.ended => l.next = range + 1
    /\ Accounted(l, range)

Unopened(l) == ~l.open /\ ~l.ended

LoaderInv(l, range) == l \in LoaderType /\ (Open(l, range) \/ Unopened(l))

\* What is restored from a state are the rows consumed.
Restorable(m) == "consumed" \in DOMAIN m /\ m.consumed \in [Source -> Nat]

IndInv ==
    /\ loaders \in [Source -> LoaderType]
    /\ \A s \in Source : LoaderInv(loaders[s], Len(Rows[s]))
    /\ pending \in [Source -> Nat]
    /\ Restorable(main)
    /\ \A c \in ckpts : Restorable(c)
    /\ LossFailsItsAttempt

\* Every source has a row.
LEMMA RangeLemma == ASSUME NEW s \in Source PROVE Len(Rows[s]) \in Nat \ {0}
<1> QED BY PackingAssumption

\* The number of samples of a batch is a number.
LEMMA SamplesLemma ==
    ASSUME NEW s, NEW b \in Batches
    PROVE  Len(Samples(s, b)) \in Nat
<1> DEFINE usable == {i \in b.from..b.to : Rows[s][i] > 0}
           n == Cardinality(usable)
           doc(k) == DocumentOf(s, CHOOSE i \in usable : Cardinality({j \in usable : j <= i}) = k)
<1>1. IsFiniteSet(b.from..b.to) BY FS_Interval DEF Batches
<1>2. IsFiniteSet(usable) BY <1>1, FS_Subset
<1>3. n \in Nat BY <1>2, FS_CardinalityType
<1>4. Samples(s, b) = [k \in 1..n |-> doc(k)] BY DEF Samples
<1> HIDE DEF n, doc
<1> QED BY <1>3, <1>4

-----------------------------------------------------------------------------
(* The steps of a loader.                                                  *)

\* An iterator that was opened anew has counted nothing and skipped the offset.
LEMMA OpenedLemma ==
    ASSUME NEW s \in Source, NEW offset \in 0..(Len(Rows[s]) - 1)
    PROVE  LoaderInv(Opened(s, offset), Len(Rows[s]))
<1> DEFINE range == Len(Rows[s])
           l == Opened(s, offset)
           fromStart == offset = 0
<1>1. range \in Nat \ {0} BY RangeLemma
<1>3. fromStart \in BOOLEAN OBVIOUS
<1>4. l = [Closed EXCEPT !.open = TRUE, !.next = offset + 1, !.full = fromStart,
                          !.expected = range - offset]
  BY DEF Opened
<1> HIDE DEF fromStart, l, range
<1>5. l = [open |-> TRUE, next |-> offset + 1, queue |-> <<>>, ended |-> FALSE,
           full |-> fromStart, expected |-> range - offset,
           read |-> 0, samples |-> 0, gap |-> FALSE]
  BY <1>4 DEF Closed
<1>6. offset \in Nat /\ range - offset \in Nat /\ offset < range BY <1>1 DEF range
<1>7. l \in LoaderType BY <1>5, <1>6, <1>3 DEF LoaderType, Batches
<1>10. Accounted(l, range) BY <1>1, <1>5, <1>6 DEF Accounted, Position
<1> QED BY <1>1, <1>5, <1>6, <1>7, <1>10 DEF LoaderInv, Open, l, range, Gapless

\* A worker's batch continues the queue.
LEMMA HandOverLemma ==
    ASSUME NEW l, NEW range \in Nat, LoaderInv(l, range), l.open, ~l.ended,
           NEW b \in Batches, b.from = l.next, b.from <= b.to, b.to <= range
    PROVE  LoaderInv([[l EXCEPT !.queue = Append(@, b)] EXCEPT !.next = b.to + 1], range)
<1> DEFINE q == Append(l.queue, b)
           m == [[l EXCEPT !.queue = Append(@, b)] EXCEPT !.next = b.to + 1]
<1>1. l \in LoaderType /\ Open(l, range) BY DEF LoaderInv, Unopened
<1>2. l.queue \in Seq(Batches) /\ l.next \in Nat BY <1>1 DEF LoaderType, Batches
<1>3. /\ q \in Seq(Batches)
      /\ Len(q) = Len(l.queue) + 1
      /\ \A k \in 1..Len(l.queue) : q[k] = l.queue[k]
      /\ q[Len(l.queue) + 1] = b
      /\ q # <<>>
      /\ Len(l.queue) \in Nat
  BY <1>2
<1>4. b.to + 1 \in Nat BY DEF Batches
<1>5. /\ m \in LoaderType
      /\ m.queue = q /\ m.next = b.to + 1 /\ m.open = l.open /\ m.ended = l.ended
      /\ m.read = l.read /\ m.expected = l.expected /\ m.gap = l.gap
  BY <1>1, <1>3, <1>4 DEF LoaderType, Batches
<1>6. Gapless(q, b.to + 1) BY <1>1, <1>3, <1>2 DEF Open, Gapless
<1>9. m.next <= range + 1 BY <1>5 DEF Batches
<1> QED BY <1>1, <1>5, <1>6, <1>9, <1>3, <1>2 DEF LoaderInv, Open, Accounted, Position

\* Without the batch at its head a queue is still gapless.
LEMMA TailLemma ==
    ASSUME NEW q \in Seq(Batches), NEW next \in Nat, Gapless(q, next), q # <<>>
    PROVE  /\ Tail(q) \in Seq(Batches)
           /\ Gapless(Tail(q), next)
           /\ (IF Tail(q) = <<>> THEN next ELSE Tail(q)[1].from) = q[1].to + 1
           /\ q[1].from <= q[1].to
           /\ q[1] \in Batches
<1>1. /\ Tail(q) \in Seq(Batches)
      /\ Len(Tail(q)) = Len(q) - 1
      /\ \A k \in 1..(Len(q) - 1) : Tail(q)[k] = q[k + 1]
      /\ Len(q) \in Nat \ {0}
      /\ q[1] \in Batches
  OBVIOUS
<1>2. \A k \in 1..Len(Tail(q)) : Tail(q)[k].from <= Tail(q)[k].to BY <1>1 DEF Gapless
<1>3. ASSUME NEW k \in 1..(Len(Tail(q)) - 1)
      PROVE  Tail(q)[k + 1].from = Tail(q)[k].to + 1
  BY <1>1 DEF Gapless
<1>4. CASE Tail(q) = <<>>
  <2> DEFINE t == Tail(q)
  <2>1. t = <<>> /\ Len(t) = Len(q) - 1 /\ Len(q) \in Nat BY <1>1, <1>4
  <2> HIDE DEF t
  <2>3. Len(q) = 1 BY <2>1
  <2> QED BY <1>1, <1>2, <1>3, <1>4, <2>3 DEF Gapless
<1>5. CASE Tail(q) # <<>> BY <1>1, <1>5, <1>2, <1>3 DEF Gapless
<1> QED BY <1>4, <1>5

\* The batch at the head is counted ...
LEMMA PullLemma ==
    ASSUME NEW l, NEW range \in Nat, LoaderInv(l, range), l.open, l.queue # <<>>,
           NEW s, NEW n \in Nat
    PROVE  LET b == l.queue[1]
               m == [[[l EXCEPT !.queue = Tail(@)]
                        EXCEPT !.read = @ + RowsRead(s, b)]
                        EXCEPT !.samples = @ + n]
           IN LoaderInv(m, range) /\ RowsRead(s, b) \in Nat
<1> DEFINE b == l.queue[1]
           m == [[[l EXCEPT !.queue = Tail(@)]
                        EXCEPT !.read = @ + RowsRead(s, b)]
                        EXCEPT !.samples = @ + n]
<1>1. l \in LoaderType /\ Open(l, range) BY DEF LoaderInv, Unopened
<1>2. l.queue \in Seq(Batches) /\ l.next \in Nat /\ l.read \in Nat /\ l.samples \in Nat /\ l.expected \in Nat
  BY <1>1 DEF LoaderType, Batches
<1>3. Gapless(l.queue, l.next) BY <1>1 DEF Open
<1>4. /\ Tail(l.queue) \in Seq(Batches)
      /\ Gapless(Tail(l.queue), l.next)
      /\ (IF Tail(l.queue) = <<>> THEN l.next ELSE Tail(l.queue)[1].from) = b.to + 1
      /\ b.from <= b.to
      /\ b \in Batches
  BY <1>2, <1>3, TailLemma
<1>5. b.from \in Nat /\ b.to \in Nat BY <1>4 DEF Batches
<1> DEFINE rows == RowsRead(s, b)
<1> HIDE DEF b
<1>7. rows = b.to - b.from + 1 /\ rows \in Nat BY <1>4, <1>5 DEF RowsRead
<1> HIDE DEF rows
<1>8. l.read + rows \in Nat /\ l.samples + n \in Nat BY <1>2, <1>7
<1>9. /\ m \in LoaderType
      /\ m.queue = Tail(l.queue) /\ m.next = l.next /\ m.open = l.open /\ m.ended = l.ended
      /\ m.read = l.read + rows /\ m.expected = l.expected /\ m.gap = l.gap
  BY <1>1, <1>4, <1>8 DEF LoaderType, Batches, rows
<1>11. Position(m) = b.to + 1 BY <1>4, <1>9 DEF Position
<1>12. Accounted(m, range)
  <2> DEFINE from == b.from  to == b.to
             read == l.read  expected == l.expected
  <2>2. /\ read + range + 1 <= from + expected
        /\ l.gap => read + range + 1 < from + expected
    BY <1>1 DEF Accounted, Position, b, Open
  <2>3. from \in Nat /\ to \in Nat /\ read \in Nat /\ expected \in Nat /\ rows = to - from + 1
    BY <1>2, <1>5, <1>7
  <2> HIDE DEF m, from, to, read, expected
  <2>4. /\ (read + rows) + range + 1 <= (to + 1) + expected
        /\ l.gap => (read + rows) + range + 1 < (to + 1) + expected
    BY <2>2, <2>3
  <2> QED BY <1>9, <1>11, <2>4 DEF Accounted, to, read, expected
<1> QED BY <1>1, <1>4, <1>9, <1>12, <1>7 DEF LoaderInv, Open, rows, b

\* ... or passed over, and then the counts stay apart.
LEMMA PassOverLemma ==
    ASSUME NEW l, NEW range \in Nat, LoaderInv(l, range), l.open, l.queue # <<>>
    PROVE  LoaderInv([[l EXCEPT !.queue = Tail(@)] EXCEPT !.gap = TRUE], range)
<1> DEFINE b == l.queue[1]
           m == [[l EXCEPT !.queue = Tail(@)] EXCEPT !.gap = TRUE]
<1>1. l \in LoaderType /\ Open(l, range) BY DEF LoaderInv, Unopened
<1>2. l.queue \in Seq(Batches) /\ l.next \in Nat /\ l.read \in Nat /\ l.expected \in Nat
  BY <1>1 DEF LoaderType, Batches
<1>3. Gapless(l.queue, l.next) BY <1>1 DEF Open
<1>4. /\ Tail(l.queue) \in Seq(Batches)
      /\ Gapless(Tail(l.queue), l.next)
      /\ (IF Tail(l.queue) = <<>> THEN l.next ELSE Tail(l.queue)[1].from) = b.to + 1
      /\ b.from <= b.to
      /\ b \in Batches
  BY <1>2, <1>3, TailLemma
<1>5. TRUE \in BOOLEAN OBVIOUS
<1>6. /\ m \in LoaderType
      /\ m.queue = Tail(l.queue) /\ m.next = l.next /\ m.open = l.open /\ m.ended = l.ended
      /\ m.read = l.read /\ m.expected = l.expected
  BY <1>1, <1>4, <1>5 DEF LoaderType, Batches
<1>7. Position(l) = b.from /\ Position(m) = b.to + 1 BY <1>4, <1>6 DEF Position
<1>8. Accounted(m, range)
  <2> DEFINE from == b.from  to == b.to
             read == l.read  expected == l.expected
  <2>2. read + range + 1 <= from + expected BY <1>7, <1>1 DEF Accounted, Open
  <2>3. from \in Nat /\ to \in Nat /\ read \in Nat /\ expected \in Nat /\ from <= to BY <1>2, <1>4 DEF Batches
  <2> HIDE DEF m, from, to, read, expected
  <2>4. /\ read + range + 1 <= (to + 1) + expected
        /\ read + range + 1 < (to + 1) + expected
    BY <2>2, <2>3
  <2> QED BY <1>6, <1>7, <2>4 DEF Accounted, to, read, expected
<1> QED BY <1>1, <1>4, <1>6, <1>8 DEF LoaderInv, Open

\* At the end of the range, an epoch with a gap is short.
LEMMA ShortLemma ==
    ASSUME NEW l, NEW range \in Nat, LoaderInv(l, range), l.ended, l.queue = <<>>, l.gap
    PROVE  Short(l)
<1>1. l \in LoaderType /\ Open(l, range) BY DEF LoaderInv, Unopened
<1> QED BY <1>1 DEF Short, Open, Accounted, Position, LoaderType

-----------------------------------------------------------------------------
(* The steps of the stream.                                                *)

\* Only the loader of one source changes.
LEMMA OneLoaderLemma ==
    ASSUME NEW s \in Source, loaders \in [Source -> LoaderType],
           \A t \in Source : LoaderInv(loaders[t], Len(Rows[t])),
           NEW l, LoaderInv(l, Len(Rows[s])),
           NEW after, after = [loaders EXCEPT ![s] = l]
    PROVE  /\ after \in [Source -> LoaderType]
           /\ \A t \in Source : LoaderInv(after[t], Len(Rows[t]))
<1>3. ASSUME NEW t \in Source
      PROVE  LoaderInv(after[t], Len(Rows[t]))
  OBVIOUS
<1> QED BY <1>3 DEF LoaderInv

\* A batch that is read lies in the range.
LEMMA BatchFromLemma ==
    ASSUME NEW s \in Source, NEW i \in Nat, i <= Len(Rows[s])
    PROVE  /\ BatchFrom(s, i) \in Batches
           /\ BatchFrom(s, i).from = i
           /\ i <= BatchFrom(s, i).to /\ BatchFrom(s, i).to <= Len(Rows[s])
           /\ ~BatchFrom(s, i).lost
<1> DEFINE range == Len(Rows[s])
           to == IF i + BatchRows - 1 < range THEN i + BatchRows - 1 ELSE range
<1>3. BatchFrom(s, i) = Batch(i, to) BY DEF BatchFrom
<1> HIDE DEF range
<1>4. to \in Nat /\ i <= to /\ to <= range BY RangeLemma, LoaderAssumption DEF range
<1> HIDE DEF to
<1> QED BY <1>3, <1>4 DEF Batch, Batches, range

\* A new run reads every source from its first row.
LEMMA InitLemma == Init => IndInv
<1> SUFFICES ASSUME Init PROVE IndInv OBVIOUS
<1>2. Closed \in LoaderType BY DEF Closed, LoaderType, Batches
<1>4. loaders \in [Source -> LoaderType] /\ \A s \in Source : loaders[s] = Closed BY <1>2 DEF Init
<1>5. \A s \in Source : LoaderInv(loaders[s], Len(Rows[s])) BY <1>2, <1>4 DEF LoaderInv, Closed, Unopened
<1> QED BY <1>4, <1>5 DEF IndInv, LossFailsItsAttempt, Restorable, Fresh, Init

\* An attempt starts with closed iterators, offset by the rows consumed.
LEMMA StartLemma ==
    ASSUME IndInv, NEW c \in ckpts, Start(c)
    PROVE  IndInv'
<1>2. Closed \in LoaderType /\ Unopened(Closed) BY DEF Closed, LoaderType, Batches, Unopened
<1>3. loaders' \in [Source -> LoaderType] /\ \A s \in Source : loaders'[s] = Closed BY <1>2 DEF Start
<1>4. (\A s \in Source : LoaderInv(loaders[s], Len(Rows[s])))' BY <1>2, <1>3 DEF LoaderInv
<1>6. pending' \in [Source -> Nat] /\ Restorable(main') BY DEF Start, Restorable, IndInv
<1> QED BY <1>3, <1>4, <1>6 DEF IndInv, Start, LossFailsItsAttempt

\* Between the loaders, the run only counts, stores and leaves.
LEMMA RunLemma ==
    ASSUME IndInv, BeginStep \/ EndStep \/ Save \/ FailStep \/ Leave
    PROVE  IndInv'
<1>1. loaders' = loaders /\ pending' = pending /\ silent' = silent
  BY DEF BeginStep, EndStep, Save, FailStep, Leave
<1>2. Restorable(main) /\ \A c \in ckpts : Restorable(c) BY DEF IndInv
<1>3. Restorable([main EXCEPT !.step = main.step + 1, !.packs = 0]) BY <1>2 DEF Restorable
<1>4. Restorable([main EXCEPT !.packs = 0]) BY <1>2 DEF Restorable
<1>5. Restorable(main') /\ \A c \in ckpts' : Restorable(c)
  BY <1>2, <1>3, <1>4 DEF BeginStep, EndStep, Save, FailStep, Leave
<1> QED BY <1>1, <1>5 DEF IndInv, LossFailsItsAttempt

\* A worker hands over the next batch of its range, or none that arrives.
LEMMA WorkerLemma ==
    ASSUME IndInv, NEW s \in Source, Worker(s)
    PROVE  IndInv'
<1> DEFINE l == loaders[s]
           range == Len(Rows[s])
<1>1. LoaderInv(l, range) /\ l \in LoaderType /\ loaders \in [Source -> LoaderType] BY DEF IndInv, LoaderInv
<1>2. range \in Nat BY RangeLemma
<1>3. l.open /\ ~l.ended BY DEF Worker, ReadBatch, LoseBatch, EndOfRange, Busy
<1>4. l.next \in Nat BY <1>1 DEF LoaderType
<1>5. main' = main /\ pending' = pending /\ ckpts' = ckpts /\ silent' = silent
  BY DEF Worker, ReadBatch, LoseBatch, EndOfRange, HandOver
<1>6. ASSUME NEW b \in Batches, b.from = l.next, b.from <= b.to, b.to <= range, HandOver(s, b)
      PROVE  /\ loaders' \in [Source -> LoaderType]
             /\ \A t \in Source : LoaderInv(loaders'[t], Len(Rows[t]))
  <2> DEFINE m == [[l EXCEPT !.queue = Append(@, b)] EXCEPT !.next = b.to + 1]
  <2>1. LoaderInv(m, range) BY <1>1, <1>2, <1>3, <1>6, HandOverLemma
  <2>2. loaders' = [loaders EXCEPT ![s] = m] BY <1>1, <1>6 DEF HandOver
  <2> HIDE DEF m
  <2> QED BY <2>1, <2>2, OneLoaderLemma DEF IndInv
<1>7. CASE ReadBatch(s)
  <2>1. l.next <= range /\ HandOver(s, BatchFrom(s, l.next)) BY <1>7 DEF ReadBatch
  <2>2. /\ BatchFrom(s, l.next) \in Batches
        /\ BatchFrom(s, l.next).from = l.next
        /\ l.next <= BatchFrom(s, l.next).to /\ BatchFrom(s, l.next).to <= range
    BY <1>4, <2>1, BatchFromLemma
  <2> QED BY <1>5, <1>6, <2>1, <2>2 DEF IndInv, LossFailsItsAttempt
<1>8. CASE LoseBatch(s)
  <2> DEFINE b == [BatchFrom(s, l.next) EXCEPT !.lost = TRUE]
  <2>1. l.next <= range /\ HandOver(s, b) BY <1>8 DEF LoseBatch
  <2>2. /\ BatchFrom(s, l.next) \in Batches
        /\ BatchFrom(s, l.next).from = l.next
        /\ l.next <= BatchFrom(s, l.next).to /\ BatchFrom(s, l.next).to <= range
    BY <1>4, <2>1, BatchFromLemma
  <2>3. b \in Batches /\ b.from = l.next /\ b.from <= b.to /\ b.to <= range BY <2>2 DEF Batches
  <2> HIDE DEF b
  <2> QED BY <1>5, <1>6, <2>1, <2>3 DEF IndInv, LossFailsItsAttempt
<1>9. CASE EndOfRange(s)
  <2> DEFINE m == [l EXCEPT !.ended = TRUE]
  <2>1. loaders' = [loaders EXCEPT ![s] = m] /\ l.next > range BY <1>9 DEF EndOfRange
  <2>3. TRUE \in BOOLEAN OBVIOUS
  <2>4. /\ m \in LoaderType
        /\ m.queue = l.queue /\ m.next = l.next /\ m.open = l.open
        /\ m.read = l.read /\ m.expected = l.expected /\ m.gap = l.gap
    BY <1>1, <2>3 DEF LoaderType
  <2> HIDE DEF m
  <2>7. LoaderInv(m, range)
    BY <1>2, <2>4, <1>4, <2>1, <1>1, <1>3 DEF LoaderInv, Open, Accounted, Position, Unopened
  <2>8. /\ loaders' \in [Source -> LoaderType]
        /\ \A t \in Source : LoaderInv(loaders'[t], Len(Rows[t]))
    BY <2>1, <2>7, OneLoaderLemma DEF IndInv
  <2> QED BY <1>5, <2>8 DEF IndInv, LossFailsItsAttempt
<1> QED BY <1>7, <1>8, <1>9 DEF Worker

\* The reader opens an iterator at the offset, or anew at the first row.
LEMMA OpenLemma ==
    ASSUME IndInv, NEW s \in Source, OpenIterator(s) \/ RestartIterator(s)
    PROVE  IndInv'
<1> DEFINE l == loaders[s]
           range == Len(Rows[s])
<1>1. range \in Nat \ {0} BY RangeLemma
<1>2. LoaderInv(l, range) /\ Restorable(main) /\ pending \in [Source -> Nat] BY DEF IndInv
<1>3. ASSUME NEW offset \in 0..(range - 1), loaders' = [loaders EXCEPT ![s] = Opened(s, offset)]
      PROVE  /\ loaders' \in [Source -> LoaderType]
             /\ \A t \in Source : LoaderInv(loaders'[t], Len(Rows[t]))
  <2> DEFINE m == Opened(s, offset)
  <2>1. LoaderInv(m, range) BY OpenedLemma
  <2>2. loaders' = [loaders EXCEPT ![s] = m] BY <1>3
  <2> HIDE DEF m
  <2> QED BY <2>1, <2>2, OneLoaderLemma DEF IndInv
<1>4. main' = main /\ ckpts' = ckpts BY DEF OpenIterator, RestartIterator
<1>5. CASE OpenIterator(s)
  <2>2. Skip(s, pending[s]) \in 0..(range - 1) BY <1>1, <1>2 DEF Skip
  <2>3. loaders' = [loaders EXCEPT ![s] = Opened(s, Skip(s, pending[s]))] BY <1>5 DEF OpenIterator
  <2>4. pending' \in [Source -> Nat] /\ silent' = silent BY <1>2, <1>5 DEF OpenIterator
  <2> QED BY <1>3, <1>4, <2>2, <2>3, <2>4 DEF IndInv, LossFailsItsAttempt
<1>6. CASE RestartIterator(s)
  <2>1. 0 \in 0..(range - 1) BY <1>1
  <2>2. loaders' = [loaders EXCEPT ![s] = Opened(s, 0)] /\ pending' = pending BY <1>6 DEF RestartIterator
  <2>3. l.ended /\ l.queue = <<>> /\ ~Short(l) BY <1>6 DEF RestartIterator, EpochOver
  <2>4. ~l.gap BY <1>1, <1>2, <2>3, ShortLemma
  <2>5. silent' = silent \/ silent' = silent \union {"after a resume"} BY <1>6, <2>4 DEF RestartIterator
  <2>6. LossFailsItsAttempt'
    <3>1. "in the same attempt" \notin silent BY DEF IndInv, LossFailsItsAttempt
    <3>2. "in the same attempt" # "after a resume" OBVIOUS
    <3>3. "in the same attempt" \notin silent' BY <2>5, <3>1, <3>2
    <3> QED BY <3>3 DEF LossFailsItsAttempt
  <2> QED BY <1>2, <1>3, <1>4, <2>1, <2>2, <2>6 DEF IndInv
<1> QED BY <1>5, <1>6

\* It counts a batch.
LEMMA PullBatchLemma ==
    ASSUME IndInv, NEW s \in Source, PullBatch(s)
    PROVE  IndInv'
<1> DEFINE l == loaders[s]
           range == Len(Rows[s])
           b == l.queue[1]
           n == Len(Samples(s, b))
           m == [[[l EXCEPT !.queue = Tail(@)]
                        EXCEPT !.read = @ + RowsRead(s, b)]
                        EXCEPT !.samples = @ + n]
<1>1. range \in Nat BY RangeLemma
<1>2. LoaderInv(l, range) /\ l \in LoaderType /\ loaders \in [Source -> LoaderType] /\ Restorable(main)
  BY DEF IndInv, LoaderInv
<1>3. l.open /\ l.queue # <<>> BY DEF PullBatch, Ready
<1>4. l.queue \in Seq(Batches) BY <1>2 DEF LoaderType, Batches
<1>5. Head(l.queue) = b /\ b \in Batches BY <1>3, <1>4
<1>6. n \in Nat BY <1>5, SamplesLemma
<1>7. LoaderInv(m, range) /\ RowsRead(s, b) \in Nat BY <1>1, <1>2, <1>3, <1>6, PullLemma
<1>8. loaders' = [loaders EXCEPT ![s] = m] BY <1>2, <1>5 DEF PullBatch
<1> HIDE DEF m, b
<1>10. Restorable(main') BY <1>2, <1>7, <1>5 DEF Restorable, PullBatch
<1>11. /\ loaders' \in [Source -> LoaderType]
       /\ \A t \in Source : LoaderInv(loaders'[t], Len(Rows[t]))
  BY <1>7, <1>8, OneLoaderLemma DEF IndInv
<1>12. pending' = pending /\ ckpts' = ckpts /\ silent' = silent BY DEF PullBatch
<1> QED BY <1>10, <1>11, <1>12 DEF IndInv, LossFailsItsAttempt

\* It passes over a lost one.
LEMMA PassOverLostLemma ==
    ASSUME IndInv, NEW s \in Source, PassOverLost(s)
    PROVE  IndInv'
<1> DEFINE l == loaders[s]
           range == Len(Rows[s])
           m == [[l EXCEPT !.queue = Tail(@)] EXCEPT !.gap = TRUE]
<1>1. range \in Nat BY RangeLemma
<1>2. LoaderInv(l, range) /\ loaders \in [Source -> LoaderType] /\ Restorable(main) BY DEF IndInv
<1>3. l.open /\ l.queue # <<>> BY DEF PassOverLost, Ready
<1>4. LoaderInv(m, range) BY <1>1, <1>2, <1>3, PassOverLemma
<1>5. loaders' = [loaders EXCEPT ![s] = m] BY <1>2 DEF PassOverLost
<1> HIDE DEF m
<1>6. /\ loaders' \in [Source -> LoaderType]
      /\ \A t \in Source : LoaderInv(loaders'[t], Len(Rows[t]))
  BY <1>4, <1>5, OneLoaderLemma DEF IndInv
<1>7. Restorable(main') BY <1>2 DEF Restorable, PassOverLost
<1>8. pending' = pending /\ ckpts' = ckpts /\ silent' = silent BY DEF PassOverLost
<1> QED BY <1>6, <1>7, <1>8 DEF IndInv, LossFailsItsAttempt

\* The pool is none of the loaders' business.
LEMMA PoolLemma ==
    ASSUME IndInv, TakePack \/ \E s \in Source : AddDocument(s) \/ RefuseEpoch(s)
    PROVE  IndInv'
<1>1. loaders' = loaders /\ pending' = pending /\ ckpts' = ckpts /\ silent' = silent
  BY DEF AddDocument, TakePack, RefuseEpoch
<1>2. Restorable(main) BY DEF IndInv
<1>3. Restorable(main')
  <2>1. ASSUME NEW s \in Source, AddDocument(s)
        PROVE  Restorable(main')
    BY <1>2, <2>1 DEF AddDocument, Restorable
  <2>2. CASE TakePack BY <1>2, <2>2 DEF TakePack, Restorable
  <2>3. ASSUME NEW s \in Source, RefuseEpoch(s)
        PROVE  Restorable(main')
    BY <1>2, <2>3 DEF RefuseEpoch
  <2> QED BY <2>1, <2>2, <2>3
<1> QED BY <1>1, <1>3 DEF IndInv, LossFailsItsAttempt

(* The inductive invariant: the counts of every epoch are those of the     *)
(* rows between its offset and the reader, unless a batch was passed over. *)
THEOREM StreamInvariance == Spec => []IndInv
<1>1. ASSUME IndInv, [Next]_vars
      PROVE  IndInv'
  <2>1. CASE UNCHANGED vars \/ Done
    <3>2. /\ loaders' = loaders /\ pending' = pending /\ ckpts' = ckpts
          /\ silent' = silent /\ main' = main
      BY <2>1 DEF vars, Done
    <3> QED BY <1>1, <3>2 DEF IndInv, LossFailsItsAttempt
  <2>2. CASE \E c \in ckpts : Start(c) BY <1>1, <2>2, StartLemma
  <2>3. CASE BeginStep \/ EndStep \/ Save \/ FailStep \/ Leave BY <1>1, <2>3, RunLemma
  <2>4. ASSUME NEW s \in Source, Worker(s) \/ Reader(s)
        PROVE  IndInv'
    <3>1. CASE Worker(s) BY <1>1, <3>1, WorkerLemma
    <3>2. CASE OpenIterator(s) \/ RestartIterator(s) BY <1>1, <3>2, OpenLemma
    <3>3. CASE PullBatch(s) BY <1>1, <3>3, PullBatchLemma
    <3>4. CASE PassOverLost(s) BY <1>1, <3>4, PassOverLostLemma
    <3>5. CASE AddDocument(s) \/ RefuseEpoch(s) BY <1>1, <3>5, PoolLemma
    <3> QED BY <2>4, <3>1, <3>2, <3>3, <3>4, <3>5 DEF Reader
  <2>5. CASE TakePack BY <1>1, <2>5, PoolLemma
  <2> QED BY <1>1, <2>1, <2>2, <2>3, <2>4, <2>5 DEF Next
<1> QED BY <1>1, InitLemma, PTL DEF Spec

(* An epoch in which a worker lost a batch never closes in order: the      *)
(* comparison in _end_of_epoch catches every loss in the attempt in which  *)
(* it happened, whatever the batch size, the prefetch depth and the offset *)
(* at which the epoch began.                                               *)
THEOREM LossAlwaysFailsItsAttempt == Spec => []LossFailsItsAttempt
<1>1. IndInv => LossFailsItsAttempt BY DEF IndInv
<1> QED BY <1>1, StreamInvariance, PTL

-----------------------------------------------------------------------------
(* Documents, buffers, pools and shares.                                   *)

\* Batches of rows a source has.
InRange(s) == {b \in Batches : 1 <= b.from /\ b.from <= b.to /\ b.to <= Len(Rows[s])}

\* Sources of which no row is usable.
UselessSources == {u \in Source : ToSet(Rows[u]) = {0}}

\* A batch becomes documents of its source, none when no row of the source is usable.
LEMMA DocumentsLemma ==
    ASSUME NEW s \in Source, NEW b \in InRange(s)
    PROVE  /\ Samples(s, b) \in Seq(NewDocuments(s))
           /\ s \in UselessSources => Samples(s, b) = <<>>
<1> DEFINE usable == {i \in b.from..b.to : Rows[s][i] > 0}
           n == Cardinality(usable)
           row(k) == CHOOSE i \in usable : Cardinality({j \in usable : j <= i}) = k
           doc == [k \in 1..n |-> DocumentOf(s, row(k))]
<1>1. /\ b.from \in Nat /\ b.to \in Nat /\ 1 <= b.from /\ b.to <= Len(Rows[s])
      /\ Len(Rows[s]) \in Nat
  BY RangeLemma DEF InRange, Batches
<1>2. IsFiniteSet(usable) /\ n \in Nat
  <2> DEFINE i == b.from
             j == b.to
  <2>1. i \in Int /\ j \in Int /\ usable \in SUBSET (i..j) BY <1>1
  <2> HIDE DEF i, j, usable
  <2>2. IsFiniteSet(i..j) BY <2>1, FS_Interval
  <2>3. IsFiniteSet(usable) BY <2>1, <2>2, FS_Subset
  <2> QED BY <2>3, FS_CardinalityType
<1>3. usable \in SUBSET Nat /\ \A i \in usable : i <= b.to /\ i \in 1..Len(Rows[s]) BY <1>1
<1>4. Samples(s, b) = doc BY DEF Samples
<1>5. s \in UselessSources => n = 0
  <2> HAVE s \in UselessSources
  <2>1. \A i \in 1..Len(Rows[s]) : Rows[s][i] \in ToSet(Rows[s]) BY <1>1, PackingAssumption DEF ToSet
  <2>3. usable = {} BY <1>1, <2>1 DEF UselessSources
  <2> QED BY <2>3, FS_EmptySet
<1> HIDE DEF usable, n
<1>6. ASSUME NEW k \in 1..n
      PROVE  row(k) \in usable
  <2>1. \E i \in usable : Cardinality(UpTo(usable, i)) = k BY <1>1, <1>3, RankLemma DEF n
  <2> QED BY <2>1 DEF UpTo
<1>7. \A k \in 1..n : DocumentOf(s, row(k)) \in NewDocuments(s) BY <1>3, <1>6 DEF NewDocuments
<1> HIDE DEF row
<1>8. doc \in Seq(NewDocuments(s)) BY <1>2, <1>7
<1>9. n = 0 => doc = <<>>
  <2> HAVE n = 0
  <2> QED BY <1>8, <1>2
<1> QED BY <1>4, <1>5, <1>8, <1>9

\* The longest document of a source bounds all of them.
LEMMA SlotsBoundLemma ==
    ASSUME NEW s \in Source, NEW d \in NewDocuments(s)
    PROVE  /\ Slots(d) \in Nat /\ Slots(d) <= LongestOf(s)
           /\ d \in Known /\ d.waited = 0
  BY NewDocumentsLemma, LongestLemma, SlotsLemma

-----------------------------------------------------------------------------
(* What a state of the stream is, in main and in what is stored.           *)

\* The fields of the state a checkpoint stores.
MainRecord ==
    [step : 0..TotalSteps, packs : 0..PacksPerStep, pool : Seq(Known),
     consumed : Counts, loaded : Counts, target : Counts,
     buffers : [Source -> Seq(Known)], gap : [Source -> BOOLEAN]]

\* The weights did not change up to the step of m.
Steady(m) == \A n \in 0..(TotalSteps - 1) : n <= m.step => Weight[n] = Weight[0]

\* What is buffered of a source are documents of it that have not waited.
BuffersInv(m) ==
    /\ \A s \in Source : m.buffers[s] \in Seq(NewDocuments(s))
    /\ \A u \in UselessSources : m.buffers[u] = <<>>

\* The loaded documents, the pool and the shares of one state.
MainInv(m) ==
    /\ m \in MainRecord
    /\ PoolInv(m.pool)
    /\ Steady(m) => Shares(m.loaded, m.target)
    /\ BuffersInv(m)

\* What is read and waits in a queue are batches of the source's rows.
QueueInv ==
    \A s \in Source : loaders[s].queue \in Seq(InRange(s)) /\ loaders[s].next >= 1

\* A step is only begun while the run lasts.
PhaseInv ==
    /\ pc \in {"down", "between", "pulling"}
    /\ pc = "between" => main.packs = 0
    /\ pc = "pulling" => main.step < TotalSteps
    /\ \A c \in ckpts : c.packs = 0

\* The checkpoints store such states.
StoredInv == \A c \in ckpts : MainInv(c)

\* Every state, live or stored, is such a state.
PoolsInv == MainInv(main) /\ StoredInv /\ QueueInv /\ PhaseInv

\* Nothing but these parts of a state matters.
LEMMA SameMainLemma ==
    ASSUME NEW m, MainInv(m), NEW k \in MainRecord,
           k.step >= m.step, k.pool = m.pool, k.loaded = m.loaded, k.target = m.target,
           k.buffers = m.buffers
    PROVE  MainInv(k)
<1> QED BY DEF MainInv, BuffersInv, Steady, MainRecord

\* The state of a new run.
LEMMA FreshMainLemma == MainInv(Fresh) /\ Fresh.packs = 0
<1> DEFINE zero == [s \in Source |-> 0]
           empty == [s \in Source |-> <<>>]
           no == [s \in Source |-> FALSE]
<1>1. Fresh = [step |-> 0, packs |-> 0, pool |-> <<>>, consumed |-> zero, loaded |-> zero,
               target |-> zero, buffers |-> empty, gap |-> no]
  BY DEF Fresh
<1>2. zero \in Counts /\ no \in [Source -> BOOLEAN] BY DEF Counts
<1>3. empty \in [Source -> Seq(Known)] /\ \A s \in Source : empty[s] = <<>> OBVIOUS
<1>5. Shares(zero, zero) BY FreshSharesLemma
<1> HIDE DEF zero, empty, no
<1>6. <<>> \in Seq(Known) OBVIOUS
<1>7. Fresh \in MainRecord BY <1>1, <1>2, <1>3, <1>6, PackingAssumption DEF MainRecord
<1> QED BY <1>1, <1>5, <1>7, EmptyPoolLemma, <1>3 DEF MainInv, UselessSources, BuffersInv

\* Initially nothing is loaded.
LEMMA PoolsInitLemma == Init => PoolsInv
<1> SUFFICES ASSUME Init PROVE PoolsInv OBVIOUS
<1>2. \A s \in Source : loaders[s] = Closed BY DEF Init
<1>3. QueueInv
  <2>1. Closed.queue = <<>> /\ Closed.next = 1 BY DEF Closed
  <2>2. ASSUME NEW s \in Source
        PROVE  loaders[s].queue \in Seq(InRange(s)) /\ loaders[s].next >= 1
    <3>1. <<>> \in Seq(InRange(s)) /\ 1 >= 1 OBVIOUS
    <3> QED BY <1>2, <2>1, <3>1
  <2> QED BY <2>2 DEF QueueInv
<1> QED BY <1>3, FreshMainLemma DEF PoolsInv, StoredInv, PhaseInv, Init

-----------------------------------------------------------------------------
(* The steps.                                                              *)

\* An attempt continues a stored state.
LEMMA PoolsStartLemma ==
    ASSUME PoolsInv, NEW c \in ckpts, Start(c)
    PROVE  PoolsInv'
<1>1. main' = c /\ ckpts' = ckpts /\ pc' = "between" /\ \A s \in Source : loaders'[s] = Closed BY DEF Start
<1>3. QueueInv'
  <2>1. Closed.queue = <<>> /\ Closed.next = 1 BY DEF Closed
  <2>2. ASSUME NEW s \in Source
        PROVE  loaders'[s].queue \in Seq(InRange(s)) /\ loaders'[s].next >= 1
    <3>1. <<>> \in Seq(InRange(s)) /\ 1 >= 1 OBVIOUS
    <3> QED BY <1>1, <2>1, <3>1
  <2> QED BY <2>2 DEF QueueInv
<1> QED BY <1>1, <1>3 DEF PoolsInv, StoredInv, PhaseInv

\* A state between two steps, stored or with the next step counted.
LEMMA StepBoundaryLemma ==
    ASSUME NEW m, MainInv(m), NEW n \in 0..TotalSteps, n >= m.step,
           NEW k, k = [m EXCEPT !.step = n, !.packs = 0]
    PROVE  MainInv(k) /\ k.packs = 0
<1>1. m \in MainRecord BY DEF MainInv
<1>3. k = [step |-> n, packs |-> 0, pool |-> m.pool, consumed |-> m.consumed,
           loaded |-> m.loaded, target |-> m.target, buffers |-> m.buffers, gap |-> m.gap]
  BY <1>1 DEF MainRecord
<1>4. k \in MainRecord BY <1>1, <1>3, PackingAssumption DEF MainRecord
<1> QED BY <1>3, <1>4, SameMainLemma

\* The steps of the training loop, and the ends of an attempt.
LEMMA PoolsRunLemma ==
    ASSUME PoolsInv, BeginStep \/ EndStep \/ Save \/ FailStep \/ Leave
    PROVE  PoolsInv'
<1>1. loaders' = loaders BY DEF BeginStep, EndStep, Save, FailStep, Leave
<1>2. QueueInv' BY <1>1 DEF PoolsInv, QueueInv
<1>3. /\ MainInv(main) /\ main \in MainRecord
      /\ \A c \in ckpts : MainInv(c) /\ c.packs = 0
      /\ pc = "between" => main.packs = 0
      /\ pc = "pulling" => main.step < TotalSteps
      /\ pc \in {"down", "between", "pulling"}
  BY DEF PoolsInv, PhaseInv, StoredInv, MainInv
<1>4. CASE BeginStep \/ Leave BY <1>4, <1>2, <1>3 DEF BeginStep, Leave, PoolsInv, StoredInv, PhaseInv
<1>5. CASE EndStep
  <2>1. /\ main' = [main EXCEPT !.step = main.step + 1, !.packs = 0]
        /\ ckpts' = ckpts /\ pc' = "between" /\ pc = "pulling"
    BY <1>5 DEF EndStep
  <2>3. main.step + 1 \in 0..TotalSteps /\ main.step + 1 >= main.step
    BY <1>3, <2>1, PackingAssumption DEF MainRecord
  <2>4. MainInv(main') /\ main'.packs = 0 BY <1>3, <2>1, <2>3, StepBoundaryLemma
  <2> QED BY <1>2, <1>3, <2>1, <2>4 DEF PoolsInv, StoredInv, PhaseInv
<1>6. CASE Save BY <1>6, <1>2, <1>3 DEF Save, PoolsInv, StoredInv, PhaseInv
<1>7. CASE FailStep
  <2> DEFINE k == [main EXCEPT !.packs = 0]
  <2>1. /\ main' = main /\ pc' = "down"
        /\ \A c \in ckpts' : c \in ckpts \/ c = k
    BY <1>7 DEF FailStep
  <2>2. main.step \in 0..TotalSteps /\ main.step >= main.step BY <1>3 DEF MainRecord
  <2>3. k = [main EXCEPT !.step = main.step, !.packs = 0] BY <1>3 DEF MainRecord
  <2> HIDE DEF k
  <2>4. MainInv(k) /\ k.packs = 0 BY <1>3, <2>2, <2>3, StepBoundaryLemma
  <2> QED BY <1>2, <1>3, <2>1, <2>4 DEF PoolsInv, StoredInv, PhaseInv
<1> QED BY <1>4, <1>5, <1>6, <1>7

\* The queue of one source changes.
LEMMA QueueLemma ==
    ASSUME QueueInv, loaders \in [Source -> LoaderType], NEW s \in Source, NEW l,
           loaders' = [loaders EXCEPT ![s] = l],
           l.queue \in Seq(InRange(s)), l.next >= 1
    PROVE  QueueInv'
<1>1. ASSUME NEW t \in Source
      PROVE  loaders'[t].queue \in Seq(InRange(t)) /\ loaders'[t].next >= 1
  BY DEF QueueInv
<1> QED BY <1>1 DEF QueueInv

\* What a worker does concerns its queue.
LEMMA PoolsWorkerLemma ==
    ASSUME IndInv, PoolsInv, NEW s \in Source, Worker(s)
    PROVE  PoolsInv'
<1> DEFINE l == loaders[s]
           range == Len(Rows[s])
<1>1. /\ loaders \in [Source -> LoaderType] /\ l \in LoaderType
      /\ l.queue \in Seq(InRange(s)) /\ l.next \in Nat /\ l.next >= 1 /\ QueueInv
  BY DEF IndInv, PoolsInv, QueueInv, LoaderType
<1>2. main' = main /\ ckpts' = ckpts /\ pc' = pc BY DEF Worker, ReadBatch, LoseBatch, EndOfRange, HandOver
<1>3. ASSUME NEW b \in InRange(s), HandOver(s, b)
      PROVE  QueueInv'
  <2> DEFINE m == [[l EXCEPT !.queue = Append(@, b)] EXCEPT !.next = b.to + 1]
  <2>1. loaders' = [loaders EXCEPT ![s] = m] BY <1>1, <1>3 DEF HandOver
  <2>2. b.to \in Nat /\ b.to + 1 >= 1 BY DEF InRange, Batches
  <2>3. m.queue = Append(l.queue, b) /\ m.next = b.to + 1 BY <1>1 DEF LoaderType
  <2>4. m.queue \in Seq(InRange(s)) BY <1>1, <2>3
  <2> HIDE DEF m
  <2> QED BY <1>1, <2>1, <2>2, <2>3, <2>4, QueueLemma
<1>4. l.next <= range => /\ BatchFrom(s, l.next) \in InRange(s)
                         /\ [BatchFrom(s, l.next) EXCEPT !.lost = TRUE] \in InRange(s)
  <2> HAVE l.next <= range
  <2> DEFINE b == BatchFrom(s, l.next)
  <2>1. b \in Batches /\ b.from = l.next /\ l.next <= b.to /\ b.to <= Len(Rows[s]) BY <1>1, BatchFromLemma
  <2> HIDE DEF b
  <2>2. b \in InRange(s) BY <1>1, <2>1 DEF InRange
  <2>3. [b EXCEPT !.lost = TRUE] \in InRange(s) BY <2>2 DEF InRange, Batches
  <2> QED BY <2>2, <2>3 DEF b
<1>5. QueueInv'
  <2>1. CASE ReadBatch(s) BY <1>3, <1>4, <2>1 DEF ReadBatch
  <2>2. CASE LoseBatch(s) BY <1>3, <1>4, <2>2 DEF LoseBatch
  <2>3. CASE EndOfRange(s)
    <3> DEFINE m == [l EXCEPT !.ended = TRUE]
    <3>1. loaders' = [loaders EXCEPT ![s] = m] BY <2>3 DEF EndOfRange
    <3>2. m.queue = l.queue /\ m.next = l.next BY <1>1 DEF LoaderType
    <3> HIDE DEF m
    <3> QED BY <1>1, <3>1, <3>2, QueueLemma
  <2> QED BY <2>1, <2>2, <2>3 DEF Worker
<1> QED BY <1>2, <1>5 DEF PoolsInv, StoredInv, PhaseInv

\* An iterator is opened, or its epoch refused.
LEMMA PoolsOpenLemma ==
    ASSUME IndInv, PoolsInv, NEW s \in Source, OpenIterator(s) \/ RestartIterator(s) \/ RefuseEpoch(s)
    PROVE  PoolsInv'
<1>1. main' = main /\ ckpts' = ckpts BY DEF OpenIterator, RestartIterator, RefuseEpoch
<1>2. pc' = pc \/ pc' = "down" BY DEF OpenIterator, RestartIterator, RefuseEpoch
<1>3. QueueInv'
  <2>1. ASSUME NEW offset \in Nat, loaders' = [loaders EXCEPT ![s] = Opened(s, offset)]
        PROVE  QueueInv'
    <3>1. Opened(s, offset).queue = <<>> /\ Opened(s, offset).next = offset + 1 BY DEF Opened, Closed
    <3>2. <<>> \in Seq(InRange(s)) /\ offset + 1 >= 1 OBVIOUS
    <3> QED BY <2>1, <3>1, <3>2, QueueLemma DEF PoolsInv, IndInv
  <2>2. CASE OpenIterator(s)
    <3>2. Skip(s, pending[s]) \in Nat BY RangeLemma DEF Skip, IndInv
    <3> QED BY <2>1, <2>2, <3>2 DEF OpenIterator
  <2>3. CASE RestartIterator(s) BY <2>1, <2>3 DEF RestartIterator
  <2>4. CASE RefuseEpoch(s) BY <2>4 DEF RefuseEpoch, PoolsInv, QueueInv
  <2> QED BY <2>2, <2>3, <2>4
<1> QED BY <1>1, <1>2, <1>3 DEF PoolsInv, StoredInv, PhaseInv

\* A lost batch is passed over.
LEMMA PoolsPassOverLemma ==
    ASSUME IndInv, PoolsInv, NEW s \in Source, PassOverLost(s)
    PROVE  PoolsInv'
<1> DEFINE l == loaders[s]
           m == [[l EXCEPT !.queue = Tail(@)] EXCEPT !.gap = TRUE]
           gap == [main.gap EXCEPT ![s] = TRUE]
<1>1. /\ loaders \in [Source -> LoaderType] /\ l \in LoaderType /\ QueueInv
      /\ l.queue \in Seq(InRange(s)) /\ l.queue # <<>> /\ l.next >= 1
  BY DEF IndInv, PoolsInv, QueueInv, PassOverLost, Ready
<1>2. loaders' = [loaders EXCEPT ![s] = m] BY <1>1 DEF PassOverLost
<1>3. m.queue = Tail(l.queue) /\ m.next = l.next BY <1>1 DEF LoaderType
<1>4. m.queue \in Seq(InRange(s)) BY <1>1, <1>3
<1> HIDE DEF m
<1>5. QueueInv' BY <1>1, <1>2, <1>3, <1>4, QueueLemma
<1>6. main \in MainRecord /\ MainInv(main) BY DEF PoolsInv, MainInv
<1>7. gap \in [Source -> BOOLEAN] BY <1>6 DEF MainRecord
<1>8. main' = [main EXCEPT !.gap = gap] BY DEF PassOverLost
<1> HIDE DEF gap
<1>9. main' = [step |-> main.step, packs |-> main.packs, pool |-> main.pool,
               consumed |-> main.consumed, loaded |-> main.loaded, target |-> main.target,
               buffers |-> main.buffers, gap |-> gap]
  BY <1>6, <1>8 DEF MainRecord
<1>10. main' \in MainRecord BY <1>6, <1>7, <1>9 DEF MainRecord
<1>11. main.step >= main.step BY <1>6 DEF MainRecord
<1>12. MainInv(main') BY <1>6, <1>9, <1>10, <1>11, SameMainLemma
<1> QED BY <1>5, <1>9, <1>12 DEF PoolsInv, StoredInv, PhaseInv, PassOverLost

\* A batch is counted and buffered.
LEMMA PoolsPullLemma ==
    ASSUME IndInv, PoolsInv, NEW s \in Source, PullBatch(s)
    PROVE  PoolsInv'
<1> DEFINE l == loaders[s]
           b == l.queue[1]
           rows == RowsRead(s, b)
           samples == Samples(s, b)
           m == [[[l EXCEPT !.queue = Tail(@)]
                        EXCEPT !.read = @ + rows]
                        EXCEPT !.samples = @ + Len(samples)]
           consumed == [main.consumed EXCEPT ![s] = @ + rows]
           buffers == [main.buffers EXCEPT ![s] = samples]
<1>1. /\ loaders \in [Source -> LoaderType] /\ l \in LoaderType /\ QueueInv
      /\ l.queue \in Seq(InRange(s)) /\ l.queue # <<>> /\ l.next >= 1
  BY DEF IndInv, PoolsInv, QueueInv, PullBatch, Ready
<1>2. Head(l.queue) = b /\ b \in InRange(s) BY <1>1
<1>3. loaders' = [loaders EXCEPT ![s] = m] BY <1>1, <1>2 DEF PullBatch
<1>4. m.queue = Tail(l.queue) /\ m.next = l.next BY <1>1 DEF LoaderType
<1>5. m.queue \in Seq(InRange(s)) BY <1>1, <1>4
<1> HIDE DEF m
<1>6. QueueInv' BY <1>1, <1>3, <1>4, <1>5, QueueLemma
<1>7. main \in MainRecord /\ MainInv(main) BY DEF PoolsInv, MainInv
<1>8. rows \in Nat BY <1>2 DEF RowsRead, InRange, Batches
<1>9. samples \in Seq(NewDocuments(s)) /\ (s \in UselessSources => samples = <<>>) BY <1>2, DocumentsLemma
<1>10. main' = [main EXCEPT !.consumed = consumed, !.buffers = buffers] BY <1>2 DEF PullBatch
<1> HIDE DEF rows, samples, b
<1>11. consumed \in Counts BY <1>7, <1>8 DEF MainRecord, Counts
<1>12. /\ buffers \in [Source -> Seq(Known)]
       /\ \A t \in Source : buffers[t] = IF t = s THEN samples ELSE main.buffers[t]
  BY NewDocumentsLemma, <1>9, <1>7 DEF MainRecord
<1> HIDE DEF consumed, buffers
<1>13. main' = [step |-> main.step, packs |-> main.packs, pool |-> main.pool,
                consumed |-> consumed, loaded |-> main.loaded, target |-> main.target,
                buffers |-> buffers, gap |-> main.gap]
  BY <1>7, <1>10 DEF MainRecord
<1>15. BuffersInv(main')
  <2>2. \A t \in Source : main'.buffers[t] = IF t = s THEN samples ELSE main.buffers[t] BY <1>12, <1>13
  <2> QED BY <1>9, <2>2, <1>7 DEF BuffersInv, MainInv, UselessSources
<1>16. MainInv(main') BY <1>13, <1>7, <1>15, <1>11, <1>12 DEF Steady, MainInv, MainRecord
<1> QED BY <1>6, <1>13, <1>16 DEF PoolsInv, StoredInv, PhaseInv, PullBatch

\* A document leaves the buffer for the pool, and every share earns.
LEMMA PoolsAddLemma ==
    ASSUME PoolsInv, NEW s \in Source, AddDocument(s)
    PROVE  PoolsInv'
<1> DEFINE d == Head(main.buffers[s])
           n == Slots(d)
           buffers == [main.buffers EXCEPT ![s] = Tail(@)]
           pool == Append(main.pool, d)
           loaded == Loaded(main.loaded, s, n)
           target == Earned(main.target, main.step, n)
<1>1. main \in MainRecord /\ MainInv(main) /\ BuffersInv(main) BY DEF PoolsInv, MainInv
<1>2. /\ pc = "pulling" /\ NeedsRefill(main.pool)
      /\ s = PickSource(main.step, main.loaded, main.target)
      /\ main.buffers[s] # <<>>
  BY DEF AddDocument, Picked, Refilling
<1>3. main.step \in 0..(TotalSteps - 1) BY <1>1, <1>2, PackingAssumption DEF MainRecord, PoolsInv, PhaseInv
<1>4. main.loaded \in Counts /\ main.target \in Counts BY <1>1 DEF MainRecord
<1>6. d \in NewDocuments(s) /\ Tail(main.buffers[s]) \in Seq(NewDocuments(s))
  <2> DEFINE q == main.buffers[s]
             T == NewDocuments(s)
  <2>1. q \in Seq(T) /\ q # <<>> BY <1>2, <1>1 DEF BuffersInv
  <2> HIDE DEF q, T
  <2> QED BY <2>1 DEF q, T
<1>7. n \in Nat /\ n <= LongestOf(s) /\ d \in Known /\ d.waited = 0 BY <1>6, SlotsBoundLemma
<1>8. main' = [main EXCEPT !.buffers = buffers, !.pool = pool, !.loaded = loaded, !.target = target]
  BY DEF AddDocument
<1>9. /\ buffers \in [Source -> Seq(Known)]
      /\ \A t \in Source : buffers[t] = IF t = s THEN Tail(main.buffers[s]) ELSE main.buffers[t]
  BY NewDocumentsLemma, <1>6, <1>1 DEF MainRecord
<1>10. PoolInv(pool) /\ pool \in Seq(Known) BY <1>1, <1>2, <1>7, EnterLemma DEF MainInv, PoolInv
<1> HIDE DEF d, n, buffers, pool
<1>11. Enters(loaded, target, main.loaded, main.target, main.step, s, n) BY DEF Enters
<1> HIDE DEF loaded, target
<1>12. loaded \in Counts /\ target \in Counts BY <1>3, <1>4, <1>7, <1>11, EnteredLemma
<1>13. main' = [step |-> main.step, packs |-> main.packs, pool |-> pool,
                consumed |-> main.consumed, loaded |-> loaded, target |-> target,
                buffers |-> buffers, gap |-> main.gap]
  BY <1>1, <1>8 DEF MainRecord
<1>14. main' \in MainRecord BY <1>1, <1>9, <1>10, <1>12, <1>13 DEF MainRecord
<1>15. BuffersInv(main')
  <2>1. UselessSources \subseteq Source BY DEF UselessSources
  <2>2. main'.buffers = buffers BY <1>13
  <2>3. s \notin UselessSources BY <1>1, <1>2 DEF BuffersInv
  <2> QED BY <1>1, <1>6, <1>9, <2>1, <2>2, <2>3 DEF BuffersInv
<1>16. Steady(main') => Shares(loaded, target)
  <2> HAVE Steady(main')
  <2>1. Steady(main) BY <1>13 DEF Steady
  <2>2. Weight[main.step] = Weight[0] BY <1>3, <2>1 DEF Steady
  <2>3. Shares(main.loaded, main.target) BY <1>1, <2>1 DEF MainInv
  <2> QED BY <1>2, <1>3, <1>4, <1>7, <1>11, <2>2, <2>3, SharesLemma
<1>18. pc' = pc /\ ckpts' = ckpts /\ loaders' = loaders BY DEF AddDocument
<1> QED BY <1>13, <1>18, <1>10, <1>14, <1>15, <1>16 DEF PoolsInv, StoredInv, PhaseInv, QueueInv, MainInv

\* A pack is taken from the pool.
LEMMA PoolsTakeLemma ==
    ASSUME PoolsInv, TakePack
    PROVE  PoolsInv'
<1> DEFINE pool == Fill(main.pool).kept
<1>1. main \in MainRecord /\ MainInv(main) /\ BuffersInv(main) BY DEF PoolsInv, MainInv
<1>2. pc = "pulling" /\ main.packs < PacksPerStep BY DEF TakePack
<1>4. PoolInv(pool) /\ pool \in Seq(Known) BY <1>1, TakeLemma DEF MainInv, PoolInv
<1>5. main' = [main EXCEPT !.pool = pool, !.packs = main.packs + 1] BY DEF TakePack
<1> HIDE DEF pool
<1>6. main' = [step |-> main.step, packs |-> main.packs + 1, pool |-> pool,
               consumed |-> main.consumed, loaded |-> main.loaded, target |-> main.target,
               buffers |-> main.buffers, gap |-> main.gap]
  BY <1>1, <1>5 DEF MainRecord
<1>9. MainInv(main') BY <1>1, <1>4, <1>6, PackingAssumption, <1>2 DEF MainInv, BuffersInv, Steady, MainRecord
<1> QED BY <1>2, <1>6, <1>9 DEF PoolsInv, StoredInv, PhaseInv, QueueInv, TakePack

-----------------------------------------------------------------------------
(* Sources without a usable row.                                           *)

\* A source without a usable row, while a run is up: only the source that is
\* being pulled from has rows counted, all of them in the epoch that is open.
Frozen(u) ==
    /\ main.consumed[u] > 0 => Picked(u)
    /\ pending[u] = 0
    /\ loaders[u].open => /\ loaders[u].full /\ loaders[u].expected = Len(Rows[u])
                          /\ loaders[u].samples = 0 /\ loaders[u].read = main.consumed[u]
    /\ ~loaders[u].open => main.consumed[u] = 0

\* A source without a usable row has been read at most once in every state.
FrozenInv ==
    \A u \in UselessSources :
        /\ main.consumed[u] <= Len(Rows[u])
        /\ pc # "down" => Frozen(u)
        /\ \A c \in ckpts : c.consumed[u] = 0

\* The rows counted of an epoch that began at the first row are at most all.
LEMMA ReadLemma ==
    ASSUME NEW s \in Source, NEW l, LoaderInv(l, Len(Rows[s])), l.open,
           l.queue \in Seq(InRange(s)), l.expected = Len(Rows[s])
    PROVE  l.read <= Len(Rows[s])
<1> DEFINE range == Len(Rows[s])
<1>1. l \in LoaderType /\ Open(l, range) /\ range \in Nat BY RangeLemma DEF LoaderInv, Unopened
<1>2. l.read \in Nat /\ l.next \in Nat /\ l.next <= range + 1 BY <1>1 DEF LoaderType, Open
<1>3. Position(l) \in Nat /\ Position(l) <= range + 1 BY <1>2, <1>1 DEF Position, InRange, Batches
<1> QED BY <1>1, <1>2, <1>3 DEF Open, Accounted

\* What an unchanged main rank picks is unchanged.
LEMMA SamePickLemma ==
    ASSUME pc' = pc, main'.step = main.step, main'.packs = main.packs, main'.pool = main.pool,
           main'.loaded = main.loaded, main'.target = main.target, NEW u
    PROVE  Picked(u)' <=> Picked(u)
BY DEF Picked, Refilling

\* The source that is picked depends on the shares only.
LEMMA SameMainPickLemma ==
    ASSUME pc' = pc, main' = main, NEW u
    PROVE  Picked(u)' <=> Picked(u)
BY DEF Picked, Refilling

\* A useless source is a source, with a count.
LEMMA UselessLemma ==
    ASSUME PoolsInv, NEW u \in UselessSources
    PROVE  u \in Source /\ main.consumed[u] \in Nat /\ Len(Rows[u]) \in Nat
<1> QED BY RangeLemma DEF Counts, UselessSources, PoolsInv, MainInv, MainRecord

\* Initially no row has been read.
LEMMA FrozenInitLemma == Init => FrozenInv
<1> SUFFICES ASSUME Init, NEW u \in UselessSources
             PROVE  /\ main.consumed[u] <= Len(Rows[u])
                    /\ pc = "down"
                    /\ \A c \in ckpts : c.consumed[u] = 0
  BY DEF FrozenInv
<1> QED BY RangeLemma DEF Init, Fresh, UselessSources

\* A source that is not being pulled from has no row counted.
LEMMA UnpickedLemma ==
    ASSUME PoolsInv, FrozenInv, NEW u \in UselessSources, pc # "down", ~Picked(u)
    PROVE  main.consumed[u] = 0
BY UselessLemma DEF FrozenInv, Frozen

\* The steps of the training loop count no row.
LEMMA FrozenRunLemma ==
    ASSUME PoolsInv, FrozenInv, NEW u \in UselessSources,
           \/ \E c \in ckpts : Start(c)
           \/ BeginStep \/ EndStep \/ Save \/ FailStep \/ Leave \/ TakePack
    PROVE  /\ main'.consumed[u] <= Len(Rows[u])
           /\ pc' # "down" => Frozen(u)'
           /\ \A c \in ckpts' : c.consumed[u] = 0
<1>1. /\ u \in Source /\ main.consumed[u] \in Nat /\ Len(Rows[u]) \in Nat
      /\ main.consumed[u] <= Len(Rows[u])
      /\ pc # "down" => Frozen(u)
      /\ \A c \in ckpts : c.consumed[u] = 0
  BY UselessLemma DEF FrozenInv
<1>2. main \in MainRecord BY DEF PoolsInv, MainInv
<1>3. ASSUME NEW c \in ckpts, Start(c)
      PROVE  /\ main'.consumed[u] <= Len(Rows[u])
             /\ pc' # "down" => Frozen(u)'
             /\ \A d \in ckpts' : d.consumed[u] = 0
  BY <1>3, <1>1 DEF Start, Closed, Frozen
<1>4. CASE BeginStep \/ EndStep \/ Save \/ FailStep \/ TakePack
  <2>1. loaders' = loaders /\ pending' = pending BY <1>4 DEF BeginStep, EndStep, Save, FailStep, TakePack
  <2>3. ~Picked(u)
    <3>1. main.packs = PacksPerStep => ~(main.packs < PacksPerStep) BY PackingAssumption
    <3> QED BY <1>4, <3>1
          DEF BeginStep, EndStep, Save, FailStep, TakePack, Picked, Refilling
  <2>4. main.consumed[u] = 0 /\ Frozen(u)
    BY <1>1, <2>3, UnpickedLemma, <1>4 DEF BeginStep, EndStep, Save, FailStep, TakePack
  <2>5. main'.consumed = main.consumed
    BY <1>2, <1>4 DEF BeginStep, EndStep, Save, FailStep, TakePack, MainRecord
  <2>6. \A c \in ckpts' : c \in ckpts \/ c.consumed = main.consumed
    <3> DEFINE k == [main EXCEPT !.packs = 0]
    <3>1. k.consumed = main.consumed BY <1>2 DEF MainRecord
    <3>2. ckpts' \subseteq ckpts \union {main, k} BY <1>4 DEF BeginStep, EndStep, Save, FailStep, TakePack
    <3> HIDE DEF k
    <3> QED BY <3>1, <3>2
  <2> QED BY <1>1, <2>4, <2>5, <2>6, <2>1 DEF Frozen
<1>5. CASE Leave BY <1>1, <1>5 DEF Leave
<1> QED BY <1>3, <1>4, <1>5

\* The workers count no row.
LEMMA FrozenWorkerLemma ==
    ASSUME IndInv, PoolsInv, FrozenInv, NEW u \in UselessSources, NEW s \in Source, Worker(s)
    PROVE  /\ main'.consumed[u] <= Len(Rows[u])
           /\ pc' # "down" => Frozen(u)'
           /\ \A c \in ckpts' : c.consumed[u] = 0
<1>1. main' = main /\ ckpts' = ckpts /\ pc' = pc /\ pending' = pending
  BY DEF Worker, ReadBatch, LoseBatch, EndOfRange, HandOver
<1>2. loaders \in [Source -> LoaderType] /\ u \in Source BY UselessLemma DEF IndInv
<1>3. ASSUME NEW b, HandOver(s, b)
      PROVE  /\ loaders'[u].open = loaders[u].open /\ loaders'[u].full = loaders[u].full
             /\ loaders'[u].expected = loaders[u].expected
             /\ loaders'[u].samples = loaders[u].samples /\ loaders'[u].read = loaders[u].read
  BY <1>2, <1>3 DEF HandOver, LoaderType
<1>4. /\ loaders'[u].open = loaders[u].open /\ loaders'[u].full = loaders[u].full
      /\ loaders'[u].expected = loaders[u].expected
      /\ loaders'[u].samples = loaders[u].samples /\ loaders'[u].read = loaders[u].read
  <2>1. CASE ReadBatch(s) BY <1>3, <2>1 DEF ReadBatch
  <2>2. CASE LoseBatch(s) BY <1>3, <2>2 DEF LoseBatch
  <2>3. CASE EndOfRange(s) BY <1>2, <2>3 DEF EndOfRange, LoaderType
  <2> QED BY <2>1, <2>2, <2>3 DEF Worker
<1> QED BY <1>1, <1>4, SameMainPickLemma DEF FrozenInv, Frozen

\* Only the loader of one source changes, and another source's is as before.
LEMMA OtherLoaderLemma ==
    ASSUME IndInv, NEW s \in Source, NEW u \in Source, u # s, NEW l,
           loaders' = [loaders EXCEPT ![s] = l]
    PROVE  loaders'[u] = loaders[u]
BY DEF IndInv

\* Opening, reopening and refusing an iterator count no row.
LEMMA FrozenOpenLemma ==
    ASSUME IndInv, PoolsInv, FrozenInv, NEW u \in UselessSources, NEW s \in Source,
           OpenIterator(s) \/ RestartIterator(s) \/ RefuseEpoch(s)
    PROVE  /\ main'.consumed[u] <= Len(Rows[u])
           /\ pc' # "down" => Frozen(u)'
           /\ \A c \in ckpts' : c.consumed[u] = 0
<1>1. main' = main /\ ckpts' = ckpts BY DEF OpenIterator, RestartIterator, RefuseEpoch
<1>2. /\ main.consumed[u] <= Len(Rows[u]) /\ (pc # "down" => Frozen(u))
      /\ \A c \in ckpts : c.consumed[u] = 0
  BY DEF FrozenInv
<1>3. u \in Source /\ Len(Rows[u]) \in Nat \ {0} BY UselessLemma, RangeLemma
<1>4. pc # "down" BY DEF OpenIterator, RestartIterator, RefuseEpoch, EpochOver, Pulling, Picked, Refilling
<1>5. CASE RefuseEpoch(s) BY <1>1, <1>2, <1>5 DEF RefuseEpoch
<1>6. ASSUME OpenIterator(s) \/ RestartIterator(s)
      PROVE  Frozen(u)'
  <2>1. pc' = pc BY <1>6 DEF OpenIterator, RestartIterator
  <2>2. Picked(u)' <=> Picked(u) BY <1>1, <2>1, SameMainPickLemma
  <2>3. CASE u # s
    <3>1. loaders'[u] = loaders[u] BY <1>3, <1>6, <2>3, OtherLoaderLemma DEF OpenIterator, RestartIterator
    <3>2. pending'[u] = pending[u] BY <1>3, <1>6, <2>3 DEF OpenIterator, RestartIterator, IndInv
    <3> QED BY <1>1, <1>2, <1>4, <2>2, <3>1, <3>2 DEF Frozen
  <2>4. CASE u = s /\ OpenIterator(s)
    <3>1. ~loaders[u].open /\ pending[u] = 0 /\ main.consumed[u] = 0
      BY <1>2, <1>4, <2>4 DEF OpenIterator, Frozen
    <3>2. Skip(u, pending[u]) = 0
      <4> DEFINE range == Len(Rows[u])
      <4>1. range \in Nat \ {0} BY <1>3
      <4> HIDE DEF range
      <4>2. 0 % range = 0 BY <4>1
      <4> QED BY <3>1, <4>2 DEF Skip, range
    <3>4. /\ Opened(u, 0).open /\ Opened(u, 0).full /\ Opened(u, 0).read = 0
          /\ Opened(u, 0).samples = 0 /\ Opened(u, 0).expected = Len(Rows[u])
      <4> DEFINE fromStart == 0 = 0
                 range == Len(Rows[u])
      <4>1. Opened(u, 0) = [Closed EXCEPT !.open = TRUE, !.next = 0 + 1, !.full = fromStart,
                                          !.expected = range - 0]
        BY DEF Opened
      <4>2. fromStart /\ range \in Nat BY <1>3
      <4> HIDE DEF fromStart, range
      <4>3. /\ Opened(u, 0).open /\ Opened(u, 0).full = fromStart /\ Opened(u, 0).read = 0
            /\ Opened(u, 0).samples = 0 /\ Opened(u, 0).expected = range - 0
        BY <4>1 DEF Closed
      <4>4. Opened(u, 0).open /\ Opened(u, 0).full BY <4>2, <4>3
      <4>6. Opened(u, 0).expected = range BY <4>2, <4>3
      <4> QED BY <4>4, <4>6, <4>3 DEF range
    <3> QED BY <1>1, <3>1, <3>4, <1>3, <2>4, <3>2 DEF Frozen, OpenIterator, IndInv
  <2>5. CASE u = s /\ RestartIterator(s)
    <3> DEFINE l == loaders[s]
    <3>1. l.ended /\ ~(l.full /\ l.samples = 0) BY <2>5 DEF RestartIterator, EpochOver, Useless
    <3> QED BY <1>2, <1>4, <2>5, <3>1 DEF Frozen, IndInv, LoaderInv, Open, Unopened
  <2> QED BY <1>6, <2>3, <2>4, <2>5
<1> QED BY <1>1, <1>2, <1>5, <1>6

\* Reading a batch counts its rows: within the first pass.
LEMMA FrozenReadLemma ==
    ASSUME IndInv, PoolsInv, FrozenInv, IndInv', PoolsInv', NEW u \in UselessSources, NEW s \in Source,
           PullBatch(s)
    PROVE  /\ main'.consumed[u] <= Len(Rows[u])
           /\ pc' # "down" => Frozen(u)'
           /\ \A c \in ckpts' : c.consumed[u] = 0
<1> DEFINE l == loaders[s]
           b == l.queue[1]
           rows == RowsRead(s, b)
           m == [[[l EXCEPT !.queue = Tail(@)]
                        EXCEPT !.read = @ + rows]
                        EXCEPT !.samples = @ + Len(Samples(s, b))]
           consumed == [main.consumed EXCEPT ![s] = @ + rows]
           buffers == [main.buffers EXCEPT ![s] = Samples(s, b)]
<1>1. /\ loaders \in [Source -> LoaderType] /\ l \in LoaderType /\ l.open
      /\ l.queue \in Seq(InRange(s)) /\ l.queue # <<>>
  BY DEF IndInv, PoolsInv, QueueInv, PullBatch, Ready
<1>2. Head(l.queue) = b /\ b \in InRange(s) BY <1>1
<1>3. loaders' = [loaders EXCEPT ![s] = m] BY <1>1, <1>2 DEF PullBatch
<1>4. main' = [main EXCEPT !.consumed = consumed, !.buffers = buffers] BY <1>2 DEF PullBatch
<1>5. pc' = pc /\ ckpts' = ckpts /\ pending' = pending /\ Picked(s) /\ pc # "down"
  BY DEF PullBatch, Pulling, Picked, Refilling
<1>6. /\ main.consumed[u] <= Len(Rows[u]) /\ Frozen(u)
      /\ \A c \in ckpts : c.consumed[u] = 0
  BY <1>5 DEF FrozenInv
<1>7. /\ u \in Source /\ Len(Rows[u]) \in Nat
      /\ main.consumed \in Counts /\ main \in MainRecord
  BY UselessLemma DEF PoolsInv, MainInv, MainRecord
<1>8. rows \in Nat BY <1>2 DEF RowsRead, InRange, Batches
<1> HIDE DEF b, rows
<1>10. /\ m.open = l.open /\ m.full = l.full /\ m.expected = l.expected
       /\ m.read = l.read + rows /\ m.samples = l.samples + Len(Samples(s, b))
  BY <1>1 DEF LoaderType
<1> HIDE DEF m, buffers
<1>11. /\ consumed \in [Source -> Nat]
       /\ \A t \in Source : consumed[t] = IF t = s THEN main.consumed[s] + rows ELSE main.consumed[t]
  BY <1>7, <1>8 DEF Counts
<1> HIDE DEF consumed
<1>12. /\ main'.consumed = consumed /\ main'.step = main.step /\ main'.packs = main.packs
       /\ main'.pool = main.pool /\ main'.loaded = main.loaded /\ main'.target = main.target
  BY <1>4, <1>7 DEF MainRecord
<1>13. Picked(u)' <=> Picked(u) BY <1>5, <1>12, SamePickLemma
<1>14. CASE u # s
  <2>1. loaders'[u] = loaders[u] BY <1>3, <1>7, <1>14, OtherLoaderLemma
  <2>2. main'.consumed[u] = main.consumed[u] BY <1>7, <1>11, <1>12, <1>14
  <2> QED BY <1>5, <1>6, <1>13, <2>1, <2>2 DEF Frozen
<1>15. CASE u = s
  <2>1. loaders'[u] = m BY <1>1, <1>3, <1>15
  <2>2. main'.consumed[u] = main.consumed[u] + rows BY <1>7, <1>11, <1>12, <1>15
  <2>3. l.full /\ l.expected = Len(Rows[u]) /\ l.samples = 0 /\ l.read = main.consumed[u]
    BY <1>1, <1>6, <1>15 DEF Frozen
  <2>4. Len(Samples(s, b)) = 0 BY <1>15, <1>2, DocumentsLemma
  <2>5. Frozen(u)'
    <3>1. loaders'[u].open /\ loaders'[u].full /\ loaders'[u].expected = Len(Rows[u])
      BY <1>1, <1>10, <2>1, <2>3
    <3>2. loaders'[u].samples = 0 /\ loaders'[u].read = main'.consumed[u] BY <1>10, <2>1, <2>2, <2>3, <2>4
    <3> QED BY <3>1, <3>2, <1>5, <1>6, <1>13, <1>15 DEF Frozen
  <2>6. main'.consumed[u] <= Len(Rows[u])
    <3>1. LoaderInv(m, Len(Rows[u])) /\ m.queue \in Seq(InRange(u))
      BY <1>7, <2>1 DEF IndInv, PoolsInv, QueueInv
    <3>2. m.open /\ m.expected = Len(Rows[u]) /\ m.read = main'.consumed[u] BY <1>1, <1>10, <2>2, <2>3
    <3> QED BY <1>7, <3>1, <3>2, ReadLemma
  <2> QED BY <1>5, <1>6, <2>5, <2>6
<1> QED BY <1>14, <1>15

\* Passing over a lost batch counts no row.
LEMMA FrozenPassOverLemma ==
    ASSUME IndInv, PoolsInv, FrozenInv, NEW u \in UselessSources, NEW s \in Source, PassOverLost(s)
    PROVE  /\ main'.consumed[u] <= Len(Rows[u])
           /\ pc' # "down" => Frozen(u)'
           /\ \A c \in ckpts' : c.consumed[u] = 0
<1> DEFINE l == loaders[s]
           m == [[l EXCEPT !.queue = Tail(@)] EXCEPT !.gap = TRUE]
           gap == [main.gap EXCEPT ![s] = TRUE]
<1>1. loaders \in [Source -> LoaderType] /\ l \in LoaderType /\ u \in Source BY UselessLemma DEF IndInv
<1> HIDE DEF m
<1>4. /\ loaders'[u].open = loaders[u].open /\ loaders'[u].full = loaders[u].full
      /\ loaders'[u].expected = loaders[u].expected
      /\ loaders'[u].samples = loaders[u].samples /\ loaders'[u].read = loaders[u].read
  BY <1>1 DEF PassOverLost, LoaderType
<1> HIDE DEF gap
<1>6. /\ main'.consumed = main.consumed /\ main'.step = main.step /\ main'.packs = main.packs
      /\ main'.pool = main.pool /\ main'.loaded = main.loaded /\ main'.target = main.target
  BY DEF MainRecord, PassOverLost, PoolsInv, MainInv
<1> QED BY <1>6, <1>4, SamePickLemma DEF FrozenInv, Frozen, PassOverLost

\* A document is only added from a buffer that has one, so of no useless source.
LEMMA FrozenAddLemma ==
    ASSUME PoolsInv, FrozenInv, NEW u \in UselessSources, NEW s \in Source, AddDocument(s)
    PROVE  /\ main'.consumed[u] <= Len(Rows[u])
           /\ pc' # "down" => Frozen(u)'
           /\ \A c \in ckpts' : c.consumed[u] = 0
<1>1. main \in MainRecord /\ BuffersInv(main) BY DEF PoolsInv, MainInv
<1>2. pc # "down" /\ Picked(s) /\ main.buffers[s] # <<>> BY DEF AddDocument, Picked, Refilling
<1>6. main'.consumed = main.consumed BY <1>1 DEF AddDocument, MainRecord
<1>7. pc' = pc /\ loaders' = loaders /\ pending' = pending /\ ckpts' = ckpts BY DEF AddDocument
<1>8. Frozen(u) /\ main.consumed[u] <= Len(Rows[u]) /\ \A c \in ckpts : c.consumed[u] = 0
  BY <1>2 DEF FrozenInv
<1> QED BY <1>6, <1>7, <1>8, <1>2, UnpickedLemma, <1>1 DEF Frozen, Picked, BuffersInv

\* The invariant of the documents.
DocumentsInv == PoolsInv /\ FrozenInv

\* THEOREM: the invariant of the documents holds in every state (_refill_pool and
\* _next_pack of src/training/batch_stream.py, and what state_dict stores of them).
THEOREM DocumentInvariance == Spec => []DocumentsInv
<1>1. Init => DocumentsInv BY PoolsInitLemma, FrozenInitLemma DEF DocumentsInv
<1>2. ASSUME IndInv, IndInv', DocumentsInv, [Next]_vars
      PROVE  DocumentsInv'
  <2>1. PoolsInv /\ FrozenInv BY <1>2 DEF DocumentsInv
  <2>2. CASE UNCHANGED vars \/ Done
    <3>2. pc' = pc /\ main' = main /\ loaders' = loaders /\ pending' = pending /\ ckpts' = ckpts
      BY <2>2 DEF vars, Done
    <3>4. ASSUME NEW u
          PROVE  Frozen(u) => Frozen(u)'
      BY <3>2, SameMainPickLemma DEF Frozen
    <3>5. FrozenInv' BY <2>1, <3>2, <3>4 DEF FrozenInv
    <3> QED BY <3>5, <2>1, <3>2 DEF DocumentsInv, PoolsInv, StoredInv, QueueInv, PhaseInv
  <2>3. ASSUME NEW c \in ckpts, Start(c)
        PROVE  DocumentsInv'
    BY <2>1, <2>3, PoolsStartLemma, FrozenRunLemma DEF FrozenInv, DocumentsInv
  <2>4. CASE BeginStep \/ EndStep \/ Save \/ FailStep \/ Leave
    BY <2>1, <2>4, PoolsRunLemma, FrozenRunLemma DEF FrozenInv, DocumentsInv
  <2>5. CASE TakePack BY <2>1, <2>5, PoolsTakeLemma, FrozenRunLemma DEF FrozenInv, DocumentsInv
  <2>6. ASSUME NEW s \in Source, Worker(s)
        PROVE  DocumentsInv'
    BY <1>2, <2>1, <2>6, PoolsWorkerLemma, FrozenWorkerLemma DEF FrozenInv, DocumentsInv
  <2>7. ASSUME NEW s \in Source, OpenIterator(s) \/ RestartIterator(s) \/ RefuseEpoch(s)
        PROVE  DocumentsInv'
    BY <1>2, <2>1, <2>7, PoolsOpenLemma, FrozenOpenLemma DEF FrozenInv, DocumentsInv
  <2>8. ASSUME NEW s \in Source, PullBatch(s)
        PROVE  DocumentsInv'
    BY <1>2, <2>1, <2>8, PoolsPullLemma, FrozenReadLemma DEF FrozenInv, DocumentsInv
  <2>9. ASSUME NEW s \in Source, PassOverLost(s)
        PROVE  DocumentsInv'
    BY <1>2, <2>1, <2>9, PoolsPassOverLemma, FrozenPassOverLemma DEF FrozenInv, DocumentsInv
  <2>10. ASSUME NEW s \in Source, AddDocument(s)
        PROVE  DocumentsInv'
    BY <2>1, <2>10, PoolsAddLemma, FrozenAddLemma DEF FrozenInv, DocumentsInv
  <2> QED BY <1>2, <2>2, <2>3, <2>4, <2>5, <2>6, <2>7, <2>8, <2>9, <2>10 DEF Next, Reader
<1> QED BY <1>1, <1>2, StreamInvariance, PTL DEF Spec

\* THEOREM: no source runs ahead of, or behind, its share of the tokens by more than
\* a document of each of the others (_pick_source).
THEOREM SharesAlwaysBounded == Spec => []SharesBounded
<1>1. DocumentsInv => SharesBounded
  <2> SUFFICES ASSUME DocumentsInv, \A n \in 0..(TotalSteps - 1) : n <= main.step => Weight[n] = Weight[0],
                      NEW s \in Active(0)
               PROVE  LET deficit == Deficit(main.loaded, main.target, s)
                          others == [t \in Active(0) \ {s} |-> LongestOf(t)]
                      IN /\ deficit >= -(Scale * LongestOf(s))
                         /\ deficit <= Scale * Total(others)
    BY DEF SharesBounded
  <2>1. Shares(main.loaded, main.target) /\ main.loaded \in Counts /\ main.target \in Counts
    BY DEF DocumentsInv, PoolsInv, MainInv, Steady, MainRecord
  <2> QED BY <2>1, UpperLemma DEF Shares
<1> QED BY <1>1, DocumentInvariance, PTL

\* THEOREM: no document waits in the pool for more than a bounded number of packs,
\* although every later document that fits overtakes it (first fit of _next_pack).
THEOREM NoDocumentEverStarves == Spec => []NoDocumentStarves
<1>1. DocumentsInv => NoDocumentStarves
  BY WaitedLemma DEF NoDocumentStarves, DocumentsInv, PoolsInv, MainInv, PoolInv
<1> QED BY <1>1, DocumentInvariance, PTL

\* THEOREM: a source without a usable row is read once and then refused, in whatever
\* attempt that happens; it is never read around forever.
THEOREM UselessSourceAlwaysReadOnce == Spec => []UselessSourceReadOnce
<1>1. DocumentsInv => UselessSourceReadOnce
  BY DEF DocumentsInv, FrozenInv, UselessSourceReadOnce, UselessSources
<1> QED BY <1>1, DocumentInvariance, PTL

-----------------------------------------------------------------------------
(* The endless reading of a source.                                        *)

\* The operators of the abstract stream are those of the batch stream.
LEMMA SameOperatorsLemma ==
    /\ \A S : Stream!Cardinality(S) = Cardinality(S)
    /\ \A q : Stream!Fill(q) = Fill(q)
    /\ \A q : Stream!NeedsRefill(q) <=> NeedsRefill(q)
    /\ \A n, e, t : Stream!PickSource(n, e, t) = PickSource(n, e, t)
    /\ \A t, n, k : Stream!Earned(t, n, k) = Earned(t, n, k)
    /\ \A e, s, k : Stream!Loaded(e, s, k) = Loaded(e, s, k)
    /\ \A d : Stream!Slots(d) = Slots(d)
    /\ \A s, i : Stream!DocumentOf(s, i) = DocumentOf(s, i)
<1>2. \A q : Stream!Fill(q) = Fill(q)
  BY Zenon DEF Stream!Fill, Fill, Stream!FoldLeft, FoldLeft, Stream!MapThenFoldSet,
               MapThenFoldSet, Stream!Max, Max, Stream!Offer, Offer, Stream!EmptyPack,
               EmptyPack, Stream!Slots, Slots, Stream!Waiting, Waiting
<1>3. \A q : Stream!NeedsRefill(q) <=> NeedsRefill(q)
  BY Zenon DEF Stream!NeedsRefill, NeedsRefill, Stream!Tokens, Tokens, Stream!FoldLeft,
               FoldLeft, Stream!MapThenFoldSet, MapThenFoldSet, Stream!Max, Max,
               Stream!Slots, Slots
<1>4. \A n, e, t : Stream!PickSource(n, e, t) = PickSource(n, e, t)
  BY Zenon DEF Stream!PickSource, PickSource, Stream!Active, Active, Stream!Deficit, Deficit
<1>5. /\ \A t, n, k : Stream!Earned(t, n, k) = Earned(t, n, k)
      /\ \A e, s, k : Stream!Loaded(e, s, k) = Loaded(e, s, k)
      /\ \A d : Stream!Slots(d) = Slots(d)
      /\ \A s, i : Stream!DocumentOf(s, i) = DocumentOf(s, i)
  BY Zenon DEF Stream!Earned, Earned, Stream!Loaded, Loaded, Stream!Slots, Slots,
               Stream!DocumentOf, DocumentOf
<1> QED BY <1>2, <1>3, <1>4, <1>5 DEF Stream!Cardinality, Cardinality, Stream!IsFiniteSet, IsFiniteSet

\* y as so many times r and a rest.
Divided(y, r, q, x) == y = q * r + x

\* A division is known by its remainder.
LEMMA DivisionLemma ==
    ASSUME NEW r \in Nat \ {0}, NEW q \in Nat, NEW x \in 0..(r - 1), NEW y, Divided(y, r, q, x)
    PROVE  y \in Nat /\ y \div r = q /\ y % r = x
<1> DEFINE d == y \div r
           m == y % r
<1>1. y = q * r + x /\ q * r \in Nat BY DEF Divided
<1>2. y \in Nat BY <1>1
<1> HIDE DEF d, m
<1> QED BY <1>2, <1>1 DEF d, m

\* The division of what comes after a few more rows, up to the end of the range.
LEMMA AdvanceLemma ==
    ASSUME NEW r \in Nat \ {0}, NEW c \in Nat, NEW n \in Nat, (c % r) + n <= r
    PROVE  /\ (c % r) + n < r => (c + n) \div r = c \div r /\ (c + n) % r = (c % r) + n
           /\ (c % r) + n = r => (c + n) \div r = c \div r + 1 /\ (c + n) % r = 0
           /\ c % r \in 0..(r - 1) /\ c \div r \in Nat
<1> DEFINE d == c \div r
           m == c % r
<1>1. d \in Nat /\ m \in 0..(r - 1) /\ c = r * d + m OBVIOUS
<1> HIDE DEF d, m
<1>2. r * d = d * r /\ d * r \in Nat BY <1>1
<1>3. m + n < r => (c + n) \div r = d /\ (c + n) % r = m + n
  <2> HAVE m + n < r
  <2>1. m + n \in 0..(r - 1) /\ c + n = d * r + (m + n) BY <1>1, <1>2
  <2>2. Divided(c + n, r, d, m + n) BY <2>1 DEF Divided
  <2>3. /\ m + n \in 0..(r - 1) /\ d \in Nat /\ r \in Nat \ {0} BY <1>1, <2>1
  <2> QED BY <2>2, <2>3, DivisionLemma
<1>4. m + n = r => (c + n) \div r = d + 1 /\ (c + n) % r = 0
  <2> HAVE m + n = r
  <2>2. 0 \in 0..(r - 1) /\ d + 1 \in Nat /\ c + n = (d + 1) * r + 0 BY <1>1, <1>2
  <2>3. Divided(c + n, r, d + 1, 0) BY <2>2 DEF Divided
  <2>4. 0 \in 0..(r - 1) /\ d + 1 \in Nat BY <2>2
  <2> QED BY <2>3, <2>4, DivisionLemma
<1> QED BY <1>1, <1>3, <1>4 DEF d, m

\* Two elements with as many elements up to them are the same.
LEMMA SameRankLemma ==
    ASSUME NEW T \in SUBSET Nat, IsFiniteSet(T), NEW x \in T, NEW y \in T,
           Cardinality(UpTo(T, x)) = Cardinality(UpTo(T, y))
    PROVE  x = y
<1>1. ASSUME NEW a \in T, NEW b \in T, a <= b,
             Cardinality(UpTo(T, a)) = Cardinality(UpTo(T, b))
      PROVE  a = b
  <2>3. UpTo(T, a) \in SUBSET UpTo(T, b)
    <3>1. \A j \in T : j <= a => j <= b BY <1>1
    <3> QED BY <3>1 DEF UpTo
  <2>6. b <= a BY <1>1, <2>3, FS_Subset DEF UpTo
  <2> QED BY <1>1, <2>6
<1> QED BY <1>1

\* The rows of a source that become documents.
Documented(s) == {i \in DOMAIN Rows[s] : Rows[s][i] > 0}

\* The usable rows of a source, and how many come before a row.
LEMMA DocumentedLemma ==
    ASSUME NEW s \in Source
    PROVE  /\ Documented(s) \in SUBSET Nat /\ IsFiniteSet(Documented(s))
           /\ Cardinality(Documented(s)) \in Nat
           /\ \A i \in Documented(s) : i \in 1..Len(Rows[s])
           /\ \A n \in 0..Len(Rows[s]) : /\ UsableBefore(s, n) = Cardinality(UpTo(Documented(s), n))
                                         /\ UsableBefore(s, n) \in Nat
                                         /\ UsableBefore(s, n) <= Cardinality(Documented(s))
           /\ UsableBefore(s, 0) = 0
           /\ UsableBefore(s, Len(Rows[s])) = Cardinality(Documented(s))
<1> DEFINE D == Documented(s)
           r == Len(Rows[s])
<1>1. r \in Nat \ {0} /\ DOMAIN Rows[s] = 1..r BY RangeLemma, PackingAssumption
<1>2. D \in SUBSET Nat /\ \A i \in D : i \in 1..r /\ i <= r BY <1>1 DEF Documented
<1>3. IsFiniteSet(D) /\ Cardinality(D) \in Nat BY <1>1, <1>2, FS_BoundedSetOfNaturals, FS_CardinalityType
<1>4. ASSUME NEW n \in 0..r
      PROVE  /\ UsableBefore(s, n) = Cardinality(UpTo(D, n))
             /\ UsableBefore(s, n) \in Nat /\ UsableBefore(s, n) <= Cardinality(D)
  BY <1>1, <1>2, <1>3, FS_Subset, FS_CardinalityType DEF UpTo, Documented, UsableBefore
<1>7. UsableBefore(s, 0) = 0 /\ UsableBefore(s, r) = Cardinality(D) BY <1>4, FS_EmptySet, <1>2, <1>1 DEF UpTo
<1> QED BY <1>2, <1>3, <1>4, <1>7

\* What the endless source delivers is known by its ranks.
LEMMA UsableLemma ==
    ASSUME NEW s \in Source
    PROVE  /\ Len(Stream!Usable(s)) = Cardinality(Documented(s))
           /\ \A x \in Documented(s) :
                 /\ Cardinality(UpTo(Documented(s), x)) \in 1..Cardinality(Documented(s))
                 /\ Stream!Usable(s)[Cardinality(UpTo(Documented(s), x))] = x
<1> DEFINE D == Documented(s)
           n == Cardinality(D)
           at(k) == CHOOSE i \in D : Cardinality({j \in D : j <= i}) = k
           u == [k \in 1..n |-> at(k)]
<1>1. D \in SUBSET Nat /\ IsFiniteSet(D) /\ n \in Nat BY DocumentedLemma
<1>2. Stream!Usable(s) = u
  BY Zenon DEF Stream!Usable, Documented, Stream!Cardinality, Cardinality,
               Stream!IsFiniteSet, IsFiniteSet
<1> HIDE DEF D, n
<1>4. ASSUME NEW x \in D
      PROVE  Cardinality(UpTo(D, x)) \in 1..n /\ at(Cardinality(UpTo(D, x))) = x
  <2> DEFINE k == Cardinality(UpTo(D, x))
  <2> HIDE DEF k
  <2>8. at(k) = x BY <1>1, SameRankLemma DEF k, UpTo
  <2> QED BY <1>1, <2>8, FS_EmptySet, FS_Subset, FS_CardinalityType DEF k, UpTo, n
<1> HIDE DEF at
<1> QED BY <1>2, <1>4, <1>1 DEF D, n

\* Where the documents of a batch stand among those of their source.
LEMMA BatchRanksLemma ==
    ASSUME NEW s \in Source, NEW b \in InRange(s)
    PROVE  /\ Len(Samples(s, b)) \in Nat
           /\ UsableBefore(s, b.to) = UsableBefore(s, b.from - 1) + Len(Samples(s, b))
           /\ \A k \in 1..Len(Samples(s, b)) :
                 Samples(s, b)[k] = DocumentOf(s, Stream!Usable(s)[UsableBefore(s, b.from - 1) + k])
<1> DEFINE D == Documented(s)
           r == Len(Rows[s])
           B == {i \in b.from..b.to : Rows[s][i] > 0}
           a == b.from - 1
           n == Cardinality(B)
           row(k) == CHOOSE i \in B : Cardinality({j \in B : j <= i}) = k
           doc == [k \in 1..n |-> DocumentOf(s, row(k))]
           head == UpTo(D, a)
<1>1. /\ b.from \in Nat /\ b.to \in Nat /\ 1 <= b.from /\ b.from <= b.to /\ b.to <= r
      /\ r \in Nat /\ DOMAIN Rows[s] = 1..r
  BY RangeLemma, PackingAssumption DEF InRange, Batches
<1>3. /\ D \in SUBSET Nat /\ IsFiniteSet(D)
      /\ \A x \in D : x \in 1..r
      /\ UsableBefore(s, a) = Cardinality(head) /\ UsableBefore(s, b.to) = Cardinality(UpTo(D, b.to))
  BY DocumentedLemma, <1>1
<1>4. Samples(s, b) = doc BY DEF Samples
<1>5. B \in SUBSET D /\ \A x \in D : x \in B <=> b.from <= x /\ x <= b.to BY <1>1, <1>3 DEF Documented
<1> HIDE DEF D, B
<1>6. IsFiniteSet(head) /\ IsFiniteSet(B) /\ Cardinality(head) \in Nat /\ n \in Nat
  <2>1. head \in SUBSET D BY DEF UpTo
  <2> QED BY <1>3, <1>5, <2>1, FS_Subset, FS_CardinalityType
<1>7. ASSUME NEW x \in Nat, b.from <= x, x <= b.to
      PROVE  Cardinality(UpTo(D, x)) = Cardinality(head) + Cardinality(UpTo(B, x))
  <2>1. UpTo(D, x) = head \union UpTo(B, x)
    <3>1. \A j \in D : j <= x <=> j <= a \/ (j \in B /\ j <= x)
      <4> TAKE j \in D
      <4> QED BY <1>1, <1>7, <1>3, <1>5
    <3> QED BY <1>5, <3>1 DEF UpTo
  <2>2. head \cap UpTo(B, x) = {}
    <3>1. \A j \in B : ~(j <= a)
      <4> TAKE j \in B
      <4> QED BY <1>1, <1>3, <1>5
    <3> QED BY <3>1 DEF UpTo
  <2>4. IsFiniteSet(UpTo(B, x)) /\ Cardinality(UpTo(B, x)) \in Nat
    BY <1>6, FS_Subset, FS_CardinalityType DEF UpTo
  <2>5. Cardinality(head \cap UpTo(B, x)) = 0 BY <2>2, FS_EmptySet
  <2> HIDE DEF head
  <2>6. Cardinality(head \union UpTo(B, x)) =
            Cardinality(head) + Cardinality(UpTo(B, x)) - Cardinality(head \cap UpTo(B, x))
    BY <1>6, <2>4, FS_Union
  <2> QED BY <1>6, <2>1, <2>4, <2>5, <2>6
<1>8. UpTo(B, b.to) = B BY <1>5 DEF UpTo
<1>9. UsableBefore(s, b.to) = UsableBefore(s, a) + n BY <1>1, <1>3, <1>7, <1>8
<1>10. ASSUME NEW k \in 1..n
       PROVE  row(k) = Stream!Usable(s)[UsableBefore(s, a) + k]
  <2>1. B \in SUBSET Nat /\ \A x \in B : x <= b.to BY <1>3, <1>5
  <2>2. \E i \in B : Cardinality(UpTo(B, i)) = k BY <1>1, <2>1, RankLemma
  <2> DEFINE x == row(k)
  <2>5. x \in B /\ Cardinality(UpTo(B, x)) = k BY <2>2 DEF UpTo
  <2> HIDE DEF x
  <2>6. x \in D /\ x \in Nat /\ b.from <= x /\ x <= b.to BY <1>3, <1>5, <2>5
  <2>7. Cardinality(UpTo(D, x)) = UsableBefore(s, a) + k BY <1>3, <1>7, <2>5, <2>6
  <2>8. Stream!Usable(s)[Cardinality(UpTo(D, x))] = x BY <2>6, UsableLemma DEF D
  <2> QED BY <2>7, <2>8 DEF x
<1> HIDE DEF row, n, a
<1>11. Len(doc) = n /\ \A k \in 1..n : doc[k] = DocumentOf(s, row(k)) BY <1>6
<1> HIDE DEF doc
<1> QED BY <1>4, <1>6, <1>9, <1>10, <1>11 DEF a

\* The documents among the first c rows of the endless source.
Before(s, c) ==
    (c \div Len(Rows[s])) * UsableBefore(s, Len(Rows[s])) + UsableBefore(s, c % Len(Rows[s]))

\* How many documents come before a row of the endless reading: rows of the same
\* pass add what lies between them.
LEMMA BeforeLemma ==
    ASSUME NEW s \in Source, NEW c \in Nat, NEW n \in Nat, (c % Len(Rows[s])) + n <= Len(Rows[s])
    PROVE  /\ Before(s, c) \in Nat
           /\ Before(s, c + n) = Before(s, c) + UsableBefore(s, (c % Len(Rows[s])) + n)
                                     - UsableBefore(s, c % Len(Rows[s]))
           /\ UsableBefore(s, (c % Len(Rows[s])) + n) \in Nat
           /\ UsableBefore(s, c % Len(Rows[s])) \in Nat
<1> DEFINE r == Len(Rows[s])
           m == c % r
           d == c \div r
           K == UsableBefore(s, r)
           um == UsableBefore(s, m)
           un == UsableBefore(s, m + n)
<1>1. /\ r \in Nat \ {0} /\ UsableBefore(s, 0) = 0
      /\ \A i \in 0..r : UsableBefore(s, i) \in Nat
  BY RangeLemma, DocumentedLemma
<1>2. Before(s, c) = d * K + um /\ Before(s, c + n) = ((c + n) \div r) * K + UsableBefore(s, (c + n) % r)
  BY DEF Before
<1>3. m + n <= r OBVIOUS
<1> HIDE DEF r
<1>4. /\ m + n < r => (c + n) \div r = d /\ (c + n) % r = m + n
      /\ m + n = r => (c + n) \div r = d + 1 /\ (c + n) % r = 0
      /\ m \in 0..(r - 1) /\ d \in Nat
  BY <1>1, <1>3, AdvanceLemma
<1> HIDE DEF m, d
<1>5. m \in 0..r /\ m + n \in 0..r /\ r \in 0..r /\ (m + n < r \/ m + n = r) BY <1>1, <1>3, <1>4
<1>6. um \in Nat /\ un \in Nat /\ K \in Nat BY <1>1, <1>5
<1>7. m + n = r => K = un OBVIOUS
<1>8. /\ m + n < r => Before(s, c + n) = d * K + un
      /\ m + n = r => Before(s, c + n) = (d + 1) * K
  <2>1. CASE m + n < r BY <1>2, <1>4, <2>1, <1>3, <1>5
  <2>2. CASE m + n = r BY <1>1, <1>2, <1>4, <2>2, <1>6
  <2> QED BY <1>5, <2>1, <2>2
<1> HIDE DEF K, um, un
<1>9. d * K \in Nat /\ (d + 1) * K = d * K + K BY <1>4, <1>6
<1>10. Before(s, c + n) = d * K + un BY <1>5, <1>6, <1>7, <1>8, <1>9
<1>11. Before(s, c) \in Nat /\ Before(s, c + n) = Before(s, c) + un - um BY <1>2, <1>6, <1>9, <1>10
<1> QED BY <1>6, <1>11 DEF um, un, m, r

\* The k-th document that comes after c rows.
LEMMA NthLemma ==
    ASSUME NEW s \in Source, NEW c \in Nat, NEW k \in Nat \ {0},
           UsableBefore(s, c % Len(Rows[s])) + k <= UsableBefore(s, Len(Rows[s]))
    PROVE  Stream!Nth(s, Before(s, c) + k) =
              DocumentOf(s, Stream!Usable(s)[UsableBefore(s, c % Len(Rows[s])) + k])
<1> DEFINE r == Len(Rows[s])
           m == c % r
           d == c \div r
           K == UsableBefore(s, r)
           u == UsableBefore(s, m)
           y == Before(s, c) + k - 1
           x == u + k - 1
<1>1. /\ r \in Nat \ {0} /\ \A i \in 0..r : UsableBefore(s, i) \in Nat BY RangeLemma, DocumentedLemma
<1>2. u + k <= K /\ Before(s, c) = d * K + u BY DEF Before
<1>3. Len(Stream!Usable(s)) = K BY UsableLemma, DocumentedLemma
<1> HIDE DEF r
<1>4. m \in 0..r /\ d \in Nat /\ r \in 0..r BY <1>1
<1> HIDE DEF m, d
<1>5. u \in Nat /\ K \in Nat BY <1>1, <1>4
<1>6. \A n : Stream!Nth(s, n) = DocumentOf(s, Stream!Usable(s)[((n - 1) % Len(Stream!Usable(s))) + 1])
  <2> TAKE n
  <2> QED BY SameOperatorsLemma DEF Stream!Nth
<1> HIDE DEF K, u
<1>7. d * K \in Nat /\ Before(s, c) \in Nat BY <1>4, <1>5, <1>2
<1>8. x \in 0..(K - 1) /\ K \in Nat \ {0} /\ y = d * K + x BY <1>2, <1>5, <1>7
<1>9. Divided(y, K, d, x) BY <1>8 DEF Divided
<1>10. (Before(s, c) + k) - 1 = y /\ x + 1 = u + k BY <1>5, <1>7
<1> HIDE DEF y, x
<1>11. y % K = x BY <1>4, <1>8, <1>9, DivisionLemma
<1>12. Stream!Nth(s, Before(s, c) + k) = DocumentOf(s, Stream!Usable(s)[u + k]) BY <1>3, <1>6, <1>10, <1>11
<1> QED BY <1>12 DEF u, m, r

\* The documents in a buffer are those that come after what was drawn.
Buffered(s, c, q) ==
    /\ Len(q) <= Before(s, c)
    /\ \A k \in 1..Len(q) : q[k] = Stream!Nth(s, Before(s, c) - Len(q) + k)

\* A batch brings the documents of the rows after those consumed.
LEMMA SampledLemma ==
    ASSUME NEW s \in Source, NEW c \in Nat, NEW b \in InRange(s), b.from = (c % Len(Rows[s])) + 1
    PROVE  /\ Before(s, c + RowsRead(s, b)) = Before(s, c) + Len(Samples(s, b))
           /\ Buffered(s, c + RowsRead(s, b), Samples(s, b))
<1> DEFINE r == Len(Rows[s])
           m == c % r
           n == RowsRead(s, b)
           q == Samples(s, b)
           p == Before(s, c)
           um == UsableBefore(s, m)
           K == UsableBefore(s, r)
           from == b.from
           to == b.to
           ut == UsableBefore(s, to)
           len == Len(q)
<1>1. /\ from \in Nat /\ to \in Nat /\ from <= to /\ to <= r /\ r \in Nat \ {0}
      /\ n = to - from + 1
  BY RangeLemma DEF InRange, Batches, RowsRead
<1>2. from = m + 1 OBVIOUS
<1>3. K \in Nat /\ ut <= K BY <1>1, DocumentedLemma
<1>4. n \in Nat => (m + n <= r => p \in Nat /\ Before(s, c + n) = p + UsableBefore(s, m + n) - um
                                  /\ UsableBefore(s, m + n) \in Nat /\ um \in Nat)
  BY BeforeLemma
<1>5. /\ len \in Nat
      /\ ut = UsableBefore(s, from - 1) + len
      /\ \A k \in 1..len : q[k] = DocumentOf(s, Stream!Usable(s)[UsableBefore(s, from - 1) + k])
  BY BatchRanksLemma
<1>6. \A k \in Nat \ {0} : um + k <= K =>
          Stream!Nth(s, p + k) = DocumentOf(s, Stream!Usable(s)[um + k])
  BY NthLemma
<1>7. m \in Nat
  <2> HIDE DEF r
  <2> QED BY <1>1
<1> HIDE DEF m, r, n, from, to
<1>8. n \in Nat /\ m + n = to /\ m = from - 1 BY <1>1, <1>2, <1>7
<1>9. p \in Nat /\ Before(s, c + n) = p + ut - um /\ um \in Nat /\ ut \in Nat BY <1>1, <1>8, <1>7, <1>4
<1> HIDE DEF q, p, len
<1>10. ut = um + len /\ \A k \in 1..len : q[k] = DocumentOf(s, Stream!Usable(s)[um + k]) BY <1>5, <1>8
<1> HIDE DEF um, ut, K
<1>11. len \in Nat /\ ut = um + len BY <1>5, <1>10
<1>12. Before(s, c + n) = p + len /\ len <= Before(s, c + n) BY <1>9, <1>11
<1>13. ASSUME NEW k \in 1..len
       PROVE  q[k] = Stream!Nth(s, Before(s, c + n) - len + k)
  BY <1>3, <1>9, <1>11, <1>12, <1>6, <1>10
<1> QED BY <1>12, <1>13 DEF Buffered, n, q, p, len

\* The first document of a buffer is the next one of its source.
LEMMA DrawnLemma ==
    ASSUME NEW s \in Source, NEW c, Before(s, c) \in Nat, NEW S, NEW q \in Seq(S), q # <<>>, Buffered(s, c, q)
    PROVE  /\ Head(q) = Stream!Nth(s, Before(s, c) - Len(q) + 1)
           /\ Buffered(s, c, Tail(q))
           /\ Len(Tail(q)) = Len(q) - 1 /\ Len(q) \in Nat
<1> DEFINE t == Tail(q)
           p == Before(s, c)
<1>1. Len(q) \in Nat /\ Len(q) >= 1 /\ Head(q) = q[1] /\ 1 \in 1..Len(q) OBVIOUS
<1>2. t \in Seq(S) /\ Len(t) = Len(q) - 1 /\ \A k \in 1..Len(t) : t[k] = q[k + 1] /\ k + 1 \in 1..Len(q)
  OBVIOUS
<1>3. p \in Nat /\ Len(q) <= p /\ \A k \in 1..Len(q) : q[k] = Stream!Nth(s, p - Len(q) + k) BY DEF Buffered
<1> HIDE DEF t, p
<1>4. ASSUME NEW k \in 1..Len(t)
      PROVE  t[k] = Stream!Nth(s, p - Len(t) + k)
  BY <1>2, <1>3, <1>1
<1> QED BY <1>1, <1>2, <1>3, <1>4 DEF Buffered, t, p

-----------------------------------------------------------------------------
(* The order of the documents.                                             *)

\* The reader of a source is at the row after those counted; one that is not
\* open yet is to skip them.
AtRow(s, c, l, rows) ==
    IF l.open
    THEN \/ Position(l) = (c % Len(Rows[s])) + 1
         \/ Position(l) = Len(Rows[s]) + 1 /\ c % Len(Rows[s]) = 0
    ELSE rows = c

\* What is buffered of a source comes right after what left its buffer.
Following(m) == \A s \in Source : ~m.gap[s] => Buffered(s, m.consumed[s], m.buffers[s])

\* The order of every state that is stored, and of the one that is live.
OrderInv ==
    /\ Following(main)
    /\ \A c \in ckpts : Following(c)
    /\ pc # "down" => \A s \in Source : ~main.gap[s] =>
                          AtRow(s, main.consumed[s], loaders[s], pending[s])

\* No document comes before the first row.
LEMMA NoneBeforeLemma == ASSUME NEW s \in Source PROVE Before(s, 0) = 0
<1>1. Len(Rows[s]) \in Nat \ {0} /\ UsableBefore(s, 0) = 0
      /\ UsableBefore(s, Len(Rows[s])) \in Nat
  BY RangeLemma, DocumentedLemma
<1> DEFINE r == Len(Rows[s])
           K == UsableBefore(s, r)
<1>2. Before(s, 0) = (0 \div r) * K + UsableBefore(s, 0 % r) BY DEF Before
<1>3. r \in Nat \ {0} /\ K \in Nat BY <1>1
<1> HIDE DEF r, K
<1>5. 0 * K = 0 BY <1>3
<1> QED BY <1>1, <1>2, <1>5, <1>3

\* Of a source that was not read nothing is buffered.
LEMMA NothingReadLemma == ASSUME NEW s \in Source PROVE Buffered(s, 0, <<>>)
<1> QED BY NoneBeforeLemma DEF Buffered

\* Initially nothing was read.
LEMMA OrderInitLemma == Init => OrderInv
<1> SUFFICES ASSUME Init PROVE OrderInv OBVIOUS
<1> QED BY NothingReadLemma DEF OrderInv, Init, Following, Fresh

\* Nothing but these parts of a state matters.
LEMMA SameOrderLemma ==
    ASSUME NEW m, NEW k, Following(m), k.consumed = m.consumed, k.buffers = m.buffers, k.gap = m.gap
    PROVE  Following(k)
BY DEF Following

\* A reader that is reopened is to skip the rows that the stored state counts.
LEMMA OrderStartLemma ==
    ASSUME OrderInv, NEW c \in ckpts, Start(c)
    PROVE  OrderInv'
<1> QED BY DEF OrderInv, AtRow, Closed, Start

\* The steps of the training loop read nothing.
LEMMA OrderRunLemma ==
    ASSUME PoolsInv, OrderInv, BeginStep \/ EndStep \/ Save \/ FailStep \/ Leave \/ TakePack
    PROVE  OrderInv'
<1> DEFINE k == [main EXCEPT !.packs = 0]
<1>1. main \in MainRecord BY DEF PoolsInv, MainInv
<1>2. loaders' = loaders /\ pending' = pending /\ (pc' # "down" => pc # "down")
  BY DEF BeginStep, EndStep, Save, FailStep, Leave, TakePack
<1>3. main'.consumed = main.consumed /\ main'.buffers = main.buffers /\ main'.gap = main.gap
  BY <1>1 DEF BeginStep, EndStep, Save, FailStep, Leave, TakePack, MainRecord
<1>4. k.consumed = main.consumed /\ k.buffers = main.buffers /\ k.gap = main.gap BY <1>1 DEF MainRecord
<1>5. ckpts' \subseteq ckpts \union {main, k} BY DEF BeginStep, EndStep, Save, FailStep, Leave, TakePack
<1> HIDE DEF k
<1> QED BY <1>2, <1>3, <1>4, <1>5, SameOrderLemma DEF OrderInv

\* One loader changes, nothing else does.
LEMMA OneReaderLemma ==
    ASSUME IndInv, OrderInv, NEW s \in Source, NEW l, loaders' = [loaders EXCEPT ![s] = l],
           main' = main, ckpts' = ckpts, pc' = pc,
           \A t \in Source \ {s} : pending'[t] = pending[t],
           pc # "down" /\ ~main.gap[s] => AtRow(s, main.consumed[s], l, pending'[s])
    PROVE  OrderInv'
<1> QED BY DEF OrderInv, IndInv

\* The first element of a queue that grows.
LEMMA FirstLemma ==
    ASSUME NEW S, NEW q \in Seq(S), NEW b \in S
    PROVE  Append(q, b) # <<>> /\ Append(q, b)[1] = IF q = <<>> THEN b ELSE q[1]
<1> DEFINE p == Append(q, b)
<1>1. /\ Len(p) = Len(q) + 1 /\ Len(q) \in Nat /\ p[Len(q) + 1] = b /\ p \in Seq(S)
      /\ \A k \in 1..Len(q) : p[k] = q[k]
  OBVIOUS
<1> HIDE DEF p
<1>2. p # <<>> BY <1>1
<1>3. CASE q = <<>> BY <1>3, <1>1, <1>2 DEF p
<1>4. CASE q # <<>> BY <1>4, <1>1, <1>2 DEF p
<1> QED BY <1>3, <1>4

\* What a worker adds, the reader comes to in its turn.
LEMMA OrderWorkerLemma ==
    ASSUME IndInv, OrderInv, NEW s \in Source, Worker(s)
    PROVE  OrderInv'
<1> DEFINE l == loaders[s]
<1>1. /\ l \in LoaderType /\ l.open /\ l.next \in Nat
      /\ l.queue \in Seq([from : Nat, to : Nat, lost : BOOLEAN])
  BY DEF IndInv, Worker, ReadBatch, LoseBatch, EndOfRange, Busy, LoaderType
<1>2. /\ main' = main /\ ckpts' = ckpts /\ pc' = pc /\ pc # "down"
      /\ \A t \in Source \ {s} : pending'[t] = pending[t]
  BY DEF Worker, ReadBatch, LoseBatch, EndOfRange, HandOver, Busy
<1>3. ASSUME NEW b \in Batches, b.from = l.next, HandOver(s, b)
      PROVE  OrderInv'
  <2> DEFINE m == [[l EXCEPT !.queue = Append(@, b)] EXCEPT !.next = b.to + 1]
  <2>1. loaders' = [loaders EXCEPT ![s] = m] BY <1>3 DEF HandOver, IndInv
  <2>2. m.open = l.open /\ m.queue = Append(l.queue, b) BY <1>1 DEF LoaderType
  <2> HIDE DEF m
  <2>3. Position(m) = Position(l)
    <3>1. m.queue # <<>> /\ m.queue[1] = IF l.queue = <<>> THEN b ELSE l.queue[1]
      <4> DEFINE q == l.queue
      <4> HIDE DEF q
      <4>2. Append(q, b) # <<>> /\ Append(q, b)[1] = IF q = <<>> THEN b ELSE q[1]
        BY FirstLemma, <1>1 DEF Batches
      <4> QED BY <2>2, <4>2 DEF q
    <3> HIDE DEF l
    <3> QED BY <3>1, <1>3 DEF Position
  <2>4. ~main.gap[s] => AtRow(s, main.consumed[s], m, pending'[s])
    BY <1>1, <1>2, <2>2, <2>3 DEF OrderInv, AtRow
  <2> QED BY <1>2, <2>1, <2>4, OneReaderLemma
<1>4. CASE ReadBatch(s) BY <1>1, <1>4, BatchFromLemma, <1>3 DEF ReadBatch
<1>5. CASE LoseBatch(s)
  <2> DEFINE b == BatchFrom(s, l.next)
  <2>1. b \in Batches /\ b.from = l.next BY <1>1, <1>5, BatchFromLemma DEF LoseBatch
  <2>2. HandOver(s, [b EXCEPT !.lost = TRUE]) BY <1>5 DEF LoseBatch
  <2> HIDE DEF b
  <2>3. [b EXCEPT !.lost = TRUE] \in Batches /\ [b EXCEPT !.lost = TRUE].from = b.from BY <2>1 DEF Batches
  <2> QED BY <1>3, <2>1, <2>2, <2>3
<1>6. CASE EndOfRange(s)
  BY <1>6, <1>1, <1>2, OneReaderLemma DEF EndOfRange, LoaderType, Position, OrderInv, AtRow
<1> QED BY <1>4, <1>5, <1>6 DEF Worker

\* An iterator is opened at the row after those counted.
LEMMA OrderOpenLemma ==
    ASSUME IndInv, PoolsInv, OrderInv, NEW s \in Source,
           OpenIterator(s) \/ RestartIterator(s) \/ RefuseEpoch(s)
    PROVE  OrderInv'
<1> DEFINE r == Len(Rows[s])
           c == main.consumed[s]
           l == loaders[s]
<1>1. main' = main /\ ckpts' = ckpts BY DEF OpenIterator, RestartIterator, RefuseEpoch
<1>2. r \in Nat \ {0} /\ c \in Nat /\ LoaderInv(l, r) BY RangeLemma DEF IndInv, Restorable
<1>3. ASSUME NEW n
      PROVE  Opened(s, n).open /\ Position(Opened(s, n)) = n + 1
  BY DEF Opened, Closed, Position
<1>4. pc # "down" BY DEF OpenIterator, RestartIterator, RefuseEpoch, EpochOver, Pulling, Picked, Refilling
<1>5. ~main.gap[s] => AtRow(s, c, l, pending[s]) BY <1>4 DEF OrderInv
<1>6. CASE OpenIterator(s)
  <2> DEFINE m == Opened(s, Skip(s, pending[s]))
  <2>3. loaders' = [loaders EXCEPT ![s] = m] /\ pc' = pc BY <1>6 DEF OpenIterator
  <2>4. \A t \in Source \ {s} : pending'[t] = pending[t] BY <1>6 DEF OpenIterator, IndInv
  <2>5. m.open /\ Position(m) = Skip(s, pending[s]) + 1 BY <1>3
  <2> HIDE DEF m
  <2>6. ~main.gap[s] => AtRow(s, c, m, pending'[s]) BY <2>5, <1>5, <1>6 DEF AtRow, Skip, OpenIterator
  <2> QED BY <1>1, <2>3, <2>4, <2>6, OneReaderLemma
<1>7. CASE RestartIterator(s)
  <2> DEFINE m == Opened(s, 0)
  <2>1. loaders' = [loaders EXCEPT ![s] = m] /\ pc' = pc /\ pending' = pending BY <1>7 DEF RestartIterator
  <2>2. m.open /\ Position(m) = 0 + 1 BY <1>3
  <2>3. l.ended /\ l.queue = <<>> BY <1>7 DEF RestartIterator, EpochOver
  <2>4. l.open /\ Position(l) = r + 1 BY <1>2, <2>3 DEF LoaderInv, Open, Unopened, Position
  <2> HIDE DEF m
  <2>5. ~main.gap[s] => c % r = 0
    <3> HAVE ~main.gap[s]
    <3>1. Position(l) = (c % r) + 1 \/ c % r = 0 BY <1>5, <2>4 DEF AtRow
    <3> HIDE DEF r, c, l
    <3> QED BY <1>2, <2>4, <3>1
  <2>6. ~main.gap[s] => AtRow(s, c, m, pending'[s]) BY <2>2, <2>5 DEF AtRow
  <2> QED BY <1>1, <2>1, <2>6, OneReaderLemma
<1>8. CASE RefuseEpoch(s) BY <1>1, <1>8 DEF RefuseEpoch, OrderInv
<1> QED BY <1>6, <1>7, <1>8

\* A stream that lost a batch is no longer followed.
LEMMA OrderPassOverLemma ==
    ASSUME IndInv, PoolsInv, OrderInv, NEW s \in Source, PassOverLost(s)
    PROVE  OrderInv'
<1> DEFINE gap == [main.gap EXCEPT ![s] = TRUE]
           m == [[loaders[s] EXCEPT !.queue = Tail(@)] EXCEPT !.gap = TRUE]
<1>1. main \in MainRecord /\ main' = [main EXCEPT !.gap = gap] BY DEF PassOverLost, PoolsInv, MainInv
<1>2. \A t \in Source : gap[t] = IF t = s THEN TRUE ELSE main.gap[t] BY <1>1 DEF MainRecord
<1>3. loaders' = [loaders EXCEPT ![s] = m] BY DEF PassOverLost, IndInv
<1> HIDE DEF gap, m
<1>4. main'.consumed = main.consumed /\ main'.buffers = main.buffers /\ main'.gap = gap BY <1>1 DEF MainRecord
<1>5. \A t \in Source : ~main'.gap[t] => t # s /\ ~main.gap[t] /\ loaders'[t] = loaders[t]
  BY <1>2, <1>3, <1>4, OtherLoaderLemma
<1>6. pc' = pc /\ ckpts' = ckpts /\ pending' = pending BY DEF PassOverLost
<1> QED BY <1>6, <1>4, <1>5 DEF OrderInv, Following

\* The batch at the head of a queue begins at the row after those counted.
LEMMA PulledLemma ==
    ASSUME IndInv, PoolsInv, OrderInv, NEW s \in Source, PullBatch(s), ~main.gap[s]
    PROVE  loaders[s].queue[1].from = (main.consumed[s] % Len(Rows[s])) + 1
<1> DEFINE l == loaders[s]
           r == Len(Rows[s])
           c == main.consumed[s]
           from == l.queue[1].from
           to == l.queue[1].to
<1>1. l.queue \in Seq(InRange(s)) /\ l.queue # <<>> /\ l.open BY DEF PoolsInv, QueueInv, PullBatch, Ready
<1>3. from \in Nat /\ to \in Nat /\ from <= to /\ to <= r /\ r \in Nat
  BY RangeLemma, <1>1 DEF InRange, Batches
<1>4. Position(l) = from
  <2>1. l.queue # <<>> BY <1>1
  <2> QED BY <2>1, Zenon DEF Position
<1>5. AtRow(s, c, l, pending[s]) BY DEF OrderInv, PullBatch, Pulling, Picked, Refilling
<1> HIDE DEF from, to, r
<1> QED BY <1>1, <1>4, <1>5, <1>3 DEF from, r, AtRow

\* The batch at the head comes after the rows counted, and is counted.
LEMMA OrderPullLemma ==
    ASSUME IndInv, PoolsInv, OrderInv, NEW s \in Source, PullBatch(s)
    PROVE  OrderInv'
<1> DEFINE l == loaders[s]
           b == l.queue[1]
           rows == RowsRead(s, b)
           samples == Samples(s, b)
           r == Len(Rows[s])
           c == main.consumed[s]
           m == [[[l EXCEPT !.queue = Tail(@)]
                        EXCEPT !.read = @ + rows]
                        EXCEPT !.samples = @ + Len(samples)]
           consumed == [main.consumed EXCEPT ![s] = @ + rows]
           buffers == [main.buffers EXCEPT ![s] = samples]
<1>1. /\ loaders \in [Source -> LoaderType] /\ l \in LoaderType
      /\ l.queue \in Seq(InRange(s)) /\ l.queue # <<>> /\ l.open /\ LoaderInv(l, r)
  BY DEF IndInv, PoolsInv, QueueInv, PullBatch, Ready
<1>2. Head(l.queue) = b /\ b \in InRange(s) BY <1>1
<1>3. loaders' = [loaders EXCEPT ![s] = m] BY <1>1, <1>2 DEF PullBatch
<1>4. /\ pc' = pc /\ ckpts' = ckpts /\ pending' = pending /\ pc # "down" /\ main.buffers[s] = <<>>
  BY DEF PullBatch, Pulling, Picked, Refilling
<1>5. main \in MainRecord /\ main' = [main EXCEPT !.consumed = consumed, !.buffers = buffers]
  BY <1>2 DEF PullBatch, PoolsInv, MainInv
<1>6. main.consumed \in [Source -> Nat] /\ main.buffers \in [Source -> Seq(Known)]
  BY <1>5 DEF MainRecord, Counts
<1>7. r \in Nat \ {0} /\ c \in Nat BY <1>6, RangeLemma
<1>8. m.queue = Tail(l.queue) /\ m.next = l.next /\ m.open BY <1>1 DEF LoaderType
<1>9. Position(l) = b.from /\ Position(m) = b.to + 1
  <2>1. l.queue \in Seq(Batches) /\ l.next \in Nat /\ Gapless(l.queue, l.next)
    BY <1>1 DEF LoaderInv, Open, Unopened, LoaderType, Batches
  <2>2. (IF Tail(l.queue) = <<>> THEN l.next ELSE Tail(l.queue)[1].from) = b.to + 1 BY <1>1, <2>1, TailLemma
  <2> HIDE DEF m
  <2> QED BY <1>1, <1>8, <2>2 DEF Position
<1>10. rows = b.to - b.from + 1 BY DEF RowsRead
<1>11. b.from \in Nat /\ b.to \in Nat /\ 1 <= b.from /\ b.from <= b.to /\ b.to <= r
  BY <1>2 DEF InRange, Batches
<1> HIDE DEF m, b, rows, samples
<1>12. consumed[s] = c + rows /\ \A t \in Source \ {s} : consumed[t] = main.consumed[t] BY <1>6
<1>13. buffers[s] = samples /\ \A t \in Source \ {s} : buffers[t] = main.buffers[t] BY <1>6
<1> HIDE DEF consumed, buffers
<1>14. main'.consumed = consumed /\ main'.buffers = buffers /\ main'.gap = main.gap BY <1>5 DEF MainRecord
<1>15. ASSUME ~main.gap[s]
       PROVE  Buffered(s, c + rows, samples) /\ AtRow(s, c + rows, m, pending'[s])
  <2>1. b.from = (c % r) + 1 BY <1>15, PulledLemma DEF b
  <2>2. Buffered(s, c + rows, samples) BY <1>2, <1>7, <2>1, SampledLemma DEF rows, samples
  <2>3. AtRow(s, c + rows, m, pending'[s])
    <3> DEFINE k == c % r
               from == b.from
               to == b.to
    <3> HIDE DEF r, c
    <3>1. k \in Nat BY <1>7
    <3>2. from = k + 1 /\ from \in Nat /\ to \in Nat /\ from <= to /\ to <= r /\ rows = to - from + 1
      BY <1>10, <1>11, <2>1
    <3> HIDE DEF k, from, to
    <3>3. rows \in Nat /\ k + rows = to /\ k + rows <= r BY <1>7, <3>1, <3>2
    <3>4. /\ k + rows < r => (c + rows) % r = k + rows
          /\ k + rows = r => (c + rows) % r = 0
      BY <1>7, <3>3, AdvanceLemma DEF k
    <3>5. \/ to + 1 = ((c + rows) % r) + 1
          \/ to + 1 = r + 1 /\ (c + rows) % r = 0
      BY <1>7, <3>2, <3>3, <3>4
    <3> QED BY <1>8, <3>5, <1>9 DEF AtRow, r, to
  <2> QED BY <2>2, <2>3
<1>17. ASSUME NEW t \in Source, ~main'.gap[t]
       PROVE  AtRow(t, main'.consumed[t], loaders'[t], pending'[t])
  <2>1. CASE t = s
    <3>1. loaders'[s] = m BY <1>1, <1>3
    <3> QED BY <1>12, <1>14, <1>15, <1>17, <2>1, <3>1
  <2>2. CASE t # s
    <3>1. loaders'[t] = loaders[t] BY <1>1, <1>3, <2>2
    <3> QED BY <1>4, <1>12, <1>14, <1>17, <2>2, <3>1 DEF OrderInv
  <2> QED BY <2>1, <2>2
<1> QED BY <1>4, <1>17, <1>14, <1>12, <1>13, <1>15 DEF OrderInv, Following

\* What left the buffer of a source: the documents read, less those buffered.
LEMMA CountLemma ==
    ASSUME NEW s \in Source, NEW m, m.consumed[s] \in Nat, Len(m.buffers[s]) \in Nat
    PROVE  /\ Drawn(m, s) = Before(s, m.consumed[s]) - Len(m.buffers[s])
           /\ Before(s, m.consumed[s]) \in Nat
<1> DEFINE r == Len(Rows[s])
           c == m.consumed[s]
           n == Len(m.buffers[s])
           K == UsableBefore(s, r)
           u == UsableBefore(s, c % r)
           e == (c \div r) * K
<1>1. r \in Nat \ {0} /\ c \in Nat /\ n \in Nat /\ \A i \in 0..r : UsableBefore(s, i) \in Nat
  BY RangeLemma, DocumentedLemma
<1>2. Drawn(m, s) = e + (u - n) /\ Before(s, c) = e + u BY Zenon DEF Drawn, Before
<1> HIDE DEF r, c, n
<1>3. c \div r \in Nat /\ c % r \in 0..r /\ r \in 0..r
  <2>1. r \in Nat /\ r > 0 /\ c \in Nat BY <1>1
  <2>2. c \div r \in Nat BY <2>1
  <2>3. c % r \in 0..(r - 1) BY <2>1
  <2>4. c % r \in 0..r BY <2>1, <2>3
  <2>5. r \in 0..r BY <2>1
  <2> QED BY <2>2, <2>4, <2>5
<1>4. K \in Nat /\ u \in Nat BY <1>1, <1>3
<1> HIDE DEF K, u
<1>5. e \in Nat BY <1>3, <1>4
<1> HIDE DEF e
<1> QED BY <1>1, <1>2, <1>4, <1>5 DEF c, n

\* The first document buffered is the next one of its source.
LEMMA OrderAddLemma ==
    ASSUME PoolsInv, OrderInv, NEW s \in Source, AddDocument(s)
    PROVE  /\ OrderInv'
           /\ ~main.gap[s] =>
                /\ Head(main.buffers[s]) = Stream!Nth(s, Drawn(main, s) + 1)
                /\ Drawn(main, s) \in Nat /\ Drawn(main', s) = Drawn(main, s) + 1
<1> DEFINE q == main.buffers[s]
           c == main.consumed[s]
           buffers == [main.buffers EXCEPT ![s] = Tail(@)]
<1>1. main \in MainRecord /\ main.buffers \in [Source -> Seq(Known)] /\ c \in Nat /\ q \in Seq(Known)
  BY DEF PoolsInv, MainInv, MainRecord, Counts
<1>2. q # <<>> BY DEF AddDocument
<1>3. buffers[s] = Tail(q) /\ \A t \in Source \ {s} : buffers[t] = main.buffers[t] BY <1>1
<1>4. main'.consumed = main.consumed /\ main'.buffers = buffers /\ main'.gap = main.gap
  BY <1>1 DEF AddDocument, MainRecord
<1> HIDE DEF buffers
<1>6. /\ Drawn(main, s) = Before(s, c) - Len(q) /\ Before(s, c) \in Nat
      /\ Drawn(main', s) = Before(s, c) - Len(Tail(q))
  <2>2. Len(q) \in Nat /\ Len(Tail(q)) \in Nat BY <1>1, <1>2
  <2> QED BY <1>1, <1>3, <1>4, <2>2, CountLemma
<1>7. ASSUME ~main.gap[s]
      PROVE  /\ Buffered(s, c, Tail(q))
             /\ Head(q) = Stream!Nth(s, Drawn(main, s) + 1)
             /\ Drawn(main, s) \in Nat /\ Drawn(main', s) = Drawn(main, s) + 1
  BY <1>7, <1>6, <1>1, <1>2, DrawnLemma DEF OrderInv, Following, q, c, Buffered
<1> QED BY <1>7, <1>4, <1>3 DEF OrderInv, AddDocument, Following

\* Documents reach the pool in the order of one endless reading of their source.
THEOREM OrderInvariance == Spec => []OrderInv
<1>1. ASSUME IndInv, DocumentsInv, OrderInv, [Next]_vars
      PROVE  OrderInv'
  <2>1. PoolsInv BY <1>1 DEF DocumentsInv
  <2>2. CASE UNCHANGED vars \/ Done BY <2>2, <1>1 DEF Done, vars, OrderInv
  <2>3. ASSUME NEW c \in ckpts, Start(c)
        PROVE  OrderInv'
    BY <1>1, <2>3, OrderStartLemma
  <2>4. CASE BeginStep \/ EndStep \/ Save \/ FailStep \/ Leave \/ TakePack BY <1>1, <2>1, <2>4, OrderRunLemma
  <2>5. ASSUME NEW s \in Source, Worker(s)
        PROVE  OrderInv'
    BY <1>1, <2>5, OrderWorkerLemma
  <2>6. ASSUME NEW s \in Source, OpenIterator(s) \/ RestartIterator(s) \/ RefuseEpoch(s)
        PROVE  OrderInv'
    BY <1>1, <2>1, <2>6, OrderOpenLemma
  <2>7. ASSUME NEW s \in Source, PullBatch(s)
        PROVE  OrderInv'
    BY <1>1, <2>1, <2>7, OrderPullLemma
  <2>8. ASSUME NEW s \in Source, PassOverLost(s)
        PROVE  OrderInv'
    BY <1>1, <2>1, <2>8, OrderPassOverLemma
  <2>9. ASSUME NEW s \in Source, AddDocument(s)
        PROVE  OrderInv'
    BY <1>1, <2>1, <2>9, OrderAddLemma
  <2> QED BY <1>1, <2>2, <2>3, <2>4, <2>5, <2>6, <2>7, <2>8, <2>9 DEF Next, Reader
<1> QED BY <1>1, OrderInitLemma, StreamInvariance, DocumentInvariance, PTL DEF Spec

-----------------------------------------------------------------------------
(* The stream is one endless reading of the sources.                       *)

\* The live and the stored streams are those of the states without a gap.
LEMMA StreamLemma ==
    /\ pc # "down" /\ Intact(main) => LiveStream = StreamOf(main)
    /\ pc' # "down" /\ Intact(main') => LiveStream' = StreamOf(main')
    /\ ~(pc # "down" /\ Intact(main)) => LiveStream = Stream!None
    /\ ~(pc' # "down" /\ Intact(main')) => LiveStream' = Stream!None
    /\ \A x : x \in SavedStreams <=> \E c \in ckpts : Intact(c) /\ x = StreamOf(c)
    /\ \A x : x \in SavedStreams' <=> \E c \in ckpts' : Intact(c) /\ x = StreamOf(c)
<1>2. /\ pc' # "down" /\ Intact(main') => LiveStream' = StreamOf(main')
      /\ ~(pc' # "down" /\ Intact(main')) => LiveStream' = Stream!None
  BY Zenon DEF LiveStream, Stream!None, Intact, StreamOf, Drawn, UsableBefore
<1> QED BY <1>2 DEF LiveStream, Stream!None, SavedStreams

\* The stream of a state, field by field.
LEMMA StreamFields ==
    ASSUME NEW m
    PROVE  /\ StreamOf(m).step = m.step /\ StreamOf(m).packs = m.packs /\ StreamOf(m).pool = m.pool
           /\ \A s \in Source : StreamOf(m).drawn[s] = Drawn(m, s)
           /\ StreamOf(m).loaded = m.loaded /\ StreamOf(m).target = m.target
           /\ m.step \in 0..TotalSteps => StreamOf(m) # Stream!None
<1> QED BY PackingAssumption DEF Stream!None, StreamOf

\* A stream is known by its parts.
LEMMA SameStreamLemma ==
    ASSUME NEW m, NEW k, k.step = m.step, k.packs = m.packs, k.pool = m.pool,
           k.loaded = m.loaded, k.target = m.target, \A s \in Source : Drawn(k, s) = Drawn(m, s)
    PROVE  StreamOf(k) = StreamOf(m)
<1> QED BY DEF StreamOf

\* A stream by its parts.
Parts(step, packs, pool, drawn, loaded, target) ==
    [step |-> step, packs |-> packs, pool |-> pool, drawn |-> drawn,
     loaded |-> loaded, target |-> target]

\* A stream whose step counter and packs are changed.
Trained(x, n, z) == [x EXCEPT !.step = n, !.packs = z]

\* With another step and other packs ...
LEMMA TrainedPartsLemma ==
    ASSUME NEW a, NEW b, NEW c, NEW d, NEW e, NEW f, NEW n, NEW z, NEW x, x = Parts(a, b, c, d, e, f)
    PROVE  Trained(x, n, z) = Parts(n, z, c, d, e, f)
<1> DEFINE y == Trained(x, n, z)
<1>1. x \in [step : {a}, packs : {b}, pool : {c}, drawn : {d}, loaded : {e}, target : {f}] BY DEF Parts
<1>2. y \in [step : {n}, packs : {z}, pool : {c}, drawn : {d}, loaded : {e}, target : {f}] BY <1>1 DEF Trained
<1> HIDE DEF y
<1> QED BY <1>2 DEF y, Parts

\* A stream whose pool and packs are changed.
Taken(x, n, z) == [x EXCEPT !.pool = n, !.packs = z]

\* ... with another pool and other packs ...
LEMMA TakenPartsLemma ==
    ASSUME NEW a, NEW b, NEW c, NEW d, NEW e, NEW f, NEW n, NEW z, NEW x, x = Parts(a, b, c, d, e, f)
    PROVE  Taken(x, n, z) = Parts(a, z, n, d, e, f)
<1> DEFINE y == Taken(x, n, z)
<1>1. x \in [step : {a}, packs : {b}, pool : {c}, drawn : {d}, loaded : {e}, target : {f}] BY DEF Parts
<1>2. y \in [step : {a}, packs : {z}, pool : {n}, drawn : {d}, loaded : {e}, target : {f}] BY <1>1 DEF Taken
<1> HIDE DEF y
<1> QED BY <1>2 DEF y, Parts

\* A stream a document was added to.
Enlarged(x, n, z, u, v) == [x EXCEPT !.drawn = n, !.pool = z, !.loaded = u, !.target = v]

\* ... with another pool, and what it was drawn from.
LEMMA DrawnPartsLemma ==
    ASSUME NEW a, NEW b, NEW c, NEW d, NEW e, NEW f, NEW n, NEW z, NEW u, NEW v,
           NEW x, x = Parts(a, b, c, d, e, f)
    PROVE  Enlarged(x, n, z, u, v) = Parts(a, b, z, n, u, v)
<1> DEFINE y == Enlarged(x, n, z, u, v)
<1>1. x \in [step : {a}, packs : {b}, pool : {c}, drawn : {d}, loaded : {e}, target : {f}] BY DEF Parts
<1>2. y \in [step : {a}, packs : {b}, pool : {z}, drawn : {n}, loaded : {u}, target : {v}]
  BY <1>1 DEF Enlarged
<1> HIDE DEF y
<1> QED BY <1>2 DEF y, Parts

\* What was drawn depends on these parts only.
LEMMA SameDrawnLemma ==
    ASSUME NEW m, NEW k, NEW s, k.consumed = m.consumed, k.buffers = m.buffers
    PROVE  Drawn(k, s) = Drawn(m, s)
BY DEF Drawn

\* Nothing of the stream changes, nor of what is stored.
LEMMA QuietStreamLemma ==
    ASSUME main' = main, ckpts' = ckpts, (pc' # "down") <=> (pc # "down")
    PROVE  LiveStream' = LiveStream /\ SavedStreams' = SavedStreams
<1> QED BY StreamLemma DEF SavedStreams

\* The stream is gone, and nothing is stored.
LEMMA StopStreamLemma ==
    ASSUME ckpts' = ckpts, pc' = "down" \/ ~Intact(main')
    PROVE  Stream!Stop
<1> QED BY StreamLemma DEF Stream!Stop, SavedStreams

\* Initially the streams are those of a new run.
LEMMA StreamInitLemma == Init => Stream!StreamInit
<1> SUFFICES ASSUME Init PROVE Stream!StreamInit OBVIOUS
<1>1. pc = "down" /\ main = Fresh /\ ckpts = {Fresh} BY DEF Init
<1>3. ASSUME NEW s \in Source
      PROVE  Drawn(Fresh, s) = 0 /\ ~Fresh.gap[s]
  BY CountLemma, NoneBeforeLemma DEF Fresh
<1>5. [s \in Source |-> Drawn(Fresh, s)] = [s \in Source |-> 0] BY <1>3
<1>6. StreamOf(Fresh) = Stream!Initial BY <1>5 DEF StreamOf, Stream!Initial, Fresh
<1> QED BY <1>1, StreamLemma, <1>6, <1>3 DEF Stream!StreamInit, Intact

\* An attempt continues a stored stream.
LEMMA BeginLemma ==
    ASSUME NEW c \in ckpts, Start(c)
    PROVE  Stream!StreamNext \/ UNCHANGED <<LiveStream, SavedStreams>>
<1>1. pc = "down" /\ pc' # "down" /\ main' = c /\ ckpts' = ckpts BY DEF Start
<1>2. LiveStream = Stream!None /\ SavedStreams' = SavedStreams BY <1>1, StreamLemma DEF SavedStreams
<1>3. CASE Intact(c) BY <1>1, <1>3, StreamLemma, <1>2 DEF Stream!Begin, Stream!StreamNext
<1>4. CASE ~Intact(c) BY <1>1, <1>2, <1>4, StreamLemma
<1> QED BY <1>3, <1>4

\* A step of the optimizer ends the packs of a stream.
LEMMA TrainLemma ==
    ASSUME PoolsInv, EndStep
    PROVE  Stream!StreamNext \/ UNCHANGED <<LiveStream, SavedStreams>>
<1>1. /\ pc = "pulling" /\ pc' = "between" /\ ckpts' = ckpts /\ main.packs = PacksPerStep
      /\ main' = [main EXCEPT !.step = @ + 1, !.packs = 0]
      /\ main \in MainRecord
  BY DEF EndStep, PoolsInv, MainInv
<1>2. main' = [step |-> main.step + 1, packs |-> 0, pool |-> main.pool,
               consumed |-> main.consumed, loaded |-> main.loaded, target |-> main.target,
               buffers |-> main.buffers, gap |-> main.gap]
  BY <1>1 DEF MainRecord
<1>3. SavedStreams' = SavedStreams BY <1>1 DEF SavedStreams
<1>4. Intact(main') <=> Intact(main) BY <1>2 DEF Intact
<1>5. CASE Intact(main)
  <2>1. LiveStream = StreamOf(main) /\ LiveStream' = StreamOf(main') BY <1>1, <1>4, <1>5, StreamLemma
  <2>4. StreamOf(main') = [StreamOf(main) EXCEPT !.step = @ + 1, !.packs = 0]
    <3> DEFINE drawn == [s \in Source |-> Drawn(main, s)]
    <3>1. [s \in Source |-> Drawn(main', s)] = drawn BY <1>2, SameDrawnLemma
    <3>2. StreamOf(main) = Parts(main.step, main.packs, main.pool, drawn, main.loaded, main.target)
      BY DEF StreamOf, Parts
    <3> HIDE DEF drawn
    <3> DEFINE x == StreamOf(main)
               n == x.step + 1
    <3> HIDE DEF x
    <3>5. n = main.step + 1 /\ x = Parts(main.step, main.packs, main.pool, drawn, main.loaded, main.target)
      BY <3>2, StreamFields DEF x
    <3> HIDE DEF n
    <3>6. StreamOf(main') = Trained(x, n, 0) BY <3>5, TrainedPartsLemma, <1>2, <3>1 DEF StreamOf, Parts
    <3> QED BY <3>6 DEF x, n, Trained
  <2> QED BY <1>3, <2>1, <2>4, <1>1, StreamFields DEF Stream!Train, Stream!StreamNext, MainRecord
<1>6. CASE ~Intact(main) BY <1>3, <1>4, <1>6, StreamLemma
<1> QED BY <1>5, <1>6

\* A checkpoint keeps the stream.
LEMMA KeepLemma ==
    ASSUME PoolsInv, Save
    PROVE  Stream!StreamNext \/ UNCHANGED <<LiveStream, SavedStreams>>
<1>1. /\ pc = "between" /\ pc' = pc /\ main' = main /\ ckpts' = ckpts \union {main}
      /\ main \in MainRecord /\ main.packs = 0
  BY DEF Save, PoolsInv, MainInv, PhaseInv
<1>2. LiveStream' = LiveStream BY <1>1, StreamLemma
<1>3. CASE Intact(main)
  BY <1>1, <1>3, StreamLemma, StreamFields, <1>2 DEF MainRecord, SavedStreams, Stream!Keep, Stream!StreamNext
<1>4. CASE ~Intact(main) BY <1>1, <1>4, <1>2 DEF SavedStreams
<1> QED BY <1>3, <1>4

\* The fields of a state whose packs are given back.
LEMMA NoPacks ==
    ASSUME NEW m \in MainRecord, NEW k, k = [m EXCEPT !.packs = 0]
    PROVE  /\ k.step = m.step /\ k.packs = 0 /\ k.pool = m.pool /\ k.consumed = m.consumed
           /\ k.loaded = m.loaded /\ k.target = m.target /\ k.buffers = m.buffers /\ k.gap = m.gap
<1>1. DOMAIN m = {"step", "packs", "pool", "consumed", "loaded", "target", "buffers", "gap"}
  BY DEF MainRecord
<1> QED BY <1>1

\* A failed step keeps the stream from which its packs are drawn again.
LEMMA KeepFailedLemma ==
    ASSUME PoolsInv, FailStep
    PROVE  Stream!StreamNext
<1> DEFINE k == [main EXCEPT !.packs = 0]
<1>1. /\ pc = "pulling" /\ pc' = "down" /\ main' = main /\ main.packs = PacksPerStep
      /\ ckpts' = ckpts \/ ckpts' = ckpts \union {k}
      /\ main \in MainRecord
  BY DEF FailStep, PoolsInv, MainInv
<1>2. /\ k.step = main.step /\ k.packs = 0 /\ k.pool = main.pool /\ k.consumed = main.consumed
      /\ k.loaded = main.loaded /\ k.target = main.target /\ k.buffers = main.buffers
      /\ k.gap = main.gap
  <2>1. main \in MainRecord BY <1>1
  <2> QED BY <2>1, NoPacks, Zenon
<1> HIDE DEF k
<1>3. LiveStream' = Stream!None BY <1>1, StreamLemma
<1>4. Intact(k) <=> Intact(main) BY <1>2 DEF Intact
<1>5. CASE ckpts' = ckpts BY <1>1, <1>5, StopStreamLemma DEF Stream!StreamNext
<1>6. CASE ckpts' = ckpts \union {k} /\ ~Intact(main)
  BY <1>4, <1>6, <1>3 DEF SavedStreams, Stream!Stop, Stream!StreamNext
<1>7. CASE ckpts' = ckpts \union {k} /\ Intact(main)
  <2>1. LiveStream = StreamOf(main) BY <1>1, <1>7, StreamLemma
  <2>4. StreamOf(k) = [StreamOf(main) EXCEPT !.packs = 0]
    <3> DEFINE drawn == [s \in Source |-> Drawn(main, s)]
    <3>1. [s \in Source |-> Drawn(k, s)] = drawn BY <1>2, SameDrawnLemma
    <3>2. StreamOf(main) = [step |-> main.step, packs |-> main.packs, pool |-> main.pool,
                            drawn |-> drawn, loaded |-> main.loaded, target |-> main.target]
      BY DEF StreamOf
    <3> HIDE DEF drawn
    <3> QED BY <3>2, <1>2, <3>1 DEF StreamOf
  <2>6. SavedStreams' = SavedStreams \union {[LiveStream EXCEPT !.packs = 0]}
    BY <2>1, <2>4, <1>4, <1>7 DEF SavedStreams
  <2> QED BY <1>3, <2>6, <1>1, <2>1, StreamFields DEF Stream!KeepFailed, Stream!StreamNext, MainRecord
<1> QED BY <1>1, <1>5, <1>6, <1>7

\* A pack is taken from the pool.
LEMMA TakeStreamLemma ==
    ASSUME PoolsInv, TakePack
    PROVE  Stream!StreamNext \/ UNCHANGED <<LiveStream, SavedStreams>>
<1> DEFINE pool == Fill(main.pool).kept
<1>1. /\ pc = "pulling" /\ pc' = pc /\ ckpts' = ckpts /\ main.packs < PacksPerStep
      /\ ~NeedsRefill(main.pool) /\ main' = [main EXCEPT !.pool = pool, !.packs = main.packs + 1]
      /\ main \in MainRecord
  BY DEF TakePack, PoolsInv, MainInv
<1> HIDE DEF pool
<1>2. main' = [step |-> main.step, packs |-> main.packs + 1, pool |-> pool,
               consumed |-> main.consumed, loaded |-> main.loaded, target |-> main.target,
               buffers |-> main.buffers, gap |-> main.gap]
  BY <1>1 DEF MainRecord
<1>3. SavedStreams' = SavedStreams BY <1>1 DEF SavedStreams
<1>4. Intact(main') <=> Intact(main) BY <1>2 DEF Intact
<1>5. CASE Intact(main)
  <2> DEFINE x == StreamOf(main)
             drawn == [s \in Source |-> Drawn(main, s)]
             n == x.packs + 1
             kept == Stream!Fill(x.pool).kept
  <2>1. LiveStream = x /\ LiveStream' = StreamOf(main') BY <1>1, <1>4, <1>5, StreamLemma
  <2>2. x # Stream!None /\ x.packs = main.packs /\ x.pool = main.pool BY <1>1, StreamFields DEF MainRecord
  <2>3. ~Stream!NeedsRefill(x.pool) /\ kept = pool BY <1>1, <2>2, SameOperatorsLemma DEF pool
  <2>4. [s \in Source |-> Drawn(main', s)] = drawn BY <1>2, SameDrawnLemma
  <2>5. x = Parts(main.step, main.packs, main.pool, drawn, main.loaded, main.target) BY DEF StreamOf, Parts
  <2>6. n = main.packs + 1 BY <2>2
  <2> HIDE DEF drawn, x, n, kept
  <2>7. StreamOf(main') = Parts(main.step, n, pool, drawn, main.loaded, main.target)
    BY <1>2, <2>4, <2>6 DEF StreamOf, Parts
  <2>8. LiveStream' = Taken(x, kept, n) BY <2>1, <2>3, <2>5, <2>7, TakenPartsLemma
  <2> QED BY <2>8, <1>1, <1>3, <2>1, <2>2, <2>3 DEF Stream!StreamNext, Taken, n, Stream!Take, kept
<1>6. CASE ~Intact(main) BY <1>3, <1>4, <1>6, StreamLemma
<1> QED BY <1>5, <1>6

\* A batch that is counted and buffered changes nothing of the stream.
LEMMA PullStreamLemma ==
    ASSUME IndInv, PoolsInv, OrderInv, NEW s \in Source, PullBatch(s)
    PROVE  UNCHANGED <<LiveStream, SavedStreams>>
<1> DEFINE l == loaders[s]
           b == l.queue[1]
           rows == RowsRead(s, b)
           samples == Samples(s, b)
           c == main.consumed[s]
           consumed == [main.consumed EXCEPT ![s] = @ + rows]
           buffers == [main.buffers EXCEPT ![s] = samples]
<1>1. /\ pc' = pc /\ pc # "down" /\ ckpts' = ckpts /\ main.buffers[s] = <<>>
      /\ main \in MainRecord /\ BuffersInv(main) /\ c \in Nat
  BY DEF PullBatch, Pulling, Picked, Refilling, PoolsInv, MainInv, MainRecord, Counts
<1>2. b \in InRange(s) /\ Head(l.queue) = b BY DEF IndInv, PoolsInv, QueueInv, PullBatch, Ready
<1>3. main' = [main EXCEPT !.consumed = consumed, !.buffers = buffers] BY <1>2 DEF PullBatch
<1>4. SavedStreams' = SavedStreams BY <1>1 DEF SavedStreams
<1>5. rows \in Nat /\ Len(samples) \in Nat BY <1>2, SamplesLemma DEF RowsRead, InRange, Batches
<1>6. /\ consumed[s] = c + rows /\ \A t \in Source \ {s} : consumed[t] = main.consumed[t]
      /\ buffers[s] = samples /\ \A t \in Source \ {s} : buffers[t] = main.buffers[t]
  BY <1>1 DEF MainRecord, Counts
<1>7. ~main.gap[s] => Before(s, c + rows) = Before(s, c) + Len(samples)
  <2> HAVE ~main.gap[s]
  <2> QED BY <1>1, <1>2, SampledLemma, PulledLemma
<1> HIDE DEF consumed, buffers, rows, samples, c
<1>8. main' = [step |-> main.step, packs |-> main.packs, pool |-> main.pool,
               consumed |-> consumed, loaded |-> main.loaded, target |-> main.target,
               buffers |-> buffers, gap |-> main.gap]
  BY <1>1, <1>3 DEF MainRecord
<1>9. Intact(main') <=> Intact(main) BY <1>8 DEF Intact
<1>10. CASE Intact(main)
  <2>2. Drawn(main', s) = Drawn(main, s)
    <3>1. main'.consumed[s] = c + rows /\ main'.buffers[s] = samples BY <1>6, <1>8
    <3>3. /\ Drawn(main', s) = Before(s, c + rows) - Len(samples)
          /\ Drawn(main, s) = Before(s, c) - 0 /\ Before(s, c) \in Nat
      BY <1>1, <1>5, <3>1, CountLemma DEF c
    <3> QED BY <1>5, <1>7, <3>3, <1>10 DEF Intact
  <2>3. \A t \in Source \ {s} : Drawn(main', t) = Drawn(main, t)
    <3> TAKE t \in Source \ {s}
    <3> QED BY <1>6, <1>8 DEF Drawn
  <2>5. StreamOf(main') = StreamOf(main) BY <1>8, SameStreamLemma, <2>2, <2>3
  <2> QED BY <1>1, <1>4, <1>9, <1>10, <2>5, StreamLemma
<1>11. CASE ~Intact(main) BY <1>4, <1>9, <1>11, StreamLemma
<1> QED BY <1>10, <1>11

\* The document that is added is the next one of the source in deficit.
LEMMA DrawStreamLemma ==
    ASSUME PoolsInv, OrderInv, NEW s \in Source, AddDocument(s)
    PROVE  Stream!StreamNext \/ UNCHANGED <<LiveStream, SavedStreams>>
<1> DEFINE d == Head(main.buffers[s])
           n == Slots(d)
           buffers == [main.buffers EXCEPT ![s] = Tail(@)]
           pool == Append(main.pool, d)
           loaded == Loaded(main.loaded, s, n)
           target == Earned(main.target, main.step, n)
<1>1. /\ pc = "pulling" /\ pc' = pc /\ ckpts' = ckpts /\ NeedsRefill(main.pool)
      /\ s = PickSource(main.step, main.loaded, main.target) /\ main.buffers[s] # <<>>
      /\ main \in MainRecord /\ BuffersInv(main) /\ main.step < TotalSteps
      /\ main' = [main EXCEPT !.buffers = buffers, !.pool = pool, !.loaded = loaded, !.target = target]
  BY DEF AddDocument, Picked, Refilling, PoolsInv, MainInv, PhaseInv
<1>2. \E i \in DOMAIN Rows[s] : Rows[s][i] > 0
  <2> DEFINE q == Rows[s]
             m == PackLength
  <2>1. ToSet(q) # {0} BY <1>1 DEF BuffersInv, UselessSources
  <2>2. q \in Seq(0..m) /\ q # <<>> /\ m \in Nat BY PackingAssumption
  <2> HIDE DEF q, m
  <2>3. DOMAIN q = 1..Len(q) /\ Len(q) \in Nat \ {0} /\ \A i \in 1..Len(q) : q[i] \in 0..m BY <2>2
  <2>5. \E i \in DOMAIN q : q[i] # 0 BY <2>1, <2>3 DEF ToSet
  <2> QED BY <2>2, <2>3, <2>5 DEF q
<1>3. \A t \in Source : buffers[t] = IF t = s THEN Tail(main.buffers[s]) ELSE main.buffers[t]
  BY <1>1 DEF MainRecord
<1> HIDE DEF d, n, buffers, pool, loaded, target
<1>4. main' = [step |-> main.step, packs |-> main.packs, pool |-> pool,
               consumed |-> main.consumed, loaded |-> loaded, target |-> target,
               buffers |-> buffers, gap |-> main.gap]
  BY <1>1 DEF MainRecord
<1>5. SavedStreams' = SavedStreams BY <1>1 DEF SavedStreams
<1>6. Intact(main') <=> Intact(main) BY <1>4 DEF Intact
<1>7. CASE Intact(main)
  <2> DEFINE x == StreamOf(main)
             drawn == [t \in Source |-> Drawn(main, t)]
             next == [x.drawn EXCEPT ![s] = @ + 1]
  <2>1. LiveStream = x /\ LiveStream' = StreamOf(main') BY <1>1, <1>6, <1>7, StreamLemma
  <2>2. /\ x # Stream!None /\ x.step = main.step /\ x.pool = main.pool
        /\ x.loaded = main.loaded /\ x.target = main.target
    BY <1>1, StreamFields DEF MainRecord
  <2>3. x.drawn = drawn BY DEF StreamOf
  <2>5. d = Stream!Nth(s, Drawn(main, s) + 1) /\ Drawn(main', s) = Drawn(main, s) + 1
    BY OrderAddLemma, <1>7 DEF d, Intact
  <2>6. \A t \in Source \ {s} : Drawn(main', t) = Drawn(main, t)
    <3> TAKE t \in Source \ {s}
    <3> QED BY <1>3, <1>4 DEF Drawn
  <2>7. [t \in Source |-> Drawn(main', t)] = [drawn EXCEPT ![s] = @ + 1] /\ drawn[s] = Drawn(main, s)
    BY <2>5, <2>6
  <2>8. x = Parts(main.step, main.packs, main.pool, drawn, main.loaded, main.target) BY DEF StreamOf, Parts
  <2>9. Stream!Usable(s) # <<>>
    <3> DEFINE D == Documented(s)
               u == Stream!Usable(s)
    <3>1. D # {} BY <1>2 DEF Documented
    <3>2. IsFiniteSet(D) /\ Cardinality(D) \in Nat /\ Len(u) = Cardinality(D) BY UsableLemma, DocumentedLemma
    <3> HIDE DEF D, u
    <3> QED BY <3>1, <3>2, FS_EmptySet DEF u
  <2>10. /\ Stream!NeedsRefill(x.pool) /\ Stream!PickSource(x.step, x.loaded, x.target) = s
         /\ Stream!Nth(s, x.drawn[s] + 1) = d /\ Stream!Slots(d) = n
    BY <1>1, <2>2, <2>3, <2>5, <2>7, SameOperatorsLemma DEF n
  <2>11. /\ Append(x.pool, d) = pool /\ Stream!Loaded(x.loaded, s, n) = loaded
         /\ Stream!Earned(x.target, x.step, n) = target
    BY <2>2, SameOperatorsLemma DEF pool, loaded, target
  <2> HIDE DEF x, drawn
  <2>12. next = [t \in Source |-> Drawn(main', t)] BY <2>3, <2>7
  <2> HIDE DEF next
  <2>14. LiveStream' = Enlarged(x, next, pool, loaded, target)
    BY <2>1, <2>8, DrawnPartsLemma, <1>4, <2>12 DEF StreamOf, Parts
  <2>15. Stream!Draw
    <3>1. LiveStream' = [x EXCEPT !.drawn[s] = @ + 1, !.pool = pool, !.loaded = loaded, !.target = target]
      BY <2>14 DEF Enlarged, next
    <3>2. x.step < TotalSteps BY <1>1, <2>2
    <3> DEFINE e == Stream!Nth(s, x.drawn[s] + 1)
    <3>3. e = d BY <2>10
    <3>4. LiveStream' = [x EXCEPT !.drawn[s] = @ + 1,
                                  !.pool = Append(@, e),
                                  !.loaded = Stream!Loaded(@, s, Stream!Slots(e)),
                                  !.target = Stream!Earned(@, x.step, Stream!Slots(e))]
      BY <2>10, <2>11, <3>1, <3>3
    <3> QED BY <1>5, <2>1, <2>2, <2>9, <2>10, <3>2, <3>4, Zenon DEF Stream!Draw
  <2> QED BY <2>15 DEF Stream!StreamNext
<1>8. CASE ~Intact(main) BY <1>5, <1>6, <1>8, StreamLemma
<1> QED BY <1>7, <1>8

\* Whatever the workers read ahead and whenever the run stops, the documents,
\* packs and shares are those of one endless reading, saved and restored.
THEOREM StreamImplementation == Spec => ImplementsDocumentStream
<1>1. Init => Stream!StreamInit BY StreamInitLemma
<1>2. ASSUME IndInv, PoolsInv, OrderInv, [Next]_vars
      PROVE  Stream!StreamNext \/ UNCHANGED <<LiveStream, SavedStreams>>
  <2>1. CASE UNCHANGED vars \/ Done BY <2>1, QuietStreamLemma DEF Done, vars
  <2>2. ASSUME NEW c \in ckpts, Start(c)
        PROVE  Stream!StreamNext \/ UNCHANGED <<LiveStream, SavedStreams>>
    BY <2>2, BeginLemma
  <2>3. CASE BeginStep BY <2>3, QuietStreamLemma DEF BeginStep
  <2>4. CASE EndStep BY <1>2, <2>4, TrainLemma
  <2>5. CASE Save BY <1>2, <2>5, KeepLemma
  <2>6. CASE FailStep BY <1>2, <2>6, KeepFailedLemma
  <2>7. CASE Leave BY <2>7, StopStreamLemma DEF Leave, Stream!StreamNext
  <2>8. ASSUME NEW s \in Source, Worker(s)
        PROVE  Stream!StreamNext \/ UNCHANGED <<LiveStream, SavedStreams>>
    BY <2>8, QuietStreamLemma DEF Worker, ReadBatch, LoseBatch, EndOfRange
  <2>9. ASSUME NEW s \in Source, OpenIterator(s) \/ RestartIterator(s)
        PROVE  Stream!StreamNext \/ UNCHANGED <<LiveStream, SavedStreams>>
    BY <2>9, QuietStreamLemma DEF OpenIterator, RestartIterator
  <2>10. ASSUME NEW s \in Source, RefuseEpoch(s)
         PROVE  Stream!StreamNext
    BY <2>10, StopStreamLemma DEF RefuseEpoch, Stream!StreamNext
  <2>11. ASSUME NEW s \in Source, PassOverLost(s)
         PROVE  Stream!StreamNext
    <3>2. ~Intact(main') BY <1>2, <2>11 DEF Intact, PassOverLost, PoolsInv, MainInv, MainRecord
    <3> QED BY <2>11, <3>2, StopStreamLemma DEF PassOverLost, Stream!StreamNext
  <2>12. ASSUME NEW s \in Source, PullBatch(s)
         PROVE  UNCHANGED <<LiveStream, SavedStreams>>
    BY <1>2, <2>12, PullStreamLemma
  <2>13. ASSUME NEW s \in Source, AddDocument(s)
         PROVE  Stream!StreamNext \/ UNCHANGED <<LiveStream, SavedStreams>>
    BY <1>2, <2>13, DrawStreamLemma
  <2>14. CASE TakePack BY <1>2, <2>14, TakeStreamLemma
  <2> QED BY <1>2, <2>1, <2>2, <2>3, <2>4, <2>5, <2>6, <2>7, <2>8, <2>9, <2>10, <2>11, <2>12,
             <2>13, <2>14 DEF Next, Reader
<1>3. IndInv /\ DocumentsInv /\ OrderInv /\ [Next]_vars => [Stream!StreamNext]_(Stream!streamVars)
  BY <1>2 DEF DocumentsInv, Stream!streamVars
<1> QED BY <1>1, <1>3, StreamInvariance, DocumentInvariance, OrderInvariance, PTL
        DEF Spec, ImplementsDocumentStream, Stream!StreamSpec
=============================================================================
