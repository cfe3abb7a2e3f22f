--------------------------- MODULE DownloadProofs ---------------------------
(* For every repository, group of sources and size of batches, shards and   *)
(* queue: whatever fails or stops, the offset and the reject counters of a  *)
(* raw folder are those of the rows in its shards, a source is called       *)
(* exhausted only at its end, and a pass reports what it did.               *)
EXTENDS RawDownload, FiniteSetTheorems, WellFoundedInduction, TLAPS

OwnOf(g, n) == {p \in DOMAIN Upstream[g] : Upstream[g][p].name = n}
Ord(g, p) == Ordinals[g][p]
UpTo(g, n, k) == {p \in OwnOf(g, n) : p <= k}
Passed(g, n, k) == Cardinality(UpTo(g, n, k))
Kin(g, n, a, b, kinds) == {p \in OwnOf(g, n) : a < Ord(g, p) /\ Ord(g, p) <= b /\ Upstream[g][p].kind \in kinds}
Count(g, n, b, kinds) == Cardinality(Kin(g, n, 0, b, kinds))

LEMMA UpstreamLemma ==
    ASSUME NEW g \in Group
    PROVE  /\ DOMAIN Upstream[g] = 1 .. Len(Upstream[g]) /\ Len(Upstream[g]) \in Nat
           /\ \A p \in DOMAIN Upstream[g] : /\ p \in Nat /\ p > 0 /\ Upstream[g][p].name \in UNION Group
                                            /\ Upstream[g][p].kind \in {"ok", "long", "bad", "orphan", "filtered"}
           /\ \A p \in DOMAIN Upstream[g] : Upstream[g][p].name \notin Instruct => Upstream[g][p].kind = "ok"
<1> DEFINE Row == [name : UNION Group, kind : {"ok", "long", "bad", "orphan", "filtered"}]
<1>1. Upstream[g] \in Seq(Row) BY UpstreamAssumption
<1>2. DOMAIN Upstream[g] = 1 .. Len(Upstream[g]) /\ Len(Upstream[g]) \in Nat BY <1>1
<1> HIDE DEF Row
<1>3. \A p \in DOMAIN Upstream[g] : Upstream[g][p] \in Row BY <1>1, <1>2
<1> QED BY <1>2, UpstreamAssumption, <1>3 DEF Row

LEMMA UpToLemma ==
    ASSUME NEW g \in Group, NEW n
    PROVE  /\ IsFiniteSet(OwnOf(g, n)) /\ OwnOf(g, n) \subseteq Nat \ {0}
           /\ \A k : IsFiniteSet(UpTo(g, n, k)) /\ Passed(g, n, k) \in Nat
<1>1. IsFiniteSet(1 .. Len(Upstream[g]))
  <2> DEFINE k == Len(Upstream[g])
  <2>1. k \in Nat BY UpstreamLemma
  <2> HIDE DEF k
  <2>2. IsFiniteSet(1 .. k) BY <2>1, FS_Interval
  <2> QED BY <2>2 DEF k
<1>2. OwnOf(g, n) \subseteq 1 .. Len(Upstream[g]) BY UpstreamLemma DEF OwnOf
<1>3. IsFiniteSet(OwnOf(g, n)) BY <1>1, <1>2, FS_Subset
<1>4. ASSUME NEW k PROVE IsFiniteSet(UpTo(g, n, k)) /\ Passed(g, n, k) \in Nat
  BY <1>3, FS_Subset, FS_CardinalityType DEF UpTo, Passed
<1> QED BY <1>3, <1>4, <1>2, UpstreamLemma

LEMMA OrdIs ==
    ASSUME NEW g \in Group, NEW n, NEW p \in OwnOf(g, n)
    PROVE  Ord(g, p) = Passed(g, n, p)
<1>1. p \in DOMAIN Upstream[g] /\ Upstream[g][p].name = n BY DEF OwnOf
<1>2. {i \in 1 .. p : Upstream[g][i].name = Upstream[g][p].name} = UpTo(g, n, p)
  BY <1>1, UpstreamLemma DEF UpTo, OwnOf
<1> QED BY <1>1, <1>2 DEF Ord, Ordinals, Passed

LEMMA PassedStep ==
    ASSUME NEW g \in Group, NEW n, NEW k \in Nat, k < Len(Upstream[g])
    PROVE  /\ k + 1 \in DOMAIN Upstream[g]
           /\ Upstream[g][k + 1].name = n => Passed(g, n, k + 1) = Passed(g, n, k) + 1
           /\ Upstream[g][k + 1].name # n => Passed(g, n, k + 1) = Passed(g, n, k)
<1>1. k + 1 \in DOMAIN Upstream[g] /\ OwnOf(g, n) \subseteq Nat BY UpstreamLemma, UpToLemma
<1>2. CASE Upstream[g][k + 1].name = n
  <2>1. UpTo(g, n, k + 1) = UpTo(g, n, k) \cup {k + 1} /\ k + 1 \notin UpTo(g, n, k)
    BY <1>1, <1>2 DEF UpTo, OwnOf
  <2> QED BY Zenon, <1>1, <1>2, <2>1, UpToLemma, FS_AddElement DEF Passed
<1>3. CASE Upstream[g][k + 1].name # n
  <2>1. UpTo(g, n, k + 1) = UpTo(g, n, k) BY <1>1, <1>3 DEF UpTo, OwnOf
  <2> QED BY <1>1, <1>3, <2>1 DEF Passed
<1> QED BY <1>1, <1>2, <1>3

LEMMA PassedMonotone ==
    ASSUME NEW g \in Group, NEW n, NEW k \in Nat, NEW l \in Nat, k <= l
    PROVE  Passed(g, n, k) <= Passed(g, n, l)
<1> QED BY UpToLemma, FS_Subset DEF Passed, UpTo

LEMMA OrdLemma ==
    ASSUME NEW g \in Group, NEW n
    PROVE  /\ \A p \in OwnOf(g, n) : Ord(g, p) \in Nat /\ Ord(g, p) > 0
           /\ \A p, q \in OwnOf(g, n) : p < q => Ord(g, p) < Ord(g, q)
           /\ \A p, q \in OwnOf(g, n) : Ord(g, p) = Ord(g, q) => p = q
           /\ \A p, q \in OwnOf(g, n) : Ord(g, p) < Ord(g, q) => p < q
<1>1. ASSUME NEW p \in OwnOf(g, n), NEW k \in Nat, k < p
      PROVE  Passed(g, n, k) < Ord(g, p)
  <2>1. p \in Nat /\ p > 0 /\ p - 1 \in Nat /\ (p - 1) + 1 = p /\ k <= p - 1 BY <1>1, UpToLemma
  <2>3. Passed(g, n, p) = Passed(g, n, p - 1) + 1 BY <2>1, PassedStep, UpstreamLemma DEF OwnOf
  <2> QED BY <2>3, OrdIs, UpToLemma, <2>1, PassedMonotone
<1>2. ASSUME NEW p \in OwnOf(g, n) PROVE Ord(g, p) \in Nat /\ Ord(g, p) > 0 BY <1>1, UpToLemma, OrdIs
<1>3. ASSUME NEW p \in OwnOf(g, n), NEW q \in OwnOf(g, n), p < q PROVE Ord(g, p) < Ord(g, q)
  BY <1>1, <1>3, OrdIs, UpToLemma
<1>4. ASSUME NEW p \in OwnOf(g, n), NEW q \in OwnOf(g, n), Ord(g, p) = Ord(g, q) PROVE p = q
  BY <1>2, <1>3, <1>4, UpToLemma
<1>5. ASSUME NEW p \in OwnOf(g, n), NEW q \in OwnOf(g, n), Ord(g, p) < Ord(g, q) PROVE p < q
  BY <1>2, <1>3, <1>5, UpToLemma
<1> QED BY <1>2, <1>3, <1>4, <1>5

LEMMA KinFinite ==
    ASSUME NEW g \in Group, NEW n, NEW a, NEW b, NEW kinds
    PROVE  IsFiniteSet(Kin(g, n, a, b, kinds)) /\ Cardinality(Kin(g, n, a, b, kinds)) \in Nat
<1> QED BY UpToLemma, FS_Subset, FS_CardinalityType DEF Kin

LEMMA KinSplit ==
    ASSUME NEW g \in Group, NEW n, NEW a \in Nat, NEW b \in Nat, NEW c \in Nat, a <= b, b <= c, NEW kinds
    PROVE  /\ Kin(g, n, a, c, kinds) = Kin(g, n, a, b, kinds) \cup Kin(g, n, b, c, kinds)
           /\ Kin(g, n, a, b, kinds) \cap Kin(g, n, b, c, kinds) = {}
           /\ \A p \in Kin(g, n, a, b, kinds), q \in Kin(g, n, b, c, kinds) : p < q
<1> QED BY OrdLemma DEF Kin

LEMMA KinJoins ==
    ASSUME NEW g \in Group, NEW n, NEW a \in Nat, NEW b \in Nat, NEW c \in Nat, a <= b, b <= c, NEW kinds
    PROVE  Kin(g, n, a, c, kinds) = Kin(g, n, a, b, kinds) \cup Kin(g, n, b, c, kinds)
BY KinSplit

LEMMA NothingJoins ==
    ASSUME NEW g \in Group, NEW n, NEW a \in Nat, NEW b \in Nat, NEW c \in Nat, a <= b, b <= c, NEW kinds,
           Kin(g, n, a, b, kinds) = {}, Kin(g, n, b, c, kinds) = {}
    PROVE  Kin(g, n, a, c, kinds) = {}
<1> HIDE DEF Kin
<1> QED BY KinJoins

LEMMA KinEmpty ==
    ASSUME NEW g \in Group, NEW n, NEW a \in Nat, NEW kinds
    PROVE  Kin(g, n, a, a, kinds) = {}
<1> QED BY OrdLemma DEF Kin

LEMMA KinOne ==
    ASSUME NEW g \in Group, NEW n, NEW p \in OwnOf(g, n), NEW a \in Nat, Ord(g, p) = a + 1, NEW kinds
    PROVE  /\ Upstream[g][p].kind \in kinds => Kin(g, n, a, a + 1, kinds) = {p}
           /\ Upstream[g][p].kind \notin kinds => Kin(g, n, a, a + 1, kinds) = {}
<1> QED BY OrdLemma DEF Kin

LEMMA CountSplit ==
    ASSUME NEW g \in Group, NEW n, NEW b \in Nat, NEW c \in Nat, b <= c, NEW kinds
    PROVE  /\ Count(g, n, b, kinds) \in Nat
           /\ Count(g, n, c, kinds) = Count(g, n, b, kinds) + Cardinality(Kin(g, n, b, c, kinds))
<1>1. /\ Kin(g, n, 0, c, kinds) = Kin(g, n, 0, b, kinds) \cup Kin(g, n, b, c, kinds)
      /\ Kin(g, n, 0, b, kinds) \cap Kin(g, n, b, c, kinds) = {}
  BY KinSplit
<1> QED BY <1>1, KinFinite, FS_Union, FS_EmptySet, SMTT(30), Z3T(30) DEF Count

LEMMA CountOne ==
    ASSUME NEW g \in Group, NEW n, NEW p \in OwnOf(g, n), NEW a \in Nat, Ord(g, p) = a + 1, NEW kinds
    PROVE  /\ Upstream[g][p].kind \in kinds => Count(g, n, a + 1, kinds) = Count(g, n, a, kinds) + 1
           /\ Upstream[g][p].kind \notin kinds => Count(g, n, a + 1, kinds) = Count(g, n, a, kinds)
<1>1. Count(g, n, a, kinds) \in Nat /\ Count(g, n, a + 1, kinds) = Count(g, n, a, kinds) + Cardinality(Kin(g, n, a, a + 1, kinds))
  BY CountSplit
<1>2. /\ Upstream[g][p].kind \in kinds => Kin(g, n, a, a + 1, kinds) = {p}
      /\ Upstream[g][p].kind \notin kinds => Kin(g, n, a, a + 1, kinds) = {}
  BY KinOne
<1> DEFINE K == Kin(g, n, a, a + 1, kinds)
<1>3. K = {p} => Cardinality(K) = 1 BY FS_Singleton
<1>4. K = {} => Cardinality(K) = 0 BY FS_EmptySet
<1>5. CASE Upstream[g][p].kind \in kinds BY <1>2, <1>5, <1>1, <1>3
<1>6. CASE Upstream[g][p].kind \notin kinds BY <1>2, <1>6, <1>1, <1>4 DEF K
<1> QED BY <1>5, <1>6

LEMMA LeastElement ==
    ASSUME NEW T \in SUBSET Nat, T # {}
    PROVE  \E n \in T : \A m \in T : n <= m
<1> DEFINE R == OpToRel(<, Nat)
<1>1. IsWellFoundedOn(R, Nat) BY NatLessThanWellFounded DEF OpToRel
<1>2. \A m, n \in Nat : m < n => <<m, n>> \in R BY DEF OpToRel
<1> HIDE DEF R
<1>3. PICK n \in T : \A m \in T : ~ (<<m, n>> \in R) BY <1>1, WFMin
<1>4. ASSUME NEW m \in T PROVE n <= m
  <2>1. m \in Nat /\ n \in Nat /\ ~(m < n) BY <1>2, <1>3
  <2> QED BY <2>1
<1> QED BY <1>4

LEMMA NumberInduction ==
    ASSUME NEW P, 0 \in P, \A n \in Nat : n \in P => n + 1 \in P
    PROVE  Nat \subseteq P
<1> DEFINE T == Nat \ P
<1> SUFFICES ASSUME T # {} PROVE FALSE OBVIOUS
<1>1. PICK n \in T : \A m \in T : n <= m BY LeastElement
<1> QED BY <1>1

\* A sequence of steps can be taken.
LEMMA Iteration ==
    ASSUME NEW V, NEW v \in V, NEW n \in Nat, NEW step \in [1 .. n -> [V -> V]]
    PROVE  \E f \in [0 .. n -> V] : f[0] = v /\ \A i \in 1 .. n : f[i] = step[i][f[i - 1]]
<1> DEFINE Taken(f, k) == f[0] = v /\ \A i \in 1 .. k : f[i] = step[i][f[i - 1]]
           P == {k \in Nat : k <= n => \E f \in [0 .. k -> V] : Taken(f, k)}
<1>1. 0 \in P
  <2>1. [i \in 0 .. 0 |-> v] \in [0 .. 0 -> V] /\ Taken([i \in 0 .. 0 |-> v], 0) OBVIOUS
  <2> QED BY <2>1
<1>2. ASSUME NEW k \in Nat, k \in P PROVE k + 1 \in P
  <2> SUFFICES ASSUME k + 1 <= n PROVE \E f \in [0 .. k + 1 -> V] : Taken(f, k + 1) OBVIOUS
  <2>1. PICK f \in [0 .. k -> V] : Taken(f, k) BY <1>2
  <2> DEFINE h == [i \in 0 .. k + 1 |-> IF i = k + 1 THEN step[k + 1][f[k]] ELSE f[i]]
  <2>4. h \in [0 .. k + 1 -> V] BY <2>1
  <2>5. Taken(h, k + 1) BY <2>1
  <2> QED BY <2>4, <2>5
<1> HIDE DEF P
<1>3. Nat \subseteq P BY <1>1, <1>2, NumberInduction
<1> QED BY <1>3 DEF P

LEMMA FlattenSteps ==
    ASSUME NEW S, NEW s \in Seq(Seq(S))
    PROVE  \E f \in [0 .. Len(s) -> Seq(S)] :
              /\ f[0] = <<>> /\ \A i \in 1 .. Len(s) : f[i] = f[i - 1] \o s[i]
              /\ FlattenSeq(s) = f[Len(s)]
<1> DEFINE n == Len(s)
           eq(f) == f = [i \in 1 .. Len(s) |-> IF i = 1 THEN s[i] ELSE f[i - 1] \o s[i]]
           step == [i \in 1 .. n |-> [t \in Seq(S) |-> t \o s[i]]]
<1>1. n \in Nat /\ \A i \in 1 .. n : s[i] \in Seq(S) OBVIOUS
<1>2. PICK e \in [0 .. n -> Seq(S)] : e[0] = <<>> /\ \A i \in 1 .. n : e[i] = step[i][e[i - 1]]
  <2>1. ASSUME NEW i \in 1 .. n PROVE [t \in Seq(S) |-> t \o s[i]] \in [Seq(S) -> Seq(S)] BY <1>1
  <2> DEFINE V == Seq(S)
             none == <<>>
  <2>5. n \in Nat /\ step \in [1 .. n -> [V -> V]] /\ none \in V BY <2>1, <1>1
  <2> HIDE DEF step, n, V, none
  <2>6. \E f \in [0 .. n -> V] : f[0] = none /\ \A i \in 1 .. n : f[i] = step[i][f[i - 1]] BY <2>5, Iteration, SMTT(30)
  <2> QED BY <2>6 DEF V, none
<1>3. \A i \in 1 .. n : e[i] = e[i - 1] \o s[i] /\ e[i] \in Seq(S) /\ e[i - 1] \in Seq(S)
  <2> HIDE DEF n
  <2> SUFFICES ASSUME NEW i \in 1 .. n PROVE e[i] = e[i - 1] \o s[i] /\ e[i] \in Seq(S) /\ e[i - 1] \in Seq(S)
    OBVIOUS
  <2>2. e[i] \in Seq(S) /\ e[i - 1] \in Seq(S) BY <1>2, <1>1
  <2>3. step[i] = [t \in Seq(S) |-> t \o s[i]] OBVIOUS
  <2>4. e[i] = step[i][e[i - 1]] BY <1>2
  <2> QED BY <2>2, <2>3, <2>4
<1> HIDE DEF n
<1>4. eq([i \in 1 .. n |-> e[i]])
  <2>1. 1 \in 1 .. n => e[1] = s[1]
    <3> SUFFICES ASSUME 1 \in 1 .. n PROVE e[1] = s[1] OBVIOUS
    <3>1. e[1] = e[0] \o s[1] /\ s[1] \in Seq(S)
      <4>1. 1 - 1 = 0 OBVIOUS
      <4> QED BY <4>1, <1>1, <1>3
    <3> QED BY <3>1, <1>2
  <2>2. \A i \in 1 .. n : i # 1 => i - 1 \in 1 .. n BY <1>1
  <2> QED BY <2>1, <2>2, <1>3 DEF n
<1> DEFINE flat == CHOOSE f : eq(f)
<1>5. eq(flat)
  <2> HIDE DEF eq
  <2> QED BY <1>4
<1>6. FlattenSeq(s) = IF n = 0 THEN s ELSE flat[n] BY DEF FlattenSeq, n
<1> HIDE DEF flat
<1>7. /\ \A i \in 1 .. n : i # 1 => flat[i] = flat[i - 1] \o s[i]
      /\ 1 \in 1 .. n => flat[1] = s[1]
  BY <1>5 DEF n
<1> DEFINE P == {k \in Nat : k \in 1 .. n => flat[k] = e[k]}
<1>8. 0 \in P OBVIOUS
<1>9. ASSUME NEW k \in Nat, k \in P PROVE k + 1 \in P
  <2> SUFFICES ASSUME k + 1 \in 1 .. n PROVE flat[k + 1] = e[k + 1] OBVIOUS
  <2>1. CASE k = 0
    <3>1. 1 \in 1 .. n /\ k + 1 = 1 BY <2>1
    <3> HIDE DEF flat
    <3>2. e[1] = s[1]
      <4>1. [i \in 1 .. n |-> e[i]][1] = s[1] BY <1>4, <3>1 DEF n
      <4> QED BY <4>1, <3>1
    <3> QED BY <3>1, <3>2, <1>7
  <2>2. CASE k # 0
    <3>1. k \in 1 .. n /\ (k + 1) - 1 = k /\ k + 1 # 1 BY <1>1, <2>2
    <3>2. flat[k] = e[k] BY <1>9, <3>1
    <3>3. flat[k + 1] = flat[k] \o s[k + 1] BY <1>7, <3>1
    <3>4. e[k + 1] = e[k] \o s[k + 1] BY <1>3, <3>1
    <3> QED BY <3>2, <3>3, <3>4
  <2> QED BY <2>1, <2>2
<1> HIDE DEF P
<1>10. Nat \subseteq P BY <1>8, <1>9, NumberInduction
<1>12. FlattenSeq(s) = e[n] BY <1>6, <1>2, <1>1, <1>10 DEF n, P
<1> QED BY <1>2, <1>3, <1>12 DEF n

LEMMA FlattenAppend ==
    ASSUME NEW S, NEW s \in Seq(Seq(S)), NEW x \in Seq(S)
    PROVE  /\ FlattenSeq(s) \in Seq(S)
           /\ FlattenSeq(Append(s, x)) = FlattenSeq(s) \o x
<1> DEFINE t == Append(s, x)
<1>1. t \in Seq(Seq(S)) /\ Len(t) = Len(s) + 1 /\ Len(s) \in Nat /\ t[Len(s) + 1] = x /\ \A i \in 1 .. Len(s) : t[i] = s[i]
  OBVIOUS
<1> HIDE DEF t
<1>2. PICK f \in [0 .. Len(s) -> Seq(S)] :
        /\ f[0] = <<>> /\ \A i \in 1 .. Len(s) : f[i] = f[i - 1] \o s[i]
        /\ FlattenSeq(s) = f[Len(s)]
  BY FlattenSteps
<1>3. PICK h \in [0 .. Len(t) -> Seq(S)] :
        /\ h[0] = <<>> /\ \A i \in 1 .. Len(t) : h[i] = h[i - 1] \o t[i]
        /\ FlattenSeq(t) = h[Len(t)]
  BY <1>1, FlattenSteps
<1> DEFINE P == {k \in Nat : k <= Len(s) => f[k] = h[k]}
<1>4. 0 \in P BY <1>2, <1>3
<1>5. ASSUME NEW k \in Nat, k \in P PROVE k + 1 \in P
  <2> SUFFICES ASSUME k + 1 <= Len(s) PROVE f[k + 1] = h[k + 1] OBVIOUS
  <2>1. k + 1 \in 1 .. Len(s) /\ k + 1 \in 1 .. Len(t) /\ (k + 1) - 1 = k /\ k <= Len(s) BY <1>1
  <2>2. f[k + 1] = f[k] \o s[k + 1] BY <2>1, <1>2
  <2>3. h[k + 1] = h[k] \o s[k + 1] BY <2>1, <1>1, <1>3
  <2> QED BY <2>1, <2>2, <2>3, <1>5
<1> HIDE DEF P
<1>6. Nat \subseteq P BY <1>4, <1>5, NumberInduction
<1>7. f[Len(s)] = h[Len(s)]
  <2>1. Len(s) \in P /\ Len(s) <= Len(s) BY <1>6, <1>1
  <2> QED BY <2>1 DEF P
<1>8. Len(t) \in 1 .. Len(t) /\ Len(t) - 1 = Len(s) BY <1>1
<1>9. h[Len(t)] = h[Len(s)] \o x BY <1>1, <1>3, <1>8
<1>10. FlattenSeq(s) \in Seq(S)
  <2>1. Len(s) \in 0 .. Len(s) BY <1>1
  <2> QED BY <2>1, <1>2
<1> QED BY <1>2, <1>3, <1>7, <1>9, <1>10 DEF t

Offset == [fetched : Nat, skipped : Nat, dropped : Nat]
Shard == [rows : Seq(Nat), asof : Offset]
Manifest == [shards : Seq(Shard), fetched : Nat, skipped : Nat, dropped : Nat, exhausted : BOOLEAN, reached : Nat \cup {NoLimit}]
Row == [id : Nat, kind : {"ok", "long", "bad", "orphan", "filtered"}, progress : [consumed : Nat, skipped : Nat, dropped : Nat]]
Inc == [wanted : Nat, passive : BOOLEAN, needed : Nat, limit : Nat \cup {NoLimit}, budget : Int \cup {NoLimit},
        base : Offset, consumed : Nat, skipped : Nat, streak : Nat, kept : Nat, dropped : Nat,
        batch : Seq(Row), submitted : Nat, settled : Nat]

RowsIn(shards) == FlattenSeq([i \in DOMAIN shards |-> shards[i].rows])
Increasing(s) == \A i, j \in DOMAIN s : i < j => s[i] < s[j]
Members(s) == {s[i] : i \in DOMAIN s}

ExactIn(g, n, rows, asof) ==
    /\ Increasing(rows)
    /\ Members(rows) = Kin(g, n, 0, asof.fetched, {"ok"})
    /\ asof.skipped = Count(g, n, asof.fetched, {"bad", "orphan"})
    /\ asof.dropped = Count(g, n, asof.fetched, {"long"})

GoodManifest(g, n, m) ==
    /\ ExactIn(g, n, RowsIn(m.shards), m)
    /\ \A s \in 1 .. Len(m.shards) : ExactIn(g, n, RowsIn(SubSeq(m.shards, 1, s)), m.shards[s].asof)

Ids(rows) == [j \in DOMAIN rows |-> rows[j].id]
Placed(g, n, base, r) ==
    /\ r.id \in OwnOf(g, n) /\ r.kind = Upstream[g][r.id].kind /\ r.kind \in {"ok", "long"}
    /\ base.fetched + r.progress.consumed = Ord(g, r.id)
    /\ base.skipped + r.progress.skipped = Count(g, n, Ord(g, r.id), {"bad", "orphan"})
Told(g, n, base, r) ==
    /\ Placed(g, n, base, r)
    /\ base.dropped + r.progress.dropped = Count(g, n, Ord(g, r.id), {"long"})

LEMMA FunctionIsSequence ==
    ASSUME NEW S, NEW m \in Nat, NEW l \in [1 .. m -> S]
    PROVE  l \in Seq(S)
<1> QED OBVIOUS

LEMMA SameSequence ==
    ASSUME NEW S, NEW s \in Seq(S), NEW t \in Seq(S), Len(s) = Len(t),
           \A i \in 1 .. Len(s) : s[i] = t[i]
    PROVE  s = t
OBVIOUS

LEMMA AppendLemma ==
    ASSUME NEW S, NEW s \in Seq(S), NEW e \in S
    PROVE  /\ Append(s, e) \in Seq(S)
           /\ Len(Append(s, e)) = Len(s) + 1
           /\ DOMAIN Append(s, e) = 1 .. Len(s) + 1
           /\ \A i \in 1 .. Len(s) : Append(s, e)[i] = s[i]
           /\ Append(s, e)[Len(s) + 1] = e
OBVIOUS

LEMMA InitialLemma ==
    ASSUME NEW S, NEW s \in Seq(S), NEW n \in 0 .. Len(s)
    PROVE  /\ SubSeq(s, 1, n) \in Seq(S)
           /\ Len(SubSeq(s, 1, n)) = n
           /\ \A i \in 1 .. n : SubSeq(s, 1, n)[i] = s[i]
OBVIOUS

LEMMA InitialOfInitial ==
    ASSUME NEW S, NEW s \in Seq(S), NEW n \in 0 .. Len(s), NEW k \in 0 .. n
    PROVE  SubSeq(SubSeq(s, 1, n), 1, k) = SubSeq(s, 1, k)
<1> DEFINE t == SubSeq(s, 1, n)
<1>1. Len(s) \in Nat /\ n \in Nat /\ k \in Nat /\ n <= Len(s) /\ k <= n OBVIOUS
<1>2. t \in Seq(S) /\ Len(t) = n /\ \A i \in 1 .. n : t[i] = s[i] BY InitialLemma
<1> HIDE DEF t
<1> DEFINE u == SubSeq(t, 1, k)
           v == SubSeq(s, 1, k)
<1>3. u \in Seq(S) /\ Len(u) = k /\ \A i \in 1 .. k : u[i] = t[i] BY <1>1, <1>2, InitialLemma
<1>4. v \in Seq(S) /\ Len(v) = k /\ \A i \in 1 .. k : v[i] = s[i] BY <1>1, InitialLemma
<1> HIDE DEF u, v
<1>6. u = v BY <1>3, <1>4, SameSequence, <1>1, <1>2
<1> QED BY <1>6 DEF t, u, v

LEMMA InitialOfAppend ==
    ASSUME NEW S, NEW s \in Seq(S), NEW e \in S, NEW k \in 0 .. Len(s)
    PROVE  /\ SubSeq(Append(s, e), 1, k) = SubSeq(s, 1, k)
           /\ SubSeq(Append(s, e), 1, Len(s) + 1) = Append(s, e)
<1> DEFINE t == Append(s, e)
<1>1. t \in Seq(S) /\ Len(t) = Len(s) + 1 /\ \A i \in 1 .. Len(s) : t[i] = s[i] BY AppendLemma
<1>2. Len(s) \in Nat /\ k \in Nat /\ k <= Len(s) OBVIOUS
<1> HIDE DEF t
<1> DEFINE u == SubSeq(t, 1, k)
           v == SubSeq(s, 1, k)
           w == SubSeq(t, 1, Len(s) + 1)
<1>3. u \in Seq(S) /\ Len(u) = k /\ \A i \in 1 .. k : u[i] = t[i] BY <1>1, <1>2, InitialLemma
<1>4. v \in Seq(S) /\ Len(v) = k /\ \A i \in 1 .. k : v[i] = s[i] BY InitialLemma
<1>5. w \in Seq(S) /\ Len(w) = Len(t) /\ \A i \in 1 .. Len(t) : w[i] = t[i] BY <1>1, <1>2, InitialLemma
<1> HIDE DEF u, v, w
<1>8. w = t BY <1>1, <1>5, SameSequence
<1> QED BY <1>8, <1>3, <1>4, SameSequence, <1>1, <1>2 DEF t, u, v, w

LEMMA RowsInLemma ==
    ASSUME NEW s \in Seq(Shard), NEW x \in Shard
    PROVE  /\ RowsIn(s) \in Seq(Nat)
           /\ RowsIn(Append(s, x)) = RowsIn(s) \o x.rows
<1> DEFINE r == [i \in 1 .. Len(s) |-> s[i].rows]
           t == Append(s, x)
<1>1. Len(s) \in Nat /\ DOMAIN s = 1 .. Len(s) /\ x.rows \in Seq(Nat) /\ \A i \in 1 .. Len(s) : s[i].rows \in Seq(Nat)
  <2>1. \A i \in 1 .. Len(s) : s[i] \in Shard OBVIOUS
  <2> QED BY <2>1 DEF Shard
<1>2. r \in Seq(Seq(Nat)) /\ Len(r) = Len(s) BY <1>1, FunctionIsSequence
<1>3. t \in Seq(Shard) /\ Len(t) = Len(s) + 1 /\ DOMAIN t = 1 .. Len(s) + 1 /\ t[Len(s) + 1] = x /\ \A i \in 1 .. Len(s) : t[i] = s[i]
  BY AppendLemma
<1> HIDE DEF t
<1> DEFINE q == [i \in 1 .. Len(s) + 1 |-> t[i].rows]
<1>4. q = Append(r, x.rows)
  <2> DEFINE a == Append(r, x.rows)
  <2>1. a \in Seq(Seq(Nat)) /\ Len(a) = Len(s) + 1 /\ a[Len(s) + 1] = x.rows /\ \A i \in 1 .. Len(s) : a[i] = r[i]
    <3> HIDE DEF r
    <3> QED BY <1>1, <1>2, AppendLemma
  <2>2. q \in Seq(Seq(Nat)) /\ Len(q) = Len(s) + 1 BY <1>1, <1>3, FunctionIsSequence
  <2>3. \A i \in 1 .. Len(s) + 1 : q[i] = a[i] BY <1>1, <2>1, <1>3
  <2> HIDE DEF a, q
  <2>4. q = a BY <2>1, <2>2, <2>3, SameSequence
  <2> QED BY <2>4 DEF a
<1>5. RowsIn(s) = FlattenSeq(r) /\ RowsIn(t) = FlattenSeq(q) BY <1>1, <1>3 DEF RowsIn
<1> HIDE DEF r, q
<1>6. FlattenSeq(r) \in Seq(Nat) /\ FlattenSeq(Append(r, x.rows)) = FlattenSeq(r) \o x.rows
  BY <1>1, <1>2, FlattenAppend
<1> QED BY <1>4, <1>5, <1>6 DEF t

LEMMA NoRows == RowsIn(<<>>) = <<>>
BY DEF RowsIn, FlattenSeq

LEMMA IncreasingConcat ==
    ASSUME NEW s \in Seq(Nat), NEW t \in Seq(Nat), Increasing(s), Increasing(t),
           \A p \in Members(s), q \in Members(t) : p < q
    PROVE  Increasing(s \o t) /\ Members(s \o t) = Members(s) \cup Members(t)
<1> DEFINE u == s \o t
<1>1. /\ Len(s) \in Nat /\ Len(t) \in Nat /\ DOMAIN s = 1 .. Len(s) /\ DOMAIN t = 1 .. Len(t)
      /\ u \in Seq(Nat) /\ Len(u) = Len(s) + Len(t) /\ DOMAIN u = 1 .. (Len(s) + Len(t))
      /\ \A i \in 1 .. Len(s) : u[i] = s[i]
      /\ \A i \in 1 .. Len(t) : u[Len(s) + i] = t[i]
  OBVIOUS
<1> HIDE DEF u
<1>3. \A i \in DOMAIN u : (i \in DOMAIN s /\ u[i] = s[i]) \/ (i - Len(s) \in DOMAIN t /\ i > Len(s) /\ u[i] = t[i - Len(s)])
  BY <1>1
<1>4. Members(u) = Members(s) \cup Members(t)
  <2>1. Members(u) \subseteq Members(s) \cup Members(t) BY <1>3 DEF Members
  <2>2. Members(s) \subseteq Members(u) BY <1>1 DEF Members
  <2>3. Members(t) \subseteq Members(u)
    <3>1. \A i \in DOMAIN t : Len(s) + i \in DOMAIN u BY <1>1
    <3> QED BY <1>1, <3>1 DEF Members
  <2> QED BY <2>1, <2>2, <2>3
<1>5. ASSUME NEW i \in DOMAIN u, NEW j \in DOMAIN u, i < j PROVE u[i] < u[j]
  <2>0. i \in Nat /\ j \in Nat BY <1>1
  <2>1. CASE i \in DOMAIN s /\ j \in DOMAIN s BY <2>1, <1>1, <1>5 DEF Increasing
  <2>2. CASE i \in DOMAIN s /\ j \notin DOMAIN s BY <2>2, <1>1, <1>3 DEF Members
  <2>3. CASE i \notin DOMAIN s
    <3>1. j \notin DOMAIN s BY <2>0, <2>3, <1>1, <1>5
    <3> QED BY <3>1, <2>3, <1>3, <2>0, <1>1, <1>5 DEF Increasing
  <2> QED BY <2>1, <2>2, <2>3
<1> QED BY <1>4, <1>5 DEF u, Increasing

LEMMA NewIsGood ==
    ASSUME NEW g \in Group, NEW n
    PROVE  NewManifest \in Manifest /\ GoodManifest(g, n, NewManifest)
<1>1. Kin(g, n, 0, 0, {"ok"}) = {} /\ Kin(g, n, 0, 0, {"bad", "orphan"}) = {} /\ Kin(g, n, 0, 0, {"long"}) = {}
  BY KinEmpty
<1>2. Count(g, n, 0, {"bad", "orphan"}) = 0 /\ Count(g, n, 0, {"long"}) = 0 BY <1>1, FS_EmptySet DEF Count
<1>4. NewManifest \in Manifest BY DEF NewManifest, Manifest
<1> QED BY <1>1, <1>2, <1>4, NoRows DEF GoodManifest, ExactIn, NewManifest, Members, Increasing

LEMMA IdsLemma ==
    ASSUME NEW rows \in Seq(Row)
    PROVE  /\ Ids(rows) \in Seq(Nat) /\ Len(Ids(rows)) = Len(rows) /\ DOMAIN Ids(rows) = DOMAIN rows
           /\ DOMAIN rows = 1 .. Len(rows) /\ Len(rows) \in Nat
           /\ \A i \in DOMAIN rows : Ids(rows)[i] = rows[i].id /\ rows[i] \in Row /\ rows[i].id \in Nat
<1>1. DOMAIN rows = 1 .. Len(rows) /\ Len(rows) \in Nat /\ \A i \in DOMAIN rows : rows[i] \in Row
  <2> HIDE DEF Row
  <2> QED OBVIOUS
<1>2. \A i \in DOMAIN rows : rows[i].id \in Nat BY <1>1 DEF Row
<1> DEFINE l == [j \in 1 .. Len(rows) |-> rows[j].id]
<1>5. l \in Seq(Nat) /\ DOMAIN l = 1 .. Len(rows) BY <1>1, FunctionIsSequence, <1>2
<1> HIDE DEF l
<1> QED BY <1>1, <1>2, <1>5 DEF Ids

LEMMA AsOfType ==
    ASSUME NEW i, NEW progress, i.base \in Offset,
           progress.consumed \in Nat, progress.skipped \in Nat, progress.dropped \in Nat
    PROVE  AsOf(i, progress) \in Offset
<1> QED BY DEF AsOf, Offset

LEMMA KinFromStart ==
    ASSUME NEW g \in Group, NEW n, NEW b \in Nat, NEW c \in Nat, b <= c, NEW kinds
    PROVE  /\ Kin(g, n, 0, c, kinds) = Kin(g, n, 0, b, kinds) \cup Kin(g, n, b, c, kinds)
           /\ \A p \in Kin(g, n, 0, b, kinds), q \in Kin(g, n, b, c, kinds) : p < q
BY KinSplit

\* Writing a shard.
LEMMA RecordGood ==
    ASSUME NEW g \in Group, NEW n, NEW m \in Manifest, GoodManifest(g, n, m), NEW i \in Inc,
           NEW rows \in Seq(Row), rows # <<>>, Increasing(Ids(rows)),
           Members(Ids(rows)) = Kin(g, n, m.fetched, Ord(g, rows[Len(rows)].id), {"ok"}),
           Told(g, n, i.base, rows[Len(rows)])
    PROVE  /\ RecordShard(m, i, rows) \in Manifest
           /\ GoodManifest(g, n, RecordShard(m, i, rows))
           /\ RecordShard(m, i, rows).fetched = Ord(g, rows[Len(rows)].id)
           /\ RecordShard(m, i, rows).shards = Append(m.shards, [rows |-> Ids(rows), asof |-> AsOf(i, rows[Len(rows)].progress)])
<1> DEFINE last == rows[Len(rows)]
           asof == AsOf(i, last.progress)
           x == [rows |-> Ids(rows), asof |-> asof]
           m2 == RecordShard(m, i, rows)
<1>1. Len(rows) \in DOMAIN rows /\ last \in Row BY IdsLemma
<1> HIDE DEF last
<1>2. /\ last.progress.consumed \in Nat /\ last.progress.skipped \in Nat /\ last.progress.dropped \in Nat
      /\ i.base \in Offset
  <2>1. i.base \in Offset BY DEF Inc
  <2> QED BY <2>1, <1>1 DEF Row
<1>3. asof \in Offset
  <2> QED BY <1>2, AsOfType DEF asof
<1>4. /\ asof.fetched = Ord(g, last.id)
      /\ asof.skipped = Count(g, n, Ord(g, last.id), {"bad", "orphan"})
      /\ asof.dropped = Count(g, n, Ord(g, last.id), {"long"})
  BY DEF AsOf, Told, Placed, last
<1>5. x \in Shard BY <1>3, IdsLemma DEF Shard
<1>6. m.shards \in Seq(Shard) /\ m.fetched \in Nat BY DEF Manifest
<1> HIDE DEF asof, x
<1>7. /\ m2.shards = Append(m.shards, x) /\ m2.fetched = asof.fetched /\ m2.skipped = asof.skipped /\ m2.dropped = asof.dropped
      /\ m2.exhausted = m.exhausted /\ m2.reached = m.reached
      /\ m2 = [m EXCEPT !.shards = Append(m.shards, x), !.fetched = asof.fetched, !.skipped = asof.skipped, !.dropped = asof.dropped]
  <2>1. m2 = [m EXCEPT !.shards = Append(m.shards, x), !.fetched = asof.fetched, !.skipped = asof.skipped, !.dropped = asof.dropped]
    BY DEF RecordShard, Stored, x, asof, Ids, Manifest, last
  <2> HIDE DEF m2
  <2> QED BY <2>1 DEF Manifest
<1>9. m2 \in Manifest
  <2> DEFINE sh == Append(m.shards, x)
  <2>1. m2 = [m EXCEPT !.shards = sh, !.fetched = asof.fetched, !.skipped = asof.skipped, !.dropped = asof.dropped] /\ sh \in Seq(Shard)
    BY <1>7, <1>5, <1>6, AppendLemma
  <2> HIDE DEF sh, m2
  <2> QED BY <1>3, <2>1 DEF Manifest, Offset
<1> HIDE DEF m2
<1>10. RowsIn(m2.shards) = RowsIn(m.shards) \o Ids(rows) /\ RowsIn(m.shards) \in Seq(Nat)
  <2>1. x.rows = Ids(rows) BY DEF x
  <2> QED BY <1>5, <1>6, <1>7, <2>1, RowsInLemma
<1>12. /\ Kin(g, n, 0, Ord(g, last.id), {"ok"}) = Kin(g, n, 0, m.fetched, {"ok"}) \cup Kin(g, n, m.fetched, Ord(g, last.id), {"ok"})
       /\ \A p \in Kin(g, n, 0, m.fetched, {"ok"}), q \in Kin(g, n, m.fetched, Ord(g, last.id), {"ok"}) : p < q
  BY <1>6, KinFromStart, <1>1, IdsLemma, OrdLemma DEF Members, last, Kin
<1>13. Increasing(RowsIn(m.shards)) /\ Members(RowsIn(m.shards)) = Kin(g, n, 0, m.fetched, {"ok"})
  BY DEF GoodManifest, ExactIn
<1>14. Increasing(RowsIn(m2.shards)) /\ Members(RowsIn(m2.shards)) = Kin(g, n, 0, Ord(g, last.id), {"ok"})
  <2> DEFINE a == RowsIn(m.shards)
             b == Ids(rows)
  <2>2. a \in Seq(Nat) /\ b \in Seq(Nat) /\ Increasing(a) /\ Increasing(b) /\ \A p \in Members(a), q \in Members(b) : p < q
    BY <1>10, <1>12, <1>13, IdsLemma DEF last
  <2> HIDE DEF a, b
  <2>3. Increasing(a \o b) /\ Members(a \o b) = Members(a) \cup Members(b) BY <2>2, IncreasingConcat
  <2> QED BY <2>3, <1>10, <1>12, <1>13 DEF a, b, last
<1>15. ExactIn(g, n, RowsIn(m2.shards), asof) BY <1>4, <1>14 DEF ExactIn
<1>17. ASSUME NEW s \in 1 .. Len(m2.shards) PROVE ExactIn(g, n, RowsIn(SubSeq(m2.shards, 1, s)), m2.shards[s].asof)
  <2> DEFINE k == Len(m.shards)
  <2>1. k \in Nat /\ Len(m2.shards) = k + 1 /\ m2.shards[k + 1] = x /\ \A j \in 1 .. k : m2.shards[j] = m.shards[j]
    BY <1>5, <1>6, <1>7, AppendLemma
  <2>2. CASE s = k + 1
    <3>1. SubSeq(m2.shards, 1, k + 1) = m2.shards BY <2>1, <1>5, <1>6, <1>7, InitialOfAppend
    <3>2. x.asof = asof BY DEF x
    <3> QED BY <2>1, <2>2, <3>1, <3>2, <1>15
  <2>3. CASE s \in 1 .. k
    <3>1. SubSeq(m2.shards, 1, s) = SubSeq(m.shards, 1, s) BY <2>1, <2>3, <1>5, <1>6, <1>7, InitialOfAppend
    <3>2. ExactIn(g, n, RowsIn(SubSeq(m.shards, 1, s)), m.shards[s].asof) BY <2>3 DEF GoodManifest
    <3> QED BY <2>1, <2>3, <3>1, <3>2
  <2> QED BY <2>1, <2>2, <2>3
<1>18. GoodManifest(g, n, m2) BY <1>17, <1>7, <1>15 DEF GoodManifest, ExactIn
<1> QED BY <1>4, <1>7, <1>9, <1>18 DEF m2, x, asof, last

\* Going back to what a shard recorded.
LEMMA TruncatedGood ==
    ASSUME NEW g \in Group, NEW n, NEW m \in Manifest, GoodManifest(g, n, m), NEW good \in 1 .. Len(m.shards),
           NEW t, t = Stored([m EXCEPT !.shards = SubSeq(m.shards, 1, good), !.exhausted = FALSE, !.reached = NoLimit], m.shards[good].asof)
    PROVE  t \in Manifest /\ GoodManifest(g, n, t)
<1> DEFINE asof == m.shards[good].asof
           sh == SubSeq(m.shards, 1, good)
<1>1. m.shards \in Seq(Shard) /\ good \in 0 .. Len(m.shards) /\ Len(m.shards) \in Nat /\ m.shards[good] \in Shard
  BY DEF Manifest
<1>2. sh \in Seq(Shard) /\ Len(sh) = good /\ \A i \in 1 .. good : sh[i] = m.shards[i] BY <1>1, InitialLemma
<1>3. asof \in Offset BY <1>1 DEF Shard
<1>4. t = [m EXCEPT !.shards = sh, !.fetched = asof.fetched, !.skipped = asof.skipped, !.dropped = asof.dropped,
                    !.exhausted = FALSE, !.reached = NoLimit]
  <2> HIDE DEF sh, asof
  <2>1. t = Stored([m EXCEPT !.shards = sh, !.exhausted = FALSE, !.reached = NoLimit], asof) BY DEF sh, asof
  <2> QED BY <2>1 DEF Stored, Manifest
<1> HIDE DEF sh, asof
<1>5. t \in Manifest /\ t.shards = sh /\ t.fetched = asof.fetched /\ t.skipped = asof.skipped /\ t.dropped = asof.dropped
  BY <1>2, <1>3, <1>4 DEF Manifest, Offset
<1>6. ASSUME NEW s \in 1 .. good PROVE ExactIn(g, n, RowsIn(SubSeq(sh, 1, s)), sh[s].asof)
  <2>1. s \in 1 .. Len(m.shards) /\ s \in 0 .. good BY <1>1
  <2>2. SubSeq(sh, 1, s) = SubSeq(m.shards, 1, s) BY <1>1, <2>1, InitialOfInitial DEF sh
  <2>3. ExactIn(g, n, RowsIn(SubSeq(m.shards, 1, s)), m.shards[s].asof) BY <2>1 DEF GoodManifest
  <2> QED BY <2>2, <2>3, <1>2
<1>7. ExactIn(g, n, RowsIn(sh), asof) BY DEF GoodManifest, sh, asof
<1>8. ExactIn(g, n, RowsIn(t.shards), t) BY <1>5, <1>7 DEF ExactIn
<1> QED BY <1>2, <1>5, <1>6, <1>8 DEF GoodManifest

\* A manifest with other flags, and one with the offset further on.
LEMMA SameRowsGood ==
    ASSUME NEW g \in Group, NEW n, NEW m, GoodManifest(g, n, m), NEW t,
           t.shards = m.shards, t.fetched = m.fetched, t.skipped = m.skipped, t.dropped = m.dropped
    PROVE  GoodManifest(g, n, t)
BY DEF GoodManifest, ExactIn

LEMMA FurtherGood ==
    ASSUME NEW g \in Group, NEW n, NEW m \in Manifest, GoodManifest(g, n, m), NEW t, t.shards = m.shards,
           t.fetched \in Nat, m.fetched <= t.fetched, Kin(g, n, m.fetched, t.fetched, {"ok"}) = {},
           t.skipped = Count(g, n, t.fetched, {"bad", "orphan"}),
           t.dropped = Count(g, n, t.fetched, {"long"})
    PROVE  GoodManifest(g, n, t)
<1>2. Kin(g, n, 0, t.fetched, {"ok"}) = Kin(g, n, 0, m.fetched, {"ok"}) \cup Kin(g, n, m.fetched, t.fetched, {"ok"})
  BY KinSplit DEF Manifest
<1>3. ExactIn(g, n, RowsIn(t.shards), t) BY <1>2 DEF GoodManifest, ExactIn
<1> QED BY <1>3 DEF GoodManifest

LongsTo(batch, i) == Cardinality({j \in 1 .. i : batch[j].kind = "long"})
ToldRow(d, batch, i) == [batch[i] EXCEPT !.progress.dropped = d + LongsTo(batch, i)]
Fit(batch) == {i \in DOMAIN batch : batch[i].kind # "long"}

LEMMA LongsLemma ==
    ASSUME NEW batch \in Seq(Row), NEW k \in Nat
    PROVE  /\ LongsTo(batch, k) \in Nat /\ LongsTo(batch, 0) = 0
           /\ batch[k + 1].kind = "long" => LongsTo(batch, k + 1) = LongsTo(batch, k) + 1
           /\ batch[k + 1].kind # "long" => LongsTo(batch, k + 1) = LongsTo(batch, k)
<1> DEFINE L(i) == {j \in 1 .. i : batch[j].kind = "long"}
<1>1. ASSUME NEW i \in Nat PROVE IsFiniteSet(L(i))
  <2>1. IsFiniteSet(1 .. i) /\ L(i) \subseteq 1 .. i BY FS_Interval
  <2> QED BY <2>1, FS_Subset
<1>2. L(0) = {} OBVIOUS
<1>3. k + 1 \notin L(k) OBVIOUS
<1>4. batch[k + 1].kind = "long" => L(k + 1) = L(k) \cup {k + 1} OBVIOUS
<1>5. batch[k + 1].kind # "long" => L(k + 1) = L(k) OBVIOUS
<1>6. IsFiniteSet(L(k)) BY <1>1
<1>7. LongsTo(batch, k) = Cardinality(L(k)) /\ LongsTo(batch, k + 1) = Cardinality(L(k + 1)) /\ LongsTo(batch, 0) = Cardinality(L(0))
  BY DEF LongsTo
<1> HIDE DEF L
<1>8. Cardinality(L(k)) \in Nat BY <1>6, FS_CardinalityType
<1>9. Cardinality(L(k) \cup {k + 1}) = Cardinality(L(k)) + 1 BY <1>3, <1>6, FS_AddElement
<1>10. Cardinality(L(0)) = 0 BY <1>2, FS_EmptySet
<1> QED BY <1>4, <1>5, <1>7, <1>8, <1>9, <1>10

LEMMA ToldRowType ==
    ASSUME NEW batch \in Seq(Row), NEW i \in DOMAIN batch, NEW d \in Nat
    PROVE  /\ ToldRow(d, batch, i) \in Row
           /\ ToldRow(d, batch, i).id = batch[i].id /\ ToldRow(d, batch, i).kind = batch[i].kind
           /\ ToldRow(d, batch, i).progress.consumed = batch[i].progress.consumed
           /\ ToldRow(d, batch, i).progress.skipped = batch[i].progress.skipped
           /\ ToldRow(d, batch, i).progress.dropped = d + LongsTo(batch, i)
<1>1. batch[i] \in Row /\ i \in Nat BY IdsLemma
<1> DEFINE r == batch[i]
           c == d + LongsTo(batch, i)
<1>2. c \in Nat BY <1>1, LongsLemma
<1>3. ToldRow(d, batch, i) = [r EXCEPT !.progress.dropped = c] BY DEF ToldRow
<1>4. r \in Row BY <1>1
<1> HIDE DEF r, c
<1> QED BY ZenonT(60), <1>2, <1>3, <1>4 DEF Row, r, c

LEMMA FittingRun ==
    ASSUME NEW batch \in Seq(Row), NEW d \in Nat
    PROVE  \E f \in [0 .. Len(batch) -> Seq(Row)] :
              /\ f[0] = <<>>
              /\ \A i \in 1 .. Len(batch) :
                    /\ batch[i].kind = "long" => f[i] = f[i - 1]
                    /\ batch[i].kind # "long" => f[i] = Append(f[i - 1], ToldRow(d, batch, i))
<1> DEFINE len == Len(batch)
           V == Seq(Row)
           none == <<>>
           step == [i \in 1 .. len |-> [t \in V |-> IF batch[i].kind = "long" THEN t ELSE Append(t, ToldRow(d, batch, i))]]
<1>1. len \in Nat /\ DOMAIN batch = 1 .. len OBVIOUS
<1>3. \A i \in 1 .. len : \A t \in V : Append(t, ToldRow(d, batch, i)) \in V BY AppendLemma, <1>1, ToldRowType
<1>4. none \in V OBVIOUS
<1> HIDE DEF V, len, none
<1>5. step \in [1 .. len -> [V -> V]] BY <1>3
<1> HIDE DEF step
<1>6. PICK f \in [0 .. len -> V] : f[0] = none /\ \A i \in 1 .. len : f[i] = step[i][f[i - 1]]
  <2>1. len \in Nat BY <1>1
  <2>2. none \in V BY <1>4
  <2>3. step \in [1 .. len -> [V -> V]] BY <1>5
  <2> QED BY <2>1, <2>2, <2>3, Iteration
<1>7. ASSUME NEW i \in 1 .. len
      PROVE  /\ batch[i].kind = "long" => f[i] = f[i - 1]
             /\ batch[i].kind # "long" => f[i] = Append(f[i - 1], ToldRow(d, batch, i))
  <2>3. f[i] = step[i][f[i - 1]] BY <1>6
  <2> QED BY <2>3, <1>6, <1>1 DEF step
<1> QED BY <1>6, <1>7 DEF len, V, none

LEMMA FittingSteps ==
    ASSUME NEW n, NEW batch \in Seq(Row), inc[n].dropped \in Nat
    PROVE  \E f \in [0 .. Len(batch) -> Seq(Row)] :
              /\ f[0] = <<>> /\ Fitting(n, batch) = f[Len(batch)]
              /\ \A i \in 1 .. Len(batch) :
                    /\ batch[i].kind = "long" => f[i] = f[i - 1]
                    /\ batch[i].kind # "long" => f[i] = Append(f[i - 1], ToldRow(inc[n].dropped, batch, i))
<1> DEFINE d == inc[n].dropped
           len == Len(batch)
           told(i) == [batch[i] EXCEPT !.progress.dropped = inc[n].dropped + Cardinality({j \in 1 .. i : batch[j].kind = "long"})]
           eq(f) == f = [i \in 0 .. Len(batch) |-> IF i = 0 THEN <<>> ELSE IF batch[i].kind = "long" THEN f[i - 1] ELSE Append(f[i - 1], told(i))]
           fit == CHOOSE f : eq(f)
<1>1. len \in Nat /\ DOMAIN batch = 1 .. len /\ d \in Nat OBVIOUS
<1>2. Fitting(n, batch) = fit[len] BY DEF Fitting
<1>3. \A i \in 1 .. len : told(i) = ToldRow(d, batch, i) BY DEF ToldRow, LongsTo
<1>6. PICK f \in [0 .. Len(batch) -> Seq(Row)] :
              /\ f[0] = <<>>
              /\ \A i \in 1 .. Len(batch) :
                    /\ batch[i].kind = "long" => f[i] = f[i - 1]
                    /\ batch[i].kind # "long" => f[i] = Append(f[i - 1], ToldRow(d, batch, i))
  BY <1>1, FittingRun
<1> HIDE DEF fit, told, len, d
<1>8. \A i \in 1 .. len :
         /\ batch[i].kind = "long" => f[i] = f[i - 1]
         /\ batch[i].kind # "long" => f[i] = Append(f[i - 1], ToldRow(d, batch, i))
  BY <1>6 DEF len
<1>9. eq([i \in 0 .. len |-> f[i]])
  <2>2. \A i \in 0 .. len : i = 0 \/ i \in 1 .. len BY <1>1
  <2>3. \A i \in 1 .. len : i - 1 \in 0 .. len BY <1>1
  <2> QED BY <2>2, <2>3, <1>6, <1>1, <1>3, <1>8 DEF len
<1>10. eq(fit)
  <2> HIDE DEF eq
  <2> QED BY <1>9 DEF fit
<1>11. /\ fit[0] = <<>>
       /\ \A i \in 1 .. len :
            /\ batch[i].kind = "long" => fit[i] = fit[i - 1]
            /\ batch[i].kind # "long" => fit[i] = Append(fit[i - 1], ToldRow(d, batch, i))
  <2>1. \A i \in 1 .. len : i \in 0 .. len /\ i # 0 BY <1>1
  <2>2. 0 \in 0 .. len BY <1>1
  <2> QED BY <1>10, <1>3, <2>1, <2>2 DEF len
<1> HIDE DEF eq
<1> DEFINE P == {k \in Nat : k <= len => fit[k] = f[k]}
<1>12. 0 \in P BY <1>6, <1>11
<1>13. ASSUME NEW k \in Nat, k \in P PROVE k + 1 \in P
  <2> SUFFICES ASSUME k + 1 <= len PROVE fit[k + 1] = f[k + 1] OBVIOUS
  <2>1. k + 1 \in 1 .. len /\ (k + 1) - 1 = k /\ k <= len BY <1>1
  <2>2. fit[k] = f[k] BY <1>13, <2>1
  <2> QED BY <2>1, <2>2, <1>8, <1>11
<1> HIDE DEF P
<1>14. Nat \subseteq P BY <1>12, <1>13, NumberInduction
<1> QED BY <1>2, <1>6, <1>14, <1>1 DEF len, d, P

\* What a tokenized batch leaves.
LEMMA FittingLemma ==
    ASSUME NEW n, NEW batch \in Seq(Row), inc[n].dropped \in Nat
    PROVE  /\ Fitting(n, batch) \in Seq(Row)
           /\ Len(Fitting(n, batch)) + LongsTo(batch, Len(batch)) = Len(batch)
           /\ \A j \in DOMAIN Fitting(n, batch) : \E i \in Fit(batch) : Fitting(n, batch)[j] = ToldRow(inc[n].dropped, batch, i)
           /\ Members(Ids(Fitting(n, batch))) = {batch[i].id : i \in Fit(batch)}
           /\ Increasing(Ids(batch)) => Increasing(Ids(Fitting(n, batch)))
<1> DEFINE d == inc[n].dropped
           len == Len(batch)
<1>1. PICK f \in [0 .. Len(batch) -> Seq(Row)] :
              /\ f[0] = <<>> /\ Fitting(n, batch) = f[Len(batch)]
              /\ \A i \in 1 .. Len(batch) :
                    /\ batch[i].kind = "long" => f[i] = f[i - 1]
                    /\ batch[i].kind # "long" => f[i] = Append(f[i - 1], ToldRow(inc[n].dropped, batch, i))
  BY FittingSteps
<1>2. len \in Nat /\ DOMAIN batch = 1 .. len /\ d \in Nat BY IdsLemma
<1>3. \A k \in 0 .. len : f[k] \in Seq(Row) BY <1>1
<1>4. \A i \in 1 .. len : ToldRow(d, batch, i) \in Row /\ ToldRow(d, batch, i).id = batch[i].id
  BY <1>2, ToldRowType
<1> HIDE DEF d
<1> DEFINE Sized(k) == Len(f[k]) + LongsTo(batch, k) = k
           From(k) == \A j \in 1 .. Len(f[k]) : \E i \in 1 .. k : i \in Fit(batch) /\ f[k][j] = ToldRow(d, batch, i)
           Whole(k) == \A i \in 1 .. k : i \in Fit(batch) => \E j \in 1 .. Len(f[k]) : f[k][j] = ToldRow(d, batch, i)
           Ordered(k) == Increasing(Ids(batch)) => \A j1, j2 \in 1 .. Len(f[k]) : j1 < j2 => f[k][j1].id < f[k][j2].id
           P == {k \in Nat : k <= len => Sized(k) /\ From(k) /\ Whole(k) /\ Ordered(k)}
<1>5. 0 \in P
  <2>1. f[0] = <<>> /\ Len(f[0]) = 0 /\ LongsTo(batch, 0) = 0 BY <1>1, LongsLemma
  <2> QED BY <2>1
<1>6. ASSUME NEW k \in Nat, k \in P PROVE k + 1 \in P
  <2> HIDE DEF Sized, From, Whole, Ordered
  <2> SUFFICES ASSUME k + 1 <= len PROVE Sized(k + 1) /\ From(k + 1) /\ Whole(k + 1) /\ Ordered(k + 1) BY <1>6
  <2> USE DEF Sized, From, Whole, Ordered
  <2>1. k + 1 \in 1 .. len /\ (k + 1) - 1 = k /\ k \in 0 .. len /\ k + 1 \in 0 .. len BY <1>2
  <2>2. Sized(k) /\ From(k) /\ Whole(k) /\ Ordered(k) BY <1>6, <2>1
  <2>3. \A i \in 1 .. k + 1 : i = k + 1 \/ i \in 1 .. k OBVIOUS
  <2>4. CASE batch[k + 1].kind = "long"
    <3>1. f[k + 1] = f[k] /\ k + 1 \notin Fit(batch) /\ LongsTo(batch, k + 1) = LongsTo(batch, k) + 1
      BY <1>1, <2>1, <2>4, LongsLemma DEF Fit
    <3>2. Len(f[k]) \in Nat /\ LongsTo(batch, k) \in Nat BY <1>3, <2>1, LongsLemma
    <3>3. Sized(k + 1) BY <2>2, <3>1, <3>2
    <3>4. From(k + 1)
      <4>1. 1 .. k \subseteq 1 .. k + 1 OBVIOUS
      <4> QED BY <2>2, <3>1, <4>1
    <3>6. Ordered(k + 1) BY <2>2, <3>1
    <3> QED BY <3>3, <3>4, <3>6, <2>2, <2>3, <3>1
  <2>5. CASE batch[k + 1].kind # "long"
    <3> DEFINE r == ToldRow(d, batch, k + 1)
               s == f[k]
               t == f[k + 1]
    <3>1. t = Append(s, r) /\ k + 1 \in Fit(batch) /\ LongsTo(batch, k + 1) = LongsTo(batch, k)
      <4>1. t = Append(s, r) BY <1>1, <2>1, <2>5 DEF d
      <4>2. k + 1 \in Fit(batch) BY <1>2, <2>1, <2>5 DEF Fit
      <4> QED BY <4>1, <4>2, <2>5, LongsLemma
    <3>2. s \in Seq(Row) /\ r \in Row /\ r.id = batch[k + 1].id /\ LongsTo(batch, k) \in Nat
      BY <1>3, <1>4, <2>1, LongsLemma
    <3>3. Sized(k) /\ From(k) /\ Whole(k) /\ Ordered(k) BY <2>2
    <3> HIDE DEF r, s, t
    <3>4. Len(t) = Len(s) + 1 /\ Len(s) \in Nat /\ t[Len(s) + 1] = r /\ \A i \in 1 .. Len(s) : t[i] = s[i]
      BY <3>1, <3>2, AppendLemma
    <3>6. \A j \in 1 .. Len(s) : \E i \in 1 .. k : i \in Fit(batch) /\ s[j] = ToldRow(d, batch, i)
      BY <3>3 DEF s
    <3>7. \A i \in 1 .. k : i \in Fit(batch) => \E j \in 1 .. Len(s) : s[j] = ToldRow(d, batch, i)
      BY <3>3 DEF s
    <3>8. Increasing(Ids(batch)) => \A j1, j2 \in 1 .. Len(s) : j1 < j2 => s[j1].id < s[j2].id BY <3>3 DEF s
    <3>9. \A j \in 1 .. Len(t) : j = Len(s) + 1 \/ j \in 1 .. Len(s) BY <3>4
    <3>10. Len(t) + LongsTo(batch, k + 1) = k + 1 BY <3>1, <3>2, <3>4, <3>3 DEF s
    <3>11. \A j \in 1 .. Len(t) : \E i \in 1 .. k + 1 : i \in Fit(batch) /\ t[j] = ToldRow(d, batch, i)
      BY <3>4, <3>1, <3>6, <3>9 DEF r
    <3>12. \A i \in 1 .. k + 1 : i \in Fit(batch) => \E j \in 1 .. Len(t) : t[j] = ToldRow(d, batch, i)
      <4>1. t[Len(s) + 1] = ToldRow(d, batch, k + 1) /\ Len(s) + 1 \in 1 .. Len(t) /\ 1 .. Len(s) \subseteq 1 .. Len(t)
        BY <3>4 DEF r
      <4>2. ASSUME NEW i \in 1 .. k, i \in Fit(batch) PROVE \E j \in 1 .. Len(t) : t[j] = ToldRow(d, batch, i)
        BY <3>7, <4>2, <4>1, <3>4
      <4> QED BY <4>1, <4>2, <2>3
    <3>13. ASSUME Increasing(Ids(batch)), NEW j1 \in 1 .. Len(t), NEW j2 \in 1 .. Len(t), j1 < j2 PROVE t[j1].id < t[j2].id
      <4>1. j1 \in 1 .. Len(s) BY <3>4, <3>13
      <4>2. CASE j2 \in 1 .. Len(s) BY <4>1, <4>2, <3>4, <3>8, <3>13
      <4>3. CASE j2 = Len(s) + 1
        <5>1. PICK i \in 1 .. k : i \in Fit(batch) /\ s[j1] = ToldRow(d, batch, i) BY <4>1, <3>6
        <5>2. i \in 1 .. len /\ i < k + 1 /\ k + 1 \in 1 .. len BY <2>1, <1>2
        <5>3. batch[i].id < batch[k + 1].id
          <6>1. i \in DOMAIN Ids(batch) /\ k + 1 \in DOMAIN Ids(batch) BY <5>2, <1>2, IdsLemma
          <6> QED BY <3>13, <6>1, <5>2, IdsLemma DEF Increasing
        <5>4. t[j1].id = batch[i].id BY <4>1, <5>1, <5>2, <3>4, <1>4
        <5> QED BY <5>3, <5>4, <4>3, <3>4, <3>2
      <4> QED BY <4>2, <4>3, <3>9
    <3> QED BY <3>10, <3>11, <3>12, <3>13 DEF t
  <2> QED BY <2>4, <2>5
<1> HIDE DEF P
<1>7. Nat \subseteq P BY <1>5, <1>6, NumberInduction
<1>8. Sized(len) /\ From(len) /\ Whole(len) /\ Ordered(len)
  <2> HIDE DEF Sized, From, Whole, Ordered, len
  <2> QED BY <1>7, <1>2 DEF P
<1> DEFINE u == Fitting(n, batch)
<1>9. u = f[len] /\ u \in Seq(Row) BY <1>2, <1>1, <1>3
<1> HIDE DEF u
<1>10. /\ Len(u) + LongsTo(batch, len) = len
       /\ \A j \in 1 .. Len(u) : \E i \in 1 .. len : i \in Fit(batch) /\ u[j] = ToldRow(d, batch, i)
       /\ \A i \in 1 .. len : i \in Fit(batch) => \E j \in 1 .. Len(u) : u[j] = ToldRow(d, batch, i)
       /\ Increasing(Ids(batch)) => \A j1, j2 \in 1 .. Len(u) : j1 < j2 => u[j1].id < u[j2].id
  BY <1>8, <1>9
<1>11. /\ DOMAIN u = 1 .. Len(u) /\ DOMAIN Ids(u) = 1 .. Len(u) /\ \A j \in 1 .. Len(u) : Ids(u)[j] = u[j].id
  BY <1>9, IdsLemma
<1>12. \A i \in Fit(batch) : i \in 1 .. len BY <1>2 DEF Fit
<1>13. Members(Ids(u)) = {batch[i].id : i \in Fit(batch)}
  <2>1. ASSUME NEW p \in Members(Ids(u)) PROVE p \in {batch[i].id : i \in Fit(batch)}
    BY <2>1, <1>11, <1>10, <1>4, <1>12 DEF Members
  <2>2. ASSUME NEW i \in Fit(batch) PROVE batch[i].id \in Members(Ids(u))
    <3>1. PICK j \in 1 .. Len(u) : u[j] = ToldRow(d, batch, i) BY <1>10, <1>12
    <3>2. Ids(u)[j] = batch[i].id BY <3>1, <1>11, <1>4, <1>12
    <3> QED BY <3>2, <1>11 DEF Members
  <2> QED BY <2>1, <2>2
<1>14. ASSUME Increasing(Ids(batch)) PROVE Increasing(Ids(u))
  <2>1. \A j1, j2 \in 1 .. Len(u) : j1 < j2 => u[j1].id < u[j2].id BY <1>10, <1>14
  <2> QED BY <1>11, <2>1 DEF Increasing
<1> QED BY <1>9, <1>10, <1>11, <1>13, <1>14 DEF u, d

Names == (UNION Group) \cup {"none", "end"}
Item == [name : Names, batch : Seq(Row)]
Fits == {"ok", "long"}
IdSet(rows) == Members(Ids(rows))
Before(a, b) == \A p \in IdSet(a), q \in IdSet(b) : p < q
BatchOk(g, n, base, batch) == Increasing(Ids(batch)) /\ \A j \in DOMAIN batch : Placed(g, n, base, batch[j])
Carried(line, n, p) == \E k \in DOMAIN line : line[k].name = n /\ p \in IdSet(line[k].batch)
Each(g, n, base, line, batch) ==
    \A k \in DOMAIN line : line[k].name = n => BatchOk(g, n, base, line[k].batch) /\ Before(line[k].batch, batch)
Pairs(n, line) ==
    \A k, l \in DOMAIN line : k < l /\ line[k].name = n /\ line[l].name = n => Before(line[k].batch, line[l].batch)
LineOk(g, n, base, line, batch, w, h) ==
    /\ \A p : p \in Kin(g, n, w, h, Fits) <=> Carried(line, n, p) \/ p \in IdSet(batch)
    /\ BatchOk(g, n, base, batch)
    /\ Each(g, n, base, line, batch)
    /\ Pairs(n, line)

LEMMA NothingIn == IdSet(<<>>) = {} /\ \A g, n, base : BatchOk(g, n, base, <<>>)
BY DEF IdSet, Members, Ids, BatchOk, Increasing

LEMMA ItemsLemma ==
    ASSUME NEW line \in Seq(Item)
    PROVE  /\ DOMAIN line = 1 .. Len(line) /\ Len(line) \in Nat
           /\ \A k \in DOMAIN line : line[k] \in Item /\ line[k].batch \in Seq(Row)
<1>1. DOMAIN line = 1 .. Len(line) /\ Len(line) \in Nat /\ \A k \in DOMAIN line : line[k] \in Item
  <2> HIDE DEF Item
  <2> QED OBVIOUS
<1> QED BY <1>1 DEF Item

LEMMA IdSetLemma ==
    ASSUME NEW rows \in Seq(Row)
    PROVE  IdSet(rows) = {rows[i].id : i \in DOMAIN rows} /\ IdSet(rows) \subseteq Nat
BY IdsLemma DEF IdSet, Members

\* What an item behind the line changes.
LEMMA CarriedAppend ==
    ASSUME NEW line \in Seq(Item), NEW x \in Item, NEW n, NEW p
    PROVE  Carried(Append(line, x), n, p) <=> Carried(line, n, p) \/ (x.name = n /\ p \in IdSet(x.batch))
<1> DEFINE t == Append(line, x)
<1>1. /\ DOMAIN t = 1 .. Len(line) + 1 /\ DOMAIN line = 1 .. Len(line) /\ Len(line) \in Nat
      /\ t[Len(line) + 1] = x /\ \A k \in 1 .. Len(line) : t[k] = line[k]
  BY AppendLemma, ItemsLemma
<1> HIDE DEF t
<1>4. Carried(t, n, p) <=> Carried(line, n, p) \/ (x.name = n /\ p \in IdSet(x.batch)) BY <1>1 DEF Carried
<1> QED BY <1>4 DEF t

LEMMA LineAppend ==
    ASSUME NEW line \in Seq(Item), NEW x \in Item, NEW g, NEW n, NEW base
    PROVE  /\ \A batch : Each(g, n, base, Append(line, x), batch) <=> Each(g, n, base, line, batch) /\ (x.name = n => BatchOk(g, n, base, x.batch) /\ Before(x.batch, batch))
           /\ Pairs(n, Append(line, x)) <=> Pairs(n, line) /\ (x.name = n => \A k \in DOMAIN line : line[k].name = n => Before(line[k].batch, x.batch))
<1> DEFINE t == Append(line, x)
           each(s, batch) == \A k \in DOMAIN s : s[k].name = n => BatchOk(g, n, base, s[k].batch) /\ Before(s[k].batch, batch)
           pairs(s) == \A k, l \in DOMAIN s : k < l /\ s[k].name = n /\ s[l].name = n => Before(s[k].batch, s[l].batch)
<1>1. /\ DOMAIN t = 1 .. Len(line) + 1 /\ DOMAIN line = 1 .. Len(line) /\ Len(line) \in Nat
      /\ t[Len(line) + 1] = x /\ \A k \in 1 .. Len(line) : t[k] = line[k]
  BY AppendLemma, ItemsLemma
<1> HIDE DEF t
<1>3. DOMAIN line \subseteq DOMAIN t /\ Len(line) + 1 \in DOMAIN t BY <1>1
<1> QED BY <1>1, <1>3 DEF t, Each, Pairs

\* An item of the source itself takes over what was buffered.
LEMMA LineGrow ==
    ASSUME NEW g \in Group, NEW n, NEW base, NEW line \in Seq(Item), NEW x \in Item, x.name = n, NEW w, NEW h,
           LineOk(g, n, base, line, x.batch, w, h)
    PROVE  LineOk(g, n, base, Append(line, x), <<>>, w, h)
<1>2. \A a : Before(a, <<>>) BY NothingIn DEF Before
<1> QED BY <1>2, NothingIn, LineAppend, CarriedAppend DEF LineOk, Each

\* An item of another source, or an empty one, changes nothing.
LEMMA LineOther ==
    ASSUME NEW g \in Group, NEW n, NEW base, NEW line \in Seq(Item), NEW x \in Item, x.name # n \/ x.batch = <<>>,
           NEW batch, NEW w, NEW h
    PROVE  LineOk(g, n, base, Append(line, x), batch, w, h) <=> LineOk(g, n, base, line, batch, w, h)
<1> QED BY LineAppend, CarriedAppend, NothingIn DEF LineOk, Before

LEMMA LineStart ==
    ASSUME NEW g \in Group, NEW n, NEW base, NEW w \in Nat
    PROVE  LineOk(g, n, base, <<>>, <<>>, w, w)
<1> QED BY NothingIn, KinEmpty DEF LineOk, Each, Pairs, Carried

LEMMA AppendBatch ==
    ASSUME NEW g \in Group, NEW n, NEW base, NEW batch \in Seq(Row), BatchOk(g, n, base, batch), NEW r \in Row,
           Placed(g, n, base, r), \A p \in IdSet(batch) : p < r.id
    PROVE  BatchOk(g, n, base, Append(batch, r)) /\ IdSet(Append(batch, r)) = IdSet(batch) \cup {r.id}
<1> DEFINE t == Append(batch, r)
           k == Len(batch)
<1>1. t \in Seq(Row) /\ DOMAIN t = 1 .. k + 1 /\ t[k + 1] = r /\ (\A i \in 1 .. k : t[i] = batch[i]) /\ k \in Nat /\ DOMAIN batch = 1 .. k
  BY AppendLemma, IdsLemma
<1> HIDE DEF t, k
<1>2. \A i \in DOMAIN t : i = k + 1 \/ i \in 1 .. k BY <1>1
<1>3. IdSet(t) = {t[i].id : i \in DOMAIN t} /\ IdSet(batch) = {batch[i].id : i \in DOMAIN batch}
  BY <1>1, IdSetLemma
<1>6. ASSUME NEW i \in DOMAIN t, NEW j \in DOMAIN t, i < j PROVE t[i].id < t[j].id
  <2>1. i \in 1 .. k BY <1>1, <1>6
  <2>2. CASE j \in 1 .. k
    <3>1. Ids(batch)[i] < Ids(batch)[j] /\ Ids(batch)[i] = batch[i].id /\ Ids(batch)[j] = batch[j].id
      BY <2>1, <2>2, <1>1, <1>6, IdsLemma DEF BatchOk, Increasing
    <3> QED BY <3>1, <1>1, <2>1, <2>2
  <2>3. CASE j = k + 1 BY <2>1, <2>3, <1>1, <1>3
  <2> QED BY <2>2, <2>3, <1>2
<1>7. Increasing(Ids(t))
  <2>1. DOMAIN Ids(t) = DOMAIN t /\ \A i \in DOMAIN t : Ids(t)[i] = t[i].id BY <1>1, IdsLemma
  <2> QED BY <1>6, <2>1 DEF Increasing
<1> QED BY <1>7, <1>1, <1>2, <1>3 DEF BatchOk, t

LEMMA KinNext ==
    ASSUME NEW g \in Group, NEW n, NEW a \in Nat, NEW b \in Nat, a <= b, NEW kinds
    PROVE  Kin(g, n, a, b + 1, kinds) = Kin(g, n, a, b, kinds) \cup Kin(g, n, b, b + 1, kinds)
<1>1. b + 1 \in Nat /\ b <= b + 1 OBVIOUS
<1> QED BY <1>1, KinSplit

\* The next row of the source: it joins the batch, or it is one that is not stored.
LEMMA RowJoins ==
    ASSUME NEW g \in Group, NEW n, NEW base, NEW line \in Seq(Item), NEW batch \in Seq(Row), NEW w \in Nat, NEW h \in Nat,
           w <= h, LineOk(g, n, base, line, batch, w, h), NEW r \in Row, Placed(g, n, base, r), Ord(g, r.id) = h + 1
    PROVE  LineOk(g, n, base, line, Append(batch, r), w, h + 1)
<1>1. r.id \in OwnOf(g, n) /\ Upstream[g][r.id].kind \in Fits BY DEF Placed, Fits
<1>4. \A p : Carried(line, n, p) \/ p \in IdSet(batch) => p < r.id BY <1>1, OrdLemma DEF LineOk, Kin
<1>5. BatchOk(g, n, base, Append(batch, r)) /\ IdSet(Append(batch, r)) = IdSet(batch) \cup {r.id}
  BY <1>4, AppendBatch DEF LineOk
<1>7. ASSUME NEW k \in DOMAIN line, line[k].name = n PROVE BatchOk(g, n, base, line[k].batch) /\ Before(line[k].batch, Append(batch, r))
  BY <1>7, <1>4, <1>5 DEF LineOk, Each, Carried, Before
<1> QED BY <1>5, <1>7, <1>1, KinOne, KinNext DEF LineOk, Each

LEMMA RowPassed ==
    ASSUME NEW g \in Group, NEW n, NEW base, NEW line, NEW batch, NEW w \in Nat, NEW h \in Nat,
           w <= h, LineOk(g, n, base, line, batch, w, h), NEW p \in OwnOf(g, n), Upstream[g][p].kind \notin Fits, Ord(g, p) = h + 1
    PROVE  LineOk(g, n, base, line, batch, w, h + 1)
<1> QED BY KinNext, KinOne DEF LineOk

LEMMA LastIsLargest ==
    ASSUME NEW rows \in Seq(Row), rows # <<>>, Increasing(Ids(rows))
    PROVE  /\ Len(rows) \in DOMAIN rows /\ 1 \in DOMAIN rows /\ rows[1] \in Row /\ rows[Len(rows)] \in Row
           /\ rows[1].id \in IdSet(rows) /\ rows[Len(rows)].id \in IdSet(rows)
           /\ \A p \in IdSet(rows) : rows[1].id <= p /\ p <= rows[Len(rows)].id
<1>1. DOMAIN rows = 1 .. Len(rows) /\ Len(rows) \in Nat /\ \A i \in DOMAIN rows : rows[i] \in Row /\ rows[i].id \in Nat
  BY IdsLemma
<1>4. 1 \in DOMAIN rows /\ Len(rows) \in DOMAIN rows BY <1>1
<1> QED BY <1>1, <1>4, IdSetLemma, IdsLemma, SMTT(30) DEF Increasing

\* The last item of the line is gone.
LEMMA LineDrop ==
    ASSUME NEW g \in Group, NEW n, NEW base, NEW line \in Seq(Item), NEW x \in Item, x.name = n,
           NEW w \in Nat, NEW h \in Nat, w <= h, LineOk(g, n, base, Append(line, x), <<>>, w, h)
    PROVE  \E k \in Nat : w <= k /\ k <= h /\ LineOk(g, n, base, line, <<>>, w, k)
<1>1. CASE x.batch = <<>> BY <1>1, LineOther
<1>2. CASE x.batch # <<>>
  <2> DEFINE b == x.batch
             f == b[1].id
             k == Ord(g, f) - 1
  <2>1. /\ \A p : Carried(Append(line, x), n, p) <=> Carried(line, n, p) \/ p \in IdSet(b)
        /\ \A p : p \in Kin(g, n, w, h, Fits) <=> Carried(line, n, p) \/ p \in IdSet(b)
    BY CarriedAppend, NothingIn DEF LineOk
  <2>2. /\ \A j \in DOMAIN line : line[j].name = n => BatchOk(g, n, base, line[j].batch) /\ Before(line[j].batch, b)
        /\ BatchOk(g, n, base, b)
        /\ \A j, l \in DOMAIN line : j < l /\ line[j].name = n /\ line[l].name = n => Before(line[j].batch, line[l].batch)
    <3>1. Each(g, n, base, Append(line, x), <<>>) /\ Pairs(n, Append(line, x)) BY DEF LineOk
    <3>3. Pairs(n, line) /\ \A j \in DOMAIN line : line[j].name = n => Before(line[j].batch, b)
      BY <3>1, LineAppend
    <3>4. Each(g, n, base, line, <<>>) /\ BatchOk(g, n, base, b) BY <3>1, LineAppend
    <3> HIDE DEF b
    <3> QED BY <3>3, <3>4 DEF Each, Pairs
  <2>4. f \in IdSet(b) /\ \A p \in IdSet(b) : f <= p BY <1>2, <2>2, LastIsLargest DEF BatchOk, Item
  <2> HIDE DEF b, f
  <2>5. f \in OwnOf(g, n) /\ w < Ord(g, f) /\ Ord(g, f) <= h /\ Upstream[g][f].kind \in Fits
    BY <2>1, <2>4 DEF Kin
  <2>6. Ord(g, f) \in Nat /\ k \in Nat /\ w <= k /\ k <= h BY <2>5, OrdLemma
  <2>7. \A p : p \in Kin(g, n, w, k, Fits) <=> p \in Kin(g, n, w, h, Fits) /\ p < f
    BY <2>5, OrdLemma, UpToLemma, <2>6 DEF Kin
  <2>8. \A p : p \in Kin(g, n, w, k, Fits) <=> Carried(line, n, p)
    BY <2>2, <2>4, <2>5, UpToLemma, <2>1, <2>7 DEF Carried, Before, Kin
  <2> QED BY <2>6, NothingIn, <2>2, <2>8 DEF Before, LineOk, Each, Pairs
<1> QED BY <1>1, <1>2

LEMMA TailLemma ==
    ASSUME NEW S, NEW line \in Seq(S), line # <<>>
    PROVE  /\ Tail(line) \in Seq(S) /\ Head(line) = line[1] /\ Head(line) \in S
           /\ DOMAIN Tail(line) = 1 .. (Len(line) - 1) /\ DOMAIN line = 1 .. Len(line) /\ Len(line) \in Nat /\ 1 \in DOMAIN line
           /\ \A k \in DOMAIN Tail(line) : Tail(line)[k] = line[k + 1] /\ k + 1 \in DOMAIN line
           /\ \A k \in DOMAIN line : k = 1 \/ (k - 1 \in DOMAIN Tail(line) /\ Tail(line)[k - 1] = line[k])
<1>1. /\ Tail(line) \in Seq(S) /\ Head(line) = line[1] /\ Head(line) \in S
      /\ DOMAIN Tail(line) = 1 .. (Len(line) - 1) /\ DOMAIN line = 1 .. Len(line) /\ Len(line) \in Nat /\ Len(line) # 0
  OBVIOUS
<1> DEFINE t == Tail(line)
           l == Len(line)
<1> HIDE DEF t, l
<1>6. DOMAIN t = 1 .. (l - 1) /\ DOMAIN line = 1 .. l /\ \A k \in 1 .. (l - 1) : t[k] = line[k + 1]
  BY <1>1 DEF t, l
<1> QED BY <1>1, <1>6 DEF t, l

LEMMA CarriedTail ==
    ASSUME NEW line \in Seq(Item), line # <<>>, NEW n, NEW p
    PROVE  Carried(line, n, p) <=> (Head(line).name = n /\ p \in IdSet(Head(line).batch)) \/ Carried(Tail(line), n, p)
<1> DEFINE t == Tail(line)
<1>1. /\ Head(line) = line[1] /\ 1 \in DOMAIN line
      /\ \A k \in DOMAIN t : t[k] = line[k + 1] /\ k + 1 \in DOMAIN line
      /\ \A k \in DOMAIN line : k = 1 \/ (k - 1 \in DOMAIN t /\ t[k - 1] = line[k])
  BY TailLemma
<1> HIDE DEF t
<1>2. Carried(line, n, p) <=> (Head(line).name = n /\ p \in IdSet(Head(line).batch)) \/ Carried(t, n, p)
  BY <1>1 DEF Carried
<1> QED BY <1>2 DEF t

LEMMA LinePairs ==
    ASSUME NEW line \in Seq(Item), line # <<>>, NEW g, NEW n, NEW base, NEW batch, NEW w, NEW h, LineOk(g, n, base, line, batch, w, h)
    PROVE  /\ \A k \in DOMAIN Tail(line) : Tail(line)[k].name = n => BatchOk(g, n, base, Tail(line)[k].batch) /\ Before(Tail(line)[k].batch, batch)
           /\ \A k, l \in DOMAIN Tail(line) : k < l /\ Tail(line)[k].name = n /\ Tail(line)[l].name = n => Before(Tail(line)[k].batch, Tail(line)[l].batch)
           /\ Head(line).name = n =>
                /\ BatchOk(g, n, base, Head(line).batch) /\ Before(Head(line).batch, batch)
                /\ \A k \in DOMAIN Tail(line) : Tail(line)[k].name = n => Before(Head(line).batch, Tail(line)[k].batch)
<1> DEFINE t == Tail(line)
<1>1. /\ Head(line) = line[1] /\ 1 \in DOMAIN line
      /\ \A k \in DOMAIN t : t[k] = line[k + 1] /\ k + 1 \in DOMAIN line
      /\ DOMAIN t \subseteq Nat /\ \A k \in DOMAIN t : k > 0
  BY TailLemma
<1> HIDE DEF t
<1>4. /\ \A k \in DOMAIN line : line[k].name = n => BatchOk(g, n, base, line[k].batch) /\ Before(line[k].batch, batch)
      /\ \A k, l \in DOMAIN line : k < l /\ line[k].name = n /\ line[l].name = n => Before(line[k].batch, line[l].batch)
  BY DEF LineOk, Each, Pairs
<1>7. ASSUME line[1].name = n PROVE /\ BatchOk(g, n, base, line[1].batch) /\ Before(line[1].batch, batch)
                                    /\ \A k \in DOMAIN t : t[k].name = n => Before(line[1].batch, t[k].batch)
  BY <1>1, <1>4, <1>7
<1> QED BY <1>1, <1>7, <1>4 DEF t

\* The oldest item leaves the line.
LEMMA LineTailOther ==
    ASSUME NEW line \in Seq(Item), line # <<>>, NEW g, NEW n, NEW base, NEW batch, NEW w, NEW h, LineOk(g, n, base, line, batch, w, h),
           Head(line).name # n \/ Head(line).batch = <<>>
    PROVE  LineOk(g, n, base, Tail(line), batch, w, h)
<1> QED BY LinePairs, CarriedTail, NothingIn DEF LineOk, Each, Pairs

LEMMA LineTail ==
    ASSUME NEW g \in Group, NEW n, NEW base, NEW line \in Seq(Item), line # <<>>, NEW batch, NEW w \in Nat, NEW h \in Nat, w <= h,
           LineOk(g, n, base, line, batch, w, h), Head(line).name = n, Head(line).batch # <<>>
    PROVE  LET b == Head(line).batch
               k == Ord(g, b[Len(b)].id)
           IN /\ k \in Nat /\ w <= k /\ k <= h
              /\ IdSet(b) = Kin(g, n, w, k, Fits) /\ BatchOk(g, n, base, b)
              /\ LineOk(g, n, base, Tail(line), batch, k, h)
<1> DEFINE t == Tail(line)
           b == Head(line).batch
           f == b[Len(b)].id
           k == Ord(g, f)
<1>1. /\ \A j \in DOMAIN t : t[j].name = n => BatchOk(g, n, base, t[j].batch) /\ Before(t[j].batch, batch)
      /\ \A j, l \in DOMAIN t : j < l /\ t[j].name = n /\ t[l].name = n => Before(t[j].batch, t[l].batch)
      /\ BatchOk(g, n, base, b) /\ Before(b, batch)
      /\ \A j \in DOMAIN t : t[j].name = n => Before(b, t[j].batch)
  BY LinePairs
<1>2. \A p : p \in Kin(g, n, w, h, Fits) <=> p \in IdSet(b) \/ Carried(t, n, p) \/ p \in IdSet(batch)
  BY CarriedTail DEF LineOk
<1>3. b \in Seq(Row)
  <2>1. Head(line) \in Item BY TailLemma
  <2> QED BY <2>1 DEF Item
<1>4. f \in IdSet(b) /\ \A p \in IdSet(b) : p <= f BY <1>1, <1>3, LastIsLargest DEF BatchOk
<1> HIDE DEF t, b, f
<1>5. f \in OwnOf(g, n) /\ w < k /\ k <= h BY <1>2, <1>4 DEF Kin
<1>6. k \in Nat BY <1>5, OrdLemma
<1>7. \A p \in OwnOf(g, n) : p \in Nat /\ f \in Nat /\ Ord(g, p) \in Nat /\ (p < f => Ord(g, p) < k) /\ (Ord(g, p) < k => p < f) /\ (Ord(g, p) = k => p = f)
  BY <1>5, OrdLemma, UpToLemma
<1> HIDE DEF k
<1>9. \A p : (Carried(t, n, p) \/ p \in IdSet(batch)) => f < p BY <1>1, <1>4 DEF Carried, Before
<1>10. /\ \A p : p \in Kin(g, n, w, k, Fits) <=> p \in Kin(g, n, w, h, Fits) /\ p <= f
       /\ \A p : p \in Kin(g, n, k, h, Fits) <=> p \in Kin(g, n, w, h, Fits) /\ f < p
  BY <1>5, <1>6, <1>7 DEF Kin, k
<1>11. \A p \in Kin(g, n, w, h, Fits) : p \in Nat /\ f \in Nat BY <1>7 DEF Kin
<1>12. \A p : p \in IdSet(b) <=> p \in Kin(g, n, w, k, Fits) BY <1>2, <1>4, <1>9, <1>10, <1>11
<1>14. IdSet(b) = Kin(g, n, w, k, Fits) BY <1>12
<1>15. LineOk(g, n, base, t, batch, k, h) BY <1>1, <1>2, <1>4, <1>9, <1>10, <1>11 DEF LineOk, Each, Pairs
<1> QED BY <1>1, <1>5, <1>6, <1>14, <1>15 DEF t, b, f, k

TopOf(g, f, rows) == IF rows = <<>> THEN f ELSE Ord(g, rows[Len(rows)].id)
StoredOk(g, n, base, rows, a, b) ==
    /\ Increasing(Ids(rows))
    /\ IdSet(rows) = Kin(g, n, a, b, {"ok"})
    /\ \A j \in DOMAIN rows : Told(g, n, base, rows[j])

LEMMA IncreasingTail ==
    ASSUME NEW rows \in Seq(Row), rows # <<>>, Increasing(Ids(rows))
    PROVE  /\ Tail(rows) \in Seq(Row) /\ Head(rows) \in Row /\ Head(rows) = rows[1] /\ 1 \in DOMAIN rows
           /\ Increasing(Ids(Tail(rows))) /\ IdSet(Tail(rows)) = IdSet(rows) \ {Head(rows).id}
           /\ \A p \in IdSet(Tail(rows)) : Head(rows).id < p
           /\ Head(rows).id \in IdSet(rows)
           /\ \A j \in DOMAIN Tail(rows) : \E i \in DOMAIN rows : Tail(rows)[j] = rows[i]
<1> DEFINE t == Tail(rows)
<1>1. /\ t \in Seq(Row) /\ Head(rows) = rows[1] /\ Head(rows) \in Row /\ 1 \in DOMAIN rows
      /\ DOMAIN t = 1 .. (Len(rows) - 1) /\ DOMAIN rows = 1 .. Len(rows) /\ Len(rows) \in Nat
      /\ \A k \in DOMAIN t : t[k] = rows[k + 1] /\ k + 1 \in DOMAIN rows
      /\ \A k \in DOMAIN rows : k = 1 \/ (k - 1 \in DOMAIN t /\ t[k - 1] = rows[k])
  <2> HIDE DEF Row
  <2> QED BY TailLemma
<1> HIDE DEF t
<1>2. \A i, j \in DOMAIN rows : i < j => rows[i].id < rows[j].id BY IdsLemma DEF Increasing
<1>3. DOMAIN Ids(t) = DOMAIN t /\ \A i \in DOMAIN t : Ids(t)[i] = t[i].id BY <1>1, IdsLemma
<1>5. Increasing(Ids(t)) BY <1>3, <1>1, <1>2 DEF Increasing
<1>6. IdSet(t) = {t[i].id : i \in DOMAIN t} /\ IdSet(rows) = {rows[i].id : i \in DOMAIN rows}
  BY <1>1, IdSetLemma
<1>7. \A k \in DOMAIN t : rows[1].id < t[k].id BY <1>1, <1>2
<1>8. \A p \in IdSet(t) : rows[1].id < p BY <1>6, <1>7
<1>10. \A p \in IdSet(rows) : p = rows[1].id \/ p \in IdSet(t) BY <1>1, <1>6
<1>11. rows[1].id \in Nat BY <1>1, IdsLemma
<1> QED BY <1>1, <1>5, <1>6, <1>8, <1>10, <1>11 DEF t

\* A row is handed to its writer.
LEMMA HandOver ==
    ASSUME NEW g \in Group, NEW n, NEW base, NEW f \in Nat, NEW w \in Nat,
           NEW buf \in Seq(Row), StoredOk(g, n, base, buf, f, TopOf(g, f, buf)),
           NEW rows \in Seq(Row), rows # <<>>, StoredOk(g, n, base, rows, TopOf(g, f, buf), w)
    PROVE  LET t == Append(buf, Head(rows))
               k == Ord(g, Head(rows).id)
           IN /\ t \in Seq(Row) /\ t # <<>> /\ TopOf(g, f, t) = k /\ t[Len(t)] = Head(rows) /\ Head(rows) \in Row
              /\ k \in Nat /\ TopOf(g, f, buf) \in Nat /\ f <= TopOf(g, f, buf) /\ TopOf(g, f, buf) < k /\ k <= w
              /\ StoredOk(g, n, base, t, f, k)
              /\ Tail(rows) \in Seq(Row) /\ StoredOk(g, n, base, Tail(rows), k, w)
              /\ Told(g, n, base, Head(rows))
<1> DEFINE r == Head(rows)
           s == Tail(rows)
           t == Append(buf, r)
           k == Ord(g, r.id)
           top == TopOf(g, f, buf)
           ok == {"ok"}
<1>1. Increasing(Ids(rows)) /\ IdSet(rows) = Kin(g, n, top, w, ok) /\ \A j \in DOMAIN rows : Told(g, n, base, rows[j])
  BY DEF StoredOk
<1>2. /\ s \in Seq(Row) /\ r \in Row /\ r = rows[1] /\ 1 \in DOMAIN rows
      /\ Increasing(Ids(s)) /\ IdSet(s) = IdSet(rows) \ {r.id}
      /\ \A p \in IdSet(s) : r.id < p
      /\ r.id \in IdSet(rows)
      /\ \A j \in DOMAIN s : \E i \in DOMAIN rows : s[j] = rows[i]
  BY <1>1, IncreasingTail
<1>3. Increasing(Ids(buf)) /\ IdSet(buf) = Kin(g, n, f, top, ok) /\ \A j \in DOMAIN buf : Told(g, n, base, buf[j])
  BY DEF StoredOk
<1>4. t \in Seq(Row) /\ Len(t) = Len(buf) + 1 /\ t[Len(buf) + 1] = r /\ Len(buf) \in Nat /\ (\A i \in 1 .. Len(buf) : t[i] = buf[i])
      /\ DOMAIN t = 1 .. Len(buf) + 1 /\ DOMAIN buf = 1 .. Len(buf)
  BY <1>2, AppendLemma, IdsLemma
<1>5. t # <<>> /\ t[Len(t)] = r
  <2> HIDE DEF t
  <2> QED BY <1>4
<1> HIDE DEF r, s, t, top, ok
<1>6. top \in Nat /\ f <= top BY <1>3, LastIsLargest, OrdLemma DEF TopOf, top, Kin
<1>7. r.id \in OwnOf(g, n) /\ top < k /\ k <= w /\ Upstream[g][r.id].kind \in ok BY <1>1, <1>2 DEF Kin
<1>8. k \in Nat BY <1>7, OrdLemma
<1> HIDE DEF k
<1>9. \A p \in OwnOf(g, n) : p \in Nat /\ r.id \in Nat /\ Ord(g, p) \in Nat /\ (p < r.id => Ord(g, p) < k)
                          /\ (Ord(g, p) < k => p < r.id) /\ (Ord(g, p) = k => p = r.id) /\ (p = r.id => Ord(g, p) = k)
                          /\ (r.id < p => k < Ord(g, p))
  BY OrdLemma, UpToLemma, <1>7 DEF k
<1>10. Told(g, n, base, r) BY <1>1, <1>2
<1>11. Kin(g, n, top, w, ok) = Kin(g, n, top, k, ok) \cup Kin(g, n, k, w, ok)
       /\ Kin(g, n, top, k, ok) \cap Kin(g, n, k, w, ok) = {}
  BY <1>6, <1>7, <1>8, KinSplit
<1>12. Kin(g, n, top, k, ok) = {r.id} BY <1>7, <1>8, <1>1, <1>11, <1>2, <1>9 DEF Kin, k
<1>15. StoredOk(g, n, base, s, k, w) BY <1>2, <1>1, <1>11, <1>12 DEF StoredOk, ok
<1>16. Kin(g, n, f, k, ok) = Kin(g, n, f, top, ok) \cup {r.id}
  <2>1. top <= k BY <1>6, <1>7, <1>8
  <2>2. Kin(g, n, f, k, ok) = Kin(g, n, f, top, ok) \cup Kin(g, n, top, k, ok) BY <1>6, <2>1, <1>8, KinSplit
  <2> QED BY <2>2, <1>12
<1>17. \A p \in IdSet(buf) : p < r.id BY <1>3, <1>6, <1>7, <1>8, <1>9 DEF Kin
<1>18. BatchOk(g, n, base, t) /\ IdSet(t) = IdSet(buf) \cup {r.id}
  <2>1. BatchOk(g, n, base, buf) /\ Placed(g, n, base, r) BY <1>3, <1>10 DEF Told, BatchOk
  <2> QED BY <2>1, <1>2, <1>17, AppendBatch DEF t
<1>20. StoredOk(g, n, base, t, f, k) BY <1>3, <1>16, <1>18, <1>4, <1>10 DEF StoredOk, BatchOk, ok
<1>21. TopOf(g, f, t) = k BY <1>5 DEF TopOf, k
<1> QED BY <1>2, <1>4, <1>5, <1>6, <1>7, <1>8, <1>10, <1>15, <1>20, <1>21 DEF r, s, t, k, top

\* The long rows of a batch are those of its stretch of the source.
LEMMA LongsAre ==
    ASSUME NEW g \in Group, NEW n, NEW base, NEW batch \in Seq(Row), BatchOk(g, n, base, batch),
           NEW w \in Nat, NEW k \in Nat, IdSet(batch) = Kin(g, n, w, k, Fits), NEW i \in DOMAIN batch
    PROVE  LongsTo(batch, i) = Cardinality(Kin(g, n, w, Ord(g, batch[i].id), {"long"}))
<1> DEFINE L(j) == {batch[l].id : l \in {l \in 1 .. j : batch[l].kind = "long"}}
           P == {j \in Nat : j <= Len(batch) => IsFiniteSet(L(j)) /\ Cardinality(L(j)) = LongsTo(batch, j)}
<1>1. DOMAIN batch = 1 .. Len(batch) /\ Len(batch) \in Nat /\ \A j \in DOMAIN batch : batch[j].id \in Nat
  BY IdsLemma
<1>2. \A j, l \in DOMAIN batch : j < l => batch[j].id < batch[l].id BY IdsLemma DEF BatchOk, Increasing
<1>3. 0 \in P
  <2>1. L(0) = {} OBVIOUS
  <2>2. LongsTo(batch, 0) = 0 BY LongsLemma
  <2> HIDE DEF L
  <2> QED BY <2>1, <2>2, FS_EmptySet
<1>4. ASSUME NEW j \in Nat, j \in P PROVE j + 1 \in P
  <2> HIDE DEF L
  <2> SUFFICES ASSUME j + 1 <= Len(batch) PROVE IsFiniteSet(L(j + 1)) /\ Cardinality(L(j + 1)) = LongsTo(batch, j + 1)
    OBVIOUS
  <2>1. IsFiniteSet(L(j)) /\ Cardinality(L(j)) = LongsTo(batch, j) BY <1>1, <1>4
  <2>2. \A l \in 1 .. j + 1 : l = j + 1 \/ l \in 1 .. j OBVIOUS
  <2>3. CASE batch[j + 1].kind = "long"
    <3>1. L(j + 1) = L(j) \cup {batch[j + 1].id} BY <2>2, <2>3 DEF L
    <3>2. batch[j + 1].id \notin L(j)
      <4>3. \A l \in 1 .. j : batch[l].id # batch[j + 1].id BY <1>1, <1>2
      <4> QED BY <4>3 DEF L
    <3>3. LongsTo(batch, j + 1) = LongsTo(batch, j) + 1 BY <2>3, LongsLemma
    <3> QED BY <2>1, <3>1, <3>2, <3>3, FS_AddElement
  <2>4. CASE batch[j + 1].kind # "long"
    <3>1. L(j + 1) = L(j) BY <2>2, <2>4 DEF L
    <3> QED BY <2>1, <3>1, <2>4, LongsLemma
  <2> QED BY <2>3, <2>4
<1> HIDE DEF P
<1>5. Nat \subseteq P BY <1>3, <1>4, NumberInduction
<1>6. Cardinality(L(i)) = LongsTo(batch, i)
  <2>1. i \in Nat /\ i <= Len(batch) BY <1>1
  <2>2. i \in P BY <2>1, <1>5
  <2> QED BY <2>1, <2>2 DEF P
<1>7. L(i) = Kin(g, n, w, Ord(g, batch[i].id), {"long"})
  <2> DEFINE p(j) == batch[j].id
             long == {"long"}
  <2>1. \A q : q \in Kin(g, n, w, k, Fits) <=> \E j \in DOMAIN batch : q = p(j) BY IdSetLemma
  <2>2. \A j \in DOMAIN batch : p(j) \in OwnOf(g, n) /\ batch[j].kind = Upstream[g][p(j)].kind
    BY DEF BatchOk, Placed
  <2>3. \A j \in DOMAIN batch : w < Ord(g, p(j)) /\ Ord(g, p(j)) <= k BY <2>1 DEF Kin
  <2>4. \A q \in OwnOf(g, n) : Ord(g, q) \in Nat /\ q \in Nat BY OrdLemma, UpToLemma
  <2>5. \A j, l \in DOMAIN batch : j <= l <=> Ord(g, p(j)) <= Ord(g, p(l))
    <3>1. ASSUME NEW j \in DOMAIN batch, NEW l \in DOMAIN batch PROVE (j < l => Ord(g, p(j)) < Ord(g, p(l)))
      BY <1>2, <2>2, OrdLemma
    <3>2. ASSUME NEW j \in DOMAIN batch, NEW l \in DOMAIN batch PROVE j <= l <=> Ord(g, p(j)) <= Ord(g, p(l))
      <4>2. (j < l => Ord(g, p(j)) < Ord(g, p(l))) /\ (l < j => Ord(g, p(l)) < Ord(g, p(j))) BY <3>1
      <4> HIDE DEF p
      <4> QED BY <4>2, <1>1, <2>2, <2>4
    <3> QED BY <3>2
  <2>6. \A j \in DOMAIN batch : j \in 1 .. i <=> j <= i BY <1>1
  <2>8. ASSUME NEW q \in L(i) PROVE q \in Kin(g, n, w, Ord(g, p(i)), long)
    BY <2>6, <2>2, <2>3, <2>5, <1>1 DEF Kin
  <2>9. ASSUME NEW q \in Kin(g, n, w, Ord(g, p(i)), long) PROVE q \in L(i)
    <3>1. q \in OwnOf(g, n) /\ w < Ord(g, q) /\ Ord(g, q) <= Ord(g, p(i)) /\ Upstream[g][q].kind = "long"
      BY DEF Kin
    <3>4. PICK j \in DOMAIN batch : q = p(j) BY <2>1, <3>1, <2>2, <2>3, <2>4 DEF Kin, Fits
    <3> QED BY <3>4, <3>1, <2>2, <2>5, <2>6
  <2> HIDE DEF L
  <2> QED BY <2>8, <2>9
<1> HIDE DEF L
<1> QED BY <1>6, <1>7

LEMMA DropArithmetic ==
    ASSUME NEW b \in Nat, NEW d \in Nat, NEW len \in Nat, NEW r \in Nat, NEW l \in Nat, NEW c, NEW k,
           b + d = c, k = c + l, r + l = len
    PROVE  b + (d + (len - r)) = k /\ r <= len
OBVIOUS

\* A batch is tokenized: what it leaves is stored next, and what it drops is counted.
LEMMA TokenizedGood ==
    ASSUME NEW g \in Group, NEW n, NEW base \in Offset, NEW batch \in Seq(Row), batch # <<>>, BatchOk(g, n, base, batch),
           NEW w \in Nat, NEW k \in Nat, w <= k, k = Ord(g, batch[Len(batch)].id), IdSet(batch) = Kin(g, n, w, k, Fits),
           inc[n].dropped \in Nat, base.dropped + inc[n].dropped = Count(g, n, w, {"long"}),
           NEW top \in Nat, top <= w, Kin(g, n, top, w, {"ok"}) = {}
    PROVE  /\ Fitting(n, batch) \in Seq(Row)
           /\ StoredOk(g, n, base, Fitting(n, batch), top, k)
           /\ Len(Fitting(n, batch)) <= Len(batch)
           /\ base.dropped + (inc[n].dropped + (Len(batch) - Len(Fitting(n, batch)))) = Count(g, n, k, {"long"})
<1> DEFINE rows == Fitting(n, batch)
           d == inc[n].dropped
           len == Len(batch)
           long == {"long"}
           ok == {"ok"}
<1>1. /\ rows \in Seq(Row) /\ Len(rows) + LongsTo(batch, len) = len
      /\ \A j \in DOMAIN rows : \E i \in Fit(batch) : rows[j] = ToldRow(d, batch, i)
      /\ Members(Ids(rows)) = {batch[i].id : i \in Fit(batch)}
      /\ Increasing(Ids(batch)) => Increasing(Ids(rows))
  BY FittingLemma
<1>2. DOMAIN batch = 1 .. len /\ len \in Nat /\ len \in DOMAIN batch /\ d \in Nat /\ base.dropped \in Nat
  BY LastIsLargest, IdsLemma DEF BatchOk, Offset
<1> HIDE DEF rows, d, len, long, ok
<1>3. \A i \in DOMAIN batch :
         /\ LongsTo(batch, i) = Cardinality(Kin(g, n, w, Ord(g, batch[i].id), long))
         /\ LongsTo(batch, i) \in Nat
         /\ w <= Ord(g, batch[i].id) /\ Ord(g, batch[i].id) \in Nat
         /\ Count(g, n, Ord(g, batch[i].id), long) = Count(g, n, w, long) + LongsTo(batch, i)
  <2> SUFFICES ASSUME NEW i \in DOMAIN batch
               PROVE /\ LongsTo(batch, i) = Cardinality(Kin(g, n, w, Ord(g, batch[i].id), long))
                     /\ LongsTo(batch, i) \in Nat
                     /\ w <= Ord(g, batch[i].id) /\ Ord(g, batch[i].id) \in Nat
                     /\ Count(g, n, Ord(g, batch[i].id), long) = Count(g, n, w, long) + LongsTo(batch, i)
    OBVIOUS
  <2> DEFINE c == Ord(g, batch[i].id)
  <2>5. c \in Nat /\ w <= c BY OrdLemma, IdSetLemma DEF Kin
  <2> HIDE DEF c
  <2>7. LongsTo(batch, i) \in Nat BY <1>2, LongsLemma
  <2> QED BY <2>5, <2>7, LongsAre, CountSplit DEF c, long
<1>4. base.dropped + d = Count(g, n, w, long) BY DEF d, long
<1>7. base.dropped + (d + (len - Len(rows))) = Count(g, n, k, long) /\ Len(rows) <= len
  <2>1. Count(g, n, k, long) = Count(g, n, w, long) + LongsTo(batch, len) /\ LongsTo(batch, len) \in Nat
    BY <1>2, <1>3 DEF len
  <2> DEFINE l == LongsTo(batch, len)
             b == base.dropped
             r == Len(rows)
             c == Count(g, n, w, long)
             e == Count(g, n, k, long)
  <2>2. b \in Nat /\ d \in Nat /\ len \in Nat /\ r \in Nat /\ l \in Nat BY <2>1, <1>2, <1>1
  <2>3. b + d = c /\ e = c + l /\ r + l = len BY <2>1, <1>1, <1>4
  <2> HIDE DEF l, b, r, c, e
  <2>4. b + (d + (len - r)) = e /\ r <= len BY <2>2, <2>3, DropArithmetic, SMTT(30), Z3T(30)
  <2> QED BY <2>4 DEF b, r, e
<1>8. ASSUME NEW j \in DOMAIN rows PROVE Told(g, n, base, rows[j])
  <2>1. PICK i \in Fit(batch) : rows[j] = ToldRow(d, batch, i) BY <1>1
  <2>2. i \in DOMAIN batch BY DEF Fit
  <2> DEFINE r == ToldRow(d, batch, i)
             b == batch[i]
  <2>3. /\ r.id = b.id /\ r.kind = b.kind /\ r.progress.consumed = b.progress.consumed
        /\ r.progress.skipped = b.progress.skipped /\ r.progress.dropped = d + LongsTo(batch, i)
    BY <1>2, <2>2, ToldRowType, SMTT(30)
  <2>4. Placed(g, n, base, b) BY <2>2 DEF BatchOk
  <2>5. Count(g, n, Ord(g, b.id), long) = Count(g, n, w, long) + LongsTo(batch, i) /\ LongsTo(batch, i) \in Nat
    BY <2>2, <1>3
  <2> HIDE DEF r, b
  <2>7. base.dropped + r.progress.dropped = Count(g, n, Ord(g, r.id), long) BY <2>3, <2>5, <1>2, <1>4
  <2> QED BY <2>1, <2>7, <2>3, <2>4 DEF Told, r, long, Placed
<1>9. IdSet(rows) = Kin(g, n, top, k, ok)
  <2>4. \A i \in DOMAIN batch : batch[i].kind = Upstream[g][batch[i].id].kind BY DEF BatchOk, Placed
  <2>5. {batch[i].id : i \in Fit(batch)} = Kin(g, n, w, k, ok) BY <2>4, IdSetLemma, SMTT(30) DEF Fit, Kin, Fits, ok
  <2> QED BY <2>5, <1>1, OrdLemma DEF IdSet, ok, Kin
<1>10. StoredOk(g, n, base, rows, top, k) BY <1>1, <1>8, <1>9 DEF StoredOk, BatchOk, ok
<1> QED BY <1>1, <1>7, <1>10 DEF rows, d, len, long

Pcs == {"idle", "row", "submit", "put", "target", "compare", "drain", "settle", "close", "join", "exit", "salvage", "finish"}
Fetch == [pc : Pcs, name : Names, batch : Seq(Row), back : {"", "target", "drain", "settle"}, kept : Nat, todo : SUBSET UNION Group]
Worker == [pending : Seq(Item), current : Seq(Item), rows : Seq(Row), storing : BOOLEAN, stop : BOOLEAN,
           failure : {"none", "stop", "error"}, raised : BOOLEAN, closed : BOOLEAN, ended : BOOLEAN]

TypeOK ==
    /\ group \in Group
    /\ disk \in [group -> Manifest] /\ folder \in [group -> Manifest]
    /\ DOMAIN inc \subseteq group /\ inc \in [DOMAIN inc -> Inc]
    /\ pos \in Nat /\ pos <= Len(Upstream[group])
    /\ fetch \in Fetch
    /\ queue \in Seq(Item)
    /\ worker \in Worker
    /\ buffer \in [group -> Seq(Row)]
    /\ gate \in [requested : BOOLEAN, suspended : BOOLEAN]
    /\ primary \in {"none", "stop", "error"}

Pulling(f) == f.pc \in {"row", "target", "compare", "drain"} \/ (f.pc \in {"submit", "put"} /\ f.back # "settle")
Settling(f) == f.pc = "settle" \/ (f.pc \in {"submit", "put"} /\ f.back = "settle")
Closing(f) == f.pc \in {"close", "join", "exit", "salvage", "finish"}
Joined(pc) == pc \in {"exit", "salvage", "finish"}

WorkerOk(w, q, pc, names, first) ==
    /\ pc = "idle" => q = <<>> /\ w.pending = <<>> /\ w.current = <<>>
    /\ w.rows # <<>> => w.storing /\ w.current # <<>>
    /\ w.current # <<>> => Len(w.current) = 1 /\ w.current[1].name \in names
    /\ ~w.storing => w.failure = "error"
    /\ w.raised => first # "none"
    /\ Joined(pc) => w.ended /\ (w.failure # "none" => first # "none")
    /\ w.ended => w.closed /\ w.pending = <<>> /\ w.current = <<>>
    /\ w.closed => q = <<>> /\ pc \in {"idle", "join", "exit", "salvage", "finish"}
    /\ \A k \in DOMAIN q : \/ q[k] = End /\ k = Len(q) /\ pc = "join"
                           \/ q[k] # End /\ q[k].batch # <<>> /\ q[k].name \in names
    /\ \A k \in DOMAIN w.pending : w.pending[k].batch # <<>> /\ w.pending[k].name \in names

FetchOk(f, i, first) ==
    /\ Pulling(f) => first = "none"
    /\ f.pc = "finish" => first = "none"
    /\ f.todo \subseteq DOMAIN i
    /\ f.pc \in {"submit", "put", "target", "compare"} => f.name \in DOMAIN i
    /\ f.pc \in {"submit", "put"} => f.back \in {"target", "drain", "settle"} /\ (f.batch # <<>> => i[f.name].batch = <<>>)
    /\ f.pc = "put" => f.batch # <<>>
    /\ Settling(f) => \A n \in DOMAIN i : n \notin f.todo => i[n].batch = <<>>
    /\ Closing(f) => \A n \in DOMAIN i : i[n].batch = <<>>

BuffersOk(f, i, buf) ==
    /\ f.pc \in {"exit", "salvage"} => \A n \in DOMAIN i : n \notin f.todo => buf[n] = <<>>
    /\ f.pc = "finish" => \A n \in DOMAIN i : buf[n] = <<>>

Control ==
    /\ WorkerOk(worker, queue, fetch.pc, DOMAIN inc, primary)
    /\ FetchOk(fetch, inc, primary)
    /\ BuffersOk(fetch, inc, buffer)

LEMMA IncUpdate ==
    ASSUME NEW D, NEW f \in [D -> Inc], NEW n, NEW e \in Inc
    PROVE  [f EXCEPT ![n] = e] \in [D -> Inc] /\ DOMAIN [f EXCEPT ![n] = e] = D
<1> HIDE DEF Inc
<1> QED OBVIOUS

LEMMA IncTypes ==
    ASSUME NEW i \in Inc
    PROVE  /\ i.base \in Offset /\ i.consumed \in Nat /\ i.skipped \in Nat /\ i.streak \in Nat /\ i.kept \in Nat /\ i.dropped \in Nat
           /\ i.batch \in Seq(Row) /\ i.submitted \in Nat /\ i.settled \in Nat /\ i.wanted \in Nat /\ i.limit \in Nat \cup {NoLimit}
           /\ \A c \in Nat : /\ [i EXCEPT !.consumed = c] \in Inc /\ [i EXCEPT !.kept = c] \in Inc /\ [i EXCEPT !.dropped = c] \in Inc
                             /\ [i EXCEPT !.submitted = c] \in Inc /\ [i EXCEPT !.settled = c] \in Inc
           /\ \A b \in Seq(Row) : [i EXCEPT !.batch = b] \in Inc
           /\ \A c, s \in Nat : [i EXCEPT !.consumed = c, !.skipped = s] \in Inc
           /\ \A c, s, t \in Nat : [i EXCEPT !.consumed = c, !.skipped = s, !.streak = t] \in Inc
           /\ \A c, t \in Nat, b \in Seq(Row) : [i EXCEPT !.consumed = c, !.streak = t, !.batch = b] \in Inc
<1> HIDE DEF Row
<1>1. /\ i.base \in Offset /\ i.consumed \in Nat /\ i.skipped \in Nat /\ i.streak \in Nat /\ i.kept \in Nat /\ i.dropped \in Nat
      /\ i.batch \in Seq(Row) /\ i.submitted \in Nat /\ i.settled \in Nat /\ i.wanted \in Nat /\ i.limit \in Nat \cup {NoLimit}
  BY DEF Inc
<1>2. \A c \in Nat : /\ [i EXCEPT !.consumed = c] \in Inc /\ [i EXCEPT !.kept = c] \in Inc /\ [i EXCEPT !.dropped = c] \in Inc
                     /\ [i EXCEPT !.submitted = c] \in Inc /\ [i EXCEPT !.settled = c] \in Inc
  BY DEF Inc
<1>3. \A b \in Seq(Row) : [i EXCEPT !.batch = b] \in Inc BY DEF Inc
<1>4. \A c, s \in Nat : [i EXCEPT !.consumed = c, !.skipped = s] \in Inc BY DEF Inc
<1>5. \A c, s, t \in Nat : [i EXCEPT !.consumed = c, !.skipped = s, !.streak = t] \in Inc BY DEF Inc
<1>6. \A c, t \in Nat, b \in Seq(Row) : [i EXCEPT !.consumed = c, !.streak = t, !.batch = b] \in Inc
  BY DEF Inc
<1> QED BY <1>1, <1>2, <1>3, <1>4, <1>5, <1>6

LEMMA IncFields ==
    ASSUME NEW i \in Inc
    PROVE  /\ i.base \in Offset /\ i.consumed \in Nat /\ i.skipped \in Nat /\ i.streak \in Nat /\ i.kept \in Nat /\ i.dropped \in Nat
           /\ i.batch \in Seq(Row) /\ i.submitted \in Nat /\ i.settled \in Nat /\ i.wanted \in Nat
BY DEF Inc

LEMMA NoneTypes == NoFetch \in Fetch /\ NoWorker \in Worker /\ End \in Item
<1>1. <<>> \in Seq(Row) /\ <<>> \in Seq(Item) OBVIOUS
<1>a. "none" \in Names /\ "end" \in Names BY DEF Names
<1> DEFINE SR == Seq(Row)
<1>b. <<>> \in SR BY <1>1
<1> HIDE DEF SR
<1>3. NoWorker \in Worker BY <1>1 DEF NoWorker, Worker
<1>4. End \in Item BY <1>a, <1>b DEF Item, SR, End
<1> QED BY <1>3, <1>4, <1>a, <1>b DEF Fetch, SR, NoFetch, Pcs

LEMMA FetchTypes ==
    ASSUME NEW f \in Fetch
    PROVE  /\ f.pc \in Pcs /\ f.name \in Names /\ f.batch \in Seq(Row) /\ f.back \in {"", "target", "drain", "settle"} /\ f.kept \in Nat
           /\ f.todo \in SUBSET UNION Group
           /\ \A p \in Pcs : [f EXCEPT !.pc = p] \in Fetch
           /\ \A p \in Pcs, t \in SUBSET UNION Group : [f EXCEPT !.pc = p, !.todo = t] \in Fetch
           /\ \A t \in SUBSET UNION Group : [f EXCEPT !.todo = t] \in Fetch
           /\ \A p \in Pcs, b \in Seq(Row) : [f EXCEPT !.pc = p, !.batch = b] \in Fetch
           /\ \A p \in Pcs, k \in Nat : [f EXCEPT !.pc = p, !.kept = k] \in Fetch
           /\ \A p \in Pcs, b \in {"target", "drain", "settle"}, s \in Seq(Row) : [f EXCEPT !.pc = p, !.back = b, !.batch = s] \in Fetch
           /\ \A p \in Pcs, n \in Names, b \in {"target", "drain", "settle"}, s \in Seq(Row) : [f EXCEPT !.pc = p, !.name = n, !.back = b, !.batch = s] \in Fetch
           /\ \A p \in Pcs, n \in Names, b \in {"target", "drain", "settle"}, s \in Seq(Row), t \in SUBSET UNION Group :
                 [f EXCEPT !.pc = p, !.name = n, !.back = b, !.batch = s, !.todo = t] \in Fetch
<1> HIDE DEF Row, Names, Pcs
<1>1. f \in [pc : Pcs, name : Names, batch : Seq(Row), back : {"", "target", "drain", "settle"}, kept : Nat, todo : SUBSET UNION Group]
  BY DEF Fetch
<1> QED BY Zenon, <1>1 DEF Fetch

LEMMA WorkerTypes ==
    ASSUME NEW w \in Worker
    PROVE  /\ w.pending \in Seq(Item) /\ w.current \in Seq(Item) /\ w.rows \in Seq(Row) /\ w.storing \in BOOLEAN /\ w.stop \in BOOLEAN
           /\ w.failure \in {"none", "stop", "error"} /\ w.raised \in BOOLEAN /\ w.closed \in BOOLEAN /\ w.ended \in BOOLEAN
           /\ \A e \in {"stop", "error"} : Remember(w, e) \in Worker
           /\ [w EXCEPT !.raised = TRUE] \in Worker /\ [w EXCEPT !.closed = TRUE] \in Worker /\ [w EXCEPT !.ended = TRUE] \in Worker
           /\ [w EXCEPT !.storing = FALSE] \in Worker /\ [w EXCEPT !.storing = FALSE, !.stop = FALSE, !.rows = <<>>] \in Worker
           /\ [w EXCEPT !.current = <<>>, !.stop = FALSE] \in Worker
           /\ \A p \in Seq(Item) : [w EXCEPT !.pending = p] \in Worker
           /\ \A p, c \in Seq(Item) : [w EXCEPT !.pending = p, !.current = c] \in Worker
           /\ \A r \in Seq(Row) : [w EXCEPT !.rows = r] \in Worker
           /\ \A b \in BOOLEAN : [w EXCEPT !.stop = b] \in Worker
<1> DEFINE SI == Seq(Item)
           SR == Seq(Row)
<1>1. w \in [pending : SI, current : SI, rows : SR, storing : BOOLEAN, stop : BOOLEAN,
           failure : {"none", "stop", "error"}, raised : BOOLEAN, closed : BOOLEAN, ended : BOOLEAN]
  BY DEF Worker
<1>2. Worker = [pending : SI, current : SI, rows : SR, storing : BOOLEAN, stop : BOOLEAN,
           failure : {"none", "stop", "error"}, raised : BOOLEAN, closed : BOOLEAN, ended : BOOLEAN]
  BY DEF Worker
<1>3. <<>> \in SI /\ <<>> \in SR OBVIOUS
<1> HIDE DEF SI, SR
<1>4. /\ w.pending \in SI /\ w.current \in SI /\ w.rows \in SR /\ w.storing \in BOOLEAN /\ w.stop \in BOOLEAN
      /\ w.failure \in {"none", "stop", "error"} /\ w.raised \in BOOLEAN /\ w.closed \in BOOLEAN /\ w.ended \in BOOLEAN
  BY <1>1
<1>5. \A e \in {"stop", "error"} : Remember(w, e) \in Worker BY <1>1, <1>2 DEF Remember
<1>6. /\ [w EXCEPT !.raised = TRUE] \in Worker /\ [w EXCEPT !.closed = TRUE] \in Worker /\ [w EXCEPT !.ended = TRUE] \in Worker
      /\ [w EXCEPT !.storing = FALSE] \in Worker /\ [w EXCEPT !.storing = FALSE, !.stop = FALSE, !.rows = <<>>] \in Worker
      /\ [w EXCEPT !.current = <<>>, !.stop = FALSE] \in Worker
  BY <1>1, <1>2, <1>3
<1>7. /\ \A p \in SI : [w EXCEPT !.pending = p] \in Worker
      /\ \A p, c \in SI : [w EXCEPT !.pending = p, !.current = c] \in Worker
      /\ \A r \in SR : [w EXCEPT !.rows = r] \in Worker
      /\ \A b \in BOOLEAN : [w EXCEPT !.stop = b] \in Worker
  BY <1>1, <1>2
<1> QED BY <1>4, <1>5, <1>6, <1>7 DEF SI, SR

Open == {"row", "submit", "put", "target", "compare", "drain", "settle", "close"}

LEMMA WorkerMoves ==
    ASSUME NEW w, NEW q, NEW pc \in Open, NEW pc2 \in Open, NEW names, NEW first, NEW first2,
           WorkerOk(w, q, pc, names, first), first # "none" => first2 # "none"
    PROVE  WorkerOk(w, q, pc2, names, first2)
BY DEF WorkerOk, Open, Joined

LEMMA WorkerRaises ==
    ASSUME NEW w \in Worker, NEW q, NEW pc \in Open, NEW pc2 \in Open, NEW names, NEW first, NEW first2,
           WorkerOk(w, q, pc, names, first), first2 # "none"
    PROVE  WorkerOk([w EXCEPT !.raised = TRUE], q, pc2, names, first2)
<1> DEFINE v == [w EXCEPT !.raised = TRUE]
<1> HIDE DEF v
<1> QED BY DEF v, WorkerOk, Open, Joined, Worker

LEMMA PrimaryLemma ==
    ASSUME NEW old \in {"none", "stop", "error"}, NEW new \in {"stop", "error"}
    PROVE  Primary(old, new) \in {"stop", "error"}
BY DEF Primary

LEMMA GateLemma ==
    ASSUME NEW a \in [requested : BOOLEAN, suspended : BOOLEAN]
    PROVE  [a EXCEPT !.suspended = TRUE] \in [requested : BOOLEAN, suspended : BOOLEAN] /\ [a EXCEPT !.requested = TRUE] \in [requested : BOOLEAN, suspended : BOOLEAN]
OBVIOUS

\* The thread goes back to the rows, or to the cleanup.
LEMMA FetchBegins ==
    ASSUME TypeOK
    PROVE  /\ \A first : FetchOk(ToCleanup, inc, first)
           /\ ToCleanup \in Fetch /\ ToCleanup.pc = "settle" /\ ToCleanup.batch = <<>>
           /\ \A buf, i : BuffersOk(ToCleanup, i, buf)
           /\ EndRow \in Fetch /\ EndRow.pc \in {"row", "settle"} /\ EndRow.batch = <<>>
           /\ FetchOk(EndRow, inc, "none") /\ \A buf, i : BuffersOk(EndRow, i, buf)
<1>1. DOMAIN inc \in SUBSET UNION Group BY Zenon DEF TypeOK
<1>2. ToCleanup \in Fetch /\ [NoFetch EXCEPT !.pc = "row"] \in Fetch
  <2>1. "settle" \in Pcs /\ "row" \in Pcs BY DEF Pcs
  <2> QED BY Zenon, <1>1, <2>1, NoneTypes, FetchTypes DEF ToCleanup
<1>3. ToCleanup.pc = "settle" /\ ToCleanup.batch = <<>> /\ ToCleanup.todo = DOMAIN inc
  BY DEF ToCleanup, NoFetch
<1>4. \A first : FetchOk(ToCleanup, inc, first) BY <1>3 DEF FetchOk, Pulling, Settling, Closing
<1>5. \A buf, i : BuffersOk(ToCleanup, i, buf) BY <1>3 DEF BuffersOk
<1> DEFINE r == [NoFetch EXCEPT !.pc = "row"]
<1>6. r.pc = "row" /\ r.batch = <<>> /\ r.todo = {} BY DEF NoFetch
<1>7. EndRow = ToCleanup \/ EndRow = r BY DEF EndRow
<1> HIDE DEF r
<1>8. FetchOk(r, inc, "none") /\ \A buf, i : BuffersOk(r, i, buf)
  BY <1>6 DEF FetchOk, Pulling, Settling, Closing, BuffersOk
<1>9. r \in Fetch BY <1>2 DEF r
<1> QED BY <1>2, <1>3, <1>4, <1>5, <1>6, <1>7, <1>8, <1>9

\* What does not change is as before.
LEMMA SkipRowControl ==
    ASSUME TypeOK, Control, SkipRow
    PROVE  TypeOK' /\ Control'
<1> QED BY UpstreamLemma DEF TypeOK, Control, SkipRow, writeVars, Rows

LEMMA PullRowTypes ==
    ASSUME TypeOK, HasRow
    PROVE  LET n == Rows[pos + 1].name IN
           /\ n \in DOMAIN inc /\ n \in group /\ n \in Names /\ inc[n] \in Inc /\ pos + 1 \in DOMAIN Upstream[group] /\ pos + 1 \in Nat
           /\ pos + 1 <= Len(Upstream[group]) /\ pos + 1 \in OwnOf(group, n)
<1> DEFINE n == Rows[pos + 1].name
<1>1. n \in DOMAIN inc /\ pos < Len(Upstream[group]) /\ n = Upstream[group][pos + 1].name BY DEF HasRow, Rows
<1>2. pos \in Nat /\ group \in Group /\ DOMAIN inc \subseteq group /\ inc \in [DOMAIN inc -> Inc]
  BY DEF TypeOK
<1>4. n \in group /\ inc[n] \in Inc
  <2> HIDE DEF n, Inc
  <2> QED BY <1>1, <1>2
<1> QED BY <1>1, <1>4, <1>2, UpstreamLemma DEF OwnOf, Names

\* The row that is pulled, with its progress.
Pulled(i, p, kind) == [id |-> p, kind |-> kind, progress |-> [consumed |-> i.consumed + 1, skipped |-> i.skipped, dropped |-> 0]]

LEMMA PullRowControl ==
    ASSUME TypeOK, Control, PullRow
    PROVE  TypeOK' /\ Control'
<1> DEFINE n == Rows[pos + 1].name
           kind == Rows[pos + 1].kind
           i == inc[n]
           r == Pulled(i, pos + 1, kind)
           batch == Append(i.batch, r)
           full == Len(batch) >= BatchSize
           c == i.consumed + 1
           s == i.skipped + 1
           t == i.streak + 1
<1>1. /\ n \in DOMAIN inc /\ n \in Names /\ i \in Inc /\ pos + 1 \in DOMAIN Upstream[group] /\ pos + 1 \in Nat
      /\ pos + 1 <= Len(Upstream[group])
  BY PullRowTypes DEF PullRow
<1>2. kind \in {"ok", "long", "bad", "orphan", "filtered"} BY <1>1, UpstreamLemma DEF TypeOK, Rows
<1> HIDE DEF n, kind, i
<1>3. c \in Nat /\ s \in Nat /\ t \in Nat /\ i.batch \in Seq(Row) /\ i.skipped \in Nat BY <1>1, IncFields
<1>4. r \in Row BY <1>1, <1>2, <1>3 DEF Pulled, Row
<1> HIDE DEF c, s, t, r
<1>5. batch \in Seq(Row) /\ batch # <<>> BY <1>3, <1>4, AppendLemma
<1> HIDE DEF batch, full
<1> DEFINE e == IF kind = "filtered" THEN [i EXCEPT !.consumed = c]
                ELSE IF kind = "bad" THEN [i EXCEPT !.consumed = c, !.skipped = s, !.streak = t]
                ELSE IF kind = "orphan" THEN [i EXCEPT !.consumed = c, !.skipped = s]
                ELSE [i EXCEPT !.consumed = c, !.streak = 0, !.batch = IF full THEN <<>> ELSE batch]
           f == [NoFetch EXCEPT !.pc = "submit", !.name = n, !.back = "target", !.batch = IF full THEN batch ELSE <<>>]
<1>6. inc' = [inc EXCEPT ![n] = e] BY Zenon DEF PullRow, n, kind, i, c, s, t, e, batch, full, r, Pulled
<1>7. e \in Inc
  <2>3. [i EXCEPT !.consumed = c] \in Inc /\ [i EXCEPT !.consumed = c, !.skipped = s, !.streak = t] \in Inc /\ [i EXCEPT !.consumed = c, !.skipped = s] \in Inc
    BY <1>1, <1>3, IncTypes
  <2>4. [i EXCEPT !.consumed = c, !.streak = 0, !.batch = IF full THEN <<>> ELSE batch] \in Inc
    <3> DEFINE b == IF full THEN <<>> ELSE batch
    <3>1. b \in Seq(Row) /\ 0 \in Nat BY <1>5
    <3> HIDE DEF b
    <3>2. [i EXCEPT !.consumed = c, !.streak = 0, !.batch = b] \in Inc BY <1>1, <1>3, <3>1, IncTypes
    <3> QED BY <3>2 DEF b
  <2> QED BY <2>3, <2>4
<1> HIDE DEF e
<1>8. inc' \in [DOMAIN inc -> Inc] /\ DOMAIN inc' = DOMAIN inc BY Zenon, <1>6, <1>7, IncUpdate DEF TypeOK
<1>9. \/ fetch' = fetch /\ UNCHANGED <<gate, primary>>
      \/ fetch' = ToCleanup /\ Record("error")
      \/ fetch' = f /\ kind \notin {"filtered", "bad", "orphan"} /\ UNCHANGED <<gate, primary>>
  BY Zenon DEF PullRow, n, kind, i, full, batch, r, Pulled, f
<1>10. /\ primary' \in {"none", "stop", "error"} /\ (primary # "none" => primary' # "none")
       /\ gate' \in [requested : BOOLEAN, suspended : BOOLEAN]
  <2>1. primary \in {"none", "stop", "error"} /\ gate \in [requested : BOOLEAN, suspended : BOOLEAN]
    BY DEF TypeOK
  <2>3. CASE Record("error")
    <3>1. Primary(primary, "error") \in {"stop", "error"} BY <2>1, PrimaryLemma
    <3> QED BY <2>1, <2>3, <3>1, GateLemma DEF Record
  <2>4. CASE UNCHANGED <<gate, primary>> BY <2>1, <2>4
  <2> QED BY <2>3, <2>4, <1>9
<1>11. primary = "none" /\ fetch.pc = "row" BY Zenon DEF PullRow, Control, FetchOk, Pulling
<1>12. f \in Fetch /\ f.pc = "submit" /\ f.name = n /\ f.back = "target" /\ f.batch = (IF full THEN batch ELSE <<>>) /\ f.todo = {}
  <2>2. f \in Fetch
    <3> DEFINE b == IF full THEN batch ELSE <<>>
    <3>1. "submit" \in Pcs /\ b \in Seq(Row) /\ "target" \in {"target", "drain", "settle"} BY <1>5 DEF Pcs
    <3> HIDE DEF b
    <3>2. [NoFetch EXCEPT !.pc = "submit", !.name = n, !.back = "target", !.batch = b] \in Fetch
      BY <3>1, <1>1, NoneTypes, FetchTypes
    <3> QED BY <3>2 DEF b
  <2> QED BY <2>2 DEF NoFetch
<1>13. \A m \in DOMAIN inc : m # n => inc'[m] = inc[m] BY <1>6
<1>14. kind \notin {"filtered", "bad", "orphan"} /\ full => inc'[n].batch = <<>>
  BY <1>1, <1>6 DEF e, TypeOK, Inc
<1> HIDE DEF f
<1>15. UNCHANGED <<group, disk, folder, buffer, queue, worker>> /\ pos' = pos + 1
  BY Zenon DEF PullRow, writeVars
<1>16. fetch' \in Fetch BY <1>9, <1>12, FetchBegins DEF TypeOK
<1>17. TypeOK' BY <1>1, <1>8, <1>10, <1>15, <1>16 DEF TypeOK
<1>18. FetchOk(fetch', inc', primary')
  <2>1. CASE fetch' = fetch /\ UNCHANGED <<gate, primary>>
    BY <2>1, <1>8, <1>11 DEF Control, FetchOk, Pulling, Settling, Closing
  <2>2. CASE fetch' = ToCleanup
    <3>1. ToCleanup.pc = "settle" /\ ToCleanup.todo = DOMAIN inc BY DEF ToCleanup, NoFetch
    <3> QED BY <2>2, <3>1, <1>8 DEF FetchOk, Pulling, Settling, Closing
  <2>3. CASE fetch' = f /\ kind \notin {"filtered", "bad", "orphan"} /\ UNCHANGED <<gate, primary>>
    BY <2>3, <1>12, <1>14, <1>1, <1>8, <1>11 DEF FetchOk, Pulling, Settling, Closing
  <2> QED BY <1>9, <2>1, <2>2, <2>3
<1>19. fetch'.pc \in Open /\ fetch'.pc \notin {"exit", "salvage", "finish"}
  BY <1>9, <1>11, <1>12, FetchBegins DEF Open
<1>20. WorkerOk(worker', queue', fetch'.pc, DOMAIN inc', primary')
  <2>1. fetch.pc \in Open BY <1>11 DEF Open
  <2> QED BY <1>8, <1>15, <1>10, <1>19, <2>1, WorkerMoves DEF Control
<1> QED BY <1>17, <1>18, <1>20, <1>19 DEF Control, BuffersOk

\* A failure is recorded.
LEMMA RecordLemma ==
    ASSUME TypeOK, NEW error \in {"stop", "error"}, Record(error)
    PROVE  primary' \in {"none", "stop", "error"} /\ primary' # "none" /\ gate' \in [requested : BOOLEAN, suspended : BOOLEAN]
<1>1. primary \in {"none", "stop", "error"} /\ gate \in [requested : BOOLEAN, suspended : BOOLEAN]
  BY DEF TypeOK
<1>2. Primary(primary, error) \in {"stop", "error"} BY <1>1, PrimaryLemma
<1> QED BY <1>1, <1>2, GateLemma DEF Record

LEMMA SameFailure ==
    ASSUME TypeOK, UNCHANGED <<gate, primary>>
    PROVE  primary' \in {"none", "stop", "error"} /\ gate' \in [requested : BOOLEAN, suspended : BOOLEAN]
BY DEF TypeOK

LEMMA RequestStopControl ==
    ASSUME TypeOK, Control, RequestStop
    PROVE  TypeOK' /\ Control'
<1>1. gate' \in [requested : BOOLEAN, suspended : BOOLEAN] BY GateLemma DEF TypeOK, RequestStop
<1> QED BY <1>1 DEF TypeOK, Control, RequestStop, writeVars, fetchVars

LEMMA EndOfRowsControl ==
    ASSUME TypeOK, Control, EndOfRows
    PROVE  TypeOK' /\ Control'
<1>1. UNCHANGED <<group, inc, pos, disk, folder, buffer, queue, worker>> /\ fetch' = ToCleanup /\ fetch.pc = "row"
  BY DEF EndOfRows, writeVars
<1>3. primary' \in {"none", "stop", "error"} /\ gate' \in [requested : BOOLEAN, suspended : BOOLEAN] /\ (primary # "none" => primary' # "none")
  BY RecordLemma, SameFailure DEF EndOfRows
<1>5. fetch'.pc \in Open /\ fetch.pc \in Open BY <1>1, FetchBegins DEF Open
<1>7. FetchOk(fetch', inc', primary') /\ BuffersOk(fetch', inc', buffer') BY <1>1, FetchBegins
<1> QED BY <1>1, <1>7, <1>3, FetchBegins, <1>5, WorkerMoves DEF Control, TypeOK

LEMMA SeeFailureControl ==
    ASSUME TypeOK, Control, SeeFailure
    PROVE  TypeOK' /\ Control'
<1>1. UNCHANGED <<group, inc, pos, disk, folder, buffer, queue, worker, gate, primary>> /\ fetch' = [fetch EXCEPT !.pc = "drain"] /\ fetch.pc = "row"
  BY DEF SeeFailure, writeVars
<1>2. fetch' \in Fetch /\ fetch'.pc = "drain" /\ fetch'.todo = fetch.todo
  <2>1. fetch \in Fetch /\ "drain" \in Pcs BY Zenon DEF TypeOK, Pcs
  <2>2. [fetch EXCEPT !.pc = "drain"] \in Fetch BY <2>1, FetchTypes
  <2> QED BY <1>1, <2>1, <2>2 DEF Fetch
<1>4. fetch'.pc \in Open /\ fetch.pc \in Open BY <1>1, <1>2 DEF Open
<1>6. FetchOk(fetch', inc', primary') BY <1>1, <1>2 DEF Control, FetchOk, Pulling, Settling, Closing
<1>7. BuffersOk(fetch', inc', buffer') BY <1>2 DEF BuffersOk
<1> QED BY <1>1, <1>6, <1>7, <1>2, <1>4, WorkerMoves DEF Control, TypeOK

LEMMA SubmitControl ==
    ASSUME TypeOK, Control, Submit
    PROVE  TypeOK' /\ Control'
<1>1. UNCHANGED <<group, pos, disk, folder, buffer, queue>> /\ fetch.pc = "submit" BY DEF Submit, writeVars
<1>2. fetch \in Fetch /\ worker \in Worker /\ fetch.pc \in Open BY <1>1 DEF TypeOK, Open
<1>3. FetchOk(fetch, inc, primary) /\ WorkerOk(worker, queue, fetch.pc, DOMAIN inc, primary) BY DEF Control
<1>4. CASE Unraised
  <2>1. worker' = [worker EXCEPT !.raised = TRUE] /\ Record(worker.failure) /\ inc' = inc
        /\ fetch' = IF fetch.back = "settle" THEN [NoFetch EXCEPT !.pc = "settle", !.todo = fetch.todo] ELSE ToCleanup
    BY Zenon, <1>4 DEF Submit
  <2>2. worker.failure \in {"stop", "error"} BY Zenon, <1>2, <1>4, WorkerTypes DEF Unraised
  <2>3. primary' \in {"none", "stop", "error"} /\ primary' # "none" /\ gate' \in [requested : BOOLEAN, suspended : BOOLEAN]
    BY Zenon, <2>1, <2>2, RecordLemma
  <2>4. worker' \in Worker BY Zenon, <1>2, <2>1, WorkerTypes
  <2> DEFINE f == [NoFetch EXCEPT !.pc = "settle", !.todo = fetch.todo]
  <2>5. f \in Fetch /\ f.pc = "settle" /\ f.todo = fetch.todo
    <3>1. "settle" \in Pcs /\ fetch.todo \in SUBSET UNION Group BY Zenon, <1>2, FetchTypes DEF Pcs
    <3>2. f \in Fetch BY <3>1, NoneTypes, FetchTypes
    <3> QED BY Zenon, <3>2 DEF NoFetch
  <2> HIDE DEF f
  <2>7. fetch' \in Fetch /\ fetch'.pc = "settle" /\ fetch'.pc \in Open BY <2>5, FetchBegins, <2>1 DEF Open, f
  <2>8. TypeOK' BY <1>1, <2>1, <2>3, <2>4, <2>7 DEF TypeOK
  <2>9. WorkerOk(worker', queue, fetch'.pc, DOMAIN inc, primary')
    BY <1>2, <1>3, <2>1, <2>3, <2>7, WorkerRaises
  <2>10. FetchOk(fetch', inc', primary')
    BY <2>1, FetchBegins, <1>1, <1>3, <2>5 DEF f, FetchOk, Settling, Pulling, Closing
  <2> QED BY <1>1, <2>1, <2>8, <2>9, <2>10, <2>7 DEF Control, BuffersOk
<1>5. CASE ~Unraised
  <2> DEFINE n == fetch.name
             e == [inc[n] EXCEPT !.submitted = @ + Len(fetch.batch)]
             p == IF fetch.batch = <<>> THEN fetch.back ELSE "put"
  <2>1. inc' = [inc EXCEPT ![n] = e] /\ fetch' = [fetch EXCEPT !.pc = p] /\ UNCHANGED <<worker, gate, primary>>
    BY <1>5 DEF Submit
  <2>2. n \in DOMAIN inc /\ inc[n] \in Inc /\ fetch.back \in {"target", "drain", "settle"}
    BY <1>1, <1>3 DEF FetchOk, TypeOK
  <2>3. e \in Inc /\ e.batch = inc[n].batch
    <3>1. inc[n].submitted + Len(fetch.batch) \in Nat
      <4>1. Len(fetch.batch) \in Nat BY <1>2, FetchTypes, IdsLemma
      <4> QED BY <2>2, <4>1, IncFields
    <3> DEFINE c == inc[n].submitted + Len(fetch.batch)
    <3>2. c \in Nat /\ e = [inc[n] EXCEPT !.submitted = c] BY <3>1
    <3> HIDE DEF c, e
    <3>3. e \in Inc BY <2>2, <3>2, IncTypes
    <3> QED BY <3>3, <2>2, <3>2 DEF Inc
  <2> HIDE DEF e
  <2>4. inc' \in [DOMAIN inc -> Inc] /\ DOMAIN inc' = DOMAIN inc BY <2>1, <2>3, IncUpdate DEF TypeOK
  <2>6. p \in Pcs /\ p \in Open /\ p \notin {"row", "close"} /\ p \in {"target", "drain", "settle", "put"} /\ (p = "put" => fetch.batch # <<>>) /\ (p # "put" => p = fetch.back)
    BY <2>2 DEF Pcs, Open
  <2> HIDE DEF p
  <2>7. fetch' \in Fetch /\ fetch'.pc = p /\ fetch'.name = fetch.name /\ fetch'.batch = fetch.batch /\ fetch'.back = fetch.back /\ fetch'.todo = fetch.todo
    <3>1. [fetch EXCEPT !.pc = p] \in Fetch BY Zenon, <1>2, <2>6, FetchTypes
    <3> QED BY Zenon, <1>2, <2>1, <3>1 DEF Fetch
  <2>8. TypeOK' BY <1>1, <2>1, <2>4, <2>7 DEF TypeOK
  <2>9. WorkerOk(worker, queue, fetch'.pc, DOMAIN inc, primary) BY <1>2, <1>3, <2>6, <2>7, WorkerMoves
  <2>10. FetchOk(fetch', inc', primary)
    <3>1. /\ fetch.todo \subseteq DOMAIN inc /\ (fetch.batch # <<>> => inc[n].batch = <<>>)
          /\ (fetch.back # "settle" => primary = "none")
          /\ (fetch.back = "settle" => \A m \in DOMAIN inc : m \notin fetch.todo => inc[m].batch = <<>>)
      BY <1>1, <1>3 DEF FetchOk, Pulling, Settling
    <3>2. (fetch.batch # <<>> => inc'[n].batch = <<>>) /\ (fetch.back = "settle" => \A m \in DOMAIN inc : m \notin fetch.todo => inc'[m].batch = <<>>)
      BY <2>2, <3>1, <2>1, <2>3 DEF TypeOK
    <3>3. /\ Pulling(fetch') => fetch.back # "settle"
          /\ Settling(fetch') => fetch.back = "settle"
          /\ ~Closing(fetch')
      BY <2>2, <2>6, <2>7 DEF Pulling, Settling, Closing
    <3>4. fetch'.pc \notin {"finish", "row", "submit", "compare"} BY <2>6, <2>7
    <3> QED BY <2>2, <2>4, <2>6, <2>7, <3>1, <3>2, <3>3, <3>4 DEF FetchOk
  <2>11. BuffersOk(fetch', inc', buffer') BY <2>6, <2>7 DEF BuffersOk
  <2> QED BY <1>1, <2>1, <2>4, <2>8, <2>9, <2>10, <2>11 DEF Control
<1> QED BY <1>4, <1>5

\* A batch that enters the queue.
LEMMA QueueGrows ==
    ASSUME NEW w, NEW q \in Seq(Item), NEW pc \in Open, NEW pc2 \in Open, NEW names, NEW first, NEW x \in Item,
           WorkerOk(w, q, pc, names, first), x.batch # <<>>, x.name \in names
    PROVE  WorkerOk(w, Append(q, x), pc2, names, first)
<1> DEFINE t == Append(q, x)
<1>1. DOMAIN t = 1 .. Len(q) + 1 /\ t[Len(q) + 1] = x /\ (\A k \in 1 .. Len(q) : t[k] = q[k]) /\ DOMAIN q = 1 .. Len(q) /\ Len(q) \in Nat
  BY AppendLemma, ItemsLemma
<1> HIDE DEF t
<1>4. \A k \in DOMAIN t : t[k] # End /\ t[k].batch # <<>> /\ t[k].name \in names
  BY <1>1 DEF WorkerOk, Open, End
<1> QED BY <1>4 DEF t, WorkerOk, Open, Joined

LEMMA PutControl ==
    ASSUME TypeOK, Control, Put
    PROVE  TypeOK' /\ Control'
<1> DEFINE x == [name |-> fetch.name, batch |-> fetch.batch]
<1>1. UNCHANGED <<group, inc, pos, disk, folder, buffer, worker, gate, primary>> /\ fetch.pc = "put"
      /\ queue' = Append(queue, x) /\ fetch' = [fetch EXCEPT !.pc = fetch.back, !.batch = <<>>]
  BY DEF Put, writeVars
<1>2. fetch \in Fetch /\ fetch.pc \in Open BY <1>1 DEF TypeOK, Open
<1>3. FetchOk(fetch, inc, primary) /\ WorkerOk(worker, queue, fetch.pc, DOMAIN inc, primary) BY DEF Control
<1>4. /\ fetch.name \in DOMAIN inc /\ fetch.back \in {"target", "drain", "settle"} /\ fetch.batch # <<>> /\ fetch.todo \subseteq DOMAIN inc
      /\ (fetch.back # "settle" => primary = "none")
      /\ (fetch.back = "settle" => \A m \in DOMAIN inc : m \notin fetch.todo => inc[m].batch = <<>>)
  BY <1>1, <1>3 DEF FetchOk, Pulling, Settling
<1>5. x \in Item /\ x.batch # <<>> /\ x.name \in DOMAIN inc
  <2>1. fetch.name \in Names /\ fetch.batch \in Seq(Row) BY <1>2, FetchTypes
  <2> QED BY Zenon, <1>4, <2>1 DEF Item
<1>6. fetch' \in Fetch /\ fetch'.pc = fetch.back /\ fetch'.name = fetch.name /\ fetch'.back = fetch.back /\ fetch'.todo = fetch.todo /\ fetch'.batch = <<>>
  <2>1. fetch.back \in Pcs /\ <<>> \in Seq(Row) BY <1>4 DEF Pcs
  <2>2. [fetch EXCEPT !.pc = fetch.back, !.batch = <<>>] \in Fetch BY <1>2, <2>1, FetchTypes
  <2> QED BY <1>1, <1>2, <2>2 DEF Fetch
<1> HIDE DEF x
<1>8. TypeOK' BY <1>1, <1>6, <1>5, AppendLemma DEF TypeOK
<1>9. WorkerOk(worker, queue', fetch'.pc, DOMAIN inc, primary)
  <2>1. fetch.back \in Open /\ queue \in Seq(Item) BY <1>4 DEF Open, TypeOK
  <2> QED BY <1>1, <1>2, <1>3, <1>5, <1>6, <2>1, QueueGrows
<1>11. BuffersOk(fetch', inc, buffer) BY <1>4, <1>6 DEF BuffersOk
<1> QED BY <1>1, <1>8, <1>9, <1>11, <1>4, <1>6 DEF Control, FetchOk, Pulling, Settling, Closing

LEMMA ReadKeptControl ==
    ASSUME TypeOK, Control, ReadKept
    PROVE  TypeOK' /\ Control'
<1>1. UNCHANGED <<group, inc, pos, disk, folder, buffer, queue, worker, gate, primary>> /\ fetch.pc = "target"
      /\ fetch' = IF fetch.name \in Instruct THEN [fetch EXCEPT !.pc = "compare", !.kept = inc[fetch.name].kept] ELSE EndRow
  BY DEF ReadKept, writeVars
<1>2. fetch \in Fetch /\ fetch.pc \in Open BY <1>1 DEF TypeOK, Open
<1>3. FetchOk(fetch, inc, primary) /\ WorkerOk(worker, queue, fetch.pc, DOMAIN inc, primary) BY DEF Control
<1>4. primary = "none" /\ fetch.name \in DOMAIN inc /\ fetch.todo \subseteq DOMAIN inc
  BY <1>1, <1>3 DEF FetchOk, Pulling
<1> DEFINE f == [fetch EXCEPT !.pc = "compare", !.kept = inc[fetch.name].kept]
<1>5. f \in Fetch /\ f.pc = "compare" /\ f.name = fetch.name /\ f.todo = fetch.todo
  <2> DEFINE c == inc[fetch.name].kept
  <2>1. c \in Nat /\ "compare" \in Pcs BY <1>4, IncFields DEF TypeOK, Pcs
  <2>2. f = [fetch EXCEPT !.pc = "compare", !.kept = c] BY Zenon
  <2> HIDE DEF c, f
  <2>3. f \in Fetch BY <1>2, <2>1, <2>2, FetchTypes
  <2> QED BY <1>2, <2>2, <2>3 DEF Fetch
<1> HIDE DEF f
<1>6. fetch' = f \/ fetch' = EndRow BY <1>1 DEF f
<1>7. fetch' \in Fetch /\ fetch'.pc \in Open /\ fetch'.pc \in {"compare", "row", "settle"}
  BY <1>5, <1>6, FetchBegins DEF Open
<1>10. FetchOk(fetch', inc, primary) BY <1>4, <1>5, <1>6, FetchBegins DEF FetchOk, Pulling, Settling, Closing
<1> QED BY <1>1, <1>10, <1>7, <1>2, <1>3, WorkerMoves DEF Control, TypeOK, BuffersOk

LEMMA CompareTargetControl ==
    ASSUME TypeOK, Control, CompareTarget
    PROVE  TypeOK' /\ Control'
<1>1. UNCHANGED <<group, pos, disk, folder, buffer, queue, worker, gate, primary>> /\ fetch.pc = "compare"
  BY DEF CompareTarget, writeVars
<1>2. fetch \in Fetch /\ fetch.pc \in Open BY <1>1 DEF TypeOK, Open
<1>3. FetchOk(fetch, inc, primary) /\ WorkerOk(worker, queue, fetch.pc, DOMAIN inc, primary) BY DEF Control
<1>4. primary = "none" /\ fetch.name \in DOMAIN inc /\ fetch.todo \subseteq DOMAIN inc /\ inc[fetch.name] \in Inc
  BY <1>1, <1>3 DEF FetchOk, Pulling, TypeOK
<1>5. CASE fetch' = EndRow /\ inc' = inc
  <2>1. fetch' \in Fetch /\ fetch'.pc \in Open /\ fetch'.pc \in {"row", "settle"}
    BY <1>5, FetchBegins DEF Open
  <2>3. WorkerOk(worker, queue, fetch'.pc, DOMAIN inc, primary) BY <1>2, <1>3, <2>1, WorkerMoves
  <2> QED BY <1>1, <1>5, <2>3, <2>1, <1>4, FetchBegins DEF Control, TypeOK
<1>6. CASE ~(fetch' = EndRow /\ inc' = inc)
  <2> DEFINE n == fetch.name
             b == inc[n].batch
             e == [inc[n] EXCEPT !.batch = <<>>]
             f == [fetch EXCEPT !.pc = "submit", !.back = "drain", !.batch = b]
  <2>1. fetch' = f /\ inc' = [inc EXCEPT ![n] = e] BY <1>6 DEF CompareTarget
  <2>2. b \in Seq(Row) /\ <<>> \in Seq(Row) /\ "submit" \in Pcs BY <1>4, IncFields DEF Pcs
  <2>3. e \in Inc /\ e.batch = <<>>
    <3>1. e \in Inc BY <1>4, <2>2, IncTypes
    <3> QED BY <1>4, <3>1 DEF Inc
  <2> HIDE DEF b
  <2>4. f \in Fetch /\ f.pc = "submit" /\ f.back = "drain" /\ f.batch = b /\ f.name = n /\ f.todo = fetch.todo
    <3>1. f \in Fetch BY Zenon, <1>2, <2>2, FetchTypes
    <3> QED BY Zenon, <1>2, <3>1 DEF Fetch
  <2> HIDE DEF e, f
  <2>5. inc' \in [DOMAIN inc -> Inc] /\ DOMAIN inc' = DOMAIN inc /\ inc'[n].batch = <<>>
    BY <2>1, <2>3, IncUpdate, <1>4 DEF TypeOK
  <2>6. TypeOK' BY <1>1, <2>1, <2>4, <2>5 DEF TypeOK
  <2>7. WorkerOk(worker, queue, fetch'.pc, DOMAIN inc, primary)
    <3>1. f.pc \in Open BY <2>4 DEF Open
    <3> QED BY <1>2, <1>3, <2>1, <3>1, WorkerMoves
  <2>8. FetchOk(fetch', inc', primary) BY <1>4, <2>1, <2>4, <2>5 DEF FetchOk, Pulling, Settling, Closing
  <2>9. BuffersOk(fetch', inc', buffer) BY <2>1, <2>4 DEF BuffersOk
  <2> QED BY <1>1, <2>5, <2>6, <2>7, <2>8, <2>9 DEF Control
<1> QED BY <1>5, <1>6

LEMMA DrainControl ==
    ASSUME TypeOK, Control, Drain
    PROVE  TypeOK' /\ Control'
<1>1. UNCHANGED <<group, inc, pos, disk, folder, buffer, queue>> /\ fetch.pc = "drain" BY DEF Drain, writeVars
<1>2. fetch \in Fetch /\ worker \in Worker /\ fetch.pc \in Open BY <1>1 DEF TypeOK, Open
<1>3. FetchOk(fetch, inc, primary) /\ WorkerOk(worker, queue, fetch.pc, DOMAIN inc, primary) /\ primary = "none"
  BY <1>1 DEF Control, FetchOk, Pulling
<1>4. fetch' = ToCleanup \/ (fetch' = EndRow /\ UNCHANGED <<worker, gate, primary>>) BY DEF Drain
<1>5. fetch' \in Fetch /\ fetch'.pc \in Open /\ fetch'.pc \in {"row", "settle"} BY <1>4, FetchBegins DEF Open
<1>6. FetchOk(fetch', inc, primary') /\ BuffersOk(fetch', inc, buffer) BY <1>3, <1>4, FetchBegins
<1>7. CASE Unraised
  <2>1. worker' = [worker EXCEPT !.raised = TRUE] /\ Record(worker.failure) BY <1>7 DEF Drain
  <2>2. worker.failure \in {"stop", "error"} BY <1>2, <1>7, WorkerTypes DEF Unraised
  <2>3. primary' \in {"none", "stop", "error"} /\ primary' # "none" /\ gate' \in [requested : BOOLEAN, suspended : BOOLEAN]
    BY Zenon, <2>1, <2>2, RecordLemma
  <2>4. worker' \in Worker BY Zenon, <1>2, <2>1, WorkerTypes
  <2>6. WorkerOk(worker', queue, fetch'.pc, DOMAIN inc, primary')
    BY <1>2, <1>3, <1>5, <2>1, <2>3, WorkerRaises
  <2> QED BY <1>1, <1>6, <2>6, <1>5, <2>3, <2>4 DEF Control, TypeOK
<1>8. CASE ~Unraised
  <2>3. WorkerOk(worker, queue, fetch'.pc, DOMAIN inc, primary) BY <1>2, <1>3, <1>5, WorkerMoves
  <2> QED BY <1>1, <1>6, <2>3, <1>5, <1>8 DEF Control, TypeOK, Drain
<1> QED BY <1>7, <1>8

LEMMA AtCleanupLemma ==
    ASSUME TypeOK, NEW pc \in Pcs
    PROVE  /\ AtCleanup(pc) \in Fetch /\ AtCleanup(pc).pc = pc /\ AtCleanup(pc).todo = DOMAIN inc /\ AtCleanup(pc).batch = <<>>
<1>1. DOMAIN inc \in SUBSET UNION Group BY Zenon DEF TypeOK
<1>2. AtCleanup(pc) \in Fetch BY <1>1, NoneTypes, FetchTypes DEF AtCleanup
<1> QED BY <1>2 DEF AtCleanup, NoFetch

LEMMA FirstLemma ==
    ASSUME NEW names, names # {}
    PROVE  First(names) \in names
BY DEF First

\* The thread moves on while the worker is as it was.
LEMMA WorkerKeeps ==
    ASSUME NEW w, NEW q, NEW pc, NEW names, NEW first, NEW first2,
           WorkerOk(w, q, pc, names, first), first # "none" => first2 # "none"
    PROVE  WorkerOk(w, q, pc, names, first2)
BY DEF WorkerOk

LEMMA SettlePendingControl ==
    ASSUME TypeOK, Control, SettlePending
    PROVE  TypeOK' /\ Control'
<1> DEFINE n == First(fetch.todo)
           b == inc[n].batch
           t == fetch.todo \ {n}
           e == [inc[n] EXCEPT !.batch = <<>>]
           f == [fetch EXCEPT !.pc = "submit", !.name = n, !.back = "settle", !.batch = b, !.todo = t]
<1>1. UNCHANGED <<group, pos, disk, folder, buffer, queue, worker, gate, primary>> /\ fetch.pc = "settle"
      /\ fetch' = f /\ inc' = [inc EXCEPT ![n] = e] /\ fetch.todo # {}
  BY DEF SettlePending, writeVars
<1>2. fetch \in Fetch /\ fetch.pc \in Open BY <1>1 DEF TypeOK, Open
<1>3. FetchOk(fetch, inc, primary) /\ WorkerOk(worker, queue, fetch.pc, DOMAIN inc, primary) BY DEF Control
<1>4. n \in fetch.todo BY <1>1, FirstLemma
<1> HIDE DEF n
<1>5. fetch.todo \subseteq DOMAIN inc /\ n \in DOMAIN inc /\ \A m \in DOMAIN inc : m \notin fetch.todo => inc[m].batch = <<>>
  BY <1>1, <1>3, <1>4 DEF FetchOk, Settling
<1>6. inc[n] \in Inc /\ n \in Names BY <1>5 DEF TypeOK, Names
<1>7. b \in Seq(Row) /\ <<>> \in Seq(Row) /\ "submit" \in Pcs /\ t \in SUBSET UNION Group
  <2>2. fetch.todo \in SUBSET UNION Group BY <1>2, FetchTypes
  <2> QED BY <2>2, <1>6, IncFields DEF Pcs
<1>8. e \in Inc /\ e.batch = <<>>
  <2>1. e \in Inc BY <1>6, <1>7, IncTypes
  <2> QED BY <1>6, <2>1 DEF Inc
<1> HIDE DEF b
<1>9. f \in Fetch /\ f.pc = "submit" /\ f.back = "settle" /\ f.batch = b /\ f.name = n /\ f.todo = t
  <2>1. f \in Fetch BY <1>2, <1>6, <1>7, FetchTypes
  <2> QED BY Zenon, <1>2, <2>1 DEF Fetch
<1> HIDE DEF e, f
<1>10. inc' \in [DOMAIN inc -> Inc] /\ DOMAIN inc' = DOMAIN inc BY <1>1, <1>8, IncUpdate DEF TypeOK
<1>13. WorkerOk(worker, queue, fetch'.pc, DOMAIN inc, primary)
  <2>1. f.pc \in Open BY <1>9 DEF Open
  <2> QED BY <1>1, <1>2, <1>3, <2>1, WorkerMoves
<1>14. FetchOk(fetch', inc', primary) BY <1>1, <1>5, <1>9, <1>10, <1>8 DEF FetchOk, Pulling, Settling, Closing
<1> QED BY <1>1, <1>10, <1>13, <1>14, <1>9 DEF Control, TypeOK, BuffersOk

LEMMA CloseRowsControl ==
    ASSUME TypeOK, Control, CloseRows
    PROVE  TypeOK' /\ Control'
<1>1. UNCHANGED <<group, inc, pos, disk, folder, buffer, queue, worker>> /\ fetch' = AtCleanup("close") /\ fetch.pc = "settle" /\ fetch.todo = {}
  BY DEF CloseRows, writeVars
<1>3. primary' \in {"none", "stop", "error"} /\ gate' \in [requested : BOOLEAN, suspended : BOOLEAN] /\ (primary # "none" => primary' # "none")
  BY RecordLemma, SameFailure DEF CloseRows
<1>4. fetch' \in Fetch /\ fetch'.pc = "close" /\ fetch'.todo = DOMAIN inc BY <1>1, AtCleanupLemma DEF Pcs
<1>6. fetch'.pc \in Open /\ fetch.pc \in Open BY <1>1, <1>4 DEF Open
<1>9. FetchOk(fetch', inc, primary') BY <1>4, <1>1 DEF FetchOk, Pulling, Settling, Closing, Control
<1> QED BY <1>1, <1>9, <1>3, <1>4, <1>6, WorkerMoves DEF Control, TypeOK, BuffersOk

LEMMA CloseWorkerControl ==
    ASSUME TypeOK, Control, CloseWorker
    PROVE  TypeOK' /\ Control'
<1>1. UNCHANGED <<group, inc, pos, disk, folder, buffer, worker, gate, primary>> /\ fetch' = AtCleanup("join") /\ fetch.pc = "close"
      /\ queue' = Append(queue, End)
  BY DEF CloseWorker, writeVars
<1>2. fetch' \in Fetch /\ fetch'.pc = "join" /\ fetch'.todo = DOMAIN inc BY <1>1, AtCleanupLemma DEF Pcs
<1>3. queue \in Seq(Item) /\ End \in Item /\ queue' \in Seq(Item) BY <1>1, NoneTypes, AppendLemma DEF TypeOK
<1>6. FetchOk(fetch', inc, primary) BY <1>1, <1>2 DEF Control, FetchOk, Closing, Pulling, Settling
<1> QED BY <1>1, <1>2, <1>6, <1>3, AppendLemma, ItemsLemma DEF Control, TypeOK, BuffersOk, WorkerOk, Joined

LEMMA JoinWorkerControl ==
    ASSUME TypeOK, Control, JoinWorker
    PROVE  TypeOK' /\ Control'
<1>1. UNCHANGED <<group, inc, pos, disk, folder, buffer, queue>> /\ fetch' = AtCleanup(IF primary' = "none" THEN "exit" ELSE "salvage")
      /\ fetch.pc = "join" /\ worker.ended
  BY DEF JoinWorker, writeVars
<1>2. worker \in Worker /\ WorkerOk(worker, queue, "join", DOMAIN inc, primary) BY <1>1 DEF TypeOK, Control
<1>3. \/ Unraised /\ worker' = [worker EXCEPT !.raised = TRUE] /\ Record(worker.failure)
      \/ ~Unraised /\ UNCHANGED <<worker, gate, primary>>
  BY DEF JoinWorker
<1>4. /\ primary' \in {"none", "stop", "error"} /\ gate' \in [requested : BOOLEAN, suspended : BOOLEAN]
      /\ worker' \in Worker
      /\ worker'.failure # "none" => primary' # "none"
      /\ worker'.raised => primary' # "none"
      /\ worker'.pending = worker.pending /\ worker'.current = worker.current /\ worker'.rows = worker.rows /\ worker'.storing = worker.storing
      /\ worker'.failure = worker.failure /\ worker'.closed = worker.closed /\ worker'.ended = worker.ended
  <2>1. CASE Unraised /\ worker' = [worker EXCEPT !.raised = TRUE] /\ Record(worker.failure)
    <3>1. worker.failure \in {"stop", "error"} BY Zenon, <1>2, <2>1, WorkerTypes DEF Unraised
    <3>3. worker' \in Worker BY Zenon, <1>2, <2>1, WorkerTypes
    <3>4. /\ worker'.pending = worker.pending /\ worker'.current = worker.current /\ worker'.rows = worker.rows /\ worker'.storing = worker.storing
          /\ worker'.failure = worker.failure /\ worker'.closed = worker.closed /\ worker'.ended = worker.ended
      BY <1>2, <2>1 DEF Worker
    <3> QED BY <3>3, <3>4, <2>1, <3>1, RecordLemma
  <2>2. CASE ~Unraised /\ UNCHANGED <<worker, gate, primary>>
    BY <1>2, <2>2, SameFailure DEF WorkerOk, Unraised
  <2> QED BY <1>3, <2>1, <2>2
<1> DEFINE pc == IF primary' = "none" THEN "exit" ELSE "salvage"
<1>5. pc \in Pcs /\ pc \in {"exit", "salvage"} BY DEF Pcs
<1> HIDE DEF pc
<1>6. fetch' \in Fetch /\ fetch'.pc = pc /\ fetch'.todo = DOMAIN inc BY <1>1, <1>5, AtCleanupLemma DEF pc
<1>9. FetchOk(fetch', inc, primary') BY <1>1, <1>5, <1>6 DEF Control, FetchOk, Closing, Pulling, Settling
<1> QED BY <1>1, <1>6, <1>9, <1>4, <1>5, <1>2 DEF Control, TypeOK, BuffersOk, WorkerOk, Joined

\* After the join nothing is under way.
LEMMA AfterJoin ==
    ASSUME NEW w, NEW q, NEW pc, Joined(pc), NEW names, NEW first, WorkerOk(w, q, pc, names, first)
    PROVE  /\ q = <<>> /\ w.pending = <<>> /\ w.current = <<>> /\ w.rows = <<>> /\ w.ended
           /\ w.failure # "none" => first # "none"
           /\ \A pc2 : Joined(pc2) \/ pc2 = "idle" => WorkerOk(w, q, pc2, names, first)
<1>1. /\ q = <<>> /\ w.pending = <<>> /\ w.current = <<>> /\ w.rows = <<>> /\ w.ended
      /\ w.failure # "none" => first # "none"
  BY DEF WorkerOk
<1>3. ASSUME NEW pc2, Joined(pc2) \/ pc2 = "idle" PROVE WorkerOk(w, q, pc2, names, first)
  BY <1>1, <1>3 DEF WorkerOk, Joined
<1> QED BY <1>1, <1>3

LEMMA WritersReleasedControl ==
    ASSUME TypeOK, Control, WritersReleased
    PROVE  TypeOK' /\ Control'
<1>1. UNCHANGED <<group, inc, pos, disk, folder, buffer, queue, worker, gate, primary>> /\ fetch.pc \in {"exit", "salvage"} /\ fetch.todo = {}
      /\ (fetch' = NoFetch \/ (primary = "none" /\ fetch' = AtCleanup("finish")))
  BY DEF WritersReleased, writeVars
<1>2. Joined(fetch.pc) /\ WorkerOk(worker, queue, fetch.pc, DOMAIN inc, primary) BY <1>1 DEF Control, Joined
<1>3. CASE fetch' = NoFetch
  <2>1. NoFetch \in Fetch /\ NoFetch.pc = "idle" /\ NoFetch.todo = {} BY NoneTypes DEF NoFetch
  <2>4. FetchOk(fetch', inc, primary) /\ BuffersOk(fetch', inc, buffer)
    BY <1>3, <2>1 DEF FetchOk, BuffersOk, Pulling, Settling, Closing
  <2> QED BY <1>1, <1>3, <2>1, <2>4, <1>2, AfterJoin DEF Control, TypeOK
<1>4. CASE primary = "none" /\ fetch' = AtCleanup("finish")
  <2>1. fetch' \in Fetch /\ fetch'.pc = "finish" /\ fetch'.todo = DOMAIN inc BY <1>4, AtCleanupLemma DEF Pcs
  <2>4. \A n \in DOMAIN inc : inc[n].batch = <<>> /\ buffer[n] = <<>>
    BY <1>1 DEF Control, FetchOk, BuffersOk, Closing
  <2>5. FetchOk(fetch', inc, primary) /\ BuffersOk(fetch', inc, buffer)
    BY <1>4, <2>1, <2>4 DEF FetchOk, BuffersOk, Pulling, Settling, Closing
  <2> QED BY <1>1, <2>1, <2>5, <1>2, AfterJoin DEF Control, Joined, TypeOK
<1> QED BY <1>1, <1>3, <1>4

LEMMA EndWorkerControl ==
    ASSUME TypeOK, Control, EndWorker
    PROVE  TypeOK' /\ Control'
<1>1. UNCHANGED <<group, inc, pos, fetch, disk, folder, buffer, queue, gate, primary>> /\ worker' = [worker EXCEPT !.ended = TRUE]
      /\ worker.closed /\ worker.pending = <<>> /\ worker.current = <<>>
  BY Zenon DEF EndWorker, writeVars, fetchVars
<1>2. worker \in Worker /\ worker' \in Worker BY Zenon, <1>1, WorkerTypes DEF TypeOK
<1> QED BY <1>1, <1>2 DEF Control, TypeOK, WorkerOk, Worker

\* A failure that is remembered changes nothing else.
LEMMA RememberLemma ==
    ASSUME NEW w \in Worker, NEW error \in {"stop", "error"}
    PROVE  LET v == Remember(w, error) IN
           /\ v \in Worker /\ v.failure # "none" /\ (error = "error" => v.failure = "error") /\ (w.failure = "error" => v.failure = "error")
           /\ v.raised => w.raised
           /\ v.pending = w.pending /\ v.current = w.current /\ v.rows = w.rows /\ v.storing = w.storing /\ v.stop = w.stop
           /\ v.closed = w.closed /\ v.ended = w.ended
<1> DEFINE v == Remember(w, error)
<1>1. v = w \/ v = [w EXCEPT !.failure = error] \/ v = [w EXCEPT !.failure = error, !.raised = FALSE]
  BY Zenon DEF Remember
<1>2. v \in Worker BY Zenon, WorkerTypes
<1>3. w.failure \in {"none", "stop", "error"} BY Zenon, WorkerTypes
<1>4. /\ v.pending = w.pending /\ v.current = w.current /\ v.rows = w.rows /\ v.storing = w.storing /\ v.stop = w.stop
      /\ v.closed = w.closed /\ v.ended = w.ended
  BY <1>1 DEF Worker
<1>5. v.raised => w.raised BY <1>1 DEF Worker
<1>6. v.failure # "none" /\ (error = "error" => v.failure = "error") /\ (w.failure = "error" => v.failure = "error")
  BY <1>3 DEF Remember, Worker
<1> QED BY <1>2, <1>4, <1>5, <1>6

LEMMA TakeOk ==
    ASSUME NEW w, w.pending \in Seq(Item), NEW q \in Seq(Item), q # <<>>, NEW pc, NEW names, NEW first,
           WorkerOk(w, q, pc, names, first), ~w.closed, w.current = <<>>, Head(q) # End,
           NEW v, v.pending = Append(w.pending, Head(q)), v.current = w.current, v.rows = w.rows, v.closed = w.closed, v.ended = w.ended,
           v.raised => w.raised, ~v.storing => v.failure = "error"
    PROVE  WorkerOk(v, Tail(q), pc, names, first)
<1> DEFINE t == Tail(q)
           x == Head(q)
           u == Append(w.pending, x)
<1>1. /\ x = q[1] /\ x \in Item /\ DOMAIN t = 1 .. (Len(q) - 1) /\ DOMAIN q = 1 .. Len(q) /\ Len(q) \in Nat /\ 1 \in DOMAIN q
      /\ \A k \in DOMAIN t : t[k] = q[k + 1] /\ k + 1 \in DOMAIN q
  BY TailLemma
<1>3. DOMAIN u = 1 .. Len(w.pending) + 1 /\ u[Len(w.pending) + 1] = x /\ (\A k \in 1 .. Len(w.pending) : u[k] = w.pending[k])
      /\ DOMAIN w.pending = 1 .. Len(w.pending) /\ Len(w.pending) \in Nat
  BY <1>1, AppendLemma, ItemsLemma
<1> HIDE DEF t, x, u
<1>6. \A k \in DOMAIN u : u[k].batch # <<>> /\ u[k].name \in names BY <1>3, <1>1 DEF WorkerOk, x
<1>10. WorkerOk(v, t, pc, names, first) BY <1>6, <1>1 DEF WorkerOk, u, x
<1> QED BY <1>10 DEF t

LEMMA TakeBatchControl ==
    ASSUME TypeOK, Control, TakeBatch
    PROVE  TypeOK' /\ Control'
<1>1. UNCHANGED <<group, inc, pos, fetch, disk, folder, buffer, gate, primary>> /\ queue' = Tail(queue)
      /\ worker.current = <<>> /\ ~worker.closed /\ queue # <<>>
  BY DEF TakeBatch, writeVars, fetchVars
<1>2. worker \in Worker /\ queue \in Seq(Item) /\ WorkerOk(worker, queue, fetch.pc, DOMAIN inc, primary)
  BY DEF TypeOK, Control
<1>3. queue' \in Seq(Item) /\ Head(queue) \in Item /\ Head(queue) = queue[1] /\ 1 \in DOMAIN queue /\ DOMAIN queue' = 1 .. (Len(queue) - 1) /\ Len(queue) \in Nat
  BY Zenon, <1>1, <1>2, TailLemma
<1>4. worker.pending \in Seq(Item) /\ Append(worker.pending, Head(queue)) \in Seq(Item)
  BY Zenon, <1>2, <1>3, WorkerTypes, AppendLemma
<1> DEFINE p == Append(worker.pending, Head(queue))
           started == [worker EXCEPT !.pending = p]
<1>5. started \in Worker BY Zenon, <1>2, <1>4, WorkerTypes
<1>6. /\ started.pending = p /\ started.current = worker.current /\ started.rows = worker.rows /\ started.closed = worker.closed
      /\ started.ended = worker.ended /\ started.raised = worker.raised /\ started.storing = worker.storing /\ started.failure = worker.failure
  BY <1>2 DEF Worker
<1> HIDE DEF p, started
<1>7. \/ Head(queue) = End /\ worker' = [worker EXCEPT !.closed = TRUE]
      \/ Head(queue) # End /\ worker' = started
      \/ Head(queue) # End /\ worker' = [Remember(started, "error") EXCEPT !.storing = FALSE]
  BY Zenon DEF TakeBatch, started, p
<1>8. CASE Head(queue) = End /\ worker' = [worker EXCEPT !.closed = TRUE]
  <2>1. worker' \in Worker BY Zenon, <1>2, <1>8, WorkerTypes
  <2>3. Len(queue) = 1 /\ fetch.pc = "join" BY <1>2, <1>3, <1>8 DEF WorkerOk
  <2>7. WorkerOk(worker', queue', fetch.pc, DOMAIN inc, primary)
    BY <1>1, <1>2, <2>3, <1>8, <1>3 DEF WorkerOk, Joined, Worker
  <2> QED BY <1>1, <2>7, <1>3, <2>1 DEF Control, TypeOK
<1>9. CASE Head(queue) # End /\ worker' = started
  <2>1. ~started.storing => started.failure = "error" BY <1>2, <1>6 DEF WorkerOk
  <2>2. WorkerOk(worker', queue', fetch.pc, DOMAIN inc, primary)
    BY <1>1, <1>2, <1>4, <1>6, <1>9, <2>1, TakeOk DEF p
  <2> QED BY <1>1, <2>2, <1>3, <1>5, <1>9 DEF Control, TypeOK
<1>10. CASE Head(queue) # End /\ worker' = [Remember(started, "error") EXCEPT !.storing = FALSE]
  <2> DEFINE r == Remember(started, "error")
  <2>1. /\ r \in Worker /\ r.failure = "error" /\ (r.raised => started.raised)
        /\ r.pending = started.pending /\ r.current = started.current /\ r.rows = started.rows /\ r.closed = started.closed /\ r.ended = started.ended
    BY <1>5, RememberLemma
  <2> HIDE DEF r
  <2>2. worker' = [r EXCEPT !.storing = FALSE] BY Zenon, <1>10 DEF r
  <2>3. worker' \in Worker BY Zenon, <2>1, <2>2, WorkerTypes
  <2>4. /\ worker'.pending = p /\ worker'.current = worker.current /\ worker'.rows = worker.rows /\ worker'.closed = worker.closed
        /\ worker'.ended = worker.ended /\ (worker'.raised => worker.raised) /\ worker'.failure = "error"
    BY <1>6, <2>1, <2>2 DEF Worker
  <2>5. WorkerOk(worker', queue', fetch.pc, DOMAIN inc, primary)
    BY <1>1, <1>2, <1>4, <1>10, <2>4, TakeOk DEF p
  <2> QED BY <1>1, <2>5, <1>3, <2>3 DEF Control, TypeOK
<1> QED BY <1>7, <1>8, <1>9, <1>10

\* An increment's counters change, not its batch.
LEMMA SameBatches ==
    ASSUME NEW f, NEW i, NEW j, DOMAIN j = DOMAIN i, \A n \in DOMAIN i : j[n].batch = i[n].batch, NEW first, NEW buf
    PROVE  /\ FetchOk(f, i, first) => FetchOk(f, j, first)
           /\ BuffersOk(f, i, buf) => BuffersOk(f, j, buf)
<1> QED BY DEF FetchOk, BuffersOk

LEMMA SettleBatchControl ==
    ASSUME TypeOK, Control, SettleBatch
    PROVE  TypeOK' /\ Control'
<1> DEFINE n == worker.current[1].name
           c == inc[n].settled + Len(worker.current[1].batch)
           e == [inc[n] EXCEPT !.settled = c]
           r == IF worker.stop THEN Remember(worker, "stop") ELSE worker
<1>1. UNCHANGED <<group, pos, fetch, disk, folder, buffer, queue, gate, primary>> /\ worker.current # <<>> /\ worker.rows = <<>>
      /\ worker' = [r EXCEPT !.current = <<>>, !.stop = FALSE] /\ inc' = [inc EXCEPT ![n] = e]
  BY DEF SettleBatch, writeVars
<1>2. worker \in Worker /\ queue \in Seq(Item) /\ WorkerOk(worker, queue, fetch.pc, DOMAIN inc, primary)
  BY DEF TypeOK, Control
<1>3. Len(worker.current) = 1 /\ n \in DOMAIN inc BY <1>1, <1>2 DEF WorkerOk
<1>4. inc[n] \in Inc BY <1>3 DEF TypeOK
<1>5. c \in Nat
  <2>1. worker.current \in Seq(Item) BY Zenon, <1>2, WorkerTypes
  <2>2. worker.current[1] \in Item BY <1>3, <2>1, ItemsLemma
  <2> QED BY <2>2, <1>4, IncFields DEF Item
<1> HIDE DEF n, c
<1>6. e \in Inc /\ e.batch = inc[n].batch
  <2>1. e \in Inc BY <1>4, <1>5, IncTypes
  <2> QED BY <1>4, <2>1 DEF Inc
<1> HIDE DEF e
<1>7. inc' \in [DOMAIN inc -> Inc] /\ DOMAIN inc' = DOMAIN inc BY <1>1, <1>6, IncUpdate DEF TypeOK
<1>8. \A m \in DOMAIN inc : inc'[m].batch = inc[m].batch BY <1>1, <1>6 DEF TypeOK
<1>9. /\ r \in Worker /\ (r.raised => worker.raised) /\ (worker.failure = "error" => r.failure = "error")
      /\ r.pending = worker.pending /\ r.current = worker.current /\ r.rows = worker.rows /\ r.closed = worker.closed /\ r.ended = worker.ended /\ r.storing = worker.storing
  BY <1>2, RememberLemma
<1> HIDE DEF r
<1>10. worker' \in Worker BY Zenon, <1>1, <1>9, WorkerTypes
<1>13. WorkerOk(worker', queue, fetch.pc, DOMAIN inc, primary) BY <1>1, <1>2, <1>9 DEF WorkerOk, Worker
<1>14. FetchOk(fetch, inc', primary) /\ BuffersOk(fetch, inc', buffer) BY <1>7, <1>8, SameBatches DEF Control
<1> QED BY <1>1, <1>7, <1>13, <1>14, <1>10 DEF Control, TypeOK

LEMMA StoredType ==
    ASSUME NEW m \in Manifest, NEW asof \in Offset
    PROVE  /\ Stored(m, asof) \in Manifest
           /\ Stored(m, asof).shards = m.shards /\ Stored(m, asof).fetched = asof.fetched
           /\ Stored(m, asof).skipped = asof.skipped /\ Stored(m, asof).dropped = asof.dropped
           /\ Stored(m, asof).exhausted = m.exhausted /\ Stored(m, asof).reached = m.reached
<1> DEFINE SS == Seq(Shard)
<1>1. Manifest = [shards : SS, fetched : Nat, skipped : Nat, dropped : Nat, exhausted : BOOLEAN, reached : Nat \cup {NoLimit}]
  BY DEF Manifest
<1> HIDE DEF SS, Manifest
<1> QED BY <1>1 DEF Stored, Offset

LEMMA RecordType ==
    ASSUME NEW m \in Manifest, NEW i \in Inc, NEW rows \in Seq(Row), rows # <<>>
    PROVE  RecordShard(m, i, rows) \in Manifest
<1> DEFINE l == rows[Len(rows)]
           asof == AsOf(i, l.progress)
           ids == [j \in DOMAIN rows |-> rows[j].id]
           x == [rows |-> ids, asof |-> asof]
           m2 == [m EXCEPT !.shards = Append(m.shards, x)]
<1>1. l \in Row BY IdsLemma
<1>2. i.base \in Offset BY IncFields
<1>3. asof \in Offset BY <1>1, <1>2, AsOfType DEF Row
<1>4. ids \in Seq(Nat) BY IdsLemma DEF Ids
<1> HIDE DEF asof, ids, l
<1>5. x \in Shard BY <1>3, <1>4 DEF Shard
<1> HIDE DEF x
<1> DEFINE t == Append(m.shards, x)
<1>7. t \in Seq(Shard) BY <1>5, AppendLemma DEF Manifest
<1> HIDE DEF t
<1>8. [m EXCEPT !.shards = t] \in Manifest BY <1>7 DEF Manifest
<1>9. RecordShard(m, i, rows) = Stored([m EXCEPT !.shards = t], asof) BY DEF RecordShard, t, x, ids, asof, l
<1> QED BY <1>3, <1>8, <1>9, StoredType

LEMMA ManifestUpdate ==
    ASSUME NEW D, NEW f \in [D -> Manifest], NEW n, NEW m \in Manifest
    PROVE  [f EXCEPT ![n] = m] \in [D -> Manifest]
<1> HIDE DEF Manifest
<1> QED OBVIOUS

LEMMA BufferUpdate ==
    ASSUME NEW D, NEW f \in [D -> Seq(Row)], NEW n, NEW rows \in Seq(Row)
    PROVE  [f EXCEPT ![n] = rows] \in [D -> Seq(Row)]
<1> HIDE DEF Row
<1> QED OBVIOUS

LEMMA FinishBatchControl ==
    ASSUME TypeOK, Control, FinishBatch
    PROVE  TypeOK' /\ Control'
<1> DEFINE item == Head(worker.pending)
           n == item.name
           p == Tail(worker.pending)
           cur == <<item>>
           taken == [worker EXCEPT !.pending = p, !.current = cur]
           fitting == Fitting(n, item.batch)
           d == inc[n].dropped + (Len(item.batch) - Len(fitting))
           e == [inc[n] EXCEPT !.dropped = d]
<1>1. UNCHANGED <<group, pos, fetch, disk, folder, buffer, queue, gate, primary>> /\ worker.current = <<>> /\ worker.pending # <<>>
  BY DEF FinishBatch, writeVars
<1>2. worker \in Worker /\ WorkerOk(worker, queue, fetch.pc, DOMAIN inc, primary) BY DEF TypeOK, Control
<1>3. /\ p \in Seq(Item) /\ item \in Item /\ item = worker.pending[1] /\ 1 \in DOMAIN worker.pending
      /\ DOMAIN p = 1 .. (Len(worker.pending) - 1)
      /\ \A k \in DOMAIN p : p[k] = worker.pending[k + 1] /\ k + 1 \in DOMAIN worker.pending
  <2>1. worker.pending \in Seq(Item) BY Zenon, <1>2, WorkerTypes
  <2> QED BY Zenon, <1>1, <2>1, TailLemma
<1>4. cur \in Seq(Item) /\ Len(cur) = 1 /\ cur[1] = item /\ cur # <<>> BY <1>3
<1>5. item.batch \in Seq(Row) /\ n \in DOMAIN inc BY <1>2, <1>3 DEF Item, WorkerOk
<1>6. inc[n] \in Inc BY <1>5 DEF TypeOK
<1>7. inc[n].dropped \in Nat BY <1>6, IncFields
<1>8. fitting \in Seq(Row) /\ d \in Nat
  <2>1. fitting \in Seq(Row) /\ Len(fitting) + LongsTo(item.batch, Len(item.batch)) = Len(item.batch)
    BY <1>5, <1>7, FittingLemma
  <2>2. LongsTo(item.batch, Len(item.batch)) \in Nat /\ Len(item.batch) \in Nat BY <1>5, LongsLemma, IdsLemma
  <2> HIDE DEF fitting, item
  <2> QED BY <1>7, <2>1, <2>2, IdsLemma, SMTT(30), Z3T(30)
<1>9. taken \in Worker BY Zenon, <1>2, <1>3, <1>4, WorkerTypes
<1>10. /\ taken.pending = p /\ taken.current = cur /\ taken.rows = worker.rows /\ taken.storing = worker.storing /\ taken.failure = worker.failure
       /\ taken.raised = worker.raised /\ taken.closed = worker.closed /\ taken.ended = worker.ended
  BY <1>2 DEF Worker
<1>11. worker.rows = <<>> /\ ~worker.ended /\ fetch.pc # "idle" /\ ~Joined(fetch.pc)
  BY <1>1, <1>2 DEF WorkerOk
<1> HIDE DEF fitting, d, e, taken
<1>13. \/ worker.storing /\ worker' = [taken EXCEPT !.rows = fitting] /\ inc' = [inc EXCEPT ![n] = e]
       \/ worker' = [Remember(taken, "error") EXCEPT !.storing = FALSE] /\ inc' = inc
       \/ ~worker.storing /\ worker' = taken /\ inc' = inc
  BY DEF FinishBatch, fitting, d, e, taken
<1>14. DOMAIN inc' = DOMAIN inc /\ inc' \in [DOMAIN inc -> Inc] /\ \A m \in DOMAIN inc : inc'[m].batch = inc[m].batch
  <2>1. CASE inc' = inc BY <2>1 DEF TypeOK
  <2>2. CASE inc' = [inc EXCEPT ![n] = e]
    <3>1. e \in Inc /\ e.batch = inc[n].batch
      <4>1. e \in Inc BY <1>6, <1>8, IncTypes DEF e
      <4> QED BY Zenon, <1>6, <4>1 DEF Inc, e
    <3> HIDE DEF n
    <3> QED BY <2>2, <3>1, IncUpdate DEF TypeOK
  <2> QED BY <1>13, <2>1, <2>2
<1> HIDE DEF cur, p, n, item
<1>15. /\ worker' \in Worker /\ worker'.pending = p /\ worker'.current = cur /\ worker'.closed = worker.closed /\ worker'.ended = worker.ended
       /\ (worker'.raised => worker.raised) /\ (~worker'.storing => worker'.failure = "error") /\ (worker'.rows # <<>> => worker'.storing)
  <2>1. CASE worker.storing /\ worker' = [taken EXCEPT !.rows = fitting]
    <3>1. worker' \in Worker BY Zenon, <1>8, <1>9, <2>1, WorkerTypes
    <3>2. worker'.storing = TRUE BY <1>2, <1>9, <1>10, <2>1 DEF Worker
    <3> QED BY <3>1, <3>2, <1>9, <1>10, <2>1 DEF Worker
  <2>2. CASE worker' = [Remember(taken, "error") EXCEPT !.storing = FALSE]
    <3> DEFINE r == Remember(taken, "error")
    <3>1. /\ r \in Worker /\ r.failure = "error" /\ (r.raised => taken.raised)
          /\ r.pending = taken.pending /\ r.current = taken.current /\ r.rows = taken.rows /\ r.closed = taken.closed /\ r.ended = taken.ended
      BY <1>9, RememberLemma
    <3> HIDE DEF r
    <3>2. worker' = [r EXCEPT !.storing = FALSE] BY <2>2 DEF r
    <3>3. worker' \in Worker BY <3>1, <3>2, WorkerTypes
    <3> QED BY <3>3, <1>10, <1>11, <3>1, <3>2 DEF Worker
  <2>3. CASE ~worker.storing /\ worker' = taken BY <1>2, <2>3, <1>9, <1>10, <1>11 DEF WorkerOk
  <2> QED BY <1>13, <2>1, <2>2, <2>3
<1>17. WorkerOk(worker', queue, fetch.pc, DOMAIN inc, primary)
  BY <1>4, <1>5, <1>2, <1>11, <1>15, <1>3 DEF n, WorkerOk
<1>18. FetchOk(fetch, inc', primary) /\ BuffersOk(fetch, inc', buffer) BY <1>14, SameBatches DEF Control
<1> QED BY <1>1, <1>14, <1>17, <1>18, <1>15 DEF Control, TypeOK

LEMMA StoreRowControl ==
    ASSUME TypeOK, Control, StoreRow
    PROVE  TypeOK' /\ Control'
<1> DEFINE n == worker.current[1].name
           r == Head(worker.rows)
           rows == Append(buffer[n], r)
           s == Tail(worker.rows)
           next == [worker EXCEPT !.rows = s]
           shard == RecordShard(folder[n], inc[n], rows)
           k == inc[n].kept + 1
           e == [inc[n] EXCEPT !.kept = k]
           b == worker.stop \/ StopNow
<1>1. UNCHANGED <<group, pos, fetch, queue, primary>> /\ worker.rows # <<>> BY DEF StoreRow
<1>2. worker \in Worker /\ WorkerOk(worker, queue, fetch.pc, DOMAIN inc, primary) BY DEF TypeOK, Control
<1>3. worker.current # <<>> /\ worker.storing /\ Len(worker.current) = 1 /\ n \in DOMAIN inc /\ fetch.pc # "idle" /\ ~Joined(fetch.pc) /\ ~worker.ended
  BY <1>1, <1>2 DEF WorkerOk
<1>4. inc[n] \in Inc /\ n \in group /\ folder[n] \in Manifest /\ buffer[n] \in Seq(Row) BY <1>3 DEF TypeOK
<1>5. s \in Seq(Row) /\ r \in Row
  <2>1. worker.rows \in Seq(Row) BY Zenon, <1>2, WorkerTypes
  <2> QED BY Zenon, <1>1, <2>1, TailLemma
<1>6. rows \in Seq(Row) /\ rows # <<>> /\ <<>> \in Seq(Row) BY <1>4, <1>5, AppendLemma
<1>7. shard \in Manifest BY <1>4, <1>6, RecordType
<1>8. k \in Nat BY <1>4, IncFields
<1> HIDE DEF k
<1>9. e \in Inc /\ e.batch = inc[n].batch
  <2>1. e \in Inc BY Zenon, <1>4, <1>8, IncTypes
  <2> QED BY Zenon, <1>4, <2>1 DEF Inc
<1>10. next \in Worker BY Zenon, <1>2, <1>5, WorkerTypes
<1>11. /\ next.pending = worker.pending /\ next.current = worker.current /\ next.storing = worker.storing /\ next.failure = worker.failure
       /\ next.raised = worker.raised /\ next.closed = worker.closed /\ next.ended = worker.ended
  BY Zenon, <1>2 DEF Worker
<1>12. b \in BOOLEAN BY Zenon, <1>2, WorkerTypes DEF StopNow, TypeOK
<1> HIDE DEF n, r, rows, s, next, shard, e, b
<1>13. \/ /\ buffer' = [buffer EXCEPT ![n] = rows] /\ inc' = [inc EXCEPT ![n] = e] /\ worker' = next
          /\ UNCHANGED <<disk, folder, gate>>
       \/ /\ buffer' = [buffer EXCEPT ![n] = <<>>] /\ folder' = [folder EXCEPT ![n] = shard] /\ disk' = [disk EXCEPT ![n] = shard]
          /\ inc' = [inc EXCEPT ![n] = e] /\ worker' = [next EXCEPT !.stop = b] /\ gate' = [gate EXCEPT !.suspended = gate.suspended \/ StopNow]
       \/ /\ buffer' = [buffer EXCEPT ![n] = <<>>] /\ worker' = [Remember(worker, "error") EXCEPT !.storing = FALSE, !.stop = FALSE, !.rows = <<>>]
          /\ UNCHANGED <<disk, folder, inc, gate>>
  <2>2. [next EXCEPT !.stop = next.stop \/ StopNow] = [next EXCEPT !.stop = b] BY <1>2 DEF b, Worker, next
  <2> HIDE DEF StopNow
  <2> QED BY <2>2 DEF StoreRow, n, r, rows, s, next, shard, e, k
<1>14. DOMAIN inc' = DOMAIN inc /\ inc' \in [DOMAIN inc -> Inc] /\ \A m \in DOMAIN inc : inc'[m].batch = inc[m].batch
  <2>1. CASE inc' = inc BY <2>1 DEF TypeOK
  <2>2. CASE inc' = [inc EXCEPT ![n] = e]
    <3>2. DOMAIN inc' = DOMAIN inc /\ inc' \in [DOMAIN inc -> Inc] BY <2>2, <1>9, IncUpdate DEF TypeOK
    <3> QED BY <2>2, <1>9, <3>2 DEF TypeOK
  <2> QED BY <1>13, <2>1, <2>2
<1>15. buffer' \in [group -> Seq(Row)]
  <2>1. buffer \in [group -> Seq(Row)] BY DEF TypeOK
  <2>2. buffer' = [buffer EXCEPT ![n] = rows] \/ buffer' = [buffer EXCEPT ![n] = <<>>] BY <1>13
  <2> QED BY <1>1, <1>6, <2>1, <2>2, BufferUpdate
<1>16. disk' \in [group -> Manifest] /\ folder' \in [group -> Manifest]
  <2>1. disk \in [group -> Manifest] /\ folder \in [group -> Manifest] BY DEF TypeOK
  <2> QED BY <2>1, <1>13, <1>7, ManifestUpdate
<1>17. gate' \in [requested : BOOLEAN, suspended : BOOLEAN] BY <1>13 DEF TypeOK, StopNow
<1>18. /\ worker' \in Worker /\ worker'.pending = worker.pending /\ worker'.current = worker.current /\ worker'.closed = worker.closed
       /\ worker'.ended = worker.ended /\ (worker'.raised => worker.raised) /\ (~worker'.storing => worker'.failure = "error")
       /\ (worker'.rows # <<>> => worker'.storing)
  <2>1. CASE worker' = next BY <1>3, <1>10, <1>11, <2>1
  <2>2. CASE worker' = [next EXCEPT !.stop = b]
    <3>1. worker' \in Worker BY Zenon, <1>10, <1>12, <2>2, WorkerTypes
    <3>2. /\ worker'.pending = next.pending /\ worker'.current = next.current /\ worker'.storing = next.storing /\ worker'.failure = next.failure
          /\ worker'.raised = next.raised /\ worker'.closed = next.closed /\ worker'.ended = next.ended
      BY <1>10, <2>2 DEF Worker
    <3> QED BY <1>3, <1>11, <3>1, <3>2
  <2>3. CASE worker' = [Remember(worker, "error") EXCEPT !.storing = FALSE, !.stop = FALSE, !.rows = <<>>]
    <3> DEFINE v == Remember(worker, "error")
    <3>1. /\ v \in Worker /\ v.failure = "error" /\ (v.raised => worker.raised)
          /\ v.pending = worker.pending /\ v.current = worker.current /\ v.closed = worker.closed /\ v.ended = worker.ended
      BY <1>2, RememberLemma
    <3> HIDE DEF v
    <3>2. worker' = [v EXCEPT !.storing = FALSE, !.stop = FALSE, !.rows = <<>>] BY Zenon, <2>3 DEF v
    <3>3. worker' \in Worker BY Zenon, <3>1, <3>2, WorkerTypes
    <3> QED BY <3>1, <3>3, <3>2 DEF Worker
  <2> QED BY <1>13, <2>1, <2>2, <2>3
<1>19. TypeOK' BY <1>1, <1>14, <1>15, <1>16, <1>17, <1>18 DEF TypeOK
<1>20. WorkerOk(worker', queue, fetch.pc, DOMAIN inc, primary) BY <1>2, <1>3, <1>18 DEF WorkerOk
<1> QED BY <1>1, <1>14, <1>19, <1>20, SameBatches, <1>3 DEF Control, BuffersOk, Joined

LEMMA FlushWriterControl ==
    ASSUME TypeOK, Control, FlushWriter
    PROVE  TypeOK' /\ Control'
<1> DEFINE n == First(fetch.todo)
           t == fetch.todo \ {n}
           shard == RecordShard(folder[n], inc[n], buffer[n])
<1>1. UNCHANGED <<group, inc, pos, queue, worker>> /\ fetch.pc \in {"exit", "salvage"} /\ fetch.todo # {}
      /\ fetch' = [fetch EXCEPT !.todo = t] /\ buffer' = [buffer EXCEPT ![n] = <<>>]
  BY DEF FlushWriter
<1>2. fetch \in Fetch /\ WorkerOk(worker, queue, fetch.pc, DOMAIN inc, primary) /\ FetchOk(fetch, inc, primary) /\ BuffersOk(fetch, inc, buffer)
  BY DEF TypeOK, Control
<1>3. n \in fetch.todo BY <1>1, FirstLemma
<1> HIDE DEF n
<1>6. buffer[n] # <<>> => shard \in Manifest BY RecordType, <1>2, <1>3 DEF TypeOK, FetchOk
<1>7. \/ UNCHANGED <<disk, folder, gate, primary>>
      \/ UNCHANGED <<disk, folder>> /\ Record("error")
      \/ /\ buffer[n] # <<>> /\ folder' = [folder EXCEPT ![n] = shard] /\ disk' = [disk EXCEPT ![n] = shard]
         /\ Record("stop") \/ UNCHANGED <<gate, primary>>
  BY DEF FlushWriter, n
<1> HIDE DEF shard, t
<1>8. disk' \in [group -> Manifest] /\ folder' \in [group -> Manifest]
  <2>1. disk \in [group -> Manifest] /\ folder \in [group -> Manifest] BY DEF TypeOK
  <2>3. CASE UNCHANGED <<disk, folder>> BY <2>1, <2>3
  <2>4. CASE buffer[n] # <<>> /\ folder' = [folder EXCEPT ![n] = shard] /\ disk' = [disk EXCEPT ![n] = shard]
    BY <1>6, <2>4, <2>1, ManifestUpdate
  <2> QED BY <2>3, <2>4, <1>7
<1>9. primary' \in {"none", "stop", "error"} /\ gate' \in [requested : BOOLEAN, suspended : BOOLEAN] /\ (primary # "none" => primary' # "none")
  BY <1>7, RecordLemma, SameFailure
<1>10. fetch' \in Fetch /\ fetch'.pc = fetch.pc /\ fetch'.todo = t
  <2>1. t \in SUBSET UNION Group BY Zenon, <1>2, FetchTypes DEF t
  <2>2. [fetch EXCEPT !.todo = t] \in Fetch BY <1>2, <2>1, FetchTypes
  <2> QED BY Zenon, <1>1, <1>2, <2>2 DEF Fetch
<1>11. <<>> \in Seq(Row) OBVIOUS
<1>12. buffer' \in [group -> Seq(Row)] BY <1>1, <1>11, BufferUpdate DEF TypeOK
<1>13. TypeOK' BY <1>1, <1>8, <1>9, <1>10, <1>12 DEF TypeOK
<1>14. WorkerOk(worker, queue, fetch.pc, DOMAIN inc, primary') BY <1>2, <1>9, WorkerKeeps
<1>15. FetchOk(fetch', inc, primary') BY <1>1, <1>2, <1>10 DEF FetchOk, Closing, t, Pulling, Settling
<1> QED BY <1>1, <1>10, <1>13, <1>14, <1>15, <1>2 DEF Control, TypeOK, t, BuffersOk

LEMMA FinishedType ==
    ASSUME TypeOK, NEW n \in DOMAIN inc
    PROVE  Finished(n) \in Manifest
<1> DEFINE i == inc[n]
           m == folder[n]
           l == IF i.limit # NoLimit /\ i.base.fetched + i.consumed >= i.limit THEN i.limit ELSE NoLimit
           asof == AsOf(i, i)
<1>1. i \in Inc /\ m \in Manifest /\ disk[n] \in Manifest BY DEF TypeOK
<1> HIDE DEF i, m
<1>3. l \in Nat \cup {NoLimit} BY <1>1 DEF Inc
<1> HIDE DEF asof, l
<1>4. MarkExhausted(m, l) \in Manifest
  <2> DEFINE re == IF l # NoLimit THEN l ELSE m.reached
  <2>1. re \in Nat \cup {NoLimit} BY <1>1, <1>3 DEF Manifest
  <2>2. MarkExhausted(m, l) = [m EXCEPT !.exhausted = TRUE, !.reached = re] BY DEF MarkExhausted
  <2> HIDE DEF re
  <2> QED BY <1>1, <2>1, <2>2 DEF Manifest
<1> QED BY <1>1, <1>4, StoredType, IncFields, AsOfType DEF Finished, i, m, l, asof

LEMMA FinishIncrementControl ==
    ASSUME TypeOK, Control, FinishIncrement
    PROVE  TypeOK' /\ Control'
<1>1. UNCHANGED <<group, inc, pos, queue, worker, buffer, gate, primary>> /\ fetch.pc = "finish"
  BY DEF FinishIncrement
<1>2. fetch \in Fetch /\ WorkerOk(worker, queue, "finish", DOMAIN inc, primary) /\ FetchOk(fetch, inc, primary) /\ BuffersOk(fetch, inc, buffer)
  BY <1>1 DEF TypeOK, Control
<1>3. CASE fetch.todo = {}
  <2>1. fetch' = NoFetch /\ UNCHANGED <<disk, folder>> BY <1>3 DEF FinishIncrement
  <2>2. NoFetch \in Fetch /\ NoFetch.pc = "idle" /\ NoFetch.todo = {} BY NoneTypes DEF NoFetch
  <2>5. FetchOk(fetch', inc, primary) /\ BuffersOk(fetch', inc, buffer)
    BY <2>1, <2>2 DEF FetchOk, BuffersOk, Pulling, Settling, Closing
  <2> QED BY <1>1, <2>1, <2>2, <2>5, <1>2, AfterJoin DEF Control, TypeOK, Joined
<1>4. CASE fetch.todo # {}
  <2> DEFINE n == First(fetch.todo)
             t == fetch.todo \ {n}
             m == Finished(n)
  <2>1. disk' = [disk EXCEPT ![n] = m] /\ folder' = [folder EXCEPT ![n] = m] /\ fetch' = [fetch EXCEPT !.todo = t]
    BY <1>4 DEF FinishIncrement
  <2>2. n \in fetch.todo BY <1>4, FirstLemma
  <2> HIDE DEF n
  <2>4. m \in Manifest BY FinishedType, <1>2, <2>2 DEF FetchOk
  <2> HIDE DEF m, t
  <2>5. disk' \in [group -> Manifest] /\ folder' \in [group -> Manifest]
    BY Zenon, <2>1, <2>4, ManifestUpdate DEF TypeOK
  <2>6. fetch' \in Fetch /\ fetch'.pc = fetch.pc /\ fetch'.todo = t
    <3>1. t \in SUBSET UNION Group BY Zenon, <1>2, FetchTypes DEF t
    <3>2. [fetch EXCEPT !.todo = t] \in Fetch BY <1>2, <3>1, FetchTypes
    <3> QED BY <1>2, <2>1, <3>2 DEF Fetch
  <2>8. FetchOk(fetch', inc, primary) BY <1>1, <1>2, <2>6 DEF FetchOk, Closing, t, Pulling, Settling
  <2> QED BY <1>1, <1>2, <2>6, <2>8, <2>5 DEF Control, TypeOK, BuffersOk
<1> QED BY <1>3, <1>4

\* Nothing is under way.
LEMMA NothingUnderWay ==
    ASSUME NEW names, NEW first, NEW pc \in {"idle", "row"}
    PROVE  WorkerOk(NoWorker, <<>>, pc, names, first)
BY DEF WorkerOk, NoWorker, Joined

LEMMA CrashControl ==
    ASSUME TypeOK, Control, Crash
    PROVE  TypeOK' /\ Control'
<1>1. UNCHANGED <<group, disk, inc, pos, gate, primary>> /\ folder' = disk /\ fetch' = NoFetch /\ queue' = <<>> /\ worker' = NoWorker
      /\ buffer' = [n \in group |-> <<>>]
  BY DEF Crash
<1>2. NoFetch \in Fetch /\ NoFetch.pc = "idle" /\ NoFetch.todo = {} /\ NoWorker \in Worker
  BY NoneTypes DEF NoFetch
<1>6. FetchOk(fetch', inc, primary) /\ BuffersOk(fetch', inc, buffer')
  BY <1>1, <1>2 DEF FetchOk, BuffersOk, Pulling, Settling, Closing
<1> QED BY <1>1, <1>6, <1>2, NothingUnderWay DEF Control, TypeOK

LEMMA ReopenedType ==
    ASSUME NEW m \in Manifest, NEW limit \in Nat \cup {NoLimit}
    PROVE  /\ Reopened(m, limit) \in Manifest
           /\ Reopened(m, limit).shards = m.shards /\ Reopened(m, limit).fetched = m.fetched
           /\ Reopened(m, limit).skipped = m.skipped /\ Reopened(m, limit).dropped = m.dropped
<1> DEFINE SS == Seq(Shard)
<1>1. Manifest = [shards : SS, fetched : Nat, skipped : Nat, dropped : Nat, exhausted : BOOLEAN, reached : Nat \cup {NoLimit}]
  BY DEF Manifest
<1> HIDE DEF SS, Manifest
<1>2. Reopened(m, limit) = m \/ Reopened(m, limit) = [m EXCEPT !.exhausted = FALSE, !.reached = NoLimit]
  BY DEF Reopened
<1> QED BY <1>1, <1>2

LEMMA MarkedType ==
    ASSUME NEW m \in Manifest, NEW limit \in Nat \cup {NoLimit}
    PROVE  /\ MarkExhausted(m, limit) \in Manifest
           /\ MarkExhausted(m, limit).shards = m.shards /\ MarkExhausted(m, limit).fetched = m.fetched
           /\ MarkExhausted(m, limit).skipped = m.skipped /\ MarkExhausted(m, limit).dropped = m.dropped
           /\ MarkExhausted(m, limit).exhausted = TRUE
           /\ limit # NoLimit => MarkExhausted(m, limit).reached = limit
           /\ limit = NoLimit => MarkExhausted(m, limit).reached = m.reached
<1> DEFINE SS == Seq(Shard)
           re == IF limit # NoLimit THEN limit ELSE m.reached
<1>1. Manifest = [shards : SS, fetched : Nat, skipped : Nat, dropped : Nat, exhausted : BOOLEAN, reached : Nat \cup {NoLimit}]
  BY DEF Manifest
<1> HIDE DEF SS, Manifest
<1>2. re \in Nat \cup {NoLimit} BY <1>1
<1>3. MarkExhausted(m, limit) = [m EXCEPT !.exhausted = TRUE, !.reached = re] BY DEF MarkExhausted
<1>4. (limit # NoLimit => re = limit) /\ (limit = NoLimit => re = m.reached) OBVIOUS
<1> HIDE DEF re
<1> QED BY <1>1, <1>2, <1>3, <1>4

LEMMA RowsOfType ==
    ASSUME NEW m \in Manifest
    PROVE  RowsOf(m) = RowsIn(m.shards) /\ RowsOf(m) \in Seq(Nat) /\ Len(RowsOf(m)) \in Nat
<1> DEFINE x == [rows |-> <<>>, asof |-> [fetched |-> 0, skipped |-> 0, dropped |-> 0]]
<1>1. x \in Shard BY DEF Shard, Offset
<1>3. RowsIn(m.shards) \in Seq(Nat)
  <2> HIDE DEF x
  <2> QED BY <1>1, RowsInLemma DEF Manifest
<1> QED BY <1>3 DEF RowsOf, RowsIn

LEMMA IncrementType ==
    ASSUME NEW m \in Manifest, NEW needed \in Nat, NEW limit \in Nat \cup {NoLimit}
    PROVE  LET i == Increment(m, needed, limit) IN
           /\ i \in Inc
           /\ i.base = [fetched |-> m.fetched, skipped |-> m.skipped, dropped |-> m.dropped]
           /\ i.consumed = 0 /\ i.skipped = 0 /\ i.dropped = 0 /\ i.batch = <<>> /\ i.kept = 0 /\ i.needed = needed /\ i.limit = limit
           /\ needed <= Len(RowsOf(m)) + i.wanted
           /\ i.passive <=> i.wanted = 0
           /\ i.budget = IF limit = NoLimit THEN NoLimit ELSE limit - m.fetched
<1> DEFINE l == Len(RowsOf(m))
           wanted == IF needed > l THEN needed - l ELSE 0
           b == IF limit = NoLimit THEN NoLimit ELSE limit - m.fetched
           base == [fetched |-> m.fetched, skipped |-> m.skipped, dropped |-> m.dropped]
           passive == wanted = 0
<1>1. l \in Nat BY RowsOfType
<1> HIDE DEF l
<1>2. wanted \in Nat /\ needed <= l + wanted BY <1>1
<1>3. m.fetched \in Nat /\ base \in Offset BY DEF Manifest, Offset
<1>4. b \in Int \cup {NoLimit} BY <1>3
<1>5. Increment(m, needed, limit) =
       [wanted |-> wanted, passive |-> passive, needed |-> needed, limit |-> limit, budget |-> b, base |-> base,
        consumed |-> 0, skipped |-> 0, streak |-> 0, kept |-> 0, dropped |-> 0, batch |-> <<>>, submitted |-> 0, settled |-> 0]
  BY DEF Increment, l
<1>7. passive \in BOOLEAN /\ (passive <=> wanted = 0) OBVIOUS
<1> DEFINE SR == Seq(Row)
<1>10. <<>> \in SR OBVIOUS
<1> HIDE DEF wanted, b, base, passive, SR
<1>8. Increment(m, needed, limit) \in Inc BY <1>2, <1>3, <1>4, <1>5, <1>7, <1>10 DEF Inc
<1> QED BY <1>2, <1>5, <1>7, <1>8 DEF l, b, base

LEMMA LimitsType == Limits \subseteq Nat \cup {NoLimit} /\ Needs \subseteq Nat
BY DownloadAssumption

\* What a pass begins with.
LEMMA StartPassTypes ==
    ASSUME TypeOK, NEW limit \in Limits, NEW needed \in [group -> Needs], NEW opened, NEW n \in group, opened = Reopened(disk[n], limit)
    PROVE  /\ opened \in Manifest /\ MarkExhausted(opened, limit) \in Manifest
           /\ Increment(opened, needed[n], limit) \in Inc /\ Increment(opened, needed[n], limit).batch = <<>>
<1>1. limit \in Nat \cup {NoLimit} /\ needed[n] \in Nat BY LimitsType
<1>3. opened \in Manifest BY <1>1, ReopenedType DEF TypeOK
<1>4. MarkExhausted(opened, limit) \in Manifest BY <1>1, <1>3, MarkedType
<1> QED BY <1>3, <1>4, <1>1, IncrementType DEF Increment

LEMMA StartPassControl ==
    ASSUME TypeOK, Control, StartPass
    PROVE  TypeOK' /\ Control'
<1>1. PICK needed \in [group -> Needs], limit \in Limits :
        LET opened == [n \in group |-> Reopened(disk[n], limit)]
            spent == {n \in group : ~opened[n].exhausted /\ limit # NoLimit /\ limit <= opened[n].fetched}
            members == {n \in group \ spent : ~opened[n].exhausted}
            planned == [n \in members |-> Increment(opened[n], needed[n], limit)]
            reads == \E n \in members : ~planned[n].passive
        IN /\ disk' = [n \in group |-> IF n \in spent THEN MarkExhausted(opened[n], limit) ELSE disk[n]]
           /\ folder' = [n \in group |-> IF n \in spent THEN disk'[n] ELSE opened[n]]
           /\ inc' = planned
           /\ outcome' = IF reads THEN "none" ELSE "ok"
           /\ fetch' = [NoFetch EXCEPT !.pc = IF reads THEN "row" ELSE "idle"]
  BY Zenon DEF StartPass
<1> DEFINE opened == [n \in group |-> Reopened(disk[n], limit)]
           spent == {n \in group : ~opened[n].exhausted /\ limit # NoLimit /\ limit <= opened[n].fetched}
           members == {n \in group \ spent : ~opened[n].exhausted}
           planned == [n \in members |-> Increment(opened[n], needed[n], limit)]
           reads == \E n \in members : ~planned[n].passive
           pc == IF reads THEN "row" ELSE "idle"
<1>2. /\ disk' = [n \in group |-> IF n \in spent THEN MarkExhausted(opened[n], limit) ELSE disk[n]]
      /\ folder' = [n \in group |-> IF n \in spent THEN disk'[n] ELSE opened[n]]
      /\ inc' = planned
      /\ fetch' = [NoFetch EXCEPT !.pc = pc]
  BY <1>1
<1>3. \A n \in group : /\ opened[n] \in Manifest /\ MarkExhausted(opened[n], limit) \in Manifest
                       /\ Increment(opened[n], needed[n], limit) \in Inc /\ Increment(opened[n], needed[n], limit).batch = <<>>
  BY StartPassTypes
<1> HIDE DEF opened
<1>5. members \subseteq group OBVIOUS
<1>6. pc \in Pcs /\ pc \in {"idle", "row"} BY DEF Pcs
<1> HIDE DEF spent, members, pc, Manifest, Inc
<1>7. disk' \in [group -> Manifest] /\ folder' \in [group -> Manifest] BY <1>2, <1>3 DEF TypeOK
<1>8. DOMAIN inc' = members /\ inc' \in [members -> Inc] /\ \A n \in members : inc'[n].batch = <<>>
  BY <1>2, <1>3, <1>5
<1>9. fetch' \in Fetch /\ fetch'.pc = pc /\ fetch'.todo = {}
  <2>1. fetch' \in Fetch BY Zenon, <1>2, <1>6, NoneTypes, FetchTypes
  <2> QED BY Zenon, <1>2, <2>1 DEF NoFetch
<1>10. group' = group /\ pos' = 0 /\ queue' = <<>> /\ worker' = NoWorker /\ buffer' = [n \in group |-> <<>>]
       /\ gate' = [requested |-> FALSE, suspended |-> FALSE] /\ primary' = "none"
  BY DEF StartPass
<1>11. buffer' \in [group -> Seq(Row)] /\ queue' \in Seq(Item) BY <1>10
<1>12. group \in Group /\ 0 <= Len(Upstream[group]) BY UpstreamLemma DEF TypeOK
<1>13. TypeOK' BY <1>5, <1>7, <1>8, <1>9, <1>10, <1>11, <1>12, NoneTypes DEF TypeOK
<1>15. FetchOk(fetch', inc', primary') /\ BuffersOk(fetch', inc', buffer')
  BY <1>6, <1>9, <1>10 DEF FetchOk, BuffersOk, Pulling, Settling, Closing
<1> QED BY <1>13, <1>15, <1>6, <1>9, <1>10, NothingUnderWay DEF Control

LEMMA ReopenControl ==
    ASSUME TypeOK, Control, NEW n \in group, Reopen(n)
    PROVE  TypeOK' /\ Control'
<1> DEFINE m == [disk[n] EXCEPT !.exhausted = FALSE, !.reached = NoLimit]
<1>2. disk' = [disk EXCEPT ![n] = m] BY DEF Reopen, TypeOK
<1>3. m \in Manifest
  <2> DEFINE SS == Seq(Shard)
             d == disk[n]
  <2>1. Manifest = [shards : SS, fetched : Nat, skipped : Nat, dropped : Nat, exhausted : BOOLEAN, reached : Nat \cup {NoLimit}]
    BY DEF Manifest
  <2>2. d \in Manifest BY DEF TypeOK
  <2> HIDE DEF SS, d
  <2>3. [d EXCEPT !.exhausted = FALSE, !.reached = NoLimit] \in Manifest BY <2>1, <2>2
  <2> QED BY <2>3 DEF d
<1> HIDE DEF m
<1>4. disk' \in [group -> Manifest] BY <1>2, <1>3, ManifestUpdate DEF TypeOK
<1> QED BY <1>4 DEF TypeOK, Control, Reopen, fetchVars

LEMMA TruncateToControl ==
    ASSUME TypeOK, Control, NEW n \in group, NEW good \in 1 .. Len(disk[n].shards), TruncateTo(n, good)
    PROVE  TypeOK' /\ Control'
<1> DEFINE d == disk[n]
           sh == SubSeq(d.shards, 1, good)
           cut == [d EXCEPT !.shards = sh, !.exhausted = FALSE, !.reached = NoLimit]
           m == Stored(cut, d.shards[good].asof)
<1>2. disk' = [disk EXCEPT ![n] = m] BY DEF TruncateTo, Truncated
<1>3. d \in Manifest /\ d.shards \in Seq(Shard) BY DEF TypeOK, Manifest
<1>4. sh \in Seq(Shard) BY <1>3, InitialLemma
<1>5. d.shards[good].asof \in Offset
  <2>2. d.shards[good] \in Shard BY <1>3
  <2> QED BY <2>2 DEF Shard
<1> HIDE DEF d, sh
<1>6. cut \in Manifest BY <1>3, <1>4 DEF Manifest
<1> HIDE DEF cut
<1>7. m \in Manifest BY <1>5, <1>6, StoredType
<1> HIDE DEF m
<1> QED BY <1>2, <1>7, ManifestUpdate DEF TypeOK, Control, TruncateTo, fetchVars

LEMMA InitControl ==
    ASSUME Init
    PROVE  TypeOK /\ Control
<1>1. group \in Group BY DEF Init
<1>3. NoFetch \in Fetch /\ NoFetch.pc = "idle" /\ NoFetch.todo = {} /\ NoWorker \in Worker
  BY NoneTypes DEF NoFetch
<1>6. DOMAIN inc = {} /\ inc \in [DOMAIN inc -> Inc] BY DEF Init
<1>7. TypeOK
  <2>1. disk \in [group -> Manifest] /\ folder \in [group -> Manifest]
    <3> HIDE DEF Manifest, NewManifest
    <3> QED BY <1>1, NewIsGood DEF Init
  <2>2. buffer \in [group -> Seq(Row)] /\ queue \in Seq(Item)
    <3> HIDE DEF Row, Item
    <3> QED BY DEF Init
  <2> QED BY <1>1, <1>6, <2>1, <2>2, <1>3, UpstreamLemma DEF TypeOK, Init
<1>8. Control
  <2>2. FetchOk(NoFetch, inc, primary) /\ BuffersOk(NoFetch, inc, buffer)
    BY <1>3, <1>6 DEF FetchOk, BuffersOk, Pulling, Settling, Closing
  <2> QED BY <1>3, <2>2, NothingUnderWay DEF Init, Control
<1> QED BY <1>7, <1>8

LEMMA ControlStep ==
    ASSUME TypeOK, Control, [Next]_vars
    PROVE  TypeOK' /\ Control'
<1>1. CASE StartPass BY <1>1, StartPassControl
<1>2. CASE RequestStop BY <1>2, RequestStopControl
<1>3. CASE SkipRow BY <1>3, SkipRowControl
<1>4. CASE PullRow BY <1>4, PullRowControl
<1>5. CASE EndOfRows BY <1>5, EndOfRowsControl
<1>6. CASE SeeFailure BY <1>6, SeeFailureControl
<1>7. CASE Submit BY <1>7, SubmitControl
<1>8. CASE Put BY <1>8, PutControl
<1>9. CASE ReadKept BY <1>9, ReadKeptControl
<1>10. CASE CompareTarget BY <1>10, CompareTargetControl
<1>11. CASE Drain BY <1>11, DrainControl
<1>12. CASE SettlePending BY <1>12, SettlePendingControl
<1>13. CASE CloseRows BY <1>13, CloseRowsControl
<1>14. CASE CloseWorker BY <1>14, CloseWorkerControl
<1>15. CASE JoinWorker BY <1>15, JoinWorkerControl
<1>16. CASE FlushWriter BY <1>16, FlushWriterControl
<1>17. CASE WritersReleased BY <1>17, WritersReleasedControl
<1>18. CASE FinishIncrement BY <1>18, FinishIncrementControl
<1>19. CASE TakeBatch BY <1>19, TakeBatchControl
<1>20. CASE FinishBatch BY <1>20, FinishBatchControl
<1>21. CASE StoreRow BY <1>21, StoreRowControl
<1>22. CASE SettleBatch BY <1>22, SettleBatchControl
<1>23. CASE EndWorker BY <1>23, EndWorkerControl
<1>24. CASE Crash BY <1>24, CrashControl
<1>25. CASE \E n \in group : Reopen(n) BY <1>25, ReopenControl
<1>26. CASE \E n \in group : \E good \in 1 .. Len(disk[n].shards) : TruncateTo(n, good) BY <1>26, TruncateToControl
<1>27. CASE UNCHANGED vars BY <1>27 DEF TypeOK, Control, vars
<1> QED BY <1>1, <1>2, <1>3, <1>4, <1>5, <1>6, <1>7, <1>8, <1>9, <1>10, <1>11, <1>12, <1>13, <1>14, <1>15, <1>16, <1>17, <1>18,
           <1>19, <1>20, <1>21, <1>22, <1>23, <1>24, <1>25, <1>26, <1>27 DEF Next, FetchStep, WorkerStep

\* What an increment has read of its source.
Read(g, n, i) == i.base.skipped + i.skipped = Count(g, n, i.base.fetched + i.consumed, {"bad", "orphan"})
\* The loader is before the source's offset, or at the last row that was consumed.
At(g, n, k, i) == IF Passed(g, n, k) <= i.base.fetched THEN i.consumed = 0 ELSE Passed(g, n, k) = i.base.fetched + i.consumed
FlowOk(g, n, i, top, rows, line, first) ==
    \E w, h \in Nat :
        /\ top <= w /\ w <= h /\ h <= i.base.fetched + i.consumed
        /\ first = "none" => h = i.base.fetched + i.consumed
        /\ i.base.dropped + i.dropped = Count(g, n, w, {"long"})
        /\ StoredOk(g, n, i.base, rows, top, w)
        /\ LineOk(g, n, i.base, line, i.batch, w, h)

LEMMA OneMore ==
    ASSUME NEW a \in Nat, NEW b \in Nat, NEW c, NEW d, c = a, d = b + 1
    PROVE  c + d = a + b + 1
OBVIOUS

LEMMA FlowWeakens ==
    ASSUME NEW g, NEW n, NEW i, NEW j, NEW top, NEW rows, NEW line, NEW first, NEW first2,
           FlowOk(g, n, i, top, rows, line, first), first # "none" => first2 # "none",
           j.base = i.base, j.consumed = i.consumed, j.dropped = i.dropped, j.batch = i.batch
    PROVE  FlowOk(g, n, j, top, rows, line, first2)
BY DEF FlowOk

\* The next row of a source is pulled.
LEMMA FlowPasses ==
    ASSUME NEW g \in Group, NEW n, NEW i \in Inc, NEW j, NEW top, NEW rows, NEW line, NEW first,
           FlowOk(g, n, i, top, rows, line, "none"), NEW p \in OwnOf(g, n), Ord(g, p) = i.base.fetched + i.consumed + 1,
           Upstream[g][p].kind \notin Fits, j.base = i.base, j.consumed = i.consumed + 1, j.dropped = i.dropped, j.batch = i.batch
    PROVE  FlowOk(g, n, j, top, rows, line, first)
<1> DEFINE c == i.base.fetched + i.consumed
<1>1. PICK w \in Nat, h \in Nat :
        /\ top <= w /\ w <= h /\ h = c
        /\ i.base.dropped + i.dropped = Count(g, n, w, {"long"})
        /\ StoredOk(g, n, i.base, rows, top, w)
        /\ LineOk(g, n, i.base, line, i.batch, w, h)
  BY DEF FlowOk
<1>2. i.base.fetched \in Nat /\ i.consumed \in Nat BY IncFields DEF Offset
<1>3. j.base.fetched + j.consumed = c + 1 BY <1>2
<1> HIDE DEF c
<1>6. top <= w /\ w <= h + 1 /\ h + 1 = j.base.fetched + j.consumed /\ h + 1 \in Nat /\ h + 1 <= j.base.fetched + j.consumed
  BY <1>1, <1>3
<1> QED BY <1>1, <1>6, RowPassed, <1>2 DEF FlowOk

LEMMA FlowJoins ==
    ASSUME NEW g \in Group, NEW n, NEW i \in Inc, NEW j, NEW top, NEW rows, NEW line \in Seq(Item), NEW first,
           FlowOk(g, n, i, top, rows, line, "none"), NEW r \in Row, Placed(g, n, i.base, r), Ord(g, r.id) = i.base.fetched + i.consumed + 1,
           j.base = i.base, j.consumed = i.consumed + 1, j.dropped = i.dropped
    PROVE  /\ j.batch = Append(i.batch, r) => FlowOk(g, n, j, top, rows, line, first)
           /\ \A x \in Item : x.name = n /\ x.batch = Append(i.batch, r) /\ j.batch = <<>> => FlowOk(g, n, j, top, rows, Append(line, x), first)
<1> DEFINE c == i.base.fetched + i.consumed
<1>1. PICK w \in Nat, h \in Nat :
        /\ top <= w /\ w <= h /\ h = c
        /\ i.base.dropped + i.dropped = Count(g, n, w, {"long"})
        /\ StoredOk(g, n, i.base, rows, top, w)
        /\ LineOk(g, n, i.base, line, i.batch, w, h)
  BY DEF FlowOk
<1>2. i.base.fetched \in Nat /\ i.consumed \in Nat /\ i.batch \in Seq(Row) BY IncFields DEF Offset
<1>3. j.base.fetched + j.consumed = c + 1 BY <1>2, OneMore, SMTT(30)
<1>4. Ord(g, r.id) = h + 1 BY <1>1, <1>2
<1> HIDE DEF c
<1> DEFINE b == Append(i.batch, r)
<1>5. LineOk(g, n, i.base, line, b, w, h + 1) BY <1>1, <1>2, <1>4, RowJoins
<1> HIDE DEF b
<1>6. top <= w /\ w <= h + 1 /\ h + 1 = j.base.fetched + j.consumed /\ h + 1 \in Nat /\ h + 1 <= j.base.fetched + j.consumed
  BY <1>1, <1>3
<1>7. j.batch = b => FlowOk(g, n, j, top, rows, line, first) BY <1>1, <1>5, <1>6 DEF FlowOk
<1>8. ASSUME NEW x \in Item, x.name = n, x.batch = b, j.batch = <<>> PROVE FlowOk(g, n, j, top, rows, Append(line, x), first)
  BY <1>5, <1>8, LineGrow, <1>1, <1>6 DEF FlowOk
<1> QED BY <1>7, <1>8 DEF b

\* Its batch joins the line.
LEMMA FlowGrows ==
    ASSUME NEW g \in Group, NEW n, NEW i, NEW j, NEW top, NEW rows, NEW line \in Seq(Item), NEW first,
           FlowOk(g, n, i, top, rows, line, first), NEW x \in Item, x.name = n, x.batch = i.batch,
           j.base = i.base, j.consumed = i.consumed, j.dropped = i.dropped, j.batch = <<>>
    PROVE  FlowOk(g, n, j, top, rows, Append(line, x), first)
<1>1. PICK w \in Nat, h \in Nat :
        /\ top <= w /\ w <= h /\ h <= i.base.fetched + i.consumed
        /\ first = "none" => h = i.base.fetched + i.consumed
        /\ i.base.dropped + i.dropped = Count(g, n, w, {"long"})
        /\ StoredOk(g, n, i.base, rows, top, w)
        /\ LineOk(g, n, i.base, line, i.batch, w, h)
  BY DEF FlowOk
<1> QED BY <1>1, LineGrow DEF FlowOk

LEMMA FlowOther ==
    ASSUME NEW g \in Group, NEW n, NEW i, NEW top, NEW rows, NEW line \in Seq(Item), NEW first, NEW x \in Item, x.name # n \/ x.batch = <<>>
    PROVE  FlowOk(g, n, i, top, rows, Append(line, x), first) <=> FlowOk(g, n, i, top, rows, line, first)
<1> QED BY LineOther DEF FlowOk

\* The batch in front of the queue is gone with a failure.
LEMMA FlowDrops ==
    ASSUME NEW g \in Group, NEW n, NEW i \in Inc, NEW top, NEW rows, NEW line \in Seq(Item), NEW first, NEW first2, first2 # "none",
           NEW x \in Item, x.name = n, i.batch = <<>>, FlowOk(g, n, i, top, rows, Append(line, x), first)
    PROVE  FlowOk(g, n, i, top, rows, line, first2)
<1>1. PICK w \in Nat, h \in Nat :
        /\ top <= w /\ w <= h /\ h <= i.base.fetched + i.consumed
        /\ i.base.dropped + i.dropped = Count(g, n, w, {"long"})
        /\ StoredOk(g, n, i.base, rows, top, w)
        /\ LineOk(g, n, i.base, Append(line, x), i.batch, w, h)
  BY DEF FlowOk
<1>3. PICK k \in Nat : w <= k /\ k <= h /\ LineOk(g, n, i.base, line, <<>>, w, k) BY <1>1, LineDrop
<1> QED BY <1>1, <1>3, IncFields, SMTT(30), Z3T(30) DEF FlowOk, Offset

\* The oldest batch is tokenized.
LEMMA FlowOthersTail ==
    ASSUME NEW g \in Group, NEW n, NEW i, NEW top, NEW rows, NEW line \in Seq(Item), line # <<>>, NEW first,
           FlowOk(g, n, i, top, rows, line, first), Head(line).name # n
    PROVE  FlowOk(g, n, i, top, rows, Tail(line), first)
<1>1. PICK w \in Nat, h \in Nat :
        /\ top <= w /\ w <= h /\ h <= i.base.fetched + i.consumed
        /\ first = "none" => h = i.base.fetched + i.consumed
        /\ i.base.dropped + i.dropped = Count(g, n, w, {"long"})
        /\ StoredOk(g, n, i.base, rows, top, w)
        /\ LineOk(g, n, i.base, line, i.batch, w, h)
  BY DEF FlowOk
<1> QED BY <1>1, LineTailOther DEF FlowOk

LEMMA FlowTokenized ==
    ASSUME NEW g \in Group, NEW n, inc[n] \in Inc, NEW top \in Nat, NEW line \in Seq(Item), line # <<>>, NEW first, NEW j,
           FlowOk(g, n, inc[n], top, <<>>, line, first), Head(line).name = n, Head(line).batch # <<>>,
           j.base = inc[n].base, j.consumed = inc[n].consumed, j.batch = inc[n].batch,
           j.dropped = inc[n].dropped + (Len(Head(line).batch) - Len(Fitting(n, Head(line).batch)))
    PROVE  FlowOk(g, n, j, top, Fitting(n, Head(line).batch), Tail(line), first)
<1> DEFINE i == inc[n]
           b == Head(line).batch
           k == Ord(g, b[Len(b)].id)
<1>1. PICK w \in Nat, h \in Nat :
        /\ top <= w /\ w <= h /\ h <= i.base.fetched + i.consumed
        /\ first = "none" => h = i.base.fetched + i.consumed
        /\ i.base.dropped + i.dropped = Count(g, n, w, {"long"})
        /\ StoredOk(g, n, i.base, <<>>, top, w)
        /\ LineOk(g, n, i.base, line, i.batch, w, h)
  BY DEF FlowOk
<1>2. b \in Seq(Row) /\ b # <<>>
  <2>1. Head(line) \in Item BY TailLemma
  <2> QED BY <2>1 DEF Item
<1>3. i.base \in Offset /\ i.dropped \in Nat BY IncFields
<1>4. /\ k \in Nat /\ w <= k /\ k <= h
      /\ IdSet(b) = Kin(g, n, w, k, Fits) /\ BatchOk(g, n, i.base, b)
      /\ LineOk(g, n, i.base, Tail(line), i.batch, k, h)
  BY <1>1, LineTail
<1> HIDE DEF k
<1> HIDE DEF b
<1>7. /\ StoredOk(g, n, i.base, Fitting(n, b), top, k)
      /\ i.base.dropped + (i.dropped + (Len(b) - Len(Fitting(n, b)))) = Count(g, n, k, {"long"})
  BY <1>1, <1>2, <1>3, <1>4, TokenizedGood, NothingIn, SMTT(30), Z3T(30) DEF k, StoredOk
<1>8. top <= k BY <1>1, <1>4
<1>9. j.dropped = i.dropped + (Len(b) - Len(Fitting(n, b))) BY DEF b
<1>10. FlowOk(g, n, j, top, Fitting(n, b), Tail(line), first)
  <2>1. j.base.dropped + j.dropped = Count(g, n, k, {"long"}) BY <1>7, <1>9
  <2> QED BY <1>1, <1>4, <1>7, <1>8, <2>1 DEF FlowOk
<1> QED BY <1>10 DEF b

\* The batches submitted and not finished, in their order.
Line(w, q, f) ==
    IF f.pc \in {"submit", "put"} /\ f.batch # <<>>
    THEN Append(w.pending \o q, [name |-> f.name, batch |-> f.batch]) ELSE w.pending \o q
RowsAt(w, n) == IF w.current # <<>> /\ w.current[1].name = n THEN w.rows ELSE <<>>
Flows(f, w, first) == f.pc # "idle" /\ w.storing /\ (f.pc \in {"exit", "salvage"} => first = "none")
DoneIn(n, i) == ~i.passive /\ (Spent(i) \/ (n \in Instruct /\ i.kept >= i.wanted))

ManifestsOk(g, d, m) == \A n \in g : GoodManifest(g, n, d[n]) /\ GoodManifest(g, n, m[n])
ReadOk(g, f, i) == f.pc # "idle" => \A n \in DOMAIN i : Read(g, n, i[n])
BufferedOk(g, f, i, m, b) ==
    f.pc # "idle" => \A n \in DOMAIN i : StoredOk(g, n, i[n].base, b[n], m[n].fetched, TopOf(g, m[n].fetched, b[n]))
LoaderOk(g, f, i, p) == Pulling(f) => \A n \in DOMAIN i : DoneIn(n, i[n]) \/ At(g, n, p, i[n])
FlowingOk(g, f, i, w, q, m, b, first) ==
    Flows(f, w, first) => \A n \in DOMAIN i : (f.pc = "finish" => n \in f.todo) =>
        FlowOk(g, n, i[n], TopOf(g, m[n].fetched, b[n]), RowsAt(w, n), Line(w, q, f), first)

Data ==
    /\ ManifestsOk(group, disk, folder)
    /\ ReadOk(group, fetch, inc)
    /\ BufferedOk(group, fetch, inc, folder, buffer)
    /\ LoaderOk(group, fetch, inc, pos)
    /\ FlowingOk(group, fetch, inc, worker, queue, folder, buffer, primary)

LEMMA ConcatAppend ==
    ASSUME NEW S, NEW s \in Seq(S), NEW t \in Seq(S), NEW x \in S
    PROVE  s \o Append(t, x) = Append(s \o t, x)
<1> DEFINE u == s \o Append(t, x)
           v == Append(s \o t, x)
<1> HIDE DEF u, v
<1> QED BY SameSequence

LEMMA ConcatMoves ==
    ASSUME NEW S, NEW s \in Seq(S), NEW t \in Seq(S), t # <<>>
    PROVE  Append(s, Head(t)) \o Tail(t) = s \o t
<1> DEFINE u == Append(s, Head(t)) \o Tail(t)
           v == s \o t
<1> HIDE DEF u, v
<1> QED BY SameSequence

LEMMA TailConcat ==
    ASSUME NEW S, NEW s \in Seq(S), s # <<>>, NEW t \in Seq(S)
    PROVE  Tail(s) \o t = Tail(s \o t) /\ Head(s \o t) = Head(s) /\ s \o t # <<>>
<1> DEFINE u == Tail(s) \o t
           v == Tail(s \o t)
<1>1. Tail(s) \in Seq(S) /\ Len(Tail(s)) = Len(s) - 1 /\ Len(s) \in Nat /\ Len(s) > 0 OBVIOUS
<1>2. s \o t \in Seq(S) /\ Len(s \o t) = Len(s) + Len(t) /\ Len(t) \in Nat OBVIOUS
<1>3. s \o t # <<>> BY <1>1, <1>2
<1>4. u \in Seq(S) /\ v \in Seq(S) /\ Len(u) = Len(v) BY <1>1, <1>2, <1>3
<1>5. \A i \in 1 .. Len(u) : u[i] = v[i] BY <1>1, <1>2, <1>3
<1> HIDE DEF u, v
<1> QED BY <1>3, <1>1, <1>2, <1>4, <1>5, SameSequence DEF u, v

LEMMA BeforeLast ==
    ASSUME NEW l \in Nat, NEW i \in 1 .. l, i # l
    PROVE  i \in 1 .. l - 1 /\ i + 1 \in 1 .. l
OBVIOUS

LEMMA TailAppend ==
    ASSUME NEW S, NEW s \in Seq(S), s # <<>>, NEW x \in S
    PROVE  Append(Tail(s), x) = Tail(Append(s, x)) /\ Head(Append(s, x)) = Head(s) /\ Append(s, x) # <<>> /\ Tail(s) \in Seq(S)
<1> DEFINE u == Append(Tail(s), x)
           v == Tail(Append(s, x))
<1>1. Tail(s) \in Seq(S) /\ Len(Tail(s)) = Len(s) - 1 /\ Len(s) \in Nat /\ Len(s) > 0 OBVIOUS
<1>2. Append(s, x) \in Seq(S) /\ Len(Append(s, x)) = Len(s) + 1 OBVIOUS
<1>3. Append(s, x) # <<>> BY <1>1, <1>2
<1>4. u \in Seq(S) /\ v \in Seq(S) /\ Len(u) = Len(v) BY <1>1, <1>2, <1>3
<1>5. \A i \in 1 .. Len(u) : u[i] = v[i]
  <2> DEFINE t == Tail(s)
             a == Append(s, x)
  <2>1. Len(u) = Len(s) /\ u = Append(t, x) /\ v = Tail(a) BY <1>1
  <2>2. /\ t \in Seq(S) /\ Len(t) = Len(s) - 1 /\ \A i \in 1 .. Len(s) - 1 : t[i] = s[i + 1] BY <1>1
  <2>3. a \in Seq(S) /\ a # <<>> /\ Len(a) = Len(s) + 1 /\ (\A i \in 1 .. Len(s) : a[i] = s[i]) /\ a[Len(s) + 1] = x
    BY <1>1, <1>2, <1>3, AppendLemma
  <2>4. Len(v) = Len(s) /\ \A i \in 1 .. Len(s) : v[i] = a[i + 1] BY <2>1, <1>1, <2>3
  <2>5. (\A i \in 1 .. Len(s) - 1 : u[i] = t[i]) /\ u[Len(s)] = x BY <2>1, <2>2, AppendLemma, <1>1
  <2> HIDE DEF t, a, u, v
  <2> SUFFICES ASSUME NEW i \in 1 .. Len(s) PROVE u[i] = v[i] BY <2>1
  <2>6. CASE i = Len(s) BY <1>1, <2>3, <2>4, <2>5, <2>6
  <2>7. CASE i # Len(s)
    <3>1. i \in 1 .. Len(s) - 1 /\ i + 1 \in 1 .. Len(s) BY Zenon, <1>1, <2>7, BeforeLast
    <3> QED BY Zenon, <2>2, <2>3, <2>4, <2>5, <3>1
  <2> QED BY <2>6, <2>7
<1> HIDE DEF u, v
<1>7. u = v BY <1>4, <1>5, SameSequence
<1> QED BY <1>1, <1>3, <1>7, <1>2 DEF u, v

\* Nothing that the data speak of changes, except for failures.
LEMMA QuietData ==
    ASSUME Data, UNCHANGED <<group, disk, folder, buffer, pos>>, DOMAIN inc' = DOMAIN inc,
           \A n \in DOMAIN inc : /\ inc'[n].base = inc[n].base /\ inc'[n].consumed = inc[n].consumed /\ inc'[n].skipped = inc[n].skipped
                                 /\ inc'[n].dropped = inc[n].dropped /\ inc'[n].batch = inc[n].batch
                                 /\ DoneIn(n, inc[n]) => DoneIn(n, inc'[n]),
           fetch'.pc # "idle" => fetch.pc # "idle", Pulling(fetch') => Pulling(fetch),
           Flows(fetch', worker', primary') => Flows(fetch, worker, primary),
           fetch.pc # "finish", primary # "none" => primary' # "none",
           \A n \in DOMAIN inc : RowsAt(worker', n) = RowsAt(worker, n),
           Flows(fetch', worker', primary') => Line(worker', queue', fetch') = Line(worker, queue, fetch)
    PROVE  Data'
<1> HIDE DEF Flows, RowsAt, Line, DoneIn, FlowOk, GoodManifest, StoredOk, Read, At, TopOf
<1>4. LoaderOk(group', fetch', inc', pos') BY DEF LoaderOk, Data, At
<1>5. FlowingOk(group', fetch', inc', worker', queue', folder', buffer', primary')
  BY FlowWeakens DEF FlowingOk, Data
<1> QED BY <1>4, <1>5 DEF Data, ReadOk, Read, BufferedOk

LEMMA LineIs ==
    ASSUME NEW w, NEW q, NEW f
    PROVE  /\ f.pc \notin {"submit", "put"} \/ f.batch = <<>> => Line(w, q, f) = w.pending \o q
           /\ f.pc \in {"submit", "put"} /\ f.batch # <<>> => Line(w, q, f) = Append(w.pending \o q, [name |-> f.name, batch |-> f.batch])
BY DEF Line

LEMMA RequestStopData ==
    ASSUME Data, RequestStop
    PROVE  Data'
BY DEF Data, RequestStop, writeVars, fetchVars

LEMMA EndOfRowsData ==
    ASSUME TypeOK, Data, EndOfRows
    PROVE  Data'
<1>1. UNCHANGED <<group, inc, pos, disk, folder, buffer, queue, worker>> /\ fetch' = ToCleanup /\ fetch.pc = "row"
  BY DEF EndOfRows, writeVars
<1>4. fetch'.pc = "settle" BY <1>1, FetchBegins
<1>7. ~Pulling(fetch') BY <1>4 DEF Pulling
<1> HIDE DEF Data, Line, Flows, Pulling, RowsAt, DoneIn
<1> QED BY <1>1, <1>7, QuietData, <1>4, RecordLemma DEF Line, EndOfRows, Flows

LEMMA SeeFailureData ==
    ASSUME TypeOK, Data, SeeFailure
    PROVE  Data'
<1>1. UNCHANGED <<group, inc, pos, disk, folder, buffer, queue, worker, gate, primary>> /\ fetch' = [fetch EXCEPT !.pc = "drain"] /\ fetch.pc = "row"
  BY DEF SeeFailure, writeVars
<1>2. fetch'.pc = "drain" BY <1>1 DEF TypeOK, Fetch
<1>5. Pulling(fetch) BY <1>1 DEF Pulling
<1> HIDE DEF Data, Line, Flows, Pulling, RowsAt, DoneIn
<1> QED BY <1>1, <1>5, QuietData, <1>2 DEF Flows, Line

LEMMA PutData ==
    ASSUME TypeOK, Control, Data, Put
    PROVE  Data'
<1> DEFINE x == [name |-> fetch.name, batch |-> fetch.batch]
<1>1. UNCHANGED <<group, inc, pos, disk, folder, buffer, worker, gate, primary>> /\ fetch.pc = "put"
      /\ queue' = Append(queue, x) /\ fetch' = [fetch EXCEPT !.pc = fetch.back, !.batch = <<>>]
  BY DEF Put, writeVars
<1>2. fetch \in Fetch /\ worker \in Worker /\ queue \in Seq(Item) BY DEF TypeOK
<1>3. fetch.batch # <<>> /\ fetch.back \in {"target", "drain", "settle"} BY <1>1 DEF Control, FetchOk
<1>4. fetch'.pc = fetch.back /\ fetch'.back = fetch.back BY <1>1, <1>2 DEF Fetch
<1>5. x \in Item
  <2>1. fetch.name \in Names /\ fetch.batch \in Seq(Row) BY Zenon, <1>2, FetchTypes
  <2> QED BY Zenon, <2>1 DEF Item
<1>6. worker.pending \in Seq(Item) BY Zenon, <1>2, WorkerTypes
<1> DEFINE p == worker.pending
<1>7. p \o Append(queue, x) = Append(p \o queue, x)
  <2> HIDE DEF x, p
  <2>1. p \in Seq(Item) BY <1>6 DEF p
  <2> QED BY <1>2, <1>5, <2>1, ConcatAppend
<1>8. Line(worker', queue', fetch') = Line(worker, queue, fetch)
  <2>1. Line(worker, queue, fetch) = Append(p \o queue, x) BY <1>1, <1>3, LineIs
  <2>2. Line(worker', queue', fetch') = p \o Append(queue, x) BY <1>1, <1>3, <1>4, LineIs
  <2> QED BY <1>7, <2>1, <2>2
<1> HIDE DEF Data, Line, Flows, Pulling, RowsAt, DoneIn
<1> QED BY <1>1, <1>8, QuietData, <1>3, <1>4 DEF Flows, Pulling

LEMMA ReadKeptData ==
    ASSUME TypeOK, Control, Data, ReadKept
    PROVE  Data'
<1>1. UNCHANGED <<group, inc, pos, disk, folder, buffer, queue, worker, gate, primary>> /\ fetch.pc = "target"
      /\ fetch' = IF fetch.name \in Instruct THEN [fetch EXCEPT !.pc = "compare", !.kept = inc[fetch.name].kept] ELSE EndRow
  BY DEF ReadKept, writeVars
<1>2. fetch'.pc \in {"compare", "row", "settle"}
  <2>1. [fetch EXCEPT !.pc = "compare", !.kept = inc[fetch.name].kept].pc = "compare" BY DEF TypeOK, Fetch
  <2> QED BY <1>1, <2>1, FetchBegins
<1> HIDE DEF Data, Line, Flows, Pulling, RowsAt, DoneIn
<1> QED BY <1>1, QuietData, <1>2 DEF Line, Flows, Pulling

LEMMA DrainData ==
    ASSUME TypeOK, Control, Data, Drain
    PROVE  Data'
<1>1. UNCHANGED <<group, inc, pos, disk, folder, buffer, queue>> /\ fetch.pc = "drain" BY DEF Drain, writeVars
<1>5. worker'.pending = worker.pending /\ worker'.current = worker.current /\ worker'.rows = worker.rows /\ worker'.storing = worker.storing
  BY DEF TypeOK, Worker, Drain
<1>7. Line(worker', queue', fetch') = Line(worker, queue, fetch) BY <1>1, <1>5, FetchBegins DEF Line, Drain
<1>10. \A n \in DOMAIN inc : RowsAt(worker', n) = RowsAt(worker, n) BY <1>5 DEF RowsAt
<1> HIDE DEF Data, Line, Flows, Pulling, RowsAt, DoneIn
<1> QED BY <1>1, <1>7, <1>10, QuietData, <1>5 DEF Control, FetchOk, Pulling, Flows

LEMMA CloseRowsData ==
    ASSUME TypeOK, Control, Data, CloseRows
    PROVE  Data'
<1>1. UNCHANGED <<group, inc, pos, disk, folder, buffer, queue, worker>> /\ fetch' = AtCleanup("close") /\ fetch.pc = "settle"
  BY DEF CloseRows, writeVars
<1>4. fetch'.pc = "close" BY <1>1, AtCleanupLemma DEF Pcs
<1>7. ~Pulling(fetch') BY <1>4 DEF Pulling
<1> HIDE DEF Data, Line, Flows, Pulling, RowsAt, DoneIn
<1> QED BY <1>1, <1>7, QuietData, <1>4, RecordLemma DEF Line, CloseRows, Flows

LEMMA JoinWorkerData ==
    ASSUME TypeOK, Control, Data, JoinWorker
    PROVE  Data'
<1>1. UNCHANGED <<group, inc, pos, disk, folder, buffer, queue>> /\ fetch' = AtCleanup(IF primary' = "none" THEN "exit" ELSE "salvage") /\ fetch.pc = "join"
  BY DEF JoinWorker, writeVars
<1>3. worker'.pending = worker.pending /\ worker'.current = worker.current /\ worker'.rows = worker.rows /\ worker'.storing = worker.storing
  BY DEF TypeOK, Worker, JoinWorker
<1>4. primary # "none" => primary' # "none"
  <2>1. worker \in Worker BY Zenon DEF TypeOK
  <2>2. worker.failure \in {"none", "stop", "error"} BY Zenon, <2>1, WorkerTypes
  <2> QED BY RecordLemma, <2>2 DEF Unraised, JoinWorker
<1>5. fetch'.pc \in {"exit", "salvage"} BY <1>1, AtCleanupLemma DEF Pcs
<1>6. Line(worker', queue', fetch') = Line(worker, queue, fetch) BY <1>1, <1>3, <1>5 DEF Line
<1>7. Flows(fetch', worker', primary') => Flows(fetch, worker, primary) BY <1>1, <1>3 DEF Flows
<1>8. ~Pulling(fetch') BY <1>5 DEF Pulling
<1>9. \A n \in DOMAIN inc : RowsAt(worker', n) = RowsAt(worker, n) BY <1>3 DEF RowsAt
<1> HIDE DEF Data, Line, Flows, Pulling, RowsAt, DoneIn
<1> QED BY <1>1, <1>4, <1>6, <1>7, <1>8, <1>9, QuietData

LEMMA WritersReleasedData ==
    ASSUME TypeOK, Control, Data, WritersReleased
    PROVE  Data'
<1>1. UNCHANGED <<group, inc, pos, disk, folder, buffer, queue, worker, gate, primary>> /\ fetch.pc \in {"exit", "salvage"}
      /\ (fetch' = NoFetch \/ (primary = "none" /\ fetch' = AtCleanup("finish")))
  BY DEF WritersReleased, writeVars
<1>2. fetch'.pc = "idle" \/ (fetch'.pc = "finish" /\ primary = "none")
  <2>1. "finish" \in Pcs /\ NoFetch.pc = "idle" BY DEF Pcs, NoFetch
  <2> QED BY <1>1, <2>1, AtCleanupLemma
<1> HIDE DEF Data, Line, Flows, Pulling, RowsAt, DoneIn
<1> QED BY <1>1, QuietData, <1>2 DEF Line, Flows, Pulling

LEMMA EndWorkerData ==
    ASSUME TypeOK, Data, EndWorker
    PROVE  Data'
<1>1. UNCHANGED <<group, inc, pos, fetch, disk, folder, buffer, queue, gate, primary>> /\ worker' = [worker EXCEPT !.ended = TRUE]
  BY DEF EndWorker, writeVars, fetchVars
<1>2. worker'.pending = worker.pending /\ worker'.current = worker.current /\ worker'.rows = worker.rows /\ worker'.storing = worker.storing
  BY <1>1 DEF TypeOK, Worker
<1> QED BY <1>1, <1>2 DEF Data, FlowingOk, Flows, RowsAt, Line

LEMMA SettleBatchData ==
    ASSUME TypeOK, Control, Data, SettleBatch
    PROVE  Data'
<1> DEFINE n == worker.current[1].name
           c == inc[n].settled + Len(worker.current[1].batch)
           e == [inc[n] EXCEPT !.settled = c]
           r == IF worker.stop THEN Remember(worker, "stop") ELSE worker
<1>1. UNCHANGED <<group, pos, fetch, disk, folder, buffer, queue, gate, primary>> /\ worker.current # <<>> /\ worker.rows = <<>>
      /\ worker' = [r EXCEPT !.current = <<>>, !.stop = FALSE] /\ inc' = [inc EXCEPT ![n] = e]
  BY DEF SettleBatch, writeVars
<1>2. worker \in Worker /\ WorkerOk(worker, queue, fetch.pc, DOMAIN inc, primary) BY DEF TypeOK, Control
<1>3. n \in DOMAIN inc /\ fetch.pc # "idle" /\ fetch.pc # "finish" BY <1>1, <1>2 DEF WorkerOk, Joined
<1> HIDE DEF n, c
<1>5. /\ e.base = inc[n].base /\ e.consumed = inc[n].consumed /\ e.skipped = inc[n].skipped /\ e.dropped = inc[n].dropped /\ e.batch = inc[n].batch
      /\ e.passive = inc[n].passive /\ e.kept = inc[n].kept /\ e.wanted = inc[n].wanted /\ e.budget = inc[n].budget
  BY <1>3 DEF Inc, TypeOK
<1> HIDE DEF e
<1>7. DOMAIN inc' = DOMAIN inc /\ inc'[n] = e /\ \A m \in DOMAIN inc : m # n => inc'[m] = inc[m] BY <1>1, <1>3
<1>8. \A m \in DOMAIN inc : /\ inc'[m].base = inc[m].base /\ inc'[m].consumed = inc[m].consumed /\ inc'[m].skipped = inc[m].skipped
                            /\ inc'[m].dropped = inc[m].dropped /\ inc'[m].batch = inc[m].batch
                            /\ DoneIn(m, inc[m]) => DoneIn(m, inc'[m])
  BY <1>5, <1>7 DEF DoneIn, Spent
<1>9. r \in Worker /\ r.pending = worker.pending /\ r.storing = worker.storing BY <1>2, RememberLemma
<1> HIDE DEF r
<1>10. worker'.pending = worker.pending /\ worker'.current = <<>> /\ worker'.storing = worker.storing
  BY <1>1, <1>9 DEF Worker
<1>11. \A m \in DOMAIN inc : RowsAt(worker', m) = RowsAt(worker, m) BY <1>1, <1>10 DEF RowsAt
<1>12. Line(worker', queue', fetch') = Line(worker, queue, fetch) BY <1>1, <1>10 DEF Line
<1>13. Flows(fetch', worker', primary') => Flows(fetch, worker, primary) BY <1>1, <1>10 DEF Flows
<1>14. UNCHANGED <<group, disk, folder, buffer, pos>> /\ fetch' = fetch /\ primary' = primary BY <1>1
<1> HIDE DEF Data, Line, Flows, Pulling, RowsAt, DoneIn
<1> QED BY <1>3, <1>7, <1>8, <1>11, <1>12, <1>13, <1>14, QuietData

LEMMA TakeBatchData ==
    ASSUME TypeOK, Control, Data, TakeBatch
    PROVE  Data'
<1>1. UNCHANGED <<group, inc, pos, fetch, disk, folder, buffer, gate, primary>> /\ queue' = Tail(queue)
      /\ worker.current = <<>> /\ ~worker.closed /\ queue # <<>>
  BY DEF TakeBatch, writeVars, fetchVars
<1>2. worker \in Worker /\ queue \in Seq(Item) /\ WorkerOk(worker, queue, fetch.pc, DOMAIN inc, primary)
  BY Zenon DEF TypeOK, Control
<1>3. worker.pending \in Seq(Item) BY Zenon, <1>2, WorkerTypes
<1>4. Head(queue) \in Item /\ Head(queue) = queue[1] /\ 1 \in DOMAIN queue /\ DOMAIN queue' = 1 .. (Len(queue) - 1) /\ Len(queue) \in Nat
  BY <1>1, <1>2, TailLemma
<1> DEFINE p == Append(worker.pending, Head(queue))
           started == [worker EXCEPT !.pending = p]
<1>5. p \in Seq(Item) BY <1>3, <1>4, AppendLemma
<1>6. started \in Worker /\ started.pending = p /\ started.current = <<>> /\ started.storing = worker.storing
  <2>1. started \in Worker BY Zenon, <1>2, <1>5, WorkerTypes
  <2> QED BY Zenon, <1>1, <1>2, <2>1 DEF Worker
<1> HIDE DEF p, started
<1>7. \/ Head(queue) = End /\ worker' = [worker EXCEPT !.closed = TRUE]
      \/ Head(queue) # End /\ worker' = started
      \/ Head(queue) # End /\ worker' = [Remember(started, "error") EXCEPT !.storing = FALSE]
  BY DEF TakeBatch, started, p
<1>8. \/ Head(queue) = End /\ worker'.pending = worker.pending /\ worker'.current = <<>> /\ worker'.storing = worker.storing
      \/ Head(queue) # End /\ worker'.pending = p /\ worker'.current = <<>> /\ (worker'.storing => worker.storing)
  <2>1. CASE Head(queue) = End /\ worker' = [worker EXCEPT !.closed = TRUE] BY <1>2, <2>1, <1>1 DEF Worker
  <2>2. CASE Head(queue) # End /\ worker' = started BY <1>6, <2>2
  <2>3. CASE Head(queue) # End /\ worker' = [Remember(started, "error") EXCEPT !.storing = FALSE]
    <3> DEFINE r == Remember(started, "error")
    <3> HIDE DEF r
    <3>3. worker'.pending = p /\ worker'.current = <<>> /\ worker'.storing = FALSE
      BY <1>6, <2>3, RememberLemma DEF Worker, r
    <3>4. Head(queue) # End BY <2>3
    <3> QED BY <3>3, <3>4
  <2> QED BY <1>7, <2>1, <2>2, <2>3, Zenon
<1>9. fetch.pc # "idle" /\ ~Joined(fetch.pc) /\ worker.rows = <<>> BY <1>1, <1>2 DEF WorkerOk
<1>10. \A m \in DOMAIN inc : RowsAt(worker', m) = RowsAt(worker, m) BY <1>1, <1>8 DEF RowsAt
<1>11. Flows(fetch', worker', primary') => Flows(fetch, worker, primary) BY <1>1, <1>8 DEF Flows
<1>12. UNCHANGED <<group, disk, folder, buffer, pos>> /\ fetch' = fetch /\ primary' = primary /\ inc' = inc
  BY <1>1
<1>13. CASE Head(queue) # End /\ worker'.pending = p
  <2> DEFINE w == worker.pending
  <2>1. p \o Tail(queue) = w \o queue
    <3> HIDE DEF w
    <3>2. Append(w, Head(queue)) \o Tail(queue) = w \o queue BY <1>1, <1>2, ConcatMoves, <1>3
    <3> QED BY <3>2 DEF p, w
  <2>2. Line(worker', queue', fetch') = Line(worker, queue, fetch) BY <1>1, <1>13, <2>1 DEF Line
  <2> HIDE DEF Data, Line, Flows, Pulling, RowsAt, DoneIn
  <2> QED BY <1>9, <1>10, <1>11, <1>12, <2>2, QuietData DEF Joined
<1>14. CASE Head(queue) = End /\ worker'.pending = worker.pending
  <2>1. Len(queue) = 1 /\ fetch.pc = "join" BY <1>2, <1>4, <1>14 DEF WorkerOk
  <2>2. queue' = <<>> /\ queue = <<End>> BY <1>1, <1>2, <1>4, <1>14, <2>1
  <2> DEFINE w == worker.pending
  <2>3. w \o <<End>> = Append(w, End) /\ w \o <<>> = w /\ w \in Seq(Item) /\ End \in Item BY <1>3, NoneTypes
  <2>4. Line(worker', queue', fetch') = w /\ Line(worker, queue, fetch) = Append(w, End)
    <3>1. Line(worker, queue, fetch) = worker.pending \o queue BY <2>1, LineIs
    <3>2. Line(worker', queue', fetch') = worker'.pending \o queue'
      <4>1. fetch'.pc = "join" BY <1>1, <2>1
      <4> QED BY <4>1, LineIs
    <3>3. worker'.pending = w /\ worker.pending = w BY <1>14
    <3> HIDE DEF w, End
    <3> QED BY <2>2, <2>3, <3>1, <3>2, <3>3
  <2> HIDE DEF w
  <2>5. FlowingOk(group', fetch', inc', worker', queue', folder', buffer', primary')
    <3> HIDE DEF Flows, RowsAt, Line, FlowOk, TopOf
    <3> SUFFICES ASSUME Flows(fetch', worker', primary'), NEW n \in DOMAIN inc
                 PROVE FlowOk(group, n, inc[n], TopOf(group, folder[n].fetched, buffer[n]), RowsAt(worker', n), w, primary)
      BY <1>1, <2>4 DEF FlowingOk
    <3> DEFINE top == TopOf(group, folder[n].fetched, buffer[n])
               rows == RowsAt(worker, n)
               i == inc[n]
    <3>3. FlowOk(group, n, i, top, rows, Append(w, End), primary) BY <1>11, <2>1, <2>4 DEF Data, FlowingOk
    <3> HIDE DEF top, rows, i
    <3> QED BY <1>10, <2>3, <3>3, FlowOther DEF top, rows, i, End, TypeOK
  <2> QED BY <1>12, <2>5 DEF Data
<1> QED BY <1>8, <1>13, <1>14

LEMMA LineBase ==
    ASSUME TypeOK
    PROVE  worker.pending \in Seq(Item) /\ queue \in Seq(Item) /\ worker.pending \o queue \in Seq(Item) /\ group \in Group
<1>1. worker \in Worker /\ queue \in Seq(Item) /\ group \in Group BY Zenon DEF TypeOK
<1>2. worker.pending \in Seq(Item) BY Zenon, <1>1, WorkerTypes
<1> DEFINE p == worker.pending
<1> HIDE DEF p, Item
<1> QED BY <1>1, <1>2 DEF p

\* Only the line changes.
LEMMA LineData ==
    ASSUME Data, UNCHANGED <<group, disk, folder, buffer, pos>>, DOMAIN inc' = DOMAIN inc,
           \A n \in DOMAIN inc : /\ inc'[n].base = inc[n].base /\ inc'[n].consumed = inc[n].consumed /\ inc'[n].skipped = inc[n].skipped
                                 /\ DoneIn(n, inc[n]) => DoneIn(n, inc'[n]),
           fetch'.pc # "idle" => fetch.pc # "idle", Pulling(fetch') => Pulling(fetch),
           FlowingOk(group, fetch', inc', worker', queue', folder, buffer, primary')
    PROVE  Data'
<1> HIDE DEF Flows, RowsAt, Line, DoneIn, FlowOk, GoodManifest, StoredOk, Read, At, TopOf
<1>4. LoaderOk(group', fetch', inc', pos') BY DEF LoaderOk, Data, At
<1>5. FlowingOk(group', fetch', inc', worker', queue', folder', buffer', primary') OBVIOUS
<1> QED BY <1>4, <1>5 DEF Data, ReadOk, Read, BufferedOk

LEMMA SubmitData ==
    ASSUME TypeOK, Control, Data, Submit
    PROVE  Data'
<1> DEFINE n == fetch.name
           base == worker.pending \o queue
           x == [name |-> fetch.name, batch |-> fetch.batch]
<1>1. UNCHANGED <<group, pos, disk, folder, buffer, queue>> /\ fetch.pc = "submit" BY DEF Submit, writeVars
<1>2. fetch \in Fetch /\ worker \in Worker /\ FetchOk(fetch, inc, primary) BY DEF TypeOK, Control
<1>3. n \in DOMAIN inc /\ inc[n] \in Inc /\ fetch.back \in {"target", "drain", "settle"} /\ (fetch.batch # <<>> => inc[n].batch = <<>>)
  BY <1>1, <1>2 DEF FetchOk, TypeOK
<1>4. base \in Seq(Item) /\ group \in Group BY Zenon, LineBase
<1>5. x \in Item
  <2>1. fetch.name \in Names /\ fetch.batch \in Seq(Row) BY Zenon, <1>2, FetchTypes
  <2> QED BY <2>1 DEF Item
<1>6. CASE Unraised
  <2>1. worker' = [worker EXCEPT !.raised = TRUE] /\ Record(worker.failure) /\ inc' = inc
        /\ fetch' = IF fetch.back = "settle" THEN [NoFetch EXCEPT !.pc = "settle", !.todo = fetch.todo] ELSE ToCleanup
    BY Zenon, <1>6 DEF Submit
  <2>2. worker.failure \in {"stop", "error"} BY Zenon, <1>2, <1>6, WorkerTypes DEF Unraised
  <2>3. primary' # "none" BY <2>1, <2>2, RecordLemma
  <2>4. worker'.pending = worker.pending /\ worker'.current = worker.current /\ worker'.rows = worker.rows /\ worker'.storing = worker.storing
    BY <1>2, <2>1 DEF Worker
  <2>5. fetch'.pc = "settle" BY <2>1 DEF ToCleanup, NoFetch
  <2>6. \A m \in DOMAIN inc : RowsAt(worker', m) = RowsAt(worker, m) BY <2>4 DEF RowsAt
  <2>7. Flows(fetch', worker', primary') => Flows(fetch, worker, primary) BY <1>1, <2>4 DEF Flows
  <2>8. ~Pulling(fetch') BY <2>5 DEF Pulling
  <2>9. Line(worker', queue', fetch') = base
    <3>1. Line(worker', queue', fetch') = worker'.pending \o queue' BY <2>5, LineIs
    <3> QED BY <1>1, <2>4, <3>1
  <2>10. CASE fetch.batch = <<>>
    <3>1. Line(worker, queue, fetch) = base BY <2>10, LineIs
    <3> HIDE DEF Data, Line, Flows, Pulling, RowsAt, DoneIn, base, Unraised
    <3> QED BY <1>1, <2>1, <2>3, <2>6, <2>7, <2>8, <2>9, <3>1, QuietData
  <2>11. CASE fetch.batch # <<>>
    <3>1. Line(worker, queue, fetch) = Append(base, x) BY <1>1, <2>11, LineIs
    <3> HIDE DEF Flows, RowsAt, Line, FlowOk, TopOf, base, x, Unraised
    <3>2. FlowingOk(group, fetch', inc', worker', queue', folder, buffer, primary')
      <4> SUFFICES ASSUME Flows(fetch', worker', primary'), NEW m \in DOMAIN inc
                   PROVE FlowOk(group, m, inc[m], TopOf(group, folder[m].fetched, buffer[m]), RowsAt(worker', m), base, primary')
        BY <2>1, <2>9 DEF FlowingOk
      <4> DEFINE top == TopOf(group, folder[m].fetched, buffer[m])
                 rows == RowsAt(worker, m)
                 i == inc[m]
                 first == primary
                 first2 == primary'
      <4>1. FlowOk(group, m, i, top, rows, Append(base, x), first) BY <1>1, <2>7, <3>1 DEF Data, FlowingOk
      <4>2. i \in Inc /\ first2 # "none" BY <2>3 DEF TypeOK
      <4>3. m = n => i.batch = <<>> BY <1>3, <2>11
      <4>4. x.name = n BY DEF x
      <4> HIDE DEF top, rows, i, first, first2, n
      <4>5. FlowOk(group, m, i, top, rows, base, first2)
        <5>1. CASE m = n BY <1>4, <1>5, <4>1, <4>2, <4>3, <4>4, <5>1, FlowDrops
        <5>2. CASE m # n
          <6>2. FlowOk(group, m, i, top, rows, base, first) BY <1>4, <1>5, <4>1, FlowOther, <4>4, <5>2
          <6> QED BY <4>2, <6>2, FlowWeakens
        <5> QED BY <5>1, <5>2
      <4> QED BY <2>6, <4>5 DEF top, rows, i, first2
    <3> HIDE DEF DoneIn, Pulling, Data
    <3> QED BY <1>1, <2>1, <2>8, <3>2, LineData
  <2> QED BY <2>10, <2>11
<1>7. CASE ~Unraised
  <2> DEFINE c == inc[n].submitted + Len(fetch.batch)
             e == [inc[n] EXCEPT !.submitted = c]
             p == IF fetch.batch = <<>> THEN fetch.back ELSE "put"
  <2>1. inc' = [inc EXCEPT ![n] = e] /\ fetch' = [fetch EXCEPT !.pc = p] /\ UNCHANGED <<worker, gate, primary>>
    BY <1>7 DEF Submit
  <2> HIDE DEF c
  <2>2. /\ e.base = inc[n].base /\ e.consumed = inc[n].consumed /\ e.skipped = inc[n].skipped /\ e.dropped = inc[n].dropped /\ e.batch = inc[n].batch
        /\ e.passive = inc[n].passive /\ e.kept = inc[n].kept /\ e.wanted = inc[n].wanted /\ e.budget = inc[n].budget
    BY <1>3 DEF Inc
  <2> HIDE DEF e
  <2>4. DOMAIN inc' = DOMAIN inc /\ inc'[n] = e /\ \A m \in DOMAIN inc : m # n => inc'[m] = inc[m]
    BY <1>3, <2>1
  <2>5. \A m \in DOMAIN inc : /\ inc'[m].base = inc[m].base /\ inc'[m].consumed = inc[m].consumed /\ inc'[m].skipped = inc[m].skipped
                              /\ inc'[m].dropped = inc[m].dropped /\ inc'[m].batch = inc[m].batch
                              /\ DoneIn(m, inc[m]) => DoneIn(m, inc'[m])
    BY <2>2, <2>4 DEF DoneIn, Spent
  <2>6. fetch'.pc = p /\ fetch'.batch = fetch.batch /\ fetch'.name = fetch.name /\ fetch'.back = fetch.back
    <3> HIDE DEF p
    <3> QED BY <1>2, <2>1 DEF Fetch
  <2>7. Line(worker', queue', fetch') = Line(worker, queue, fetch) BY <1>1, <1>3, <2>1, <2>6 DEF Line
  <2>8. Pulling(fetch') => Pulling(fetch) BY <1>1, <1>3, <2>6 DEF Pulling
  <2>9. Flows(fetch', worker', primary') => Flows(fetch, worker, primary) BY <1>1, <2>1 DEF Flows
  <2>10. UNCHANGED <<worker, primary>> BY <2>1
  <2> HIDE DEF Data, Line, Flows, Pulling, RowsAt, DoneIn, Unraised
  <2> QED BY <1>1, <2>4, <2>5, <2>7, <2>8, <2>9, <2>10, QuietData
<1> QED BY <1>6, <1>7

\* The rows buffered for the tokenizer are taken for a batch.
LEMMA BatchTaken ==
    ASSUME TypeOK, Data, UNCHANGED <<group, disk, folder, buffer, pos, worker, queue, primary>>, fetch.pc \in {"compare", "settle"},
           NEW n \in DOMAIN inc, n \in Names, NEW e, inc' = [inc EXCEPT ![n] = e],
           e.base = inc[n].base, e.consumed = inc[n].consumed, e.skipped = inc[n].skipped, e.dropped = inc[n].dropped, e.batch = <<>>,
           DoneIn(n, inc[n]) => DoneIn(n, e),
           fetch'.pc = "submit", fetch'.name = n, fetch'.batch = inc[n].batch, Pulling(fetch') => Pulling(fetch)
    PROVE  Data'
<1> DEFINE base == worker.pending \o queue
           x == [name |-> n, batch |-> inc[n].batch]
<1>1. base \in Seq(Item) /\ group \in Group BY LineBase
<1>3. x \in Item BY IncFields DEF Item, TypeOK
<1>4. Line(worker, queue, fetch) = base BY LineIs
<1>5. \/ inc[n].batch = <<>> /\ Line(worker', queue', fetch') = base
      \/ Line(worker', queue', fetch') = Append(base, x)
  BY DEF Line
<1>6. DOMAIN inc' = DOMAIN inc /\ inc'[n] = e /\ \A m \in DOMAIN inc : m # n => inc'[m] = inc[m] OBVIOUS
<1> HIDE DEF Flows, RowsAt, Line, FlowOk, TopOf, base, x
<1>9. FlowingOk(group, fetch', inc', worker', queue', folder, buffer, primary')
  <2> SUFFICES ASSUME Flows(fetch', worker', primary'), NEW m \in DOMAIN inc
               PROVE FlowOk(group, m, inc'[m], TopOf(group, folder[m].fetched, buffer[m]), RowsAt(worker, m), Line(worker', queue', fetch'), primary)
    BY <1>6 DEF FlowingOk
  <2> DEFINE top == TopOf(group, folder[m].fetched, buffer[m])
             rows == RowsAt(worker, m)
             i == inc[m]
             j == inc'[m]
             line == Line(worker', queue', fetch')
  <2>1. FlowOk(group, m, i, top, rows, base, primary) BY <1>4 DEF Data, FlowingOk, Flows
  <2>2. m = n => j.base = i.base /\ j.consumed = i.consumed /\ j.dropped = i.dropped /\ j.batch = <<>> BY <1>6
  <2>3. m # n => j = i BY <1>6
  <2>4. m = n => i.batch = inc[n].batch /\ x.batch = i.batch BY DEF x
  <2>5. x.name = n BY DEF x
  <2>6. (inc[n].batch = <<>> /\ line = base) \/ line = Append(base, x) BY <1>5
  <2> HIDE DEF top, rows, i, j, line
  <2>7. FlowOk(group, m, j, top, rows, line, primary)
    <3>1. CASE m = n /\ line = Append(base, x) BY <1>1, <1>3, <2>1, <2>2, <2>4, <2>5, <3>1, FlowGrows
    <3>2. CASE m # n /\ line = Append(base, x)
      <4>2. FlowOk(group, m, i, top, rows, Append(base, x), primary)
        BY <1>1, <1>3, <2>1, FlowOther, <2>5, <3>2
      <4> QED BY <2>3, <3>2, <4>2
    <3>3. CASE m = n /\ inc[n].batch = <<>> /\ line = base BY <2>2, <2>4, <3>3, <2>1, FlowWeakens
    <3>4. CASE m # n /\ line = base BY <2>1, <2>3, <3>4
    <3> QED BY <2>6, <3>1, <3>2, <3>3, <3>4
  <2> QED BY <2>7 DEF top, rows, i, j, line
<1> HIDE DEF DoneIn, Pulling, Data
<1> QED BY <1>6, <1>9, LineData

LEMMA BatchLeft ==
    ASSUME TypeOK, Data, UNCHANGED <<group, disk, folder, buffer, pos, worker, queue, primary>>, fetch.pc \in {"compare", "settle"},
           NEW n \in DOMAIN inc, n \in Names, inc' = [inc EXCEPT ![n] = [inc[n] EXCEPT !.batch = <<>>]],
           fetch'.pc = "submit", fetch'.name = n, fetch'.batch = inc[n].batch, Pulling(fetch') => Pulling(fetch)
    PROVE  Data'
<1> DEFINE e == [inc[n] EXCEPT !.batch = <<>>]
<1>2. /\ e.base = inc[n].base /\ e.consumed = inc[n].consumed /\ e.skipped = inc[n].skipped /\ e.dropped = inc[n].dropped /\ e.batch = <<>>
      /\ e.passive = inc[n].passive /\ e.kept = inc[n].kept /\ e.wanted = inc[n].wanted /\ e.budget = inc[n].budget
  BY DEF Inc, TypeOK
<1>3. DoneIn(n, inc[n]) => DoneIn(n, e) BY <1>2 DEF DoneIn, Spent
<1>4. inc' = [inc EXCEPT ![n] = e] OBVIOUS
<1> HIDE DEF e, TypeOK, Data, DoneIn, Pulling
<1> QED BY ZenonT(60), <1>2, <1>3, <1>4, BatchTaken

LEMMA CompareTargetData ==
    ASSUME TypeOK, Control, Data, CompareTarget
    PROVE  Data'
<1>1. UNCHANGED <<group, pos, disk, folder, buffer, queue, worker, gate, primary>> /\ fetch.pc = "compare"
  BY DEF CompareTarget, writeVars
<1>2. fetch \in Fetch /\ FetchOk(fetch, inc, primary) BY DEF TypeOK, Control
<1>3. fetch.name \in DOMAIN inc BY <1>1, <1>2 DEF FetchOk
<1>4. inc[fetch.name] \in Inc BY <1>3 DEF TypeOK
<1>5. Pulling(fetch) BY <1>1 DEF Pulling
<1>6. CASE fetch' = EndRow /\ inc' = inc BY <1>6, FetchBegins, <1>1, <1>5, QuietData DEF Line, Flows
<1>7. CASE ~(fetch' = EndRow /\ inc' = inc)
  <2> DEFINE n == fetch.name
             b == inc[n].batch
             f == [fetch EXCEPT !.pc = "submit", !.back = "drain", !.batch = b]
  <2>1. fetch' = f /\ inc' = [inc EXCEPT ![n] = [inc[n] EXCEPT !.batch = <<>>]] BY <1>7 DEF CompareTarget
  <2> HIDE DEF b
  <2>4. f.pc = "submit" /\ f.batch = b /\ f.name = n BY <1>2 DEF Fetch
  <2>5. n \in Names BY Zenon, <1>2, FetchTypes
  <2>6. fetch'.pc = "submit" /\ fetch'.name = n /\ fetch'.batch = inc[n].batch BY <2>1, <2>4 DEF b
  <2> HIDE DEF f, n, TypeOK, Data, Pulling
  <2>7. n \in DOMAIN inc BY <1>3 DEF n
  <2> QED BY Zenon, <1>1, <1>5, <2>1, <2>5, <2>6, <2>7, BatchLeft
<1> QED BY <1>6, <1>7

LEMMA SettlePendingData ==
    ASSUME TypeOK, Control, Data, SettlePending
    PROVE  Data'
<1> DEFINE n == First(fetch.todo)
           b == inc[n].batch
           t == fetch.todo \ {n}
           f == [fetch EXCEPT !.pc = "submit", !.name = n, !.back = "settle", !.batch = b, !.todo = t]
<1>1. UNCHANGED <<group, pos, disk, folder, buffer, queue, worker, gate, primary>> /\ fetch.pc = "settle"
      /\ fetch' = f /\ inc' = [inc EXCEPT ![n] = [inc[n] EXCEPT !.batch = <<>>]] /\ fetch.todo # {}
  BY DEF SettlePending, writeVars
<1>2. fetch \in Fetch /\ FetchOk(fetch, inc, primary) BY DEF TypeOK, Control
<1>3. n \in fetch.todo BY <1>1, FirstLemma
<1> HIDE DEF n
<1>4. n \in DOMAIN inc BY <1>2, <1>3 DEF FetchOk
<1>5. inc[n] \in Inc /\ n \in Names BY <1>4 DEF TypeOK, Names
<1> HIDE DEF b, t
<1>8. f.pc = "submit" /\ f.batch = b /\ f.name = n /\ f.back = "settle" BY <1>2 DEF Fetch
<1>9. fetch'.pc = "submit" /\ fetch'.name = n /\ fetch'.batch = inc[n].batch BY <1>1, <1>8 DEF b
<1>10. ~Pulling(fetch') BY <1>1, <1>8 DEF Pulling
<1> HIDE DEF f, TypeOK, Data, Pulling
<1>11. fetch.pc \in {"compare", "settle"} BY <1>1
<1> QED BY Zenon, <1>1, <1>4, <1>5, <1>9, <1>10, <1>11, BatchLeft

LEMMA CloseWorkerData ==
    ASSUME TypeOK, Control, Data, CloseWorker
    PROVE  Data'
<1> DEFINE base == worker.pending \o queue
<1>1. UNCHANGED <<group, inc, pos, disk, folder, buffer, worker, gate, primary>> /\ fetch' = AtCleanup("join") /\ fetch.pc = "close"
      /\ queue' = Append(queue, End)
  BY DEF CloseWorker, writeVars
<1>2. fetch'.pc = "join" BY <1>1, AtCleanupLemma DEF Pcs
<1>3. base \in Seq(Item) /\ group \in Group /\ End \in Item /\ End.batch = <<>> BY LineBase, NoneTypes DEF End
<1>4. Line(worker, queue, fetch) = base BY <1>1, LineIs
<1>5. Line(worker', queue', fetch') = Append(base, End)
  <2> DEFINE p == worker.pending
  <2>1. Line(worker', queue', fetch') = p \o Append(queue, End) BY <1>1, <1>2, LineIs
  <2>3. base = p \o queue OBVIOUS
  <2> HIDE DEF p, base
  <2> QED BY <2>1, <2>3, <1>3, ConcatAppend, LineBase
<1> HIDE DEF Flows, RowsAt, Line, FlowOk, TopOf, base
<1>8. FlowingOk(group, fetch', inc', worker', queue', folder, buffer, primary')
  <2> SUFFICES ASSUME Flows(fetch', worker', primary'), NEW m \in DOMAIN inc
               PROVE FlowOk(group, m, inc[m], TopOf(group, folder[m].fetched, buffer[m]), RowsAt(worker, m), Append(base, End), primary)
    BY <1>1, <1>5 DEF FlowingOk
  <2>1. FlowOk(group, m, inc[m], TopOf(group, folder[m].fetched, buffer[m]), RowsAt(worker, m), base, primary)
    BY <1>1, <1>4 DEF Data, FlowingOk, Flows
  <2> QED BY <1>3, <2>1, FlowOther
<1> HIDE DEF DoneIn, Pulling, Data
<1> QED BY <1>1, <1>8, LineData, <1>2 DEF Pulling

LEMMA DoneIs ==
    ASSUME NEW n
    PROVE  Done(n) <=> DoneIn(n, inc[n])
BY DEF Done, DoneIn

\* A row before the source's offset is passed over.
LEMMA PassesOver ==
    ASSUME NEW g \in Group, NEW n, NEW i \in Inc, NEW k \in Nat, k < Len(Upstream[g]), At(g, n, k, i),
           k + 1 \in OwnOf(g, n) => Ord(g, k + 1) <= i.base.fetched
    PROVE  At(g, n, k + 1, i)
<1>2. /\ k + 1 \in DOMAIN Upstream[g]
      /\ Upstream[g][k + 1].name = n => Passed(g, n, k + 1) = Passed(g, n, k) + 1
      /\ Upstream[g][k + 1].name # n => Passed(g, n, k + 1) = Passed(g, n, k)
  BY PassedStep
<1>3. CASE Upstream[g][k + 1].name # n BY <1>2, <1>3 DEF At
<1>4. CASE Upstream[g][k + 1].name = n BY <1>2, <1>4, OrdIs, IncFields, UpToLemma DEF OwnOf, Offset, At
<1> QED BY <1>3, <1>4

\* The row that is pulled is the next one of its source.
LEMMA NextRow ==
    ASSUME NEW g \in Group, NEW n, NEW i \in Inc, NEW k \in Nat, k < Len(Upstream[g]), At(g, n, k, i),
           k + 1 \in OwnOf(g, n), Ord(g, k + 1) > i.base.fetched
    PROVE  Ord(g, k + 1) = i.base.fetched + i.consumed + 1 /\ Passed(g, n, k + 1) = i.base.fetched + i.consumed + 1
<1>2. Passed(g, n, k + 1) = Passed(g, n, k) + 1 BY PassedStep DEF OwnOf
<1>3. Ord(g, k + 1) = Passed(g, n, k + 1) BY OrdIs
<1> DEFINE a == i.base.fetched
           c == i.consumed
           s == Passed(g, n, k)
           t == Passed(g, n, k + 1)
<1>5. IF s <= a THEN c = 0 ELSE s = a + c BY DEF At
<1>6. t = s + 1 /\ t > a /\ s \in Nat /\ a \in Nat /\ c \in Nat BY <1>2, <1>3, UpToLemma, IncFields DEF Offset
<1> HIDE DEF a, c, s, t
<1> QED BY <1>3, <1>5, <1>6 DEF a, c, t

LEMMA SkipRowData ==
    ASSUME TypeOK, Control, Data, SkipRow
    PROVE  Data'
<1>1. UNCHANGED <<group, inc, fetch, disk, folder, buffer, queue, worker, gate, primary>> /\ pos' = pos + 1 /\ fetch.pc = "row" /\ pos < Len(Rows)
      /\ (HasRow => Done(Rows[pos + 1].name))
  BY DEF SkipRow, writeVars
<1>2. group \in Group /\ pos \in Nat /\ pos < Len(Upstream[group]) BY <1>1 DEF TypeOK, Rows
<1>3. LoaderOk(group, fetch, inc, pos')
  <2> HIDE DEF DoneIn, At
  <2> SUFFICES ASSUME NEW m \in DOMAIN inc, ~DoneIn(m, inc[m]) PROVE At(group, m, pos + 1, inc[m])
    BY <1>1 DEF LoaderOk
  <2>2. inc[m] \in Inc BY DEF TypeOK
  <2>3. pos + 1 \in OwnOf(group, m) => Ord(group, pos + 1) <= inc[m].base.fetched
    <3> SUFFICES ASSUME pos + 1 \in OwnOf(group, m) PROVE Ord(group, pos + 1) <= inc[m].base.fetched OBVIOUS
    <3>3. ~(Ord(group, pos + 1) > inc[m].base.fetched) BY <1>1, DoneIs DEF HasRow, Ordinal, Ord, OwnOf, Rows
    <3> QED BY <3>3, <2>2, IncFields, <1>2, OrdLemma DEF Offset
  <2> QED BY <1>2, <2>2, <2>3, PassesOver, <1>1 DEF Data, LoaderOk, Pulling
<1> QED BY <1>1, <1>3 DEF Data

\* What pulling a row does.
LEMMA PullRowStep ==
    ASSUME TypeOK, Control, PullRow
    PROVE  LET n == Rows[pos + 1].name
               kind == Rows[pos + 1].kind
               i == inc[n]
               batch == Append(i.batch, Pulled(i, pos + 1, kind))
           IN \E e : /\ inc' = [inc EXCEPT ![n] = e]
                     /\ e.base = i.base /\ e.consumed = i.consumed + 1 /\ e.dropped = i.dropped
                     /\ kind \in {"bad", "orphan"} => e.skipped = i.skipped + 1
                     /\ kind \notin {"bad", "orphan"} => e.skipped = i.skipped
                     /\ \/ kind \notin Fits /\ e.batch = i.batch /\ fetch'.pc \in {"row", "settle"}
                        \/ kind \in Fits /\ e.batch = batch /\ fetch'.pc = "submit" /\ fetch'.batch = <<>>
                        \/ kind \in Fits /\ e.batch = <<>> /\ fetch'.pc = "submit" /\ fetch'.name = n /\ fetch'.batch = batch
<1> DEFINE n == Rows[pos + 1].name
           kind == Rows[pos + 1].kind
           i == inc[n]
           r == Pulled(i, pos + 1, kind)
           batch == Append(i.batch, r)
           full == Len(batch) >= BatchSize
           c == i.consumed + 1
           s == i.skipped + 1
           t == i.streak + 1
           b == IF full THEN <<>> ELSE batch
           e1 == [i EXCEPT !.consumed = c]
           e2 == [i EXCEPT !.consumed = c, !.skipped = s, !.streak = t]
           e3 == [i EXCEPT !.consumed = c, !.skipped = s]
           e4 == [i EXCEPT !.consumed = c, !.streak = 0, !.batch = b]
           f == [NoFetch EXCEPT !.pc = "submit", !.name = n, !.back = "target", !.batch = IF full THEN batch ELSE <<>>]
           Good(e) == /\ inc' = [inc EXCEPT ![n] = e]
                      /\ e.base = i.base /\ e.consumed = i.consumed + 1 /\ e.dropped = i.dropped
                      /\ kind \in {"bad", "orphan"} => e.skipped = i.skipped + 1
                      /\ kind \notin {"bad", "orphan"} => e.skipped = i.skipped
                      /\ \/ kind \notin Fits /\ e.batch = i.batch /\ fetch'.pc \in {"row", "settle"}
                         \/ kind \in Fits /\ e.batch = batch /\ fetch'.pc = "submit" /\ fetch'.batch = <<>>
                         \/ kind \in Fits /\ e.batch = <<>> /\ fetch'.pc = "submit" /\ fetch'.name = n /\ fetch'.batch = batch
<1>1. i \in Inc /\ fetch.pc = "row" /\ kind \in {"ok", "long", "bad", "orphan", "filtered"}
  <2>1. pos + 1 \in DOMAIN Upstream[group] /\ group \in Group /\ i \in Inc
    BY Zenon, PullRowTypes DEF PullRow, TypeOK
  <2>2. kind \in {"ok", "long", "bad", "orphan", "filtered"} BY <2>1, UpstreamLemma DEF Rows
  <2> QED BY Zenon, <2>1, <2>2 DEF PullRow
<1>2. ToCleanup.pc = "settle" /\ f.pc = "submit" /\ f.name = n /\ f.batch = IF full THEN batch ELSE <<>>
  BY Zenon DEF ToCleanup, NoFetch
<1>3. \/ kind = "filtered" /\ inc' = [inc EXCEPT ![n] = e1] /\ fetch' = fetch
      \/ kind = "bad" /\ inc' = [inc EXCEPT ![n] = e2] /\ (fetch' = fetch \/ fetch' = ToCleanup)
      \/ kind = "orphan" /\ inc' = [inc EXCEPT ![n] = e3] /\ fetch' = fetch
      \/ kind \notin {"filtered", "bad", "orphan"} /\ inc' = [inc EXCEPT ![n] = e4] /\ fetch' = f
  BY Zenon DEF PullRow, Pulled
<1> HIDE DEF n, kind, i, batch, full, f, r
<1>4. CASE kind = "filtered" /\ inc' = [inc EXCEPT ![n] = e1] /\ fetch' = fetch
  <2>1. e1.base = i.base /\ e1.consumed = c /\ e1.skipped = i.skipped /\ e1.dropped = i.dropped /\ e1.batch = i.batch
    BY <1>1 DEF Inc
  <2> HIDE DEF e1
  <2>2. Good(e1) BY <1>1, <1>4, <2>1 DEF Fits
  <2> QED BY Zenon, <2>2 DEF n, kind, i, batch, r
<1>5. CASE kind = "bad" /\ inc' = [inc EXCEPT ![n] = e2] /\ (fetch' = fetch \/ fetch' = ToCleanup)
  <2>1. e2.base = i.base /\ e2.consumed = c /\ e2.skipped = s /\ e2.dropped = i.dropped /\ e2.batch = i.batch
    BY <1>1 DEF Inc
  <2> HIDE DEF e2
  <2>2. Good(e2) BY <1>1, <1>2, <1>5, <2>1 DEF Fits
  <2> QED BY <2>2 DEF n, kind, i, batch, r
<1>6. CASE kind = "orphan" /\ inc' = [inc EXCEPT ![n] = e3] /\ fetch' = fetch
  <2>1. e3.base = i.base /\ e3.consumed = c /\ e3.skipped = s /\ e3.dropped = i.dropped /\ e3.batch = i.batch
    BY <1>1 DEF Inc
  <2> HIDE DEF e3
  <2>2. Good(e3) BY <1>1, <1>6, <2>1 DEF Fits
  <2> QED BY <2>2 DEF n, kind, i, batch, r
<1>7. CASE kind \notin {"filtered", "bad", "orphan"} /\ inc' = [inc EXCEPT ![n] = e4] /\ fetch' = f
  <2> HIDE DEF b
  <2>1. e4.base = i.base /\ e4.consumed = c /\ e4.skipped = i.skipped /\ e4.dropped = i.dropped /\ e4.batch = b
    BY <1>1 DEF Inc
  <2> HIDE DEF e4
  <2>4. Good(e4) BY <1>2, <1>7, <2>1, <1>1 DEF b, Fits
  <2> QED BY <2>4 DEF n, kind, i, batch, r
<1> QED BY Zenon, <1>3, <1>4, <1>5, <1>6, <1>7

\* A row of its source is pulled: the counters and the place of the loader.
LEMMA PulledRow ==
    ASSUME NEW g \in Group, NEW n, NEW i \in Inc, NEW k \in Nat, k < Len(Upstream[g]), k + 1 \in OwnOf(g, n),
           Ord(g, k + 1) = i.base.fetched + i.consumed + 1, Passed(g, n, k + 1) = i.base.fetched + i.consumed + 1, Read(g, n, i),
           NEW kind, kind = Upstream[g][k + 1].kind,
           NEW e, e.base = i.base, e.consumed = i.consumed + 1,
           kind \in {"bad", "orphan"} => e.skipped = i.skipped + 1, kind \notin {"bad", "orphan"} => e.skipped = i.skipped
    PROVE  /\ Read(g, n, e) /\ At(g, n, k + 1, e)
           /\ kind \in Fits => Placed(g, n, i.base, Pulled(i, k + 1, kind)) /\ Pulled(i, k + 1, kind) \in Row /\ Pulled(i, k + 1, kind).id = k + 1
<1> DEFINE a == i.base.fetched + i.consumed
           no == {"bad", "orphan"}
<1>1. i.base.fetched \in Nat /\ i.base.skipped \in Nat /\ i.consumed \in Nat /\ i.skipped \in Nat /\ a \in Nat
  BY IncFields DEF Offset
<1>2. Ord(g, k + 1) = a + 1 /\ Passed(g, n, k + 1) = a + 1 OBVIOUS
<1>3. i.base.skipped + i.skipped = Count(g, n, a, no) BY DEF Read
<1> HIDE DEF no
<1>4. e.base.fetched + e.consumed = a + 1
  <2> DEFINE p == i.base.fetched
             q == i.consumed
             u == e.base.fetched
             v == e.consumed
  <2>3. u = p /\ v = q + 1 /\ p \in Nat /\ q \in Nat /\ a = p + q BY <1>1
  <2> HIDE DEF p, q, u, v, a
  <2> QED BY <2>3 DEF u, v
<1> HIDE DEF a
<1>5. /\ kind \in no => Count(g, n, a + 1, no) = Count(g, n, a, no) + 1
      /\ kind \notin no => Count(g, n, a + 1, no) = Count(g, n, a, no)
  BY <1>1, <1>2, CountOne
<1>6. e.base.skipped + e.skipped = Count(g, n, a + 1, no)
  <2>1. e.base.skipped = i.base.skipped OBVIOUS
  <2>2. CASE kind \in no
    <3> DEFINE p == i.base.skipped
               q == i.skipped
               u == e.base.skipped
               v == e.skipped
    <3>b. u = p /\ v = q + 1 /\ p \in Nat /\ q \in Nat BY <2>1, <2>2, <1>1 DEF no
    <3> HIDE DEF p, q, u, v
    <3> QED BY <1>3, <1>5, <2>2, <3>b DEF p, q, u, v
  <2>3. CASE kind \notin no BY <1>3, <1>5, <2>1, <2>3 DEF no
  <2> QED BY <2>2, <2>3
<1>8. At(g, n, k + 1, e)
  <2>1. ~(Passed(g, n, k + 1) <= e.base.fetched)
    <3> DEFINE p == i.base.fetched
               q == i.consumed
    <3> HIDE DEF p, q
    <3>1. e.base.fetched = i.base.fetched /\ i.base.fetched <= a BY <1>1 DEF p, a
    <3> QED BY <1>2, <3>1, <1>1
  <2> QED BY <1>2, <1>4, <2>1 DEF At
<1>9. ASSUME kind \in Fits PROVE Placed(g, n, i.base, Pulled(i, k + 1, kind)) /\ Pulled(i, k + 1, kind) \in Row /\ Pulled(i, k + 1, kind).id = k + 1
  <2> DEFINE r == Pulled(i, k + 1, kind)
  <2>1. r.id = k + 1 /\ r.kind = kind /\ r.progress.consumed = i.consumed + 1 /\ r.progress.skipped = i.skipped
    BY DEF Pulled
  <2>2. kind \notin no /\ kind \in {"ok", "long"} BY <1>9 DEF Fits, no
  <2> HIDE DEF r
  <2>4. i.base.fetched + r.progress.consumed = Ord(g, k + 1)
    <3>1. i.base.fetched + (i.consumed + 1) = a + 1
      <4> DEFINE p == i.base.fetched
                 q == i.consumed
      <4>1. a = p + q /\ p \in Nat /\ q \in Nat BY <1>1 DEF a
      <4> HIDE DEF p, q
      <4> QED BY <4>1 DEF p, q
    <3> QED BY <1>2, <2>1, <3>1
  <2>6. Placed(g, n, i.base, r) BY <2>1, <2>2, <2>4, <1>2, <1>3, <1>5 DEF Placed, no
  <2> QED BY <2>1, <2>6, <1>1, <2>2 DEF r, Pulled, Row
<1> QED BY <1>8, <1>9, <1>4, <1>6 DEF Read, no

\* A row of another source is pulled.
LEMMA OtherRow ==
    ASSUME NEW g \in Group, NEW n, NEW i, NEW k \in Nat, k < Len(Upstream[g]), k + 1 \notin OwnOf(g, n), At(g, n, k, i)
    PROVE  At(g, n, k + 1, i)
<1> QED BY PassedStep DEF At, OwnOf

LEMMA PullRowData ==
    ASSUME TypeOK, Control, Data, PullRow
    PROVE  Data'
<1> DEFINE n == Rows[pos + 1].name
           kind == Rows[pos + 1].kind
           i == inc[n]
           r == Pulled(i, pos + 1, kind)
           batch == Append(i.batch, r)
           base == worker.pending \o queue
<1>1. UNCHANGED <<group, disk, folder, buffer, queue, worker>> /\ pos' = pos + 1 /\ fetch.pc = "row" /\ HasRow /\ ~Done(n)
  BY Zenon DEF PullRow, writeVars
<1>2. PICK e : /\ inc' = [inc EXCEPT ![n] = e]
               /\ e.base = i.base /\ e.consumed = i.consumed + 1 /\ e.dropped = i.dropped
               /\ kind \in {"bad", "orphan"} => e.skipped = i.skipped + 1
               /\ kind \notin {"bad", "orphan"} => e.skipped = i.skipped
               /\ \/ kind \notin Fits /\ e.batch = i.batch /\ fetch'.pc \in {"row", "settle"}
                  \/ kind \in Fits /\ e.batch = batch /\ fetch'.pc = "submit" /\ fetch'.batch = <<>>
                  \/ kind \in Fits /\ e.batch = <<>> /\ fetch'.pc = "submit" /\ fetch'.name = n /\ fetch'.batch = batch
  BY PullRowStep
<1>3. /\ n \in DOMAIN inc /\ n \in Names /\ i \in Inc /\ pos \in Nat /\ pos + 1 \in OwnOf(group, n) /\ group \in Group
      /\ pos < Len(Upstream[group]) /\ kind = Upstream[group][pos + 1].kind /\ primary = "none" /\ base \in Seq(Item)
  <2>3. pos < Len(Upstream[group]) /\ pos \in Nat /\ kind = Upstream[group][pos + 1].kind
    BY <1>1 DEF HasRow, Rows, TypeOK
  <2> QED BY <2>3, LineBase, <1>1, PullRowTypes DEF Control, FetchOk, Pulling
<1>4. Ord(group, pos + 1) > i.base.fetched /\ ~DoneIn(n, i) BY <1>1, DoneIs DEF HasRow, Ordinal, Ord
<1>5. At(group, n, pos, i) /\ Read(group, n, i) /\ LoaderOk(group, fetch, inc, pos)
  BY <1>1, <1>3, <1>4 DEF Pulling, Data, LoaderOk, ReadOk, i
<1> HIDE DEF n, kind, i, DoneIn, At, Read, Placed, Pulled, base
<1>6. Ord(group, pos + 1) = i.base.fetched + i.consumed + 1 /\ Passed(group, n, pos + 1) = i.base.fetched + i.consumed + 1
  BY <1>3, <1>4, <1>5, NextRow
<1>7. /\ Read(group, n, e) /\ At(group, n, pos + 1, e)
      /\ kind \in Fits => Placed(group, n, i.base, r) /\ r \in Row /\ r.id = pos + 1
  BY <1>2, <1>3, <1>5, <1>6, PulledRow
<1> HIDE DEF r
<1>8. /\ DOMAIN inc' = DOMAIN inc /\ inc'[n] = e /\ \A m \in DOMAIN inc : m # n => inc'[m] = inc[m]
      /\ inc[n] = i
  BY <1>2, <1>3 DEF i
<1>13. LoaderOk(group', fetch', inc', pos')
  <2> SUFFICES ASSUME NEW m \in DOMAIN inc PROVE DoneIn(m, inc'[m]) \/ At(group, m, pos + 1, inc'[m])
    BY <1>1, <1>8 DEF LoaderOk
  <2>1. CASE m = n BY <1>7, <1>8, <2>1
  <2>2. CASE m # n
    <3> QED BY <1>8, <2>2, <1>1, <1>5, <1>3, OtherRow DEF LoaderOk, Pulling, OwnOf
  <2> QED BY <2>1, <2>2
<1>14. FlowingOk(group', fetch', inc', worker', queue', folder', buffer', primary')
  <2> HIDE DEF FlowOk, TopOf, RowsAt, Line
  <2>1. ASSUME worker.storing, NEW m \in DOMAIN inc
        PROVE  FlowOk(group, m, inc'[m], TopOf(group, folder[m].fetched, buffer[m]), RowsAt(worker, m), Line(worker, queue, fetch'), primary')
    <3> DEFINE top == TopOf(group, folder[m].fetched, buffer[m])
               rows == RowsAt(worker, m)
               line == Line(worker, queue, fetch')
               j == inc[m]
               first == primary'
               x == [name |-> n, batch |-> batch]
    <3>1. FlowOk(group, m, j, top, rows, base, "none")
      <4>2. Line(worker, queue, fetch) = base BY <1>1, LineIs DEF base
      <4> QED BY <1>3, <2>1, <4>2, <1>1 DEF Data, FlowingOk, Flows
    <3>2. \/ kind \notin Fits /\ e.batch = i.batch /\ line = base
          \/ kind \in Fits /\ e.batch = batch /\ line = base
          \/ kind \in Fits /\ e.batch = <<>> /\ line = Append(base, x)
      <4>1. CASE kind \notin Fits /\ e.batch = i.batch /\ fetch'.pc \in {"row", "settle"}
        <5>1. line = base BY <4>1, LineIs DEF base
        <5> QED BY <4>1, <5>1
      <4>2. CASE kind \in Fits /\ e.batch = batch /\ fetch'.pc = "submit" /\ fetch'.batch = <<>>
        <5>1. line = base BY <4>2, LineIs DEF base
        <5> QED BY <4>2, <5>1
      <4>3. CASE kind \in Fits /\ e.batch = <<>> /\ fetch'.pc = "submit" /\ fetch'.name = n /\ fetch'.batch = batch
        <5>1. i.batch \in Seq(Row) /\ r \in Row BY <1>3, <1>7, <4>3, IncFields
        <5> HIDE DEF batch
        <5> QED BY <4>3, LineIs, <5>1 DEF base
      <4> QED BY <1>2, <4>1, <4>2, <4>3
    <3>3. kind \in Fits => x \in Item BY <1>3, <1>7, IncFields DEF Item
    <3>x. x.name = n /\ x.batch = batch OBVIOUS
    <3> HIDE DEF top, rows, line, first, x
    <3>4. CASE m = n
      <4>1. j = i /\ inc'[m] = e BY <1>8, <3>4
      <4>2. FlowOk(group, n, i, top, rows, base, "none") BY <3>1, <3>4, <4>1
      <4> HIDE DEF j
      <4>3. CASE kind \notin Fits
        <5>1. FlowOk(group, n, e, top, rows, base, first) BY <1>2, <1>3, <1>6, <3>2, <4>2, <4>3, FlowPasses
        <5> QED BY <3>2, <3>4, <4>1, <4>3, <5>1 DEF top, rows, line, first
      <4>4. CASE kind \in Fits
        <5>1. /\ e.batch = batch => FlowOk(group, n, e, top, rows, base, first)
              /\ \A y \in Item : y.name = n /\ y.batch = batch /\ e.batch = <<>> => FlowOk(group, n, e, top, rows, Append(base, y), first)
          BY <1>2, <1>3, <1>6, <1>7, <4>2, <4>4, FlowJoins
        <5>2. FlowOk(group, n, e, top, rows, line, first) BY <3>2, <3>3, <3>x, <4>4, <5>1
        <5> QED BY <3>4, <4>1, <5>2 DEF top, rows, line, first
      <4> QED BY <4>3, <4>4
    <3>5. CASE m # n
      <4>1. inc'[m] = j BY <1>8, <3>5
      <4> HIDE DEF j
      <4>2. FlowOk(group, m, j, top, rows, base, first) BY <3>1, FlowWeakens
      <4>3. FlowOk(group, m, j, top, rows, line, first)
        <5>1. CASE line = base BY <4>2, <5>1
        <5>2. CASE kind \in Fits /\ line = Append(base, x)
          <6>1. x \in Item /\ x.name # m BY <3>3, <3>5, <3>x, <5>2
          <6> QED BY <5>2, <1>3, <4>2, <6>1, FlowOther
        <5> QED BY <3>2, <5>1, <5>2
      <4> QED BY <4>1, <4>3 DEF top, rows, line, first
    <3> QED BY <3>4, <3>5
  <2> QED BY <1>1, <1>8, <2>1 DEF FlowingOk, Flows
<1> QED BY <1>13, <1>14, <1>1, <1>8, <1>7, <1>2 DEF Data, ReadOk, BufferedOk

\* The oldest batch leaves the line.
LEMMA LineTakes ==
    ASSUME NEW w \in Worker, w.pending # <<>>, NEW q \in Seq(Item), NEW f \in Fetch, NEW v, v.pending = Tail(w.pending)
    PROVE  /\ Line(v, q, f) = Tail(Line(w, q, f)) /\ Head(Line(w, q, f)) = Head(w.pending) /\ Line(w, q, f) # <<>>
           /\ Line(w, q, f) \in Seq(Item)
<1> DEFINE p == w.pending
           t == Tail(p)
           b == p \o q
           x == [name |-> f.name, batch |-> f.batch]
<1>1. p \in Seq(Item) /\ p # <<>> /\ x \in Item
  <2>1. f.name \in Names /\ f.batch \in Seq(Row) BY FetchTypes
  <2> QED BY Zenon, <2>1, WorkerTypes DEF Item
<1> HIDE DEF p, x
<1>2. t \o q = Tail(b) /\ Head(b) = Head(p) /\ b # <<>> /\ b \in Seq(Item) BY <1>1, TailConcat, SMTT(30), Z3T(30)
<1>3. v.pending = t /\ w.pending = p BY DEF p
<1> HIDE DEF t, b
<1>4. CASE f.pc \notin {"submit", "put"} \/ f.batch = <<>>
  <2>1. Line(w, q, f) = b /\ Line(v, q, f) = t \o q BY <1>3, <1>4, LineIs DEF b
  <2> QED BY <1>2, <2>1 DEF p
<1>5. CASE f.pc \in {"submit", "put"} /\ f.batch # <<>>
  <2>1. Line(w, q, f) = Append(b, x) /\ Line(v, q, f) = Append(t \o q, x) BY <1>3, <1>5, LineIs DEF b, x
  <2>3. Append(b, x) \in Seq(Item) BY <1>1, <1>2, AppendLemma
  <2> QED BY <1>2, <2>1, <2>3, <1>1, TailAppend, SMTT(30), Z3T(30) DEF p
<1> QED BY <1>4, <1>5

\* The offset that the rows on disk and those of the writer come to.
LEMMA TopType ==
    ASSUME NEW g \in Group, NEW n, NEW base, NEW f \in Nat, NEW buf \in Seq(Row), StoredOk(g, n, base, buf, f, TopOf(g, f, buf))
    PROVE  TopOf(g, f, buf) \in Nat
<1>1. CASE buf = <<>> BY <1>1 DEF TopOf
<1>2. CASE buf # <<>> BY <1>2, LastIsLargest, OrdLemma DEF StoredOk, Told, Placed, TopOf
<1> QED BY <1>1, <1>2

LEMMA FinishBatchData ==
    ASSUME TypeOK, Control, Data, FinishBatch
    PROVE  Data'
<1> DEFINE item == Head(worker.pending)
           n == item.name
           p == Tail(worker.pending)
           taken == [worker EXCEPT !.pending = p, !.current = <<item>>]
           fitting == Fitting(n, item.batch)
           d == inc[n].dropped + (Len(item.batch) - Len(fitting))
           e == [inc[n] EXCEPT !.dropped = d]
<1>1. UNCHANGED <<group, pos, fetch, disk, folder, buffer, queue, gate, primary>> /\ worker.current = <<>> /\ worker.pending # <<>>
  BY DEF FinishBatch, writeVars
<1>2. worker \in Worker /\ WorkerOk(worker, queue, fetch.pc, DOMAIN inc, primary) /\ queue \in Seq(Item) /\ fetch \in Fetch
  BY DEF TypeOK, Control
<1>3. item \in Item /\ item = worker.pending[1] /\ 1 \in DOMAIN worker.pending
  <2>1. worker.pending \in Seq(Item) BY Zenon, <1>2, WorkerTypes
  <2> QED BY Zenon, <1>1, <2>1, TailLemma
<1>4. n \in DOMAIN inc /\ item.batch # <<>> /\ item.batch \in Seq(Row) BY <1>2, <1>3 DEF WorkerOk, Item
<1>5. inc[n] \in Inc /\ fetch.pc # "idle" /\ ~Joined(fetch.pc) /\ worker.rows = <<>>
  BY <1>1, <1>2, <1>4 DEF TypeOK, WorkerOk
<1>6. taken.pending = p /\ taken.current = <<item>> /\ taken.storing = worker.storing BY <1>2 DEF Worker
<1>7. e.base = inc[n].base /\ e.consumed = inc[n].consumed /\ e.skipped = inc[n].skipped /\ e.batch = inc[n].batch /\ e.dropped = d
      /\ e.passive = inc[n].passive /\ e.kept = inc[n].kept /\ e.wanted = inc[n].wanted /\ e.budget = inc[n].budget
  <2> HIDE DEF d
  <2> QED BY Zenon, <1>5 DEF Inc
<1>8. taken \in Worker
  <2>1. p \in Seq(Item) /\ <<item>> \in Seq(Item)
    <3>1. worker.pending \in Seq(Item) BY <1>2, WorkerTypes
    <3> QED BY <1>1, <1>3, <3>1, TailLemma
  <2> QED BY Zenon, <1>2, <2>1, WorkerTypes
<1> HIDE DEF fitting, d, e, taken
<1>9. \/ worker.storing /\ worker' = [taken EXCEPT !.rows = fitting] /\ inc' = [inc EXCEPT ![n] = e]
      \/ worker' = [Remember(taken, "error") EXCEPT !.storing = FALSE] /\ inc' = inc
      \/ ~worker.storing /\ worker' = taken /\ inc' = inc
  BY DEF FinishBatch, fitting, d, e, taken
<1> HIDE DEF item, n, p
<1>10. /\ DOMAIN inc' = DOMAIN inc
       /\ \A m \in DOMAIN inc : /\ inc'[m].base = inc[m].base /\ inc'[m].consumed = inc[m].consumed /\ inc'[m].skipped = inc[m].skipped
                                /\ DoneIn(m, inc[m]) => DoneIn(m, inc'[m])
  BY <1>4, <1>7, <1>9 DEF DoneIn, Spent
<1>11. FlowingOk(group, fetch', inc', worker', queue', folder, buffer, primary')
  <2>1. CASE ~worker'.storing BY <2>1 DEF FlowingOk, Flows
  <2>2. CASE worker'.storing
    <3>1. worker.storing /\ worker' = [taken EXCEPT !.rows = fitting] /\ inc' = [inc EXCEPT ![n] = e]
      BY <1>8, RememberLemma, <2>2, <1>6, <1>9 DEF Worker
    <3>2. worker'.pending = p /\ worker'.current = <<item>> /\ worker'.rows = fitting
      BY <1>6, <1>8, <3>1 DEF Worker
    <3> DEFINE line == Line(worker, queue, fetch)
               first == primary
    <3>3. Line(worker', queue, fetch) = Tail(line) /\ Head(line) = item /\ line # <<>> /\ line \in Seq(Item)
      BY <1>1, <1>2, <3>2, LineTakes DEF item, p
    <3> HIDE DEF line, first
    <3>4. ASSUME NEW m \in DOMAIN inc
          PROVE  FlowOk(group, m, inc'[m], TopOf(group, folder[m].fetched, buffer[m]), RowsAt(worker', m), Line(worker', queue, fetch), primary)
      <4> DEFINE top == TopOf(group, folder[m].fetched, buffer[m])
                 i == inc[m]
      <4>1. FlowOk(group, m, i, top, <<>>, line, first)
        <5>1. Flows(fetch, worker, primary) /\ fetch.pc # "finish" BY <1>5, <3>1 DEF Flows, Joined
        <5> HIDE DEF FlowOk, TopOf, RowsAt, Line, Flows
        <5> QED BY <5>1, <1>1 DEF Data, FlowingOk, line, first, RowsAt
      <4>2. top \in Nat /\ group \in Group BY <1>5, TopType DEF Data, BufferedOk, TypeOK, Manifest
      <4>3. CASE m = n
        <5>2. inc'[m] = e BY <1>4, <3>1, <4>3
        <5>3. Head(line).name = n /\ Head(line).batch # <<>> /\ Head(line).batch = item.batch
          BY <1>4, <3>3 DEF n
        <5>4. FlowOk(group, n, inc[n], top, <<>>, line, first) BY <4>1, <4>3
        <5>5. e.dropped = inc[n].dropped + (Len(Head(line).batch) - Len(Fitting(n, Head(line).batch)))
          BY <1>7, <5>3 DEF d, fitting
        <5> HIDE DEF top, FlowOk
        <5>6. FlowOk(group, n, e, top, Fitting(n, Head(line).batch), Tail(line), first)
          BY <1>5, <1>7, <3>3, <4>2, <5>3, <5>4, <5>5, FlowTokenized
        <5> QED BY <3>3, <4>3, <5>2, <5>6, <3>2, <5>3 DEF top, first, RowsAt, n, fitting
      <4>4. CASE m # n
        <5>2. inc'[m] = i BY <3>1, <4>4
        <5> HIDE DEF top, FlowOk, i
        <5>4. FlowOk(group, m, i, top, <<>>, Tail(line), first)
          BY <3>3, <4>1, <4>2, FlowOthersTail, <4>4 DEF n
        <5> QED BY <3>3, <5>2, <5>4, <3>2, <4>4 DEF top, first, n, RowsAt
      <4> QED BY <4>3, <4>4
    <3> HIDE DEF FlowOk, TopOf, RowsAt, Line
    <3> QED BY <1>1, <1>10, <3>4 DEF FlowingOk
  <2> QED BY <2>1, <2>2
<1> HIDE DEF Data, DoneIn, FlowingOk
<1> QED BY <1>1, <1>10, <1>11, LineData

LEMMA NothingStored ==
    ASSUME NEW g \in Group, NEW n, NEW base, NEW f \in Nat
    PROVE  StoredOk(g, n, base, <<>>, f, f) /\ TopOf(g, f, <<>>) = f
<1>1. Kin(g, n, f, f, {"ok"}) = {} BY KinEmpty
<1>2. IdSet(<<>>) = {} /\ Increasing(Ids(<<>>)) /\ \A j \in DOMAIN <<>> : Told(g, n, base, <<>>[j])
  BY NothingIn DEF BatchOk
<1> QED BY <1>1, <1>2 DEF StoredOk, TopOf

LEMMA OffsetType ==
    ASSUME NEW m \in Manifest
    PROVE  m.fetched \in Nat /\ m.skipped \in Nat /\ m.dropped \in Nat /\ m.shards \in Seq(Shard) /\ m.exhausted \in BOOLEAN /\ m.reached \in Nat \cup {NoLimit}
<1> DEFINE SS == Seq(Shard)
<1> HIDE DEF SS
<1> QED BY DEF SS, Manifest

\* The next row of the batch is handed to its writer.
LEMMA FlowStores ==
    ASSUME NEW g \in Group, NEW n, NEW i, NEW f \in Nat, NEW buf \in Seq(Row), NEW rows \in Seq(Row), rows # <<>>, NEW line, NEW first,
           NEW top, top = TopOf(g, f, buf), StoredOk(g, n, i.base, buf, f, top), FlowOk(g, n, i, top, rows, line, first),
           NEW t, t = Append(buf, Head(rows))
    PROVE  /\ t \in Seq(Row) /\ t # <<>> /\ StoredOk(g, n, i.base, t, f, TopOf(g, f, t)) /\ TopOf(g, f, t) \in Nat
           /\ TopOf(g, f, t) = Ord(g, t[Len(t)].id) /\ Told(g, n, i.base, t[Len(t)])
           /\ FlowOk(g, n, i, TopOf(g, f, t), Tail(rows), line, first)
<1> DEFINE k == Ord(g, Head(rows).id)
<1>1. PICK w \in Nat, h \in Nat :
        /\ top <= w /\ w <= h /\ h <= i.base.fetched + i.consumed
        /\ first = "none" => h = i.base.fetched + i.consumed
        /\ i.base.dropped + i.dropped = Count(g, n, w, {"long"})
        /\ StoredOk(g, n, i.base, rows, top, w)
        /\ LineOk(g, n, i.base, line, i.batch, w, h)
  BY DEF FlowOk
<1>2. /\ t \in Seq(Row) /\ t # <<>> /\ TopOf(g, f, t) = k /\ t[Len(t)] = Head(rows)
      /\ k \in Nat /\ k <= w
      /\ StoredOk(g, n, i.base, t, f, k)
      /\ StoredOk(g, n, i.base, Tail(rows), k, w)
      /\ Told(g, n, i.base, Head(rows))
  BY <1>1, HandOver
<1>3. k = Ord(g, t[Len(t)].id) BY <1>2
<1> HIDE DEF k
<1> QED BY <1>2, <1>3, <1>1 DEF FlowOk

LEMMA BufferGrows ==
    ASSUME NEW g \in Group, NEW n, NEW i, NEW f \in Nat, NEW buf \in Seq(Row), NEW rows \in Seq(Row), rows # <<>>, NEW line, NEW first,
           NEW top, top = TopOf(g, f, buf), StoredOk(g, n, i.base, buf, f, top), FlowOk(g, n, i, top, rows, line, first),
           NEW t, t = Append(buf, Head(rows))
    PROVE  StoredOk(g, n, i.base, t, f, TopOf(g, f, t))
BY FlowStores

LEMMA FlowAdvances ==
    ASSUME NEW g \in Group, NEW n, NEW i, NEW f \in Nat, NEW buf \in Seq(Row), NEW rows \in Seq(Row), rows # <<>>, NEW line, NEW first,
           NEW top, top = TopOf(g, f, buf), StoredOk(g, n, i.base, buf, f, top), FlowOk(g, n, i, top, rows, line, first),
           NEW t, t = Append(buf, Head(rows))
    PROVE  FlowOk(g, n, i, TopOf(g, f, t), Tail(rows), line, first)
BY FlowStores

\* Only one source is written.
LEMMA SourceData ==
    ASSUME TypeOK, Data, UNCHANGED <<group, pos>>, NEW n \in DOMAIN inc, DOMAIN inc' = DOMAIN inc,
           \A m \in DOMAIN inc : /\ inc'[m].base = inc[m].base /\ inc'[m].consumed = inc[m].consumed /\ inc'[m].skipped = inc[m].skipped
                                 /\ DoneIn(m, inc[m]) => DoneIn(m, inc'[m]),
           \A m \in group : m # n => disk'[m] = disk[m] /\ folder'[m] = folder[m] /\ buffer'[m] = buffer[m],
           GoodManifest(group, n, disk'[n]), GoodManifest(group, n, folder'[n]),
           fetch'.pc # "idle" => fetch.pc # "idle", Pulling(fetch') => Pulling(fetch),
           StoredOk(group, n, inc[n].base, buffer'[n], folder'[n].fetched, TopOf(group, folder'[n].fetched, buffer'[n])),
           FlowingOk(group, fetch', inc', worker', queue', folder', buffer', primary')
    PROVE  Data'
<1> HIDE DEF DoneIn, FlowOk, GoodManifest, StoredOk, Read, At, TopOf, FlowingOk
<1>3. BufferedOk(group', fetch', inc', folder', buffer')
  <2> SUFFICES ASSUME fetch'.pc # "idle", NEW m \in DOMAIN inc
               PROVE StoredOk(group, m, inc'[m].base, buffer'[m], folder'[m].fetched, TopOf(group, folder'[m].fetched, buffer'[m]))
    BY DEF BufferedOk
  <2>1. inc'[m].base = inc[m].base /\ m \in group BY DEF TypeOK
  <2>2. CASE m # n BY <2>1, <2>2 DEF Data, BufferedOk
  <2>3. CASE m = n BY <2>1, <2>3
  <2> QED BY <2>2, <2>3
<1>4. LoaderOk(group', fetch', inc', pos') BY DEF LoaderOk, Data, At
<1> QED BY <1>3, <1>4 DEF Data, ManifestsOk, ReadOk, Read

LEMMA StoreRowData ==
    ASSUME TypeOK, Control, Data, StoreRow
    PROVE  Data'
<1> DEFINE n == worker.current[1].name
           r == Head(worker.rows)
           rows == Append(buffer[n], r)
           s == Tail(worker.rows)
           next == [worker EXCEPT !.rows = s]
           shard == RecordShard(folder[n], inc[n], rows)
           k == inc[n].kept + 1
           e == [inc[n] EXCEPT !.kept = k]
           b == worker.stop \/ StopNow
<1>1. UNCHANGED <<group, pos, fetch, queue, primary>> /\ worker.rows # <<>> BY DEF StoreRow
<1>2. worker \in Worker /\ WorkerOk(worker, queue, fetch.pc, DOMAIN inc, primary) BY DEF TypeOK, Control
<1>3. worker.current # <<>> /\ worker.storing /\ n \in DOMAIN inc /\ fetch.pc # "idle" /\ ~Joined(fetch.pc)
  BY Zenon, <1>1, <1>2 DEF WorkerOk
<1>4. inc[n] \in Inc /\ n \in group /\ group \in Group /\ folder[n] \in Manifest /\ buffer[n] \in Seq(Row) /\ worker.rows \in Seq(Row)
      /\ folder \in [group -> Manifest] /\ disk \in [group -> Manifest] /\ buffer \in [group -> Seq(Row)]
  BY Zenon, <1>2, <1>3, WorkerTypes DEF TypeOK
<1>5. k \in Nat /\ inc[n].kept \in Nat /\ inc[n].wanted \in Nat /\ folder[n].fetched \in Nat
  BY <1>4, IncFields, OffsetType DEF k
<1>6. /\ e.base = inc[n].base /\ e.consumed = inc[n].consumed /\ e.skipped = inc[n].skipped /\ e.batch = inc[n].batch /\ e.dropped = inc[n].dropped
      /\ e.passive = inc[n].passive /\ e.kept = k /\ e.wanted = inc[n].wanted /\ e.budget = inc[n].budget
  <2> HIDE DEF k
  <2> QED BY <1>4 DEF Inc
<1>7. DoneIn(n, inc[n]) => DoneIn(n, e) BY <1>5, <1>6 DEF DoneIn, Spent
<1>8. next \in Worker /\ b \in BOOLEAN /\ next.rows = s /\ next.current = worker.current /\ next.pending = worker.pending /\ next.storing = worker.storing
  <2>1. s \in Seq(Row) BY Zenon, <1>1, <1>4, TailLemma
  <2>2. next \in Worker BY Zenon, <1>2, <2>1, WorkerTypes
  <2>3. b \in BOOLEAN BY Zenon, <1>2, WorkerTypes DEF StopNow, TypeOK
  <2> QED BY <1>2, <2>2, <2>3 DEF Worker
<1> HIDE DEF n, r, rows, s, next, shard, e, b, k
<1>9. \/ /\ buffer' = [buffer EXCEPT ![n] = rows] /\ inc' = [inc EXCEPT ![n] = e] /\ worker' = next
         /\ UNCHANGED <<disk, folder, gate>>
      \/ /\ buffer' = [buffer EXCEPT ![n] = <<>>] /\ folder' = [folder EXCEPT ![n] = shard] /\ disk' = [disk EXCEPT ![n] = shard]
         /\ inc' = [inc EXCEPT ![n] = e] /\ worker' = [next EXCEPT !.stop = b]
      \/ /\ buffer' = [buffer EXCEPT ![n] = <<>>] /\ worker' = [Remember(worker, "error") EXCEPT !.storing = FALSE, !.stop = FALSE, !.rows = <<>>]
         /\ UNCHANGED <<disk, folder, inc, gate>>
  <2>2. [next EXCEPT !.stop = next.stop \/ StopNow] = [next EXCEPT !.stop = b] BY <1>2 DEF b, Worker, next
  <2> QED BY <2>2 DEF StoreRow, n, r, rows, s, next, shard, e, k
<1> DEFINE f == folder[n].fetched
           buf == buffer[n]
           line == Line(worker, queue, fetch)
           first == primary
           top == TopOf(group, f, rows)
<1>10. /\ StoredOk(group, n, inc[n].base, buf, f, TopOf(group, f, buf)) /\ FlowOk(group, n, inc[n], TopOf(group, f, buf), worker.rows, line, first)
       /\ GoodManifest(group, n, folder[n]) /\ GoodManifest(group, n, disk[n])
       /\ \A m \in DOMAIN inc : FlowOk(group, m, inc[m], TopOf(group, folder[m].fetched, buffer[m]), RowsAt(worker, m), line, first)
  <2> HIDE DEF FlowOk, TopOf, RowsAt, Line, Flows, StoredOk, GoodManifest
  <2>3. \A m \in DOMAIN inc : FlowOk(group, m, inc[m], TopOf(group, folder[m].fetched, buffer[m]), RowsAt(worker, m), line, first)
    BY <1>3 DEF Data, FlowingOk, Flows, Joined
  <2> QED BY <1>3, <2>3, <1>4 DEF RowsAt, n, Data, ManifestsOk, BufferedOk
<1> HIDE DEF f, buf, line, first
<1>11. f \in Nat /\ buf \in Seq(Row) /\ rows = Append(buf, Head(worker.rows))
  BY <1>4, <1>5 DEF rows, r, f, buf
<1>12. /\ rows \in Seq(Row) /\ rows # <<>> /\ StoredOk(group, n, inc[n].base, rows, f, top) /\ top \in Nat
       /\ top = Ord(group, rows[Len(rows)].id) /\ Told(group, n, inc[n].base, rows[Len(rows)])
       /\ FlowOk(group, n, inc[n], top, s, line, first)
  <2> DEFINE i == inc[n]
             wr == worker.rows
             g == group
  <2>1. /\ g \in Group /\ wr \in Seq(Row) /\ wr # <<>> /\ f \in Nat /\ buf \in Seq(Row) /\ rows = Append(buf, Head(wr))
        /\ StoredOk(g, n, i.base, buf, f, TopOf(g, f, buf)) /\ FlowOk(g, n, i, TopOf(g, f, buf), wr, line, first)
    BY <1>1, <1>4, <1>10, <1>11
  <2> DEFINE t0 == TopOf(g, f, buf)
  <2>a. /\ StoredOk(g, n, i.base, buf, f, t0) /\ FlowOk(g, n, i, t0, wr, line, first) /\ t0 = TopOf(g, f, buf)
    BY <2>1
  <2> HIDE DEF t0
  <2> HIDE DEF StoredOk, FlowOk, Told, TopOf, i, wr, g
  <2>b. g \in Group /\ wr \in Seq(Row) /\ wr # <<>> /\ f \in Nat /\ buf \in Seq(Row) /\ rows = Append(buf, Head(wr))
    BY <2>1
  <2>3. StoredOk(g, n, i.base, rows, f, TopOf(g, f, rows)) BY <2>a, <2>b, BufferGrows
  <2>c. rows \in Seq(Row) /\ rows # <<>> BY <2>b, AppendLemma
  <2>2. rows \in Seq(Row) /\ rows # <<>> /\ TopOf(g, f, rows) \in Nat BY <2>b, <2>3, <2>c, TopType
  <2>4. TopOf(g, f, rows) = Ord(g, rows[Len(rows)].id) BY <2>2 DEF TopOf
  <2>5. Told(g, n, i.base, rows[Len(rows)]) BY <2>2, <2>3, LastIsLargest DEF StoredOk
  <2>6. FlowOk(g, n, i, TopOf(g, f, rows), Tail(wr), line, first)
    <3>1. FlowOk(g, n, i, t0, wr, line, first) /\ StoredOk(g, n, i.base, buf, f, t0) /\ t0 = TopOf(g, f, buf)
      BY <2>a
    <3>2. g \in Group /\ wr \in Seq(Row) /\ wr # <<>> /\ f \in Nat /\ buf \in Seq(Row) /\ rows = Append(buf, Head(wr))
      BY <2>1
    <3> QED BY <3>1, <3>2, FlowAdvances
  <2> QED BY <2>2, <2>3, <2>4, <2>5, <2>6 DEF i, wr, g, s, top
<1> HIDE DEF top
<1>13. FlowOk(group, n, e, top, s, line, first) BY <1>6, <1>12, FlowWeakens
<1>14. DOMAIN inc' = DOMAIN inc /\ (inc' = [inc EXCEPT ![n] = e] \/ inc' = inc) BY <1>3, <1>9
<1>15. \A m \in DOMAIN inc : /\ inc'[m].base = inc[m].base /\ inc'[m].consumed = inc[m].consumed /\ inc'[m].skipped = inc[m].skipped
                             /\ DoneIn(m, inc[m]) => DoneIn(m, inc'[m])
  BY <1>6, <1>7, <1>14
<1>16. \A m \in group : m # n => disk'[m] = disk[m] /\ folder'[m] = folder[m] /\ buffer'[m] = buffer[m]
  BY <1>4, <1>9
<1>17. worker'.storing => worker'.rows = s /\ worker'.current = worker.current /\ worker'.pending = worker.pending /\ inc' = [inc EXCEPT ![n] = e]
       /\ (\/ buffer'[n] = rows /\ folder'[n] = folder[n]
           \/ buffer'[n] = <<>> /\ folder'[n] = shard)
  <2>1. CASE /\ buffer' = [buffer EXCEPT ![n] = rows] /\ inc' = [inc EXCEPT ![n] = e] /\ worker' = next
             /\ UNCHANGED <<disk, folder, gate>>
    BY <1>4, <1>8, <2>1
  <2>2. CASE /\ buffer' = [buffer EXCEPT ![n] = <<>>] /\ folder' = [folder EXCEPT ![n] = shard] /\ disk' = [disk EXCEPT ![n] = shard]
             /\ inc' = [inc EXCEPT ![n] = e] /\ worker' = [next EXCEPT !.stop = b]
    BY <1>8, <2>2, <1>4 DEF Worker
  <2>3. CASE /\ buffer' = [buffer EXCEPT ![n] = <<>>] /\ worker' = [Remember(worker, "error") EXCEPT !.storing = FALSE, !.stop = FALSE, !.rows = <<>>]
             /\ UNCHANGED <<disk, folder, inc, gate>>
    BY <1>2, RememberLemma, <2>3 DEF Worker
  <2> QED BY <1>9, <2>1, <2>2, <2>3
<1>18. GoodManifest(group, n, shard) /\ shard \in Manifest /\ shard.fetched = top
  <2> HIDE DEF GoodManifest, Told
  <2> DEFINE i == inc[n]
             m == folder[n]
             g == group
  <2>3. /\ g \in Group /\ m \in Manifest /\ GoodManifest(g, n, m) /\ i \in Inc /\ rows \in Seq(Row) /\ rows # <<>> /\ Increasing(Ids(rows))
        /\ Members(Ids(rows)) = Kin(g, n, m.fetched, Ord(g, rows[Len(rows)].id), {"ok"}) /\ Told(g, n, i.base, rows[Len(rows)])
    BY <1>4, <1>10, <1>12 DEF f, StoredOk, IdSet
  <2> HIDE DEF i, m, g
  <2>4. /\ RecordShard(m, i, rows) \in Manifest
        /\ GoodManifest(g, n, RecordShard(m, i, rows))
        /\ RecordShard(m, i, rows).fetched = Ord(g, rows[Len(rows)].id)
    BY <2>3, RecordGood
  <2> QED BY <1>12, <2>4 DEF shard, i, m, g
<1>19. /\ GoodManifest(group, n, disk'[n]) /\ GoodManifest(group, n, folder'[n])
       /\ StoredOk(group, n, inc[n].base, buffer'[n], folder'[n].fetched, TopOf(group, folder'[n].fetched, buffer'[n]))
       /\ \/ buffer'[n] = rows /\ folder'[n] = folder[n]
          \/ buffer'[n] = <<>> /\ folder'[n] \in {shard, folder[n]}
  <2> HIDE DEF GoodManifest, StoredOk
  <2>1. CASE buffer'[n] = rows /\ folder'[n] = folder[n] /\ disk'[n] = disk[n]
    BY <1>10, <1>12, <2>1 DEF f, top
  <2>2. CASE buffer'[n] = <<>> /\ folder'[n] = shard /\ disk'[n] = shard
    <3>a. StoredOk(group, n, inc[n].base, <<>>, top, top) /\ TopOf(group, top, <<>>) = top
      BY <1>4, <1>12, NothingStored
    <3> QED BY <1>18, <2>2, <3>a
  <2>3. CASE buffer'[n] = <<>> /\ folder'[n] = folder[n] /\ disk'[n] = disk[n]
    <3>a. StoredOk(group, n, inc[n].base, <<>>, f, f) /\ TopOf(group, f, <<>>) = f
      BY <1>4, <1>11, NothingStored
    <3> QED BY <1>10, <2>3, <3>a DEF f
  <2> QED BY <2>1, <2>2, <2>3, <1>4, <1>9
<1>20. FlowingOk(group, fetch', inc', worker', queue', folder', buffer', primary')
  <2> HIDE DEF FlowOk
  <2> SUFFICES ASSUME worker'.storing, NEW m \in DOMAIN inc
               PROVE  FlowOk(group, m, inc'[m], TopOf(group, folder'[m].fetched, buffer'[m]), RowsAt(worker', m), Line(worker', queue, fetch), primary)
    <3> HIDE DEF TopOf, RowsAt, Line
    <3> QED BY <1>1, <1>14 DEF FlowingOk, Flows
  <2>1. Line(worker', queue, fetch) = line BY <1>17 DEF Line, line
  <2>2. CASE m = n
    <3>1. RowsAt(worker', m) = s BY <1>3, <1>17, <2>2 DEF RowsAt, n
    <3>2. inc'[m] = e BY <1>3, <1>17, <2>2
    <3>3. TopOf(group, folder'[m].fetched, buffer'[m]) = top BY <2>2, <1>18, <1>17 DEF top, f, TopOf
    <3> QED BY <1>13, <2>1, <2>2, <3>1, <3>2, <3>3 DEF first
  <2>3. CASE m # n BY <1>17, <2>3, <1>16, <1>10, <2>1 DEF RowsAt, n, TypeOK, first
  <2> QED BY <2>2, <2>3
<1>21. fetch' = fetch BY <1>1
<1> HIDE DEF Data, DoneIn, FlowingOk, GoodManifest, StoredOk, TopOf, Pulling
<1> QED BY <1>1, <1>3, <1>14, <1>15, <1>16, <1>19, <1>20, <1>21, SourceData

\* All that was consumed is stored.
LEMMA FlowEnds ==
    ASSUME NEW g \in Group, NEW n, NEW i \in Inc, NEW f \in Nat, FlowOk(g, n, i, f, <<>>, <<>>, "none"), i.batch = <<>>, NEW h, h = i.base.fetched + i.consumed
    PROVE  h \in Nat /\ f <= h /\ Kin(g, n, f, h, {"ok"}) = {} /\ i.base.dropped + i.dropped = Count(g, n, h, {"long"})
<1> DEFINE ok == {"ok"}
           long == {"long"}
<1>1. PICK w \in Nat, v \in Nat :
        /\ f <= w /\ w <= v /\ v = h
        /\ i.base.dropped + i.dropped = Count(g, n, w, long)
        /\ StoredOk(g, n, i.base, <<>>, f, w)
        /\ LineOk(g, n, i.base, <<>>, <<>>, w, v)
  BY DEF FlowOk
<1>2. h \in Nat /\ f <= h BY <1>1
<1>3. Kin(g, n, f, w, ok) = {} BY <1>1, NothingIn DEF StoredOk
<1>5. Kin(g, n, w, h, ok) = {} /\ Kin(g, n, w, h, long) = {} BY <1>1, NothingIn DEF Kin, Fits, LineOk, Carried
<1> HIDE DEF ok, long, Kin
<1>7. Kin(g, n, f, h, ok) = {} BY <1>3, <1>5, NothingJoins, <1>1, <1>2
<1>9. Count(g, n, h, long) = Count(g, n, w, long)
  <2>1. Cardinality(Kin(g, n, w, h, long)) = 0 BY <1>5, FS_EmptySet
  <2> QED BY <2>1, <1>1, <1>2, CountSplit
<1> QED BY <1>1, <1>2, <1>7, <1>9 DEF ok, long

\* A writer's last rows.
LEMMA LastShard ==
    ASSUME NEW g \in Group, NEW n, NEW m \in Manifest, GoodManifest(g, n, m), NEW i \in Inc, NEW rows \in Seq(Row), rows # <<>>,
           StoredOk(g, n, i.base, rows, m.fetched, TopOf(g, m.fetched, rows))
    PROVE  /\ GoodManifest(g, n, RecordShard(m, i, rows)) /\ RecordShard(m, i, rows) \in Manifest
           /\ RecordShard(m, i, rows).fetched = TopOf(g, m.fetched, rows)
<1>1. TopOf(g, m.fetched, rows) = Ord(g, rows[Len(rows)].id) BY DEF TopOf
<1>2. Increasing(Ids(rows)) /\ Members(Ids(rows)) = Kin(g, n, m.fetched, Ord(g, rows[Len(rows)].id), {"ok"})
  BY <1>1 DEF StoredOk, IdSet
<1>4. Told(g, n, i.base, rows[Len(rows)]) BY <1>2, LastIsLargest DEF StoredOk
<1> QED BY <1>1, <1>2, <1>4, RecordGood

LEMMA FlushWriterData ==
    ASSUME TypeOK, Control, Data, FlushWriter
    PROVE  Data'
<1> DEFINE n == First(fetch.todo)
           t == fetch.todo \ {n}
           shard == RecordShard(folder[n], inc[n], buffer[n])
           f == folder[n].fetched
<1>1. UNCHANGED <<group, inc, pos, queue, worker>> /\ fetch.pc \in {"exit", "salvage"} /\ fetch.todo # {}
      /\ fetch' = [fetch EXCEPT !.todo = t] /\ buffer' = [buffer EXCEPT ![n] = <<>>]
  BY DEF FlushWriter
<1>2. fetch \in Fetch /\ FetchOk(fetch, inc, primary) BY DEF TypeOK, Control
<1>3. n \in fetch.todo BY <1>1, FirstLemma
<1> HIDE DEF n
<1>4. n \in DOMAIN inc BY <1>2, <1>3 DEF FetchOk
<1>5. inc[n] \in Inc /\ n \in group /\ group \in Group /\ folder[n] \in Manifest /\ buffer[n] \in Seq(Row)
      /\ folder \in [group -> Manifest] /\ disk \in [group -> Manifest] /\ buffer \in [group -> Seq(Row)]
  BY <1>4 DEF TypeOK
<1>6. \/ buffer[n] = <<>> /\ UNCHANGED <<disk, folder, gate, primary>>
      \/ UNCHANGED <<disk, folder>> /\ Record("error")
      \/ /\ buffer[n] # <<>> /\ folder' = [folder EXCEPT ![n] = shard] /\ disk' = [disk EXCEPT ![n] = shard]
         /\ Record("stop") \/ UNCHANGED <<gate, primary>>
  BY DEF FlushWriter, n
<1>7. f \in Nat BY <1>5, OffsetType
<1> HIDE DEF shard, t
<1>8. StoredOk(group, n, inc[n].base, buffer[n], f, TopOf(group, f, buffer[n])) /\ GoodManifest(group, n, folder[n]) /\ GoodManifest(group, n, disk[n])
  <2> HIDE DEF StoredOk, GoodManifest, TopOf
  <2> QED BY <1>1, <1>4, <1>5 DEF Data, BufferedOk, ManifestsOk
<1>10. fetch'.pc = fetch.pc BY <1>1, <1>2 DEF Fetch
<1>11. \A m \in group : m # n => disk'[m] = disk[m] /\ folder'[m] = folder[m] /\ buffer'[m] = buffer[m]
  BY <1>1, <1>5, <1>6
<1>12. buffer'[n] = <<>> /\ (primary # "none" => primary' # "none") BY <1>1, <1>5, <1>6, RecordLemma
<1>13. /\ GoodManifest(group, n, disk'[n]) /\ GoodManifest(group, n, folder'[n]) /\ folder'[n] \in Manifest
       /\ primary' = "none" => folder'[n].fetched = TopOf(group, f, buffer[n])
  BY <1>5, <1>8, RecordLemma, <1>6, LastShard DEF TopOf, shard
<1>14. StoredOk(group, n, inc[n].base, buffer'[n], folder'[n].fetched, TopOf(group, folder'[n].fetched, buffer'[n]))
  <2> DEFINE a == folder'[n].fetched
             base == inc[n].base
             g == group
  <2>1. a \in Nat /\ g \in Group BY <1>5, <1>13, OffsetType
  <2> HIDE DEF a, base, g, StoredOk, TopOf
  <2> QED BY <1>12, <2>1, NothingStored DEF a, base, g
<1>15. FlowingOk(group, fetch', inc', worker', queue', folder', buffer', primary')
  <2> HIDE DEF FlowOk
  <2> SUFFICES ASSUME Flows(fetch', worker, primary'), NEW m \in DOMAIN inc
               PROVE  FlowOk(group, m, inc[m], TopOf(group, folder'[m].fetched, buffer'[m]), RowsAt(worker, m), Line(worker, queue, fetch'), primary')
    <3> HIDE DEF TopOf, RowsAt, Line, Flows
    <3> QED BY <1>1 DEF FlowingOk
  <2>1. primary' = "none" /\ primary = "none" /\ Flows(fetch, worker, primary) /\ fetch.pc # "finish"
    BY <1>1, <1>10, <1>12 DEF Flows
  <2>2. Line(worker, queue, fetch') = Line(worker, queue, fetch)
    <3>1. fetch.pc \notin {"submit", "put"} /\ fetch'.pc \notin {"submit", "put"} BY <1>1, <1>10
    <3> QED BY <3>1, LineIs
  <2>3. FlowOk(group, m, inc[m], TopOf(group, folder[m].fetched, buffer[m]), RowsAt(worker, m), Line(worker, queue, fetch), primary)
    <3> HIDE DEF TopOf, RowsAt, Line, Flows
    <3> QED BY <2>1 DEF Data, FlowingOk
  <2>4. TopOf(group, folder'[m].fetched, buffer'[m]) = TopOf(group, folder[m].fetched, buffer[m])
    <3>1. CASE m = n BY <1>13, <2>1, <1>12, <3>1 DEF TopOf
    <3>2. CASE m # n BY <1>11, <3>2 DEF TypeOK
    <3> QED BY <3>1, <3>2
  <2> HIDE DEF TopOf, RowsAt, Line
  <2> QED BY <2>1, <2>2, <2>3, <2>4
<1>16. Pulling(fetch') => Pulling(fetch) BY <1>1, <1>10 DEF Pulling
<1> HIDE DEF Data, DoneIn, FlowingOk, GoodManifest, StoredOk, TopOf, Pulling
<1>17. DOMAIN inc' = DOMAIN inc /\ inc' = inc /\ fetch.pc # "idle" BY <1>1
<1> QED BY <1>1, <1>4, <1>11, <1>13, <1>14, <1>15, <1>16, <1>17, SourceData

\* What a source's folder is at the end of a pass.
LEMMA FinishedGood ==
    ASSUME TypeOK, NEW n \in DOMAIN inc, NEW h, h = inc[n].base.fetched + inc[n].consumed, GoodManifest(group, n, folder[n]), GoodManifest(group, n, disk[n]),
           h \in Nat, folder[n].fetched <= h, Kin(group, n, folder[n].fetched, h, {"ok"}) = {},
           inc[n].base.skipped + inc[n].skipped = Count(group, n, h, {"bad", "orphan"}),
           inc[n].base.dropped + inc[n].dropped = Count(group, n, h, {"long"})
    PROVE  GoodManifest(group, n, Finished(n))
<1> DEFINE i == inc[n]
           m == folder[n]
           l == IF i.limit # NoLimit /\ i.base.fetched + i.consumed >= i.limit THEN i.limit ELSE NoLimit
           asof == AsOf(i, i)
           marked == MarkExhausted(m, l)
           g == group
<1>1. i \in Inc /\ m \in Manifest /\ g \in Group BY DEF TypeOK
<1>2. asof \in Offset /\ asof.fetched = h /\ asof.skipped = i.base.skipped + i.skipped /\ asof.dropped = i.base.dropped + i.dropped
  BY <1>1, IncFields, AsOfType DEF AsOf
<1>3. l \in Nat \cup {NoLimit}
  <2>1. i.limit \in Nat \cup {NoLimit} BY <1>1, IncTypes
  <2> HIDE DEF i
  <2> QED BY <2>1
<1>4. Finished(n) \in {disk[n], Stored(marked, asof), Stored(m, asof)} BY DEF Finished
<1> HIDE DEF l, asof
<1>5. marked \in Manifest /\ marked.shards = m.shards
  <2> HIDE DEF m
  <2> QED BY <1>1, <1>3, MarkedType
<1> HIDE DEF marked
<1>6. \A x \in Manifest : x.shards = m.shards => GoodManifest(g, n, Stored(x, asof))
  <2> SUFFICES ASSUME NEW x \in Manifest, x.shards = m.shards PROVE GoodManifest(g, n, Stored(x, asof))
    OBVIOUS
  <2> DEFINE t == Stored(x, asof)
  <2>1. t.shards = m.shards /\ t.fetched = h /\ t.skipped = asof.skipped /\ t.dropped = asof.dropped
    <3> HIDE DEF m
    <3> QED BY <1>2, StoredType
  <2> HIDE DEF t
  <2>2. g \in Group /\ m \in Manifest /\ GoodManifest(g, n, m) /\ t.fetched \in Nat /\ m.fetched <= t.fetched
    BY <1>1, <2>1
  <2>3. Kin(g, n, m.fetched, t.fetched, {"ok"}) = {} /\ t.skipped = Count(g, n, t.fetched, {"bad", "orphan"}) /\ t.dropped = Count(g, n, t.fetched, {"long"})
    BY <1>2, <2>1
  <2> HIDE DEF m, g, GoodManifest
  <2> QED BY <2>1, <2>2, <2>3, FurtherGood DEF t
<1> HIDE DEF m, GoodManifest
<1> QED BY <1>1, <1>4, <1>5, <1>6

LEMMA FinishIncrementData ==
    ASSUME TypeOK, Control, Data, FinishIncrement
    PROVE  Data'
<1>1. UNCHANGED <<group, inc, pos, queue, worker, buffer, gate, primary>> /\ fetch.pc = "finish"
  BY DEF FinishIncrement
<1>2. fetch \in Fetch /\ worker \in Worker /\ WorkerOk(worker, queue, "finish", DOMAIN inc, primary) /\ FetchOk(fetch, inc, primary) /\ BuffersOk(fetch, inc, buffer)
  BY <1>1 DEF TypeOK, Control
<1>3. CASE fetch.todo = {}
  <2>2. NoFetch.pc = "idle" BY DEF NoFetch
  <2> HIDE DEF Data, DoneIn, FlowingOk, Pulling
  <2>5. DOMAIN inc' = DOMAIN inc /\ inc' = inc BY <1>1
  <2> QED BY <1>1, <2>5, LineData, <2>2, <1>3 DEF FlowingOk, Flows, Pulling, FinishIncrement
<1>4. CASE fetch.todo # {}
  <2> DEFINE n == First(fetch.todo)
             t == fetch.todo \ {n}
             m == Finished(n)
             f == folder[n].fetched
             h == inc[n].base.fetched + inc[n].consumed
  <2>1. disk' = [disk EXCEPT ![n] = m] /\ folder' = [folder EXCEPT ![n] = m] /\ fetch' = [fetch EXCEPT !.todo = t]
    BY <1>4 DEF FinishIncrement
  <2>2. n \in fetch.todo BY <1>4, FirstLemma
  <2> HIDE DEF n
  <2>3. n \in DOMAIN inc BY <1>2, <2>2 DEF FetchOk
  <2>4. m \in Manifest BY <2>3, FinishedType
  <2>5. inc[n] \in Inc /\ n \in group /\ group \in Group /\ folder[n] \in Manifest
        /\ folder \in [group -> Manifest] /\ disk \in [group -> Manifest] /\ buffer \in [group -> Seq(Row)]
    BY <2>3 DEF TypeOK
  <2>6. f \in Nat BY <2>5, OffsetType
  <2>7. queue = <<>> /\ worker.pending = <<>> /\ worker.current = <<>> /\ primary = "none" /\ worker.storing /\ inc[n].batch = <<>> /\ buffer[n] = <<>>
    BY <1>1, <1>2, AfterJoin, <2>3 DEF Joined, FetchOk, WorkerOk, Closing, BuffersOk
  <2>8. Flows(fetch, worker, primary) /\ \A v : Line(worker, queue, v) = <<>> \/ v.pc # "finish"
    <3>1. worker.pending \o queue = <<>> BY <2>7
    <3> QED BY <1>1, <2>7, <3>1, LineIs DEF Flows
  <2> HIDE DEF m, f, t
  <2>9. /\ FlowOk(group, n, inc[n], TopOf(group, f, buffer[n]), RowsAt(worker, n), Line(worker, queue, fetch), primary)
        /\ Read(group, n, inc[n]) /\ GoodManifest(group, n, folder[n]) /\ GoodManifest(group, n, disk[n])
    <3> HIDE DEF FlowOk, TopOf, RowsAt, Line, Flows, Read, GoodManifest
    <3> QED BY <1>1, <2>2, <2>3, <2>5, <2>8 DEF Data, FlowingOk, ReadOk, ManifestsOk, f
  <2> HIDE DEF FlowOk, GoodManifest
  <2>11. h \in Nat /\ f <= h /\ Kin(group, n, f, h, {"ok"}) = {} /\ inc[n].base.dropped + inc[n].dropped = Count(group, n, h, {"long"})
    <3> DEFINE i == inc[n]
               g == group
    <3>1. g \in Group /\ i \in Inc /\ f \in Nat /\ FlowOk(g, n, i, f, <<>>, <<>>, "none") /\ i.batch = <<>> /\ h = i.base.fetched + i.consumed
      BY <2>5, <2>6, <2>7, <1>1, <2>8, <2>9 DEF TopOf, RowsAt
    <3> HIDE DEF i, g, h
    <3>2. h \in Nat /\ f <= h /\ Kin(g, n, f, h, {"ok"}) = {} /\ i.base.dropped + i.dropped = Count(g, n, h, {"long"})
      BY <3>1, FlowEnds
    <3> QED BY <3>2 DEF i, g
  <2>13. GoodManifest(group, n, m) BY <2>11, <2>3, <2>9, FinishedGood DEF f, m, Read
  <2> HIDE DEF h
  <2>14. fetch'.pc = fetch.pc /\ fetch'.todo = t BY <1>2, <2>1 DEF Fetch
  <2>15. \A k \in group : k # n => disk'[k] = disk[k] /\ folder'[k] = folder[k] /\ buffer'[k] = buffer[k]
    BY <1>1, <2>1, <2>5
  <2>16. disk'[n] = m /\ folder'[n] = m BY <2>1, <2>5
  <2>17. StoredOk(group, n, inc[n].base, buffer'[n], folder'[n].fetched, TopOf(group, folder'[n].fetched, buffer'[n]))
    <3> DEFINE a == m.fetched
               base == inc[n].base
               g == group
    <3>1. a \in Nat /\ g \in Group BY <2>4, <2>5, OffsetType
    <3> HIDE DEF a, base, g, StoredOk, TopOf
    <3> QED BY <2>16, <3>1, NothingStored, <1>1, <2>7 DEF a, base, g
  <2>18. FlowingOk(group, fetch', inc', worker', queue', folder', buffer', primary')
    <3> SUFFICES ASSUME NEW k \in DOMAIN inc, k \in t
                 PROVE  FlowOk(group, k, inc[k], TopOf(group, folder'[k].fetched, buffer'[k]), RowsAt(worker, k), Line(worker, queue, fetch'), primary)
      <4> HIDE DEF TopOf, RowsAt, Line, Flows
      <4> QED BY <1>1, <2>14 DEF FlowingOk
    <3>1. k # n /\ k \in fetch.todo BY DEF t
    <3>2. FlowOk(group, k, inc[k], TopOf(group, folder[k].fetched, buffer[k]), RowsAt(worker, k), Line(worker, queue, fetch), primary)
      <4> HIDE DEF TopOf, RowsAt, Line, Flows
      <4> QED BY <2>8, <3>1 DEF Data, FlowingOk
    <3>3. Line(worker, queue, fetch') = Line(worker, queue, fetch)
      <4> HIDE DEF Line
      <4> QED BY <1>1, <2>8, <2>14
    <3> HIDE DEF TopOf, RowsAt, Line
    <3> QED BY <3>2, <3>3, <2>15, <3>1 DEF TypeOK
  <2>19. ~Pulling(fetch') /\ fetch.pc # "idle" /\ DOMAIN inc' = DOMAIN inc /\ inc' = inc
    BY <1>1, <2>14 DEF Pulling
  <2>20. GoodManifest(group, n, disk'[n]) /\ GoodManifest(group, n, folder'[n]) BY <2>13, <2>16
  <2> HIDE DEF Data, DoneIn, FlowingOk, StoredOk, TopOf, Pulling
  <2> QED BY <1>1, <2>3, <2>15, <2>17, <2>18, <2>19, <2>20, SourceData
<1> QED BY <1>3, <1>4

\* Between passes only the manifests speak of the data.
LEMMA IdleData ==
    ASSUME fetch'.pc = "idle", ManifestsOk(group', disk', folder')
    PROVE  Data'
<1>1. ~Pulling(fetch') /\ ~Flows(fetch', worker', primary') BY DEF Pulling, Flows
<1> HIDE DEF Pulling, Flows
<1> QED BY <1>1 DEF Data, ReadOk, BufferedOk, LoaderOk, FlowingOk

LEMMA CrashData ==
    ASSUME Data, Crash
    PROVE  Data'
<1>1. fetch' = NoFetch /\ folder' = disk /\ UNCHANGED <<group, disk>> BY DEF Crash
<1>2. fetch'.pc = "idle" BY <1>1 DEF NoFetch
<1> HIDE DEF Data, ManifestsOk
<1> QED BY <1>2, IdleData, <1>1 DEF Data, ManifestsOk

LEMMA ReopenData ==
    ASSUME TypeOK, Data, NEW n \in group, Reopen(n)
    PROVE  Data'
<1> DEFINE d == disk[n]
           m == [d EXCEPT !.exhausted = FALSE, !.reached = NoLimit]
<1>1. UNCHANGED <<group, folder, fetch>> /\ fetch.pc = "idle" BY DEF Reopen, fetchVars, Busy
<1>2. disk' = [disk EXCEPT ![n] = m] BY DEF Reopen, TypeOK
<1>3. d \in Manifest /\ disk \in [group -> Manifest] BY DEF TypeOK
<1>4. m.shards = d.shards /\ m.fetched = d.fetched /\ m.skipped = d.skipped /\ m.dropped = d.dropped
  BY <1>3 DEF Manifest
<1>5. group \in Group /\ GoodManifest(group, n, d)
  <2> HIDE DEF GoodManifest
  <2> QED BY DEF TypeOK, Data, ManifestsOk
<1> HIDE DEF d, m
<1>7. ManifestsOk(group', disk', folder') BY <1>1, <1>2, <1>3, <1>4, <1>5, SameRowsGood DEF ManifestsOk, Data
<1> HIDE DEF Data, ManifestsOk
<1> QED BY <1>1, <1>7, IdleData

LEMMA TruncateToData ==
    ASSUME TypeOK, Data, NEW n \in group, NEW good \in 1 .. Len(disk[n].shards), TruncateTo(n, good)
    PROVE  Data'
<1> DEFINE d == disk[n]
           m == Truncated(d, good)
           g == group
<1>1. UNCHANGED <<group, folder, fetch>> /\ fetch.pc = "idle" BY DEF TruncateTo, fetchVars, Busy
<1>2. disk' = [disk EXCEPT ![n] = m] BY DEF TruncateTo
<1>3. d \in Manifest /\ disk \in [group -> Manifest] /\ good \in 1 .. Len(d.shards) BY DEF TypeOK
<1>5. g \in Group /\ GoodManifest(g, n, d)
  <2> HIDE DEF GoodManifest
  <2> QED BY DEF TypeOK, Data, ManifestsOk
<1>4. m = Stored([d EXCEPT !.shards = SubSeq(d.shards, 1, good), !.exhausted = FALSE, !.reached = NoLimit], d.shards[good].asof)
  BY DEF Truncated
<1> HIDE DEF d, m, g
<1>6. GoodManifest(g, n, m) BY <1>3, <1>4, <1>5, TruncatedGood
<1> HIDE DEF Data, ManifestsOk
<1> QED BY <1>1, IdleData, <1>2, <1>3, <1>6 DEF ManifestsOk, Data, g

\* An increment as it is planned.
LEMMA PlannedGood ==
    ASSUME NEW g \in Group, NEW n, NEW m \in Manifest, GoodManifest(g, n, m), NEW needed \in Nat, NEW limit \in Nat \cup {NoLimit}
    PROVE  LET i == Increment(m, needed, limit) IN
           /\ Read(g, n, i) /\ At(g, n, 0, i) /\ StoredOk(g, n, i.base, <<>>, m.fetched, TopOf(g, m.fetched, <<>>))
           /\ FlowOk(g, n, i, TopOf(g, m.fetched, <<>>), <<>>, <<>>, "none")
<1> DEFINE i == Increment(m, needed, limit)
           f == m.fetched
           base == [fetched |-> m.fetched, skipped |-> m.skipped, dropped |-> m.dropped]
<1>1. i.base = base /\ i.consumed = 0 /\ i.skipped = 0 /\ i.dropped = 0 /\ i.batch = <<>> BY IncrementType
<1>2. f \in Nat /\ m.skipped \in Nat /\ m.dropped \in Nat BY OffsetType
<1>3. m.skipped = Count(g, n, f, {"bad", "orphan"}) /\ m.dropped = Count(g, n, f, {"long"})
  BY DEF GoodManifest, ExactIn
<1>4. base.fetched = f /\ base.skipped = m.skipped /\ base.dropped = m.dropped OBVIOUS
<1> HIDE DEF i, f, base
<1>5. i.base.fetched + i.consumed = f /\ i.base.skipped + i.skipped = m.skipped /\ i.base.dropped + i.dropped = m.dropped
  BY <1>1, <1>2, <1>4
<1>7. At(g, n, 0, i)
  <2>2. Passed(g, n, 0) = 0 BY FS_EmptySet, UpToLemma DEF Passed, UpTo
  <2> QED BY <1>1, <1>2, <1>4, <2>2 DEF At
<1>8. StoredOk(g, n, i.base, <<>>, f, f) /\ TopOf(g, f, <<>>) = f BY <1>2, NothingStored
<1>10. FlowOk(g, n, i, f, <<>>, <<>>, "none") BY <1>2, <1>5, <1>3, <1>1, <1>8, LineStart DEF FlowOk
<1> QED BY <1>7, <1>8, <1>10, <1>3, <1>5 DEF i, f, Read

LEMMA StartPassData ==
    ASSUME TypeOK, Data, StartPass
    PROVE  Data'
<1>1. PICK needed \in [group -> Needs], limit \in Limits :
        LET opened == [n \in group |-> Reopened(disk[n], limit)]
            spent == {n \in group : ~opened[n].exhausted /\ limit # NoLimit /\ limit <= opened[n].fetched}
            members == {n \in group \ spent : ~opened[n].exhausted}
            planned == [n \in members |-> Increment(opened[n], needed[n], limit)]
            reads == \E n \in members : ~planned[n].passive
        IN /\ disk' = [n \in group |-> IF n \in spent THEN MarkExhausted(opened[n], limit) ELSE disk[n]]
           /\ folder' = [n \in group |-> IF n \in spent THEN disk'[n] ELSE opened[n]]
           /\ inc' = planned
           /\ outcome' = IF reads THEN "none" ELSE "ok"
           /\ fetch' = [NoFetch EXCEPT !.pc = IF reads THEN "row" ELSE "idle"]
  BY DEF StartPass
<1> DEFINE opened == [n \in group |-> Reopened(disk[n], limit)]
           spent == {n \in group : ~opened[n].exhausted /\ limit # NoLimit /\ limit <= opened[n].fetched}
           members == {n \in group \ spent : ~opened[n].exhausted}
           planned == [n \in members |-> Increment(opened[n], needed[n], limit)]
           reads == \E n \in members : ~planned[n].passive
           pc == IF reads THEN "row" ELSE "idle"
           g == group
<1>2. /\ disk' = [n \in group |-> IF n \in spent THEN MarkExhausted(opened[n], limit) ELSE disk[n]]
      /\ folder' = [n \in group |-> IF n \in spent THEN disk'[n] ELSE opened[n]]
      /\ inc' = planned
      /\ fetch' = [NoFetch EXCEPT !.pc = pc]
  BY <1>1
<1>3. \A n \in group : opened[n] \in Manifest /\ GoodManifest(g, n, opened[n]) /\ GoodManifest(g, n, MarkExhausted(opened[n], limit)) /\ GoodManifest(g, n, disk[n])
                       /\ needed[n] \in Nat /\ limit \in Nat \cup {NoLimit}
  <2> SUFFICES ASSUME NEW n \in group
               PROVE  opened[n] \in Manifest /\ GoodManifest(g, n, opened[n]) /\ GoodManifest(g, n, MarkExhausted(opened[n], limit)) /\ GoodManifest(g, n, disk[n])
                      /\ needed[n] \in Nat /\ limit \in Nat \cup {NoLimit}
    OBVIOUS
  <2> DEFINE d == disk[n]
             o == opened[n]
             m == MarkExhausted(o, limit)
  <2>1. d \in Manifest /\ g \in Group /\ GoodManifest(g, n, d) /\ limit \in Nat \cup {NoLimit} /\ needed[n] \in Nat
    <3> HIDE DEF GoodManifest
    <3> QED BY LimitsType DEF TypeOK, Data, ManifestsOk
  <2>2. o = Reopened(d, limit) OBVIOUS
  <2> HIDE DEF o, d, g, m
  <2>3. o \in Manifest /\ o.shards = d.shards /\ o.fetched = d.fetched /\ o.skipped = d.skipped /\ o.dropped = d.dropped
    BY <2>1, <2>2, ReopenedType
  <2>4. m.shards = o.shards /\ m.fetched = o.fetched /\ m.skipped = o.skipped /\ m.dropped = o.dropped
    BY <2>1, <2>3, MarkedType DEF m
  <2>5. GoodManifest(g, n, o) BY <2>1, <2>3, SameRowsGood
  <2> HIDE DEF opened
  <2> QED BY <2>1, <2>3, <2>5, <2>4, SameRowsGood DEF o, d, m
<1>4. group' = group /\ pos' = 0 /\ queue' = <<>> /\ worker' = NoWorker /\ buffer' = [n \in group |-> <<>>] /\ primary' = "none"
  BY DEF StartPass
<1>5. pc \in {"idle", "row"} /\ members \subseteq group /\ g \in Group /\ members \cap spent = {}
  BY DEF TypeOK
<1> HIDE DEF opened, GoodManifest
<1> HIDE DEF spent, members, pc
<1>6. ManifestsOk(group', disk', folder') BY <1>4, <1>2, <1>3 DEF ManifestsOk
<1>7. fetch'.pc = pc BY <1>2 DEF NoFetch
<1>8. CASE pc = "idle"
  <2> HIDE DEF Data, ManifestsOk
  <2> QED BY <1>6, <1>7, <1>8, IdleData
<1>9. CASE pc = "row"
  <2>1. DOMAIN inc' = members BY <1>2
  <2>2. Line(worker', queue', fetch') = <<>>
    <3>2. worker'.pending \o queue' = <<>> BY <1>4 DEF NoWorker
    <3> QED BY <1>7, <1>9, <3>2, LineIs
  <2>4. ASSUME NEW n \in members
        PROVE  /\ Read(g, n, inc'[n]) /\ At(g, n, 0, inc'[n]) /\ StoredOk(g, n, inc'[n].base, buffer'[n], folder'[n].fetched, TopOf(g, folder'[n].fetched, buffer'[n]))
               /\ FlowOk(g, n, inc'[n], TopOf(g, folder'[n].fetched, buffer'[n]), <<>>, <<>>, "none")
    BY <1>2, <1>4, <1>5, <1>3, PlannedGood
  <2> HIDE DEF Read, At, StoredOk, FlowOk, TopOf, Line, RowsAt, DoneIn
  <2>7. FlowingOk(group', fetch', inc', worker', queue', folder', buffer', primary')
    BY <1>4, <2>1, <2>2, <2>4 DEF FlowingOk, RowsAt, NoWorker
  <2> QED BY <1>6, <2>7, <1>4, <2>1, <2>4 DEF Data, ReadOk, BufferedOk, LoaderOk
<1> QED BY <1>5, <1>8, <1>9

LEMMA InitData ==
    ASSUME Init
    PROVE  Data
<1>1. group \in Group /\ folder = disk /\ disk = [n \in group |-> NewManifest] /\ fetch.pc = "idle"
  BY DEF Init, NoFetch
<1>2. ManifestsOk(group, disk, folder) BY <1>1, NewIsGood DEF ManifestsOk
<1>3. ~Pulling(fetch) /\ ~Flows(fetch, worker, primary) BY <1>1 DEF Pulling, Flows
<1> HIDE DEF Pulling, Flows, ManifestsOk
<1> QED BY <1>1, <1>2, <1>3 DEF Data, ReadOk, BufferedOk, LoaderOk, FlowingOk

LEMMA DataStep ==
    ASSUME TypeOK, Control, Data, [Next]_vars
    PROVE  Data'
<1> HIDE DEF TypeOK, Control, Data
<1>1. CASE StartPass BY <1>1, StartPassData
<1>2. CASE RequestStop BY <1>2, RequestStopData
<1>3. CASE SkipRow BY <1>3, SkipRowData
<1>4. CASE PullRow BY <1>4, PullRowData
<1>5. CASE EndOfRows BY <1>5, EndOfRowsData
<1>6. CASE SeeFailure BY <1>6, SeeFailureData
<1>7. CASE Submit BY <1>7, SubmitData
<1>8. CASE Put BY <1>8, PutData
<1>9. CASE ReadKept BY <1>9, ReadKeptData
<1>10. CASE CompareTarget BY <1>10, CompareTargetData
<1>11. CASE Drain BY <1>11, DrainData
<1>12. CASE SettlePending BY <1>12, SettlePendingData
<1>13. CASE CloseRows BY <1>13, CloseRowsData
<1>14. CASE CloseWorker BY <1>14, CloseWorkerData
<1>15. CASE JoinWorker BY <1>15, JoinWorkerData
<1>16. CASE FlushWriter BY <1>16, FlushWriterData
<1>17. CASE WritersReleased BY <1>17, WritersReleasedData
<1>18. CASE FinishIncrement BY <1>18, FinishIncrementData
<1>19. CASE TakeBatch BY <1>19, TakeBatchData
<1>20. CASE FinishBatch BY <1>20, FinishBatchData
<1>21. CASE StoreRow BY <1>21, StoreRowData
<1>22. CASE SettleBatch BY <1>22, SettleBatchData
<1>23. CASE EndWorker BY <1>23, EndWorkerData
<1>24. CASE Crash BY <1>24, CrashData
<1>25. CASE \E n \in group : Reopen(n) BY <1>25, ReopenData
<1>26. CASE \E n \in group : \E good \in 1 .. Len(disk[n].shards) : TruncateTo(n, good) BY <1>26, TruncateToData
<1>27. CASE UNCHANGED vars BY <1>27 DEF Data, vars
<1> QED BY <1>1, <1>2, <1>3, <1>4, <1>5, <1>6, <1>7, <1>8, <1>9, <1>10, <1>11, <1>12, <1>13, <1>14, <1>15, <1>16, <1>17, <1>18,
           <1>19, <1>20, <1>21, <1>22, <1>23, <1>24, <1>25, <1>26, <1>27 DEF Next, FetchStep, WorkerStep

\* What a good manifest says, in the words of the model.
LEMMA ExactOfGood ==
    ASSUME NEW n \in group, NEW rows, NEW asof, ExactIn(group, n, rows, asof)
    PROVE  Exact(n, rows, asof)
<1>1. Storable(n, 0, asof.fetched) = Kin(group, n, 0, asof.fetched, {"ok"})
  BY DEF Storable, Between, Own, Rows, Ordinal, Kin, OwnOf, Ord
<1>2. \A kinds : CountKinds(n, asof.fetched, kinds) = Count(group, n, asof.fetched, kinds)
  <2> SUFFICES ASSUME NEW kinds PROVE CountKinds(n, asof.fetched, kinds) = Count(group, n, asof.fetched, kinds)
    OBVIOUS
  <2>1. {p \in Between(n, 0, asof.fetched) : Rows[p].kind \in kinds} = Kin(group, n, 0, asof.fetched, kinds)
    BY DEF Between, Own, Rows, Ordinal, Kin, OwnOf, Ord
  <2> QED BY <2>1 DEF CountKinds, Count
<1> HIDE DEF Storable, CountKinds, Kin, Count
<1> QED BY <1>1, <1>2 DEF ExactIn, Increasing, Members, Exact

LEMMA DataOffsets ==
    ASSUME TypeOK, Data
    PROVE  OffsetMatchesRows
<1>1. ManifestsOk(group, disk, folder) /\ disk \in [group -> Manifest] BY DEF Data, TypeOK
<1> SUFFICES ASSUME NEW n \in group
             PROVE  /\ Exact(n, RowsOf(disk[n]), disk[n])
                    /\ \A s \in DOMAIN disk[n].shards :
                          Exact(n, RowsOf([shards |-> SubSeq(disk[n].shards, 1, s)]), disk[n].shards[s].asof)
  BY DEF OffsetMatchesRows
<1> DEFINE m == disk[n]
<1>2. GoodManifest(group, n, m)
  <2> HIDE DEF GoodManifest
  <2> QED BY <1>1 DEF ManifestsOk
<1>3. DOMAIN m.shards = 1 .. Len(m.shards) BY <1>1 DEF Manifest
<1>5. \A s : RowsOf([shards |-> SubSeq(m.shards, 1, s)]) = RowsIn(SubSeq(m.shards, 1, s))
  <2> SUFFICES ASSUME NEW s PROVE RowsOf([shards |-> SubSeq(m.shards, 1, s)]) = RowsIn(SubSeq(m.shards, 1, s))
    OBVIOUS
  <2> DEFINE t == SubSeq(m.shards, 1, s)
             r == [shards |-> t]
  <2>1. r.shards = t OBVIOUS
  <2> HIDE DEF t, r
  <2>2. RowsOf(r) = RowsIn(t) BY <2>1 DEF RowsOf, RowsIn
  <2> QED BY <2>2 DEF r, t
<1> HIDE DEF m, RowsOf, RowsIn, Exact, ExactIn
<1>6. Exact(n, RowsOf(m), m) BY <1>2, ExactOfGood DEF GoodManifest, RowsOf, RowsIn
<1>7. ASSUME NEW s \in DOMAIN m.shards
      PROVE  Exact(n, RowsOf([shards |-> SubSeq(m.shards, 1, s)]), m.shards[s].asof)
  BY <1>2, <1>3, <1>7, ExactOfGood, <1>5 DEF GoodManifest
<1> QED BY <1>6, <1>7 DEF m

\* At every moment the rows of a source that were passed are stored, in its writer, in a batch under way or
\* counted as rejected, in their order and without a gap, and the threads are where they may be at all
\* (_fetch, _TokenWorker, finish_download_pass).
THEOREM DownloadInvariant == Spec => [](TypeOK /\ Control /\ Data)
<1> HIDE DEF TypeOK, Control, Data
<1>1. Init => TypeOK /\ Control /\ Data BY InitControl, InitData
<1>2. (TypeOK /\ Control /\ Data) /\ [Next]_vars => (TypeOK /\ Control /\ Data)' BY ControlStep, DataStep
<1> QED BY <1>1, <1>2, PTL DEF Spec

\* The offset and the reject counters on disk are those of the rows on disk, in total and for every prefix of
\* shards a repair may go back to (raw_folder.py RowProgress, record_shard, truncate_to).
THEOREM DownloadOffsetMatchesRows == Spec => []OffsetMatchesRows
<1> HIDE DEF TypeOK, Control, Data, OffsetMatchesRows
<1>1. TypeOK /\ Control /\ Data => OffsetMatchesRows BY DataOffsets
<1> QED BY <1>1, DownloadInvariant, PTL

-----------------------------------------------------------------------------
\* What a pass owes: the manifests never run past the source or call it exhausted early, the plan of every
\* source adds up, and the rows that were kept are those on disk and in the writer.
Total(g, n) == Cardinality(OwnOf(g, n))
Bounded(g, n, m) ==
    /\ m.fetched <= Total(g, n) /\ \A s \in 1 .. Len(m.shards) : m.shards[s].asof.fetched <= Total(g, n)
    /\ m.exhausted => m.fetched = Total(g, n) \/ (m.reached # NoLimit /\ m.fetched >= m.reached)
Planned(g, n, i) ==
    /\ i.passive <=> i.wanted = 0
    /\ i.budget # NoLimit => i.limit # NoLimit /\ i.budget = i.limit - i.base.fetched
    /\ i.needed <= Count(g, n, i.base.fetched, {"ok"}) + i.wanted
    /\ i.base.fetched + i.consumed <= Total(g, n)
Unended(f, n) == f.pc = "finish" => n \in f.todo
EndOk(g, n, i) ==
    \/ i.passive \/ Spent(i)
    \/ (n \in Instruct /\ i.kept >= i.wanted) \/ (n \notin Instruct /\ i.consumed >= i.wanted)
    \/ i.base.fetched + i.consumed = Total(g, n)
Kept(g, n, i, m, b) == i.kept = Cardinality(Kin(g, n, i.base.fetched, m.fetched, {"ok"})) + Len(b)
Enough(i, m) == m.exhausted \/ Len(RowsOf(m)) >= i.needed

BooksOk(g, d, m) == \A n \in g : Bounded(g, n, d[n]) /\ Bounded(g, n, m[n])
PlansOk(g, f, i, d, m) ==
    f.pc # "idle" => /\ \A n \in g \ DOMAIN i : d[n].exhausted
                     /\ \A n \in DOMAIN i : Planned(g, n, i[n]) /\ (Unended(f, n) => ~m[n].exhausted /\ i[n].base.fetched <= m[n].fetched)
KeptOk(g, f, i, w, m, b, first) ==
    Flows(f, w, first) => \A n \in DOMAIN i : Unended(f, n) => Kept(g, n, i[n], m[n], b[n])
EndsOk(g, f, i, d, first) ==
    /\ f.pc # "idle" /\ ~Pulling(f) /\ first = "none" => \A n \in DOMAIN i : EndOk(g, n, i[n])
    /\ f.pc = "finish" => \A n \in DOMAIN i : n \notin f.todo => Enough(i[n], d[n])

Ends ==
    /\ BooksOk(group, disk, folder)
    /\ PlansOk(group, fetch, inc, disk, folder)
    /\ KeptOk(group, fetch, inc, worker, folder, buffer, primary)
    /\ EndsOk(group, fetch, inc, disk, primary)

\* A failure is the primary one or still to be raised.
FailureTold(f, w, first, fault) ==
    f.pc # "idle" => /\ fault => first = "error" \/ (w.failure = "error" /\ ~w.raised)
                     /\ w.raised => w.failure # "none"
                     /\ w.failure = "error" /\ w.raised => first = "error"
                     /\ Joined(f.pc) => w.failure = "none" \/ w.raised
Honest ==
    /\ fetch.pc # "idle" => outcome = "none"
    /\ FailureTold(fetch, worker, primary, faulted)
    /\ outcome \in {"ok", "stopped"} => ~faulted
    /\ outcome = "ok" => \A n \in group : disk[n].exhausted \/ (n \in DOMAIN inc /\ Len(RowsOf(disk[n])) >= inc[n].needed)

LEMMA StillHonest ==
    ASSUME Honest, fetch.pc # "idle", outcome' = outcome, FailureTold(fetch', worker', primary', faulted')
    PROVE  Honest'
BY DEF Honest

LEMMA SameWorker ==
    ASSUME Honest, fetch.pc # "idle", outcome' = outcome, worker'.failure = worker.failure, worker'.raised = worker.raised,
           Joined(fetch'.pc) => Joined(fetch.pc), primary = "error" => primary' = "error", faulted' => faulted \/ primary' = "error"
    PROVE  Honest'
<1> QED BY StillHonest DEF Honest, FailureTold

LEMMA PrimaryKeeps ==
    ASSUME TypeOK, Record("error") \/ UNCHANGED <<gate, primary>>
    PROVE  primary = "error" => primary' = "error"
BY DEF Record, Primary

LEMMA RecordError ==
    ASSUME TypeOK, Record("error")
    PROVE  primary' = "error"
BY DEF Record, Primary, TypeOK

\* The steps of the fetch thread that end no pass.
LEMMA FetchHonest ==
    ASSUME TypeOK, Honest, SkipRow \/ PullRow \/ EndOfRows \/ SeeFailure \/ Put \/ ReadKept \/ CompareTarget \/ SettlePending \/ CloseRows \/ CloseWorker
    PROVE  Honest'
<1> DEFINE moves == Joined(fetch'.pc) => Joined(fetch.pc)
<1>1. UNCHANGED <<worker, outcome>> /\ fetch.pc # "idle"
  BY DEF SkipRow, PullRow, EndOfRows, SeeFailure, Put, ReadKept, CompareTarget, SettlePending, CloseRows, CloseWorker
<1>2. /\ Record("error") \/ UNCHANGED <<gate, primary>>
      /\ faulted' => faulted \/ Record("error")
  <2>1. CASE PullRow BY <2>1 DEF PullRow, NoFault
  <2>2. CASE EndOfRows \/ CloseRows BY <2>2 DEF EndOfRows, CloseRows, NoFault
  <2>3. CASE SkipRow \/ SeeFailure \/ Put \/ ReadKept \/ CompareTarget \/ SettlePending \/ CloseWorker
    BY <2>3 DEF SkipRow, SeeFailure, Put, ReadKept, CompareTarget, SettlePending, CloseWorker
  <2> QED BY <2>1, <2>2, <2>3
<1>3. moves
  <2>1. fetch \in Fetch /\ fetch.back \in {"", "target", "drain", "settle"} BY FetchTypes DEF TypeOK
  <2>2. NoFetch.pc = "idle" /\ \A p, n, b, t, k : [NoFetch EXCEPT !.pc = p].pc = p /\ [NoFetch EXCEPT !.pc = p, !.name = n, !.back = b, !.batch = t].pc = p
            /\ [NoFetch EXCEPT !.pc = p, !.todo = t].pc = p
    BY DEF NoFetch
  <2>3. \A p, k, b, t, n : /\ [fetch EXCEPT !.pc = p].pc = p /\ [fetch EXCEPT !.pc = p, !.batch = b].pc = p
            /\ [fetch EXCEPT !.pc = p, !.kept = k].pc = p /\ [fetch EXCEPT !.pc = p, !.back = b, !.batch = t].pc = p
            /\ [fetch EXCEPT !.pc = p, !.name = n, !.back = b, !.batch = t, !.todo = k].pc = p
    BY <2>1 DEF Fetch
  <2>4. ToCleanup.pc = "settle" /\ EndRow.pc \in {"row", "settle"} BY FetchBegins
  <2>5. fetch'.pc = fetch.pc \/ fetch'.pc \in {"submit", "settle", "drain", "row", "put", "compare", "close", "join", "", "target"}
    <3>1. CASE SkipRow BY <3>1 DEF SkipRow
    <3>2. CASE PullRow
      <4>1. fetch' = fetch \/ fetch' = ToCleanup \/ \E n, b : fetch' = [NoFetch EXCEPT !.pc = "submit", !.name = n, !.back = "target", !.batch = b]
        BY ZenonT(60), <3>2 DEF PullRow
      <4>2. ASSUME NEW n, NEW b, fetch' = [NoFetch EXCEPT !.pc = "submit", !.name = n, !.back = "target", !.batch = b] PROVE fetch'.pc = "submit"
        BY <4>2 DEF NoFetch
      <4>3. fetch' = fetch \/ fetch' = ToCleanup \/ fetch'.pc = "submit" BY Zenon, <4>1, <4>2
      <4> QED BY <4>3, <2>4
    <3>3. CASE EndOfRows BY <3>3, <2>4 DEF EndOfRows
    <3>4. CASE SeeFailure BY <3>4, <2>3 DEF SeeFailure
    <3>5. CASE Put
      <4>1. fetch' = [fetch EXCEPT !.pc = fetch.back, !.batch = <<>>] BY <3>5 DEF Put
      <4>2. fetch'.pc = fetch.back BY <4>1, <2>1 DEF Fetch
      <4> QED BY <4>2, <2>1
    <3>6. CASE ReadKept
      <4>1. fetch' = EndRow \/ \E k : fetch' = [fetch EXCEPT !.pc = "compare", !.kept = k]
        BY Zenon, <3>6 DEF ReadKept
      <4>2. \A k : [fetch EXCEPT !.pc = "compare", !.kept = k].pc = "compare" BY <2>1 DEF Fetch
      <4> QED BY <4>1, <4>2, <2>4
    <3>7. CASE CompareTarget
      <4>1. fetch' = EndRow \/ \E b : fetch' = [fetch EXCEPT !.pc = "submit", !.back = "drain", !.batch = b]
        BY Zenon, <3>7 DEF CompareTarget
      <4>2. \A b : [fetch EXCEPT !.pc = "submit", !.back = "drain", !.batch = b].pc = "submit"
        BY <2>1 DEF Fetch
      <4> QED BY <4>1, <4>2, <2>4
    <3>8. CASE SettlePending BY <3>8, <2>3 DEF SettlePending
    <3>9. CASE CloseRows BY <3>9, <2>2 DEF CloseRows, AtCleanup
    <3>10. CASE CloseWorker BY <3>10, <2>2 DEF CloseWorker, AtCleanup
    <3> QED BY <3>1, <3>2, <3>3, <3>4, <3>5, <3>6, <3>7, <3>8, <3>9, <3>10
  <2> QED BY <2>5 DEF Joined
<1> HIDE DEF Joined, TypeOK, Honest
<1> QED BY <1>1, <1>2, <1>3, PrimaryKeeps, RecordError, SameWorker


LEMMA RememberTold ==
    ASSUME NEW w \in Worker, w.raised => w.failure # "none"
    PROVE  /\ Remember(w, "error").failure = "error" /\ (Remember(w, "error").raised => w.failure = "error" /\ w.raised)
           /\ Remember(w, "stop").failure # "none" /\ Remember(w, "stop").raised = w.raised
           /\ (Remember(w, "stop").failure = "error" <=> w.failure = "error")
<1>1. w.failure \in {"none", "stop", "error"} /\ w.raised \in BOOLEAN BY Zenon, WorkerTypes
<1>2. \A e : [w EXCEPT !.failure = e].failure = e /\ [w EXCEPT !.failure = e].raised = w.raised
             /\ [w EXCEPT !.failure = e, !.raised = FALSE].failure = e /\ [w EXCEPT !.failure = e, !.raised = FALSE].raised = FALSE
  BY DEF Worker
<1>3. CASE w.failure = "none" BY <1>2, <1>3 DEF Remember
<1>4. CASE w.failure = "stop" BY <1>2, <1>4 DEF Remember
<1>5. CASE w.failure = "error" BY <1>2, <1>5 DEF Remember
<1> QED BY <1>1, <1>3, <1>4, <1>5

LEMMA WorkerHonest ==
    ASSUME TypeOK, Control, Honest, TakeBatch \/ FinishBatch \/ StoreRow \/ SettleBatch
    PROVE  Honest'
<1>1. UNCHANGED <<fetch, outcome, primary>> BY DEF TakeBatch, FinishBatch, StoreRow, SettleBatch, fetchVars
<1>2. fetch.pc # "idle" /\ ~Joined(fetch.pc)
  <2>2. queue # <<>> \/ worker.pending # <<>> \/ worker.rows # <<>> \/ worker.current # <<>>
    BY DEF TakeBatch, FinishBatch, StoreRow, SettleBatch
  <2> QED BY <2>2, AfterJoin DEF WorkerOk, Control
<1>3. worker \in Worker /\ (worker.raised => worker.failure # "none") BY <1>2 DEF TypeOK, Honest, FailureTold
<1> DEFINE same == worker'.failure = worker.failure /\ worker'.raised = worker.raised /\ faulted' = faulted
           broken == worker'.failure = "error" /\ (worker'.raised => worker.failure = "error" /\ worker.raised)
<1>4. CASE same BY <1>1, <1>2, <1>4, SameWorker
<1>5. CASE broken BY <1>1, <1>2, <1>5, StillHonest DEF Honest, FailureTold
<1>6. same \/ broken \/ (faulted' = faulted /\ worker'.raised = worker.raised /\ (worker'.failure = "error" <=> worker.failure = "error") /\ worker'.failure # "none")
  <2>1. CASE TakeBatch
    <3> DEFINE started == [worker EXCEPT !.pending = Append(@, Head(queue))]
    <3>1. \/ worker' = [worker EXCEPT !.closed = TRUE] /\ NoFault
          \/ worker' = started /\ NoFault
          \/ worker' = [Remember(started, "error") EXCEPT !.storing = FALSE]
      BY <2>1 DEF TakeBatch
    <3>2. started \in Worker /\ started.failure = worker.failure /\ started.raised = worker.raised
      <4>1. queue # <<>> /\ queue \in Seq(Item) /\ worker.pending \in Seq(Item)
        BY <2>1, <1>3, WorkerTypes DEF TakeBatch, TypeOK
      <4>2. Append(worker.pending, Head(queue)) \in Seq(Item) BY <4>1
      <4>3. started \in Worker BY <1>3, <4>2, WorkerTypes
      <4> QED BY <1>3, <4>3 DEF Worker
    <3> HIDE DEF started
    <3>4. [Remember(started, "error") EXCEPT !.storing = FALSE].failure = Remember(started, "error").failure
          /\ [Remember(started, "error") EXCEPT !.storing = FALSE].raised = Remember(started, "error").raised
      BY <3>2, RememberLemma DEF Worker
    <3>5. [worker EXCEPT !.closed = TRUE].failure = worker.failure /\ [worker EXCEPT !.closed = TRUE].raised = worker.raised
      BY <1>3 DEF Worker
    <3>6. Remember(started, "error").failure = "error" /\ (Remember(started, "error").raised => worker.failure = "error" /\ worker.raised)
      BY <1>3, <3>2, RememberTold
    <3> QED BY <3>1, <3>2, <3>4, <3>5, <3>6 DEF NoFault
  <2>2. CASE FinishBatch
    <3> DEFINE taken == [worker EXCEPT !.pending = Tail(@), !.current = <<Head(worker.pending)>>]
    <3>1. \/ \E r : worker' = [taken EXCEPT !.rows = r] /\ NoFault
          \/ worker' = taken /\ NoFault
          \/ worker' = [Remember(taken, "error") EXCEPT !.storing = FALSE]
      BY <2>2 DEF FinishBatch
    <3>2. taken \in Worker /\ taken.failure = worker.failure /\ taken.raised = worker.raised
      <4>1. worker.pending # <<>> /\ worker.pending \in Seq(Item) BY <2>2, <1>3, WorkerTypes DEF FinishBatch
      <4>2. Tail(worker.pending) \in Seq(Item) /\ <<Head(worker.pending)>> \in Seq(Item) BY <4>1
      <4>3. taken \in Worker BY <1>3, <4>2, WorkerTypes
      <4> QED BY <1>3, <4>3 DEF Worker
    <3> HIDE DEF taken
    <3>5. \A r : [taken EXCEPT !.rows = r].failure = taken.failure /\ [taken EXCEPT !.rows = r].raised = taken.raised
      BY <3>2 DEF Worker
    <3>6. Remember(taken, "error").failure = "error" /\ (Remember(taken, "error").raised => worker.failure = "error" /\ worker.raised)
      BY <1>3, <3>2, RememberTold
    <3> QED BY <3>1, <3>2, <3>5, <3>6, RememberLemma DEF NoFault, Worker
  <2>3. CASE StoreRow
    <3> DEFINE next == [worker EXCEPT !.rows = Tail(@)]
    <3>1. \/ worker' = next /\ NoFault
          \/ worker' = [next EXCEPT !.stop = @ \/ StopNow] /\ NoFault
          \/ worker' = [Remember(worker, "error") EXCEPT !.storing = FALSE, !.stop = FALSE, !.rows = <<>>]
      BY <2>3 DEF StoreRow
    <3>3. [Remember(worker, "error") EXCEPT !.storing = FALSE, !.stop = FALSE, !.rows = <<>>].failure = Remember(worker, "error").failure
          /\ [Remember(worker, "error") EXCEPT !.storing = FALSE, !.stop = FALSE, !.rows = <<>>].raised = Remember(worker, "error").raised
      BY <1>3, RememberLemma DEF Worker
    <3>4. next.failure = worker.failure /\ next.raised = worker.raised BY <1>3 DEF Worker
    <3>5. [next EXCEPT !.stop = @ \/ StopNow].failure = worker.failure /\ [next EXCEPT !.stop = @ \/ StopNow].raised = worker.raised
      BY <1>3 DEF Worker
    <3> HIDE DEF next
    <3> QED BY <1>3, <3>1, <3>3, <3>4, <3>5, RememberTold DEF NoFault
  <2>4. CASE SettleBatch BY <2>4, <1>3, RememberLemma, RememberTold DEF SettleBatch, Worker
  <2> QED BY <2>1, <2>2, <2>3, <2>4
<1>7. CASE faulted' = faulted /\ worker'.raised = worker.raised /\ (worker'.failure = "error" <=> worker.failure = "error") /\ worker'.failure # "none"
  BY <1>1, <1>2, <1>7, StillHonest DEF Honest, FailureTold
<1> QED BY <1>4, <1>5, <1>6, <1>7


\* The worker's failure is raised.
LEMMA RaiseHonest ==
    ASSUME TypeOK, Honest, fetch.pc # "idle", outcome' = outcome, faulted' = faulted, Unraised, worker' = [worker EXCEPT !.raised = TRUE],
           Record(worker.failure)
    PROVE  Honest'
<1>1. worker.failure \in {"stop", "error"} /\ worker \in Worker
  <2>1. worker \in Worker BY DEF TypeOK
  <2>2. worker.failure \in {"none", "stop", "error"} BY <2>1, WorkerTypes
  <2> QED BY <2>1, <2>2 DEF Unraised
<1>3. (worker.failure = "error" => primary' = "error") /\ (primary = "error" => primary' = "error")
  BY <1>1 DEF Record, Primary, TypeOK
<1> HIDE DEF FailureTold, Honest, Record, TypeOK
<1> QED BY StillHonest, <1>1, <1>3 DEF Honest, FailureTold, Worker

LEMMA RaisingHonest ==
    ASSUME TypeOK, Honest, Submit \/ Drain \/ JoinWorker
    PROVE  Honest'
<1>1. fetch.pc # "idle" /\ UNCHANGED <<outcome, faulted>> BY DEF Submit, Drain, JoinWorker
<1>2. CASE Unraised BY <1>2, <1>1, RaiseHonest DEF Submit, Drain, JoinWorker
<1>3. CASE ~Unraised
  <2>1. UNCHANGED <<worker, primary>> BY <1>3 DEF Submit, Drain, JoinWorker
  <2> QED BY <1>1, StillHonest, <1>3, <2>1 DEF Honest, FailureTold, Unraised
<1> QED BY <1>2, <1>3

LEMMA FlushHonest ==
    ASSUME TypeOK, Honest, FlushWriter
    PROVE  Honest'
<1> DEFINE n == First(fetch.todo)
           shard == RecordShard(folder[n], inc[n], buffer[n])
<1>2. fetch' = [fetch EXCEPT !.todo = @ \ {n}] /\ fetch \in Fetch BY DEF FlushWriter, TypeOK
<1>3. fetch'.pc = fetch.pc BY <1>2 DEF Fetch
<1> HIDE DEF TypeOK, Honest
<1> QED BY <1>3, SameWorker, RecordError DEF FlushWriter, Record, Primary, TypeOK, NoFault

LEMMA ReleasedHonest ==
    ASSUME TypeOK, Honest, WritersReleased
    PROVE  Honest'
<1>1. fetch.pc \in {"exit", "salvage"} /\ UNCHANGED <<worker, primary, faulted, disk, inc, group>> /\ primary \in {"none", "stop", "error"}
  BY DEF WritersReleased, TypeOK, writeVars
<1>2. worker.failure = "none" \/ worker.raised BY <1>1 DEF Honest, FailureTold, Joined
<1>4. CASE primary = "none"
  BY <1>4, <1>1, <1>2, StillHonest DEF WritersReleased, AtCleanup, NoFetch, Honest, FailureTold
<1>5. CASE primary # "none"
  <2>1. fetch'.pc = "idle" /\ outcome' = IF primary = "stop" THEN "stopped" ELSE "error"
    <3>1. fetch' = NoFetch /\ outcome' = IF primary = "stop" THEN "stopped" ELSE "error"
      BY Zenon, <1>5 DEF WritersReleased
    <3> QED BY <3>1 DEF NoFetch
  <2> QED BY <1>1, <1>5, <2>1, <1>2 DEF Honest, FailureTold
<1> QED BY <1>4, <1>5

LEMMA FinishHonest ==
    ASSUME TypeOK, Control, Honest, Ends, FinishIncrement
    PROVE  Honest'
<1>1. fetch.pc = "finish" /\ UNCHANGED <<worker, primary, faulted, inc, group>> /\ primary = "none"
  BY DEF FinishIncrement, Control, FetchOk
<1>2. CASE fetch.todo = {}
  <2>1. fetch'.pc = "idle" /\ outcome' = "ok" /\ UNCHANGED disk
    <3>1. fetch' = NoFetch /\ outcome' = "ok" /\ UNCHANGED disk BY Zenon, <1>2 DEF FinishIncrement
    <3> QED BY <3>1 DEF NoFetch
  <2>3. \A n \in group : disk[n].exhausted \/ (n \in DOMAIN inc /\ Len(RowsOf(disk[n])) >= inc[n].needed)
    BY <1>1, <1>2 DEF Ends, PlansOk, EndsOk, Enough
  <2> QED BY <1>1, <2>1, <2>3 DEF Honest, FailureTold, Joined
<1>3. CASE fetch.todo # {}
  <2>1. outcome' = outcome /\ fetch' = [fetch EXCEPT !.todo = @ \ {First(fetch.todo)}] /\ fetch \in Fetch
    BY <1>1, <1>3 DEF FinishIncrement, TypeOK
  <2>2. fetch'.pc = fetch.pc BY <2>1 DEF Fetch
  <2> HIDE DEF TypeOK, Honest, Control, Ends
  <2> QED BY <1>1, <2>1, <2>2, SameWorker
<1> QED BY <1>2, <1>3

LEMMA CrashHonest ==
    ASSUME Crash
    PROVE  Honest'
<1>1. fetch'.pc = "idle" /\ outcome' = "crashed" BY DEF Crash, NoFetch
<1> QED BY <1>1 DEF Honest, FailureTold

LEMMA BetweenHonest ==
    ASSUME Honest, \E n \in group : Reopen(n) \/ (\E good \in 1 .. Len(disk[n].shards) : TruncateTo(n, good))
    PROVE  Honest'
<1>1. fetch'.pc = "idle" /\ outcome' = "none" BY DEF Reopen, TruncateTo, Busy, fetchVars
<1> QED BY <1>1 DEF Honest, FailureTold

LEMMA QuietHonest ==
    ASSUME Honest, TypeOK, RequestStop \/ EndWorker
    PROVE  Honest'
<1>1. UNCHANGED <<group, disk, inc, fetch, primary, outcome, faulted>>
  BY DEF RequestStop, EndWorker, fetchVars, writeVars
<1>2. worker'.failure = worker.failure /\ worker'.raised = worker.raised
  BY DEF RequestStop, EndWorker, TypeOK, Worker
<1> QED BY <1>1, <1>2 DEF Honest, FailureTold

\* Numbers of rows.
LEMMA SameSize ==
    ASSUME NEW S, NEW T, IsFiniteSet(S), NEW f \in [S -> T], \A x, y \in S : f[x] = f[y] => x = y, \A y \in T : \E x \in S : f[x] = y
    PROVE  IsFiniteSet(T) /\ Cardinality(T) = Cardinality(S)
<1> QED BY FS_Bijection DEF ExistsBijection, Bijection, Injection, Surjection, IsInjective

LEMMA MembersCount ==
    ASSUME NEW s \in Seq(Nat), Increasing(s)
    PROVE  Cardinality(Members(s)) = Len(s)
<1>1. s \in [1 .. Len(s) -> Members(s)] /\ DOMAIN s = 1 .. Len(s) /\ Len(s) \in Nat BY DEF Members
<1>2. \A x, y \in 1 .. Len(s) : s[x] = s[y] => x = y BY <1>1 DEF Increasing
<1>3. \A y \in Members(s) : \E x \in 1 .. Len(s) : s[x] = y BY <1>1 DEF Members
<1>4. IsFiniteSet(1 .. Len(s)) /\ Cardinality(1 .. Len(s)) = Len(s)
  <2> DEFINE k == Len(s)
  <2>1. k \in Nat OBVIOUS
  <2> HIDE DEF k
  <2>2. IsFiniteSet(1 .. k) /\ Cardinality(1 .. k) = k BY <2>1, FS_Interval
  <2> QED BY <2>2 DEF k
<1> HIDE DEF Members
<1> QED BY <1>1, <1>2, <1>3, <1>4, SameSize

LEMMA RowsCount ==
    ASSUME NEW g \in Group, NEW n, NEW m \in Manifest, GoodManifest(g, n, m)
    PROVE  Len(RowsOf(m)) = Count(g, n, m.fetched, {"ok"})
<1>1. RowsOf(m) = RowsIn(m.shards) /\ m.shards \in Seq(Shard) BY OffsetType DEF RowsOf, RowsIn
<1>2. RowsIn(m.shards) \in Seq(Nat)
  <2>1. Append(<<>>, 0) # <<>> /\ [rows |-> <<>>, asof |-> [fetched |-> 0, skipped |-> 0, dropped |-> 0]] \in Shard
    BY DEF Shard, Offset
  <2> QED BY <1>1, <2>1, RowsInLemma
<1> HIDE DEF Increasing, Members, RowsIn, RowsOf
<1> QED BY <1>1, <1>2, MembersCount DEF Count, GoodManifest, ExactIn

LEMMA OrdBounded ==
    ASSUME NEW g \in Group, NEW n
    PROVE  /\ Total(g, n) \in Nat
           /\ \A p \in OwnOf(g, n) : Ord(g, p) <= Total(g, n)
           /\ Passed(g, n, Len(Upstream[g])) = Total(g, n)
<1>1. IsFiniteSet(OwnOf(g, n)) BY UpToLemma
<1>3. \A p \in OwnOf(g, n) : Ord(g, p) <= Total(g, n)
  <2> SUFFICES ASSUME NEW p \in OwnOf(g, n) PROVE Ord(g, p) <= Total(g, n) OBVIOUS
  <2>1. UpTo(g, n, p) \in SUBSET OwnOf(g, n) BY DEF UpTo
  <2> QED BY <1>1, <2>1, FS_Subset, OrdIs DEF Passed, Total
<1>4. UpTo(g, n, Len(Upstream[g])) = OwnOf(g, n) BY UpstreamLemma DEF UpTo, OwnOf
<1> QED BY <1>3, <1>4, <1>1, FS_CardinalityType DEF Passed, Total

\* Every row of a source that is not of instruct rows is stored.
LEMMA AllKept ==
    ASSUME NEW g \in Group, NEW n, n \notin Instruct, NEW a \in Nat, NEW b \in Nat, a <= b, b <= Total(g, n)
    PROVE  Cardinality(Kin(g, n, a, b, {"ok"})) = b - a
<1> DEFINE S == OwnOf(g, n)
           f == [p \in S |-> Ord(g, p)]
           all == 1 .. Total(g, n)
<1>1. IsFiniteSet(S) /\ S \subseteq Nat BY UpToLemma
<1>2. Total(g, n) \in Nat /\ \A p \in S : Ord(g, p) \in all BY OrdBounded, OrdLemma
<1>3. \A p, q \in S : Ord(g, p) = Ord(g, q) => p = q BY OrdLemma
<1>4. IsFiniteSet(all) /\ Cardinality(all) = Total(g, n) BY <1>2, FS_Interval
<1> HIDE DEF S, all
<1>6. f \in Surjection(S, all) BY <1>4, FS_Injection, <1>2, <1>3 DEF S, Total, Injection, IsInjective
<1>7. \A k \in all : \E p \in S : Ord(g, p) = k BY <1>6 DEF Surjection
<1> DEFINE K == Kin(g, n, a, b, {"ok"})
           h == [p \in K |-> Ord(g, p)]
           part == a + 1 .. b
<1>9. IsFiniteSet(K) /\ \A p : p \in K <=> p \in S /\ a < Ord(g, p) /\ Ord(g, p) <= b
  <2>1. \A p : p \in K <=> p \in S /\ a < Ord(g, p) /\ Ord(g, p) <= b BY UpstreamLemma DEF Kin, S, OwnOf
  <2> QED BY <2>1, KinFinite
<1> HIDE DEF K
<1>10. h \in [K -> part] /\ \A p, q \in K : h[p] = h[q] => p = q BY <1>2, <1>3, <1>9 DEF all
<1>11. \A k \in part : \E p \in K : h[p] = k BY <1>2, <1>7, <1>9 DEF all
<1>12. Cardinality(part) = Cardinality(K)
  <2> HIDE DEF h, part
  <2> QED BY <1>9, <1>10, <1>11, SameSize
<1>13. Cardinality(part) = b - a
  <2> DEFINE c == a + 1
  <2>1. c \in Int /\ b \in Int /\ (c > b => b - a = 0) /\ b - c + 1 = b - a OBVIOUS
  <2> HIDE DEF c
  <2>2. Cardinality(c .. b) = IF c > b THEN 0 ELSE b - c + 1 BY <2>1, FS_Interval
  <2> QED BY <2>1, <2>2 DEF c
<1> QED BY <1>12, <1>13 DEF K

LEMMA KinAdds ==
    ASSUME NEW g \in Group, NEW n, NEW a \in Nat, NEW b \in Nat, NEW c \in Nat, a <= b, b <= c, NEW kinds
    PROVE  Cardinality(Kin(g, n, a, c, kinds)) = Cardinality(Kin(g, n, a, b, kinds)) + Cardinality(Kin(g, n, b, c, kinds))
<1> DEFINE A == Kin(g, n, a, b, kinds)
           B == Kin(g, n, b, c, kinds)
<1>1. Kin(g, n, a, c, kinds) = A \cup B /\ A \cap B = {} BY KinSplit
<1>2. IsFiniteSet(A) /\ IsFiniteSet(B) /\ Cardinality(A) \in Nat /\ Cardinality(B) \in Nat BY KinFinite
<1> HIDE DEF A, B
<1>3. Cardinality(A \cup B) = Cardinality(A) + Cardinality(B) - Cardinality(A \cap B) BY <1>2, FS_Union
<1>4. Cardinality(A \cap B) = 0 BY <1>1, FS_EmptySet
<1> QED BY <1>1, <1>2, <1>3, <1>4 DEF A, B

\* A shard that is recorded keeps its folder within bounds and adds what it holds to the rows kept.
LEMMA RecordBounded ==
    ASSUME NEW g \in Group, NEW n, NEW m \in Manifest, GoodManifest(g, n, m), Bounded(g, n, m), ~m.exhausted, NEW i \in Inc, NEW rows \in Seq(Row), rows # <<>>,
           StoredOk(g, n, i.base, rows, m.fetched, TopOf(g, m.fetched, rows)), i.base.fetched <= m.fetched
    PROVE  /\ Bounded(g, n, RecordShard(m, i, rows)) /\ ~RecordShard(m, i, rows).exhausted
           /\ i.base.fetched <= RecordShard(m, i, rows).fetched
           /\ Cardinality(Kin(g, n, i.base.fetched, RecordShard(m, i, rows).fetched, {"ok"}))
                = Cardinality(Kin(g, n, i.base.fetched, m.fetched, {"ok"})) + Len(rows)
<1> DEFINE last == rows[Len(rows)]
           r == RecordShard(m, i, rows)
           asof == AsOf(i, last.progress)
<1>1. Len(rows) \in DOMAIN rows /\ last \in Row /\ last.id \in IdSet(rows) BY LastIsLargest DEF StoredOk
<1>2. Told(g, n, i.base, last) /\ IdSet(rows) = Kin(g, n, m.fetched, Ord(g, last.id), {"ok"}) /\ TopOf(g, m.fetched, rows) = Ord(g, last.id)
  BY <1>1 DEF StoredOk, TopOf
<1>3. last.id \in OwnOf(g, n) /\ m.fetched < Ord(g, last.id) /\ asof.fetched = Ord(g, last.id)
  BY <1>1, <1>2 DEF Told, Placed, Kin, AsOf
<1>4. Ord(g, last.id) \in Nat /\ Ord(g, last.id) <= Total(g, n) /\ m.fetched \in Nat /\ i.base.fetched \in Nat
  BY <1>3, OrdBounded, OrdLemma, OffsetType, IncTypes DEF Offset
<1>5. r.fetched = Ord(g, last.id) /\ r.shards = Append(m.shards, [rows |-> Ids(rows), asof |-> asof])
  BY <1>2, RecordGood DEF StoredOk, IdSet
<1> HIDE DEF last, r, asof
<1>9. Cardinality(Kin(g, n, i.base.fetched, Ord(g, last.id), {"ok"})) = Cardinality(Kin(g, n, i.base.fetched, m.fetched, {"ok"})) + Len(rows)
  BY <1>3, <1>4, KinAdds, <1>2, IdsLemma, MembersCount DEF last, IdSet, StoredOk
<1> QED BY <1>3, <1>4, <1>5, <1>9, OffsetType DEF r, Bounded, RecordShard, Stored, Manifest

\* A step that leaves the manifests, the writers and the accounts of the sources alone.
Account(i) == <<i.base, i.consumed, i.kept, i.wanted, i.passive, i.needed, i.limit, i.budget>>

LEMMA QuietEnds ==
    ASSUME Ends, UNCHANGED <<group, disk, folder, buffer>>, DOMAIN inc' = DOMAIN inc, \A n \in DOMAIN inc : Account(inc'[n]) = Account(inc[n]),
           fetch.pc \notin {"idle", "finish"}, fetch'.pc = "finish" => fetch'.todo = DOMAIN inc,
           Flows(fetch', worker', primary') => Flows(fetch, worker, primary),
           fetch'.pc # "idle" /\ ~Pulling(fetch') /\ primary' = "none" => (~Pulling(fetch) /\ primary = "none") \/ \A n \in DOMAIN inc : EndOk(group, n, inc[n])
    PROVE  Ends'
<1>1. \A n \in DOMAIN inc : /\ Planned(group, n, inc[n]) <=> Planned(group, n, inc'[n])
                            /\ EndOk(group, n, inc[n]) <=> EndOk(group, n, inc'[n])
                            /\ \A m, b : Kept(group, n, inc[n], m, b) <=> Kept(group, n, inc'[n], m, b)
                            /\ inc'[n].base = inc[n].base
  BY DEF Account, Planned, EndOk, Spent, Kept
<1>2. \A n \in DOMAIN inc : Unended(fetch, n) /\ Unended(fetch', n) BY DEF Unended
<1> HIDE DEF Planned, EndOk, Kept, Unended, Flows, Pulling, Account
<1>6. EndsOk(group', fetch', inc', disk', primary') BY <1>1 DEF Ends, EndsOk
<1> QED BY <1>6, <1>1, <1>2 DEF Ends, BooksOk, PlansOk, KeptOk

\* Between passes only the manifests count.
LEMMA IdleEnds ==
    ASSUME fetch'.pc = "idle", BooksOk(group', disk', folder')
    PROVE  Ends'
BY DEF Ends, PlansOk, KeptOk, EndsOk, Flows

LEMMA AccountLemma ==
    ASSUME NEW i \in Inc
    PROVE  \A x : /\ Account([i EXCEPT !.batch = x]) = Account(i) /\ Account([i EXCEPT !.submitted = x]) = Account(i)
                  /\ Account([i EXCEPT !.settled = x]) = Account(i) /\ Account([i EXCEPT !.dropped = x]) = Account(i)
BY DEF Account, Inc

LEMMA AccountUpdate ==
    ASSUME TypeOK, NEW n \in DOMAIN inc, NEW e, Account(e) = Account(inc[n]), inc' = [inc EXCEPT ![n] = e]
    PROVE  DOMAIN inc' = DOMAIN inc /\ \A k \in DOMAIN inc : Account(inc'[k]) = Account(inc[k])
BY DEF TypeOK

LEMMA RowEnds ==
    ASSUME TypeOK, fetch' = EndRow, ~Pulling(fetch')
    PROVE  \A n \in DOMAIN inc : EndOk(group, n, inc[n])
<1>1. EndRow # [NoFetch EXCEPT !.pc = "row"] BY DEF Pulling, NoFetch
<1> QED BY <1>1 DEF AllDone, Done, EndOk, EndRow

\* The fetch thread reads and waits.
LEMMA ReadingEnds ==
    ASSUME TypeOK, Control, Ends, SkipRow \/ SeeFailure \/ ReadKept \/ Put \/ Drain \/ Submit \/ CompareTarget
    PROVE  Ends'
<1>1. UNCHANGED <<group, disk, folder, buffer>> /\ fetch.pc \in {"row", "target", "put", "drain", "submit", "compare"}
  BY DEF SkipRow, SeeFailure, ReadKept, Put, Drain, Submit, CompareTarget, writeVars
<1>2. fetch \in Fetch /\ worker \in Worker /\ FetchOk(fetch, inc, primary) BY DEF TypeOK, Control
<1>3. worker'.storing = worker.storing
  <2>1. worker' = worker \/ worker' = [worker EXCEPT !.raised = TRUE]
    BY DEF SkipRow, SeeFailure, ReadKept, Put, Drain, Submit, CompareTarget
  <2> QED BY <1>2, <2>1 DEF Worker
<1>5. DOMAIN inc' = DOMAIN inc /\ \A n \in DOMAIN inc : Account(inc'[n]) = Account(inc[n])
  <2>1. CASE inc' = inc BY <2>1
  <2>2. CASE inc' # inc
    <3> DEFINE n == fetch.name
    <3>1. n \in DOMAIN inc
      BY <1>2, <2>2 DEF SkipRow, SeeFailure, ReadKept, Put, Drain, Submit, CompareTarget, FetchOk
    <3>2. inc[n] \in Inc BY <3>1 DEF TypeOK
    <3>3. (\E x : inc' = [inc EXCEPT ![n] = [inc[n] EXCEPT !.submitted = x]]) \/ \E x : inc' = [inc EXCEPT ![n] = [inc[n] EXCEPT !.batch = x]]
      BY <2>2 DEF SkipRow, SeeFailure, ReadKept, Put, Drain, Submit, CompareTarget
    <3>4. ASSUME NEW e, Account(e) = Account(inc[n]), inc' = [inc EXCEPT ![n] = e]
          PROVE  DOMAIN inc' = DOMAIN inc /\ \A k \in DOMAIN inc : Account(inc'[k]) = Account(inc[k])
      BY <3>1, <3>4, AccountUpdate
    <3> HIDE DEF n, Account, TypeOK
    <3>5. \A x : Account([inc[n] EXCEPT !.submitted = x]) = Account(inc[n]) /\ Account([inc[n] EXCEPT !.batch = x]) = Account(inc[n])
      BY <3>2, AccountLemma
    <3> QED BY <3>3, <3>4, <3>5
  <2> QED BY <2>1, <2>2
<1>6. /\ fetch'.pc # "finish"
      /\ ~Pulling(fetch') /\ primary' = "none" => (~Pulling(fetch) /\ primary = "none") \/ \A n \in DOMAIN inc : EndOk(group, n, inc[n])
  <2>1. EndRow.pc \in {"row", "settle"} /\ ToCleanup.pc = "settle" BY FetchBegins
  <2>2. CASE SkipRow BY <2>2 DEF SkipRow, Pulling
  <2>3. CASE SeeFailure
    <3>1. fetch' = [fetch EXCEPT !.pc = "drain"] BY <2>3 DEF SeeFailure
    <3> QED BY <1>2, <3>1 DEF Fetch, Pulling
  <2>4. CASE ReadKept
    <3>2. [fetch EXCEPT !.pc = "compare", !.kept = inc[fetch.name].kept].pc = "compare" BY <1>2 DEF Fetch
    <3> HIDE DEF Pulling, EndOk, TypeOK
    <3> QED BY RowEnds, <2>1, <3>2, <2>4 DEF Pulling, ReadKept
  <2>5. CASE Put
    <3>1. fetch' = [fetch EXCEPT !.pc = fetch.back, !.batch = <<>>] /\ UNCHANGED primary /\ fetch.pc = "put"
      BY <2>5 DEF Put
    <3>2. fetch'.pc = fetch.back /\ fetch.back \in {"target", "drain", "settle"}
      BY <1>2, <3>1 DEF Fetch, FetchOk
    <3> QED BY <3>1, <3>2 DEF Pulling
  <2>6. CASE Drain
    <3>2. Unraised => worker.failure \in {"stop", "error"} BY <1>2, WorkerTypes DEF Unraised
    <3> HIDE DEF Pulling, EndOk, TypeOK
    <3> QED BY <2>1, RowEnds, <3>2, RecordLemma, <2>6 DEF Drain
  <2>7. CASE Submit
    <3>1. CASE Unraised
      <4>1. Record(worker.failure) /\ (fetch' = ToCleanup \/ fetch' = [NoFetch EXCEPT !.pc = "settle", !.todo = fetch.todo])
        BY <2>7, <3>1 DEF Submit
      <4>2. worker.failure \in {"stop", "error"} BY <1>2, <3>1, WorkerTypes DEF Unraised
      <4>4. fetch'.pc # "finish" BY <2>1, <4>1 DEF NoFetch
      <4> QED BY <4>4, <4>1, <4>2, RecordLemma
    <3>2. CASE ~Unraised
      <4>1. fetch' = [fetch EXCEPT !.pc = IF fetch.batch = <<>> THEN fetch.back ELSE "put"] /\ UNCHANGED primary /\ fetch.pc = "submit"
        BY <2>7, <3>2 DEF Submit
      <4>2. fetch'.pc \in {fetch.back, "put"} /\ fetch'.back = fetch.back /\ fetch.back \in {"target", "drain", "settle"}
        BY <1>2, <4>1 DEF Fetch, FetchOk
      <4> QED BY <4>1, <4>2 DEF Pulling
    <3> QED BY <3>1, <3>2
  <2>8. CASE CompareTarget
    <3>1. fetch' = EndRow \/ fetch' = [fetch EXCEPT !.pc = "submit", !.back = "drain", !.batch = inc[fetch.name].batch]
      BY Zenon, <2>8 DEF CompareTarget
    <3>2. [fetch EXCEPT !.pc = "submit", !.back = "drain", !.batch = inc[fetch.name].batch].pc = "submit"
          /\ [fetch EXCEPT !.pc = "submit", !.back = "drain", !.batch = inc[fetch.name].batch].back = "drain"
      BY <1>2 DEF Fetch
    <3>3. fetch' = EndRow \/ (fetch'.pc = "submit" /\ fetch'.back = "drain") BY <3>1, <3>2
    <3> HIDE DEF Pulling, EndOk, TypeOK
    <3> QED BY <3>3, RowEnds, <2>1 DEF Pulling
  <2> QED BY <2>2, <2>3, <2>4, <2>5, <2>6, <2>7, <2>8
<1> HIDE DEF Ends, Pulling, Flows, EndOk, Account
<1> QED BY <1>1, <1>5, <1>6, QuietEnds, <1>3 DEF Flows


\* The rows come to their end.
LEMMA EndOfRowsEnds ==
    ASSUME TypeOK, Control, Data, Ends, EndOfRows
    PROVE  Ends'
<1>1. UNCHANGED <<group, inc, disk, folder, buffer, worker>> /\ fetch.pc = "row" /\ fetch' = ToCleanup
  BY DEF EndOfRows, writeVars
<1>3. ASSUME primary' = "none", NEW n \in DOMAIN inc PROVE EndOk(group, n, inc[n])
  <2>2. CASE LoaderServed BY <2>2 DEF LoaderServed, EndOk
  <2>3. CASE AllDone BY <2>3 DEF AllDone, Done, EndOk
  <2>4. CASE pos = Len(Rows)
    <3> DEFINE i == inc[n]
               t == Total(group, n)
    <3>2. Passed(group, n, pos) = t /\ t \in Nat BY <2>4, OrdBounded DEF Rows, TypeOK
    <3>3. i.base.fetched + i.consumed <= t /\ i.base.fetched \in Nat /\ i.consumed \in Nat
      <4>1. i \in Inc BY DEF TypeOK
      <4>2. Planned(group, n, i) BY <1>1 DEF Ends, PlansOk
      <4> QED BY <4>1, <4>2, IncTypes DEF Planned, Offset
    <3>4. At(group, n, pos, i) => i.base.fetched + i.consumed = t
      <4> HIDE DEF i, t
      <4> QED BY <3>2, <3>3 DEF At
    <3> QED BY <3>4, <1>1 DEF DoneIn, EndOk, Data, LoaderOk, Pulling
  <2> QED BY <2>2, <2>3, <2>4, <1>3, RecordError DEF EndOfRows
<1> HIDE DEF Ends, Pulling, Flows, EndOk
<1> QED BY <1>1, <1>3, QuietEnds, FetchBegins DEF Flows

\* The cleanup.
LEMMA CleanupEnds ==
    ASSUME TypeOK, Control, Ends, SettlePending \/ CloseRows \/ CloseWorker \/ JoinWorker \/ WritersReleased
    PROVE  Ends'
<1>1. UNCHANGED <<group, disk, folder, buffer>> /\ fetch.pc \in {"settle", "close", "join", "exit", "salvage"}
  BY DEF SettlePending, CloseRows, CloseWorker, JoinWorker, WritersReleased, writeVars
<1>2. fetch \in Fetch /\ worker \in Worker /\ FetchOk(fetch, inc, primary) BY DEF TypeOK, Control
<1>3. worker'.storing = worker.storing
  <2>1. worker' = worker \/ worker' = [worker EXCEPT !.raised = TRUE]
    BY DEF SettlePending, CloseRows, CloseWorker, JoinWorker, WritersReleased
  <2> QED BY <1>2, <2>1 DEF Worker
<1>4. DOMAIN inc' = DOMAIN inc /\ \A n \in DOMAIN inc : Account(inc'[n]) = Account(inc[n])
  <2>1. CASE ~SettlePending BY <2>1 DEF CloseRows, CloseWorker, JoinWorker, WritersReleased
  <2>2. CASE SettlePending
    <3> DEFINE n == First(fetch.todo)
    <3>1. fetch.todo # {} /\ inc' = [inc EXCEPT ![n] = [inc[n] EXCEPT !.batch = <<>>]]
      BY <2>2 DEF SettlePending
    <3>2. n \in DOMAIN inc BY <1>2, <3>1, FirstLemma DEF FetchOk
    <3>3. inc[n] \in Inc BY <3>2 DEF TypeOK
    <3> DEFINE e == [inc[n] EXCEPT !.batch = <<>>]
    <3> HIDE DEF n, Account, TypeOK
    <3>4. Account(e) = Account(inc[n]) BY <3>3, AccountLemma
    <3> HIDE DEF e
    <3> QED BY <3>2, <3>4, AccountUpdate, <3>1 DEF e
  <2> QED BY <2>1, <2>2
<1>5. primary # "none" => primary' # "none"
  <2>1. worker.failure \in {"none", "stop", "error"} BY <1>2, WorkerTypes
  <2>2. UNCHANGED primary \/ Record("error") \/ (worker.failure # "none" /\ Record(worker.failure))
    BY DEF SettlePending, CloseRows, CloseWorker, JoinWorker, WritersReleased, Unraised
  <2> QED BY <2>1, <2>2, RecordLemma
<1>6. \/ fetch.pc \in {"settle", "close", "join"} /\ fetch'.pc \in {"submit", "close", "join", "exit", "salvage"} /\ (fetch'.pc = "submit" => fetch'.back = "settle")
      \/ fetch'.pc = "finish" /\ fetch'.todo = DOMAIN inc /\ primary = "none"
      \/ fetch'.pc = "idle"
  <2>1. \A p : AtCleanup(p).pc = p /\ AtCleanup(p).todo = DOMAIN inc BY DEF AtCleanup, NoFetch
  <2>2. CASE SettlePending
    <3> DEFINE n == First(fetch.todo)
               b == inc[n].batch
               t == fetch.todo \ {n}
    <3>1. fetch' = [fetch EXCEPT !.pc = "submit", !.name = n, !.back = "settle", !.batch = b, !.todo = t]
      BY <2>2 DEF SettlePending
    <3> HIDE DEF n, b, t
    <3>2. fetch'.pc = "submit" /\ fetch'.back = "settle" BY <1>2, <3>1 DEF Fetch
    <3> QED BY <2>2, <3>2 DEF SettlePending
  <2>3. CASE CloseRows BY <2>1, <2>3 DEF CloseRows
  <2>4. CASE CloseWorker BY <2>1, <2>4 DEF CloseWorker
  <2>5. CASE JoinWorker BY <2>1, <2>5 DEF JoinWorker
  <2>6. CASE WritersReleased
    <3>1. CASE primary = "none" BY <2>1, <2>6, <3>1 DEF WritersReleased
    <3>2. CASE primary # "none"
      <4>1. fetch' = NoFetch BY Zenon, <2>6, <3>2 DEF WritersReleased
      <4> QED BY <4>1 DEF NoFetch
    <3> QED BY <3>1, <3>2
  <2> QED BY <2>2, <2>3, <2>4, <2>5, <2>6
<1>7. Flows(fetch', worker', primary') => Flows(fetch, worker, primary) BY <1>1, <1>3, <1>5, <1>6 DEF Flows
<1>8. ~Pulling(fetch) BY <1>1 DEF Pulling
<1>9. CASE fetch'.pc = "idle" BY <1>1, <1>9, IdleEnds DEF Ends, BooksOk
<1> HIDE DEF Ends, Pulling, Flows, EndOk, Account
<1> QED BY <1>1, <1>4, <1>5, <1>6, <1>7, <1>8, <1>9, QuietEnds


LEMMA RequestStopEnds ==
    ASSUME Ends, RequestStop
    PROVE  Ends'
BY DEF Ends, RequestStop, fetchVars, writeVars

LEMMA EndWorkerEnds ==
    ASSUME TypeOK, Ends, EndWorker
    PROVE  Ends'
<1>1. UNCHANGED <<group, disk, folder, buffer, inc, fetch, primary>> /\ worker' = [worker EXCEPT !.ended = TRUE]
  BY DEF EndWorker, fetchVars, writeVars
<1> HIDE DEF Flows
<1> QED BY <1>1 DEF Ends, KeptOk, Flows, TypeOK, Worker

\* The worker takes, finishes and settles batches.
LEMMA BatchEnds ==
    ASSUME TypeOK, Control, Ends, TakeBatch \/ FinishBatch \/ SettleBatch
    PROVE  Ends'
<1>1. UNCHANGED <<group, disk, folder, buffer, fetch, primary>>
  BY DEF TakeBatch, FinishBatch, SettleBatch, fetchVars, writeVars
<1>2. worker \in Worker /\ WorkerOk(worker, queue, fetch.pc, DOMAIN inc, primary) BY DEF TypeOK, Control
<1>3. fetch.pc \notin {"idle", "finish"}
  BY <1>2, AfterJoin DEF TakeBatch, FinishBatch, SettleBatch, WorkerOk, Joined
<1>4. worker'.storing => worker.storing
  <2>1. CASE worker.storing BY <2>1
  <2>2. CASE ~worker.storing
    <3> DEFINE v == IF worker.stop THEN Remember(worker, "stop") ELSE worker
    <3>1. \/ \E p : worker' = [worker EXCEPT !.pending = p]
          \/ \E p, c : worker' = [worker EXCEPT !.pending = p, !.current = c]
          \/ worker' = [worker EXCEPT !.closed = TRUE]
          \/ worker' = [v EXCEPT !.current = <<>>, !.stop = FALSE]
      BY <2>2 DEF TakeBatch, FinishBatch, SettleBatch
    <3>2. v \in Worker /\ v.storing = worker.storing BY <1>2, RememberLemma
    <3> HIDE DEF v
    <3>3. \A p, c : [worker EXCEPT !.pending = p].storing = worker.storing /\ [worker EXCEPT !.pending = p, !.current = c].storing = worker.storing
            /\ [worker EXCEPT !.closed = TRUE].storing = worker.storing /\ [v EXCEPT !.current = <<>>, !.stop = FALSE].storing = v.storing
      BY <1>2, <3>2 DEF Worker
    <3> QED BY ZenonT(60), <2>2, <3>1, <3>2, <3>3
  <2> QED BY <2>1, <2>2
<1>5. DOMAIN inc' = DOMAIN inc /\ \A n \in DOMAIN inc : Account(inc'[n]) = Account(inc[n])
  <2>1. CASE inc' = inc BY <2>1
  <2>2. CASE inc' # inc
    <3>1. (worker.pending # <<>> /\ \E x : inc' = [inc EXCEPT ![Head(worker.pending).name] = [inc[Head(worker.pending).name] EXCEPT !.dropped = x]])
          \/ (worker.current # <<>> /\ \E x : inc' = [inc EXCEPT ![worker.current[1].name] = [inc[worker.current[1].name] EXCEPT !.settled = x]])
      BY <2>2 DEF TakeBatch, FinishBatch, SettleBatch, fetchVars
    <3>2. PICK n : n \in DOMAIN inc /\ \E x : inc' = [inc EXCEPT ![n] = [inc[n] EXCEPT !.dropped = x]] \/ inc' = [inc EXCEPT ![n] = [inc[n] EXCEPT !.settled = x]]
      <4>1. worker.current # <<>> => worker.current[1].name \in DOMAIN inc BY <1>2 DEF WorkerOk
      <4>2. worker.pending # <<>> => Head(worker.pending).name \in DOMAIN inc
        <5>1. worker.pending \in Seq(Item) BY <1>2, WorkerTypes
        <5> QED BY <1>2, <5>1, TailLemma DEF WorkerOk
      <4> QED BY <3>1, <4>1, <4>2
    <3>3. inc[n] \in Inc BY <3>2 DEF TypeOK
    <3>4. ASSUME NEW e, Account(e) = Account(inc[n]), inc' = [inc EXCEPT ![n] = e]
          PROVE  DOMAIN inc' = DOMAIN inc /\ \A k \in DOMAIN inc : Account(inc'[k]) = Account(inc[k])
      <4> HIDE DEF Account, TypeOK
      <4> QED BY <3>2, <3>4, AccountUpdate
    <3> HIDE DEF Account, TypeOK
    <3>5. \A x : Account([inc[n] EXCEPT !.dropped = x]) = Account(inc[n]) /\ Account([inc[n] EXCEPT !.settled = x]) = Account(inc[n])
      BY <3>3, AccountLemma
    <3> QED BY <3>2, <3>4, <3>5
  <2> QED BY <2>1, <2>2
<1> HIDE DEF Ends, Pulling, Flows, EndOk, Account
<1> QED BY <1>1, <1>3, <1>5, QuietEnds, <1>4 DEF Flows

\* Only one source is read or written.
LEMMA SourceEnds ==
    ASSUME TypeOK, Ends, group' = group, NEW n \in DOMAIN inc, DOMAIN inc' = DOMAIN inc, fetch.pc # "idle",
           \A m \in DOMAIN inc : m # n => Account(inc'[m]) = Account(inc[m]) /\ (Unended(fetch', m) => Unended(fetch, m)),
           \A m \in group : m # n => disk'[m] = disk[m] /\ folder'[m] = folder[m] /\ buffer'[m] = buffer[m],
           Bounded(group, n, disk'[n]), Bounded(group, n, folder'[n]), Planned(group, n, inc'[n]),
           Unended(fetch', n) => ~folder'[n].exhausted /\ inc'[n].base.fetched <= folder'[n].fetched,
           Flows(fetch', worker', primary') => Flows(fetch, worker, primary) /\ (Unended(fetch', n) => Kept(group, n, inc'[n], folder'[n], buffer'[n])),
           EndsOk(group, fetch', inc', disk', primary')
    PROVE  Ends'
<1>1. \A m \in DOMAIN inc : m # n => /\ Planned(group, m, inc[m]) <=> Planned(group, m, inc'[m])
                                     /\ \A x, b : Kept(group, m, inc[m], x, b) <=> Kept(group, m, inc'[m], x, b)
                                     /\ inc'[m].base = inc[m].base
  BY DEF Account, Planned, Kept, Spent
<1>2. DOMAIN inc \subseteq group BY DEF TypeOK
<1> HIDE DEF Planned, EndOk, Kept, Unended, Flows, Account, Bounded, TypeOK
<1> QED BY <1>2, <1>1 DEF Ends, BooksOk, PlansOk, KeptOk

\* A row is pulled.
LEMMA PulledAccount ==
    ASSUME TypeOK, Control, PullRow
    PROVE  LET n == Rows[pos + 1].name IN
           \E e : /\ inc' = [inc EXCEPT ![n] = e]
                  /\ e.consumed = inc[n].consumed + 1 /\ e.base = inc[n].base /\ e.kept = inc[n].kept /\ e.wanted = inc[n].wanted
                  /\ e.passive = inc[n].passive /\ e.needed = inc[n].needed /\ e.limit = inc[n].limit /\ e.budget = inc[n].budget
<1> DEFINE n == Rows[pos + 1].name
           i == inc[n]
           c == i.consumed + 1
           s1 == i.skipped + 1
           t1 == i.streak + 1
           b1 == IF Len(Append(i.batch, [id |-> pos + 1, kind |-> Rows[pos + 1].kind, progress |-> [consumed |-> i.consumed + 1, skipped |-> i.skipped, dropped |-> 0]])) >= BatchSize
                 THEN <<>> ELSE Append(i.batch, [id |-> pos + 1, kind |-> Rows[pos + 1].kind, progress |-> [consumed |-> i.consumed + 1, skipped |-> i.skipped, dropped |-> 0]])
<1>2. \/ inc' = [inc EXCEPT ![n] = [i EXCEPT !.consumed = c]]
      \/ inc' = [inc EXCEPT ![n] = [i EXCEPT !.consumed = c, !.skipped = s1, !.streak = t1]]
      \/ inc' = [inc EXCEPT ![n] = [i EXCEPT !.consumed = c, !.skipped = s1]]
      \/ inc' = [inc EXCEPT ![n] = [i EXCEPT !.consumed = c, !.streak = 0, !.batch = b1]]
  BY Zenon DEF PullRow
<1> DEFINE Fine(e) == /\ e.consumed = c /\ e.base = i.base /\ e.kept = i.kept /\ e.wanted = i.wanted
                      /\ e.passive = i.passive /\ e.needed = i.needed /\ e.limit = i.limit /\ e.budget = i.budget
<1> HIDE DEF c, i, n, s1, t1, b1
<1>3. \A s, t, b : /\ Fine([i EXCEPT !.consumed = c]) /\ Fine([i EXCEPT !.consumed = c, !.skipped = s, !.streak = t])
                   /\ Fine([i EXCEPT !.consumed = c, !.skipped = s]) /\ Fine([i EXCEPT !.consumed = c, !.streak = t, !.batch = b])
  BY PullRowTypes DEF Inc, PullRow
<1> HIDE DEF Fine
<1>4. \E e : inc' = [inc EXCEPT ![n] = e] /\ Fine(e) BY Zenon, <1>2, <1>3
<1> QED BY <1>4 DEF Fine, c, i, n

LEMMA PullRowEnds ==
    ASSUME TypeOK, Control, Data, Ends, PullRow
    PROVE  Ends'
<1> DEFINE n == Rows[pos + 1].name
           i == inc[n]
<1>1. UNCHANGED <<group, disk, folder, buffer, worker>> /\ fetch.pc = "row" /\ HasRow /\ ~Done(n)
  BY Zenon DEF PullRow, writeVars
<1>2. PICK e : /\ inc' = [inc EXCEPT ![n] = e]
               /\ e.consumed = i.consumed + 1 /\ e.base = i.base /\ e.kept = i.kept /\ e.wanted = i.wanted
               /\ e.passive = i.passive /\ e.needed = i.needed /\ e.limit = i.limit /\ e.budget = i.budget
  BY PulledAccount
<1>3. /\ n \in DOMAIN inc /\ n \in group /\ i \in Inc /\ pos \in Nat /\ pos + 1 \in OwnOf(group, n) /\ group \in Group
      /\ pos < Len(Upstream[group]) /\ primary = "none"
  <2>3. pos < Len(Upstream[group]) /\ pos \in Nat /\ group \in Group BY <1>1 DEF HasRow, Rows, TypeOK
  <2> QED BY <2>3, <1>1, PullRowTypes DEF Control, FetchOk, Pulling
<1>4. Ord(group, pos + 1) > i.base.fetched /\ ~DoneIn(n, i) BY <1>1, DoneIs DEF HasRow, Ordinal, Ord
<1> HIDE DEF n, i, DoneIn, At
<1>6. Ord(group, pos + 1) = i.base.fetched + i.consumed + 1
  BY <1>3, <1>4, NextRow, <1>1 DEF Pulling, Data, LoaderOk, i
<1>8. inc[n] = i /\ inc'[n] = e /\ DOMAIN inc' = DOMAIN inc /\ \A m \in DOMAIN inc : m # n => inc'[m] = inc[m]
  BY <1>2, <1>3 DEF i
<1>9. Unended(fetch, n) /\ fetch.pc # "idle" BY <1>1 DEF Unended
<1>10. Planned(group, n, i) /\ ~folder[n].exhausted /\ i.base.fetched <= folder[n].fetched /\ Bounded(group, n, disk[n]) /\ Bounded(group, n, folder[n])
  <2> HIDE DEF Planned, Unended, Bounded
  <2> QED BY <1>3, <1>8, <1>9 DEF Ends, PlansOk, BooksOk
<1>11. Planned(group, n, e)
  <2>1. i.base.fetched \in Nat /\ i.consumed \in Nat BY <1>3, IncTypes DEF Offset
  <2> QED BY <1>2, <1>10, <2>1, <1>3, <1>6, OrdBounded DEF Planned
<1>12. fetch'.pc # "finish" /\ (~Pulling(fetch') => primary' # "none")
  <2>2. fetch' = fetch \/ (fetch' = ToCleanup /\ Record("error")) \/ \E b : fetch' = [NoFetch EXCEPT !.pc = "submit", !.name = n, !.back = "target", !.batch = b]
    BY DEF PullRow, n
  <2>3. \A b : [NoFetch EXCEPT !.pc = "submit", !.name = n, !.back = "target", !.batch = b].pc = "submit"
               /\ [NoFetch EXCEPT !.pc = "submit", !.name = n, !.back = "target", !.batch = b].back = "target"
    BY DEF NoFetch
  <2>4. fetch' = fetch \/ (fetch' = ToCleanup /\ Record("error")) \/ (fetch'.pc = "submit" /\ fetch'.back = "target")
    BY <2>2, <2>3
  <2> QED BY <1>1, <2>4, FetchBegins, RecordLemma DEF Pulling
<1>13. Flows(fetch', worker', primary') => Flows(fetch, worker, primary) BY <1>1, <1>3 DEF Flows
<1>14. \A m \in DOMAIN inc : Unended(fetch, m) BY <1>1 DEF Unended
<1> HIDE DEF Ends, Flows, Pulling, Kept, Unended, Planned, Bounded, Account
<1>16. EndsOk(group, fetch', inc', disk', primary') BY <1>12 DEF EndsOk
<1>17. Flows(fetch', worker', primary') => Kept(group, n, inc'[n], folder[n], buffer[n])
  BY <1>3, <1>8, <1>9, <1>13, <1>2 DEF Ends, KeptOk, Kept
<1> QED BY <1>1, <1>2, <1>3, <1>8, <1>9, <1>10, <1>11, <1>13, <1>14, <1>16, <1>17, SourceEnds

\* The rows of the writer with the one that is handed to it.
LEMMA RowsHanded ==
    ASSUME TypeOK, Control, Data, StoreRow
    PROVE  LET n == worker.current[1].name
               rows == Append(buffer[n], Head(worker.rows))
           IN /\ n \in DOMAIN inc /\ fetch.pc # "idle" /\ ~Joined(fetch.pc) /\ worker.storing
              /\ rows \in Seq(Row) /\ Len(rows) = Len(buffer[n]) + 1
              /\ StoredOk(group, n, inc[n].base, rows, folder[n].fetched, TopOf(group, folder[n].fetched, rows))
<1> DEFINE n == worker.current[1].name
           i == inc[n]
           wr == worker.rows
           g == group
           f == folder[n].fetched
           buf == buffer[n]
           rows == Append(buf, Head(wr))
           line == Line(worker, queue, fetch)
           first == primary
           t0 == TopOf(g, f, buf)
<1>1. worker.rows # <<>> /\ worker \in Worker /\ WorkerOk(worker, queue, fetch.pc, DOMAIN inc, primary)
  BY DEF StoreRow, TypeOK, Control
<1>2. worker.current # <<>> /\ worker.storing /\ n \in DOMAIN inc /\ fetch.pc # "idle" /\ ~Joined(fetch.pc)
  BY Zenon, <1>1 DEF WorkerOk
<1>3. n \in group /\ g \in Group /\ folder[n] \in Manifest /\ buf \in Seq(Row) /\ wr \in Seq(Row)
  BY Zenon, <1>1, <1>2, WorkerTypes DEF TypeOK
<1>4. f \in Nat BY <1>3, OffsetType
<1>5. StoredOk(g, n, i.base, buf, f, t0) /\ FlowOk(g, n, i, t0, wr, line, first)
  <2>2. RowsAt(worker, n) = worker.rows BY <1>2 DEF RowsAt
  <2> HIDE DEF FlowOk, TopOf, RowsAt, Line, Flows, StoredOk, n
  <2>4. StoredOk(group, n, inc[n].base, buf, f, TopOf(group, f, buf)) BY <1>2 DEF Data, BufferedOk
  <2> QED BY <2>2, <2>4, <1>2 DEF Data, FlowingOk, Flows, Joined
<1> HIDE DEF t0
<1>6. t0 = TopOf(g, f, buf) /\ wr # <<>> BY <1>1 DEF t0
<1>7. rows \in Seq(Row) /\ Len(rows) = Len(buf) + 1 BY <1>1, <1>3, AppendLemma
<1> HIDE DEF rows
<1>8. rows = Append(buf, Head(wr)) BY DEF rows
<1> HIDE DEF StoredOk, FlowOk, TopOf, i, wr, g, f, buf, line, first
<1>9. StoredOk(g, n, i.base, rows, f, TopOf(g, f, rows)) BY <1>3, <1>4, <1>5, <1>6, <1>8, BufferGrows
<1> QED BY <1>2, <1>7, <1>9 DEF rows, i, g, f, buf, wr

LEMMA StoreRowEnds ==
    ASSUME TypeOK, Control, Data, Ends, StoreRow
    PROVE  Ends'
<1> DEFINE n == worker.current[1].name
           rows == Append(buffer[n], Head(worker.rows))
           next == [worker EXCEPT !.rows = Tail(worker.rows)]
           shard == RecordShard(folder[n], inc[n], rows)
           k == inc[n].kept + 1
           e == [inc[n] EXCEPT !.kept = k]
           b == next.stop \/ StopNow
           v == Remember(worker, "error")
<1>1. UNCHANGED <<group, fetch, primary>> BY DEF StoreRow
<1>2. /\ n \in DOMAIN inc /\ fetch.pc # "idle" /\ ~Joined(fetch.pc) /\ worker.storing
      /\ rows \in Seq(Row) /\ Len(rows) = Len(buffer[n]) + 1
      /\ StoredOk(group, n, inc[n].base, rows, folder[n].fetched, TopOf(group, folder[n].fetched, rows))
  BY RowsHanded
<1>3. inc[n] \in Inc /\ n \in group /\ group \in Group /\ folder[n] \in Manifest /\ buffer[n] \in Seq(Row) /\ worker \in Worker
      /\ folder \in [group -> Manifest] /\ disk \in [group -> Manifest] /\ buffer \in [group -> Seq(Row)]
  BY Zenon, <1>2 DEF TypeOK
<1>4. inc[n].kept \in Nat /\ inc[n].wanted \in Nat /\ Len(buffer[n]) \in Nat BY <1>3, IncFields
<1>5. /\ e.base = inc[n].base /\ e.consumed = inc[n].consumed /\ e.passive = inc[n].passive /\ e.kept = k /\ e.wanted = inc[n].wanted
      /\ e.budget = inc[n].budget /\ e.needed = inc[n].needed /\ e.limit = inc[n].limit
  <2> HIDE DEF k
  <2> QED BY <1>3 DEF Inc
<1>7. \/ buffer' = [buffer EXCEPT ![n] = rows] /\ inc' = [inc EXCEPT ![n] = e] /\ UNCHANGED <<disk, folder>>
      \/ /\ buffer' = [buffer EXCEPT ![n] = <<>>] /\ folder' = [folder EXCEPT ![n] = shard] /\ disk' = [disk EXCEPT ![n] = shard]
         /\ inc' = [inc EXCEPT ![n] = e]
      \/ buffer' = [buffer EXCEPT ![n] = <<>>] /\ worker' = [v EXCEPT !.storing = FALSE, !.stop = FALSE, !.rows = <<>>]
         /\ UNCHANGED <<disk, folder, inc>>
  BY DEF StoreRow
<1> HIDE DEF n, rows, next, shard, b, v
<1>8. fetch.pc # "finish" /\ Flows(fetch, worker, primary) BY <1>2 DEF Flows, Joined
<1>9. \A m \in DOMAIN inc : Unended(fetch, m) BY <1>8 DEF Unended
<1>10. /\ Planned(group, n, inc[n]) /\ ~folder[n].exhausted /\ inc[n].base.fetched <= folder[n].fetched /\ Bounded(group, n, disk[n]) /\ Bounded(group, n, folder[n])
       /\ Kept(group, n, inc[n], folder[n], buffer[n]) /\ GoodManifest(group, n, folder[n])
  <2> HIDE DEF Planned, Unended, Bounded, Kept, GoodManifest, Flows
  <2> QED BY <1>2, <1>3, <1>8, <1>9 DEF Ends, PlansOk, BooksOk, KeptOk, Data, ManifestsOk
<1>12. EndOk(group, n, inc[n]) => EndOk(group, n, e) BY <1>4, <1>5 DEF EndOk, Spent
<1>13. /\ Bounded(group, n, shard) /\ ~shard.exhausted /\ inc[n].base.fetched <= shard.fetched
       /\ Cardinality(Kin(group, n, inc[n].base.fetched, shard.fetched, {"ok"}))
            = Cardinality(Kin(group, n, inc[n].base.fetched, folder[n].fetched, {"ok"})) + Len(rows)
  <2> DEFINE i == inc[n]
             m == folder[n]
             g == group
  <2>1. rows # <<>> BY <1>2, <1>4
  <2>2. /\ g \in Group /\ m \in Manifest /\ GoodManifest(g, n, m) /\ Bounded(g, n, m) /\ ~m.exhausted /\ i \in Inc /\ rows \in Seq(Row)
        /\ StoredOk(g, n, i.base, rows, m.fetched, TopOf(g, m.fetched, rows)) /\ i.base.fetched <= m.fetched
    BY <1>2, <1>3, <1>10
  <2> HIDE DEF i, m, g
  <2>3. /\ Bounded(g, n, RecordShard(m, i, rows)) /\ ~RecordShard(m, i, rows).exhausted
        /\ i.base.fetched <= RecordShard(m, i, rows).fetched
        /\ Cardinality(Kin(g, n, i.base.fetched, RecordShard(m, i, rows).fetched, {"ok"}))
             = Cardinality(Kin(g, n, i.base.fetched, m.fetched, {"ok"})) + Len(rows)
    <3> HIDE DEF GoodManifest, Bounded, StoredOk
    <3> QED BY <2>1, <2>2, RecordBounded
  <2> QED BY <2>3 DEF shard, i, m, g
<1>14. Kept(group, n, e, folder[n], rows) /\ Kept(group, n, e, shard, <<>>)
  <2> DEFINE c == Cardinality(Kin(group, n, inc[n].base.fetched, folder[n].fetched, {"ok"}))
             c2 == Cardinality(Kin(group, n, inc[n].base.fetched, shard.fetched, {"ok"}))
             l == Len(buffer[n])
             l2 == Len(rows)
             h == inc[n].kept
  <2>1. c \in Nat /\ h = c + l /\ c2 = c + l2 /\ l2 = l + 1 /\ l \in Nat
    BY <1>2, <1>3, <1>4, <1>10, <1>13, KinFinite DEF Kept
  <2>2. e.kept = h + 1 /\ e.base = inc[n].base /\ Len(<<>>) = 0 BY <1>5
  <2> HIDE DEF c, c2, l, l2, h
  <2> QED BY <2>2, <2>1 DEF c, c2, l, l2, Kept
<1> HIDE DEF e, k
<1>15. /\ DOMAIN inc' = DOMAIN inc /\ \A m \in DOMAIN inc : m # n => inc'[m] = inc[m]
       /\ inc'[n] \in {inc[n], e} /\ inc'[n].base = inc[n].base
       /\ \A m \in group : m # n => disk'[m] = disk[m] /\ folder'[m] = folder[m] /\ buffer'[m] = buffer[m]
       /\ disk'[n] \in {disk[n], shard} /\ folder'[n] \in {folder[n], shard}
  BY <1>2, <1>7, <1>5, <1>3
<1>16. worker'.storing => /\ inc'[n] = e
                          /\ \/ buffer'[n] = rows /\ folder'[n] = folder[n]
                             \/ buffer'[n] = <<>> /\ folder'[n] = shard
  <2>1. [v EXCEPT !.storing = FALSE, !.stop = FALSE, !.rows = <<>>].storing = FALSE
    BY <1>3, RememberLemma DEF Worker
  <2> QED BY <1>2, <1>3, <1>7, <2>1
<1> HIDE DEF Ends, Flows, Pulling, Kept, Unended, Planned, Bounded, EndOk, StoredOk, GoodManifest
<1>18. EndsOk(group, fetch', inc', disk', primary') BY <1>1, <1>8, <1>15, <1>2, <1>12 DEF EndsOk, Ends
<1>19. \A m \in DOMAIN inc : m # n => Account(inc'[m]) = Account(inc[m]) BY <1>15
<1>20. Planned(group, n, inc'[n]) /\ Bounded(group, n, disk'[n]) /\ Bounded(group, n, folder'[n]) /\ ~folder'[n].exhausted /\ inc'[n].base.fetched <= folder'[n].fetched
  BY <1>10, <1>13, <1>15, <1>5 DEF Planned
<1>21. Flows(fetch', worker', primary') => Kept(group, n, inc'[n], folder'[n], buffer'[n])
  BY <1>14, <1>16 DEF Flows
<1>22. Unended(fetch', n) /\ \A m \in DOMAIN inc : Unended(fetch, m) BY <1>1, <1>2, <1>9
<1> HIDE DEF Account
<1>23. group' = group BY <1>1
<1> QED BY <1>2, <1>8, <1>15, <1>18, <1>19, <1>20, <1>21, <1>22, <1>23, SourceEnds

LEMMA FlushWriterEnds ==
    ASSUME TypeOK, Control, Data, Ends, FlushWriter
    PROVE  Ends'
<1> DEFINE n == First(fetch.todo)
           t == fetch.todo \ {n}
           shard == RecordShard(folder[n], inc[n], buffer[n])
<1>1. UNCHANGED <<group, inc, worker>> /\ fetch.pc \in {"exit", "salvage"} /\ fetch.todo # {}
      /\ fetch' = [fetch EXCEPT !.todo = t] /\ buffer' = [buffer EXCEPT ![n] = <<>>]
  BY DEF FlushWriter
<1>2. fetch \in Fetch /\ FetchOk(fetch, inc, primary) BY DEF TypeOK, Control
<1>3. n \in fetch.todo BY <1>1, FirstLemma
<1>4. \/ buffer[n] = <<>> /\ UNCHANGED <<disk, folder, gate, primary>>
      \/ UNCHANGED <<disk, folder>> /\ Record("error")
      \/ /\ buffer[n] # <<>> /\ folder' = [folder EXCEPT ![n] = shard] /\ disk' = [disk EXCEPT ![n] = shard]
         /\ Record("stop") \/ UNCHANGED <<gate, primary>>
  BY DEF FlushWriter
<1> HIDE DEF n, t
<1>5. n \in DOMAIN inc BY <1>2, <1>3 DEF FetchOk
<1>6. inc[n] \in Inc /\ n \in group /\ group \in Group /\ folder[n] \in Manifest /\ buffer[n] \in Seq(Row)
      /\ folder \in [group -> Manifest] /\ disk \in [group -> Manifest] /\ buffer \in [group -> Seq(Row)]
  BY <1>5 DEF TypeOK
<1> HIDE DEF shard
<1>7. fetch'.pc = fetch.pc BY <1>1, <1>2 DEF Fetch
<1>8. \A m \in DOMAIN inc : Unended(fetch, m) /\ Unended(fetch', m) BY <1>1, <1>7 DEF Unended
<1>9. \A m \in group : m # n => disk'[m] = disk[m] /\ folder'[m] = folder[m] /\ buffer'[m] = buffer[m]
  BY <1>1, <1>4, <1>6
<1>10. buffer'[n] = <<>> /\ (primary # "none" => primary' # "none") BY <1>1, <1>4, <1>6, RecordLemma
<1>11. /\ Planned(group, n, inc[n]) /\ ~folder[n].exhausted /\ inc[n].base.fetched <= folder[n].fetched /\ Bounded(group, n, disk[n]) /\ Bounded(group, n, folder[n])
       /\ GoodManifest(group, n, folder[n]) /\ StoredOk(group, n, inc[n].base, buffer[n], folder[n].fetched, TopOf(group, folder[n].fetched, buffer[n]))
  <2>1. fetch.pc # "idle" BY <1>1
  <2> HIDE DEF Planned, Unended, Bounded, GoodManifest, StoredOk, TopOf
  <2> QED BY <1>5, <1>6, <1>8, <2>1 DEF Ends, PlansOk, BooksOk, Data, ManifestsOk, BufferedOk
<1>12. buffer[n] # <<>> => /\ Bounded(group, n, shard) /\ ~shard.exhausted /\ inc[n].base.fetched <= shard.fetched
                           /\ Cardinality(Kin(group, n, inc[n].base.fetched, shard.fetched, {"ok"}))
                                = Cardinality(Kin(group, n, inc[n].base.fetched, folder[n].fetched, {"ok"})) + Len(buffer[n])
  BY <1>6, <1>11, RecordBounded DEF shard
<1>13. /\ Bounded(group, n, disk'[n]) /\ Bounded(group, n, folder'[n]) /\ ~folder'[n].exhausted /\ inc[n].base.fetched <= folder'[n].fetched
       /\ primary' = "none" /\ Kept(group, n, inc[n], folder[n], buffer[n]) => Kept(group, n, inc[n], folder'[n], <<>>)
  BY <1>11, RecordLemma, <1>6, <1>12, KinFinite, <1>4 DEF Kept
<1>14. Flows(fetch', worker', primary') => Flows(fetch, worker, primary) /\ primary' = "none"
  BY <1>1, <1>7, <1>10 DEF Flows
<1>15. ~Pulling(fetch) /\ ~Pulling(fetch') /\ fetch.pc \notin {"idle", "finish"} BY <1>1, <1>7 DEF Pulling
<1> HIDE DEF Ends, Flows, Pulling, Kept, Unended, Planned, Bounded, EndOk, StoredOk, GoodManifest, Account
<1>16. EndsOk(group, fetch', inc', disk', primary') BY <1>1, <1>7, <1>10, <1>15 DEF Ends, EndsOk
<1>17. Flows(fetch', worker', primary') => Kept(group, n, inc[n], folder'[n], <<>>)
  BY <1>5, <1>8, <1>13, <1>14 DEF Ends, KeptOk
<1>18. group' = group /\ inc' = inc BY <1>1
<1> QED BY <1>5, <1>8, <1>9, <1>10, <1>11, <1>13, <1>14, <1>15, <1>16, <1>17, <1>18, SourceEnds

\* A source whose increment is finished: all that was consumed is stored or counted.
LEMMA Finishing ==
    ASSUME TypeOK, Control, Data, FinishIncrement, fetch.todo # {}
    PROVE  LET n == First(fetch.todo)
               f == folder[n].fetched
               h == inc[n].base.fetched + inc[n].consumed
           IN /\ n \in DOMAIN inc /\ n \in fetch.todo /\ primary = "none" /\ worker.pending \o queue = <<>>
              /\ Flows(fetch, worker, primary) /\ buffer[n] = <<>>
              /\ f \in Nat /\ h \in Nat /\ f <= h /\ Kin(group, n, f, h, {"ok"}) = {}
              /\ GoodManifest(group, n, folder[n]) /\ Finished(n) \in Manifest /\ GoodManifest(group, n, Finished(n))
<1> DEFINE n == First(fetch.todo)
           f == folder[n].fetched
           h == inc[n].base.fetched + inc[n].consumed
<1>1. fetch.pc = "finish" /\ worker \in Worker /\ WorkerOk(worker, queue, "finish", DOMAIN inc, primary) /\ FetchOk(fetch, inc, primary) /\ BuffersOk(fetch, inc, buffer)
  BY DEF FinishIncrement, TypeOK, Control
<1>2. n \in fetch.todo BY FirstLemma
<1> HIDE DEF n
<1>3. n \in DOMAIN inc BY <1>1, <1>2 DEF FetchOk
<1>4. Finished(n) \in Manifest BY <1>3, FinishedType
<1>5. inc[n] \in Inc /\ n \in group /\ group \in Group /\ folder[n] \in Manifest BY <1>3 DEF TypeOK
<1>6. f \in Nat BY <1>5, OffsetType
<1>7. queue = <<>> /\ worker.pending = <<>> /\ worker.current = <<>> /\ primary = "none" /\ worker.storing /\ inc[n].batch = <<>> /\ buffer[n] = <<>>
  BY <1>1, AfterJoin, <1>3 DEF FetchOk, Joined, Closing, BuffersOk, WorkerOk
<1>8. worker.pending \o queue = <<>> BY <1>7
<1>9. Flows(fetch, worker, primary) /\ Line(worker, queue, fetch) = <<>> /\ RowsAt(worker, n) = <<>> /\ TopOf(group, f, buffer[n]) = f
  BY <1>1, <1>7, <1>8, LineIs DEF Flows, RowsAt, TopOf
<1> HIDE DEF f, FlowOk, TopOf, RowsAt, Line, Flows, Read, GoodManifest
<1>10. /\ FlowOk(group, n, inc[n], f, <<>>, <<>>, "none")
       /\ Read(group, n, inc[n]) /\ GoodManifest(group, n, folder[n]) /\ GoodManifest(group, n, disk[n])
  BY <1>1, <1>2, <1>3, <1>9, <1>7, <1>5 DEF Data, FlowingOk, f, ReadOk, ManifestsOk
<1>11. h \in Nat /\ f <= h /\ Kin(group, n, f, h, {"ok"}) = {} /\ inc[n].base.dropped + inc[n].dropped = Count(group, n, h, {"long"})
  <2> DEFINE i == inc[n]
             g == group
  <2>1. g \in Group /\ i \in Inc /\ f \in Nat /\ FlowOk(g, n, i, f, <<>>, <<>>, "none") /\ i.batch = <<>> /\ h = i.base.fetched + i.consumed
    BY <1>5, <1>6, <1>7, <1>10
  <2> HIDE DEF i, g, h
  <2>2. h \in Nat /\ f <= h /\ Kin(g, n, f, h, {"ok"}) = {} /\ i.base.dropped + i.dropped = Count(g, n, h, {"long"})
    BY <2>1, FlowEnds
  <2> QED BY <2>2 DEF i, g
<1>12. GoodManifest(group, n, Finished(n)) BY <1>11, <1>10, <1>3, FinishedGood DEF f, Read
<1> QED BY <1>2, <1>3, <1>4, <1>6, <1>7, <1>8, <1>9, <1>10, <1>11, <1>12 DEF n, f

\* The rows of an increment that is finished: its request is met or the source is at its end or its limit.
LEMMA FinishedEnough ==
    ASSUME TypeOK, NEW n \in DOMAIN inc, NEW h \in Nat, h = inc[n].base.fetched + inc[n].consumed,
           folder[n].fetched <= h, Kin(group, n, folder[n].fetched, h, {"ok"}) = {}, Finished(n) \in Manifest, GoodManifest(group, n, Finished(n)),
           Bounded(group, n, folder[n]), Bounded(group, n, disk[n]), Planned(group, n, inc[n]), ~folder[n].exhausted,
           inc[n].base.fetched <= folder[n].fetched, EndOk(group, n, inc[n]), Kept(group, n, inc[n], folder[n], <<>>)
    PROVE  Bounded(group, n, Finished(n)) /\ Enough(inc[n], Finished(n))
<1> DEFINE i == inc[n]
           m == folder[n]
           g == group
           a == i.base.fetched
           f == m.fetched
           exhausted == ~i.passive /\ i.kept < i.wanted
           l == IF i.limit # NoLimit /\ i.base.fetched + i.consumed >= i.limit THEN i.limit ELSE NoLimit
           asof == AsOf(i, i)
           t == Finished(n)
<1>1. i \in Inc /\ m \in Manifest /\ g \in Group BY DEF TypeOK
<1>2. a \in Nat /\ f \in Nat /\ i.consumed \in Nat /\ i.kept \in Nat /\ i.wanted \in Nat /\ i.limit \in Nat \cup {NoLimit} /\ i.needed \in Nat /\ i.passive \in BOOLEAN
  <2>1. a \in Nat /\ f \in Nat BY <1>1, IncTypes, OffsetType DEF Offset
  <2> QED BY <2>1, <1>1 DEF Inc
<1>3. asof \in Offset /\ asof.fetched = h BY <1>1, IncFields, AsOfType DEF AsOf
<1>4. l \in Nat \cup {NoLimit} BY <1>2
<1>5. t = IF Untouched(n) /\ ~exhausted THEN disk[n] ELSE Stored(IF exhausted THEN MarkExhausted(m, l) ELSE m, asof)
  BY DEF Finished
<1>6. h <= Total(g, n) /\ (i.passive <=> i.wanted = 0) /\ i.needed <= Count(g, n, a, {"ok"}) + i.wanted
      /\ (i.budget # NoLimit => i.limit # NoLimit /\ i.budget = i.limit - a)
  BY DEF Planned
<1>7. i.kept = Cardinality(Kin(g, n, a, h, {"ok"})) /\ Count(g, n, h, {"ok"}) = Count(g, n, a, {"ok"}) + i.kept /\ Count(g, n, a, {"ok"}) \in Nat
  <2> HIDE DEF i, m, a, f, g
  <2>1. i.kept = Cardinality(Kin(g, n, a, f, {"ok"})) + Len(<<>>) /\ a <= f /\ f <= h /\ Kin(g, n, f, h, {"ok"}) = {}
    BY DEF Kept, i, m, a, f, g
  <2>3. Cardinality(Kin(g, n, f, h, {"ok"})) = 0 /\ Cardinality(Kin(g, n, a, f, {"ok"})) \in Nat
    BY <1>1, <2>1, FS_EmptySet, KinFinite
  <2> QED BY <1>1, <1>2, <2>1, CountSplit, <2>3, KinAdds
<1>8. n \notin Instruct => i.kept = i.consumed BY <1>2, <1>1, <1>6, AllKept, <1>7
<1>9. m.shards \in Seq(Shard) /\ \A s \in 1 .. Len(m.shards) : m.shards[s].asof.fetched <= Total(g, n)
  BY <1>1, OffsetType DEF Bounded
<1>10. CASE exhausted
  <2>1. h = Total(g, n) \/ (l # NoLimit /\ h >= l) BY <1>10, <1>2, <1>6, <1>8 DEF Spent, EndOk
  <2> DEFINE x == MarkExhausted(m, l)
  <2> HIDE DEF m, l, asof, exhausted, t
  <2>2. x \in Manifest /\ x.shards = m.shards /\ x.exhausted = TRUE /\ (l # NoLimit => x.reached = l)
    <3>1. m \in Manifest /\ l \in Nat \cup {NoLimit} BY <1>1, <1>4
    <3>2. /\ MarkExhausted(m, l) \in Manifest /\ MarkExhausted(m, l).shards = m.shards /\ MarkExhausted(m, l).exhausted = TRUE
          /\ l # NoLimit => MarkExhausted(m, l).reached = l
      BY <3>1, MarkedType, ZenonT(60)
    <3> QED BY <3>2
  <2>3. t = Stored(x, asof) BY <1>5, <1>10
  <2> HIDE DEF x
  <2>4. t.shards = m.shards /\ t.fetched = h /\ t.exhausted = TRUE /\ t.reached = x.reached
    BY <1>3, <2>2, <2>3, StoredType
  <2> QED BY <2>4, <1>6, <1>9, <2>1, <2>2 DEF t, Enough, Bounded
<1>11. CASE ~exhausted
  <2>1. i.needed <= Count(g, n, h, {"ok"}) BY <1>2, <1>6, <1>11, <1>7
  <2>2. CASE Untouched(n)
    <3>1. t = disk[n] /\ h = 0 BY <1>5, <1>11, <2>2, <1>2 DEF Untouched
    <3>2. Count(g, n, 0, {"ok"}) = 0
      <4> HIDE DEF g
      <4>2. Kin(g, n, 0, 0, {"ok"}) = {} BY <1>1, KinEmpty
      <4> QED BY <4>2, FS_EmptySet DEF Count
    <3> HIDE DEF t
    <3> QED BY <1>2, <2>1, <3>1, <3>2, RowsOfType DEF t, Enough
  <2>3. CASE ~Untouched(n)
    <3> HIDE DEF m, asof, exhausted, t, l
    <3>2. t.shards = m.shards /\ t.fetched = h /\ t.exhausted = m.exhausted
      BY <1>1, <1>3, StoredType, <1>5, <1>11, <2>3
    <3>6. Len(RowsOf(t)) = Count(g, n, h, {"ok"}) /\ Count(g, n, h, {"ok"}) \in Nat
      BY <1>1, RowsCount, <1>2, <1>7, <3>2 DEF t
    <3> QED BY <1>2, <2>1, <3>6, <1>6, <1>9, <3>2 DEF t, Enough, Bounded, m
  <2> QED BY <2>2, <2>3
<1> QED BY <1>10, <1>11

LEMMA FinishIncrementEnds ==
    ASSUME TypeOK, Control, Data, Ends, FinishIncrement
    PROVE  Ends'
<1>1. UNCHANGED <<group, inc, worker, buffer, primary>> /\ fetch.pc = "finish" /\ fetch \in Fetch
  BY DEF FinishIncrement, TypeOK
<1>2. CASE fetch.todo = {}
  <2>1. fetch'.pc = "idle" /\ UNCHANGED <<disk, folder>>
    <3>1. fetch' = NoFetch /\ UNCHANGED <<disk, folder>> BY Zenon, <1>2 DEF FinishIncrement
    <3> QED BY <3>1 DEF NoFetch
  <2> HIDE DEF Ends, BooksOk
  <2> QED BY <2>1, IdleEnds, <1>1 DEF Ends, BooksOk
<1>3. CASE fetch.todo # {}
  <2> DEFINE n == First(fetch.todo)
             t == fetch.todo \ {n}
             m == Finished(n)
             h == inc[n].base.fetched + inc[n].consumed
  <2>1. disk' = [disk EXCEPT ![n] = m] /\ folder' = [folder EXCEPT ![n] = m] /\ fetch' = [fetch EXCEPT !.todo = t]
    BY <1>3 DEF FinishIncrement
  <2>2. /\ n \in DOMAIN inc /\ n \in fetch.todo /\ primary = "none" /\ Flows(fetch, worker, primary) /\ buffer[n] = <<>>
        /\ h \in Nat /\ folder[n].fetched <= h /\ Kin(group, n, folder[n].fetched, h, {"ok"}) = {}
        /\ m \in Manifest /\ GoodManifest(group, n, m)
    <3> HIDE DEF GoodManifest, Flows
    <3> QED BY <1>3, Finishing
  <2> HIDE DEF n
  <2>3. n \in group /\ folder \in [group -> Manifest] /\ disk \in [group -> Manifest] /\ DOMAIN inc \subseteq group
    BY <2>2 DEF TypeOK
  <2>4. fetch'.pc = "finish" /\ fetch'.todo = t BY <1>1, <2>1 DEF Fetch
  <2>5. Unended(fetch, n) /\ ~Unended(fetch', n) /\ \A k \in DOMAIN inc : Unended(fetch', k) => Unended(fetch, k)
    BY <1>1, <2>2, <2>4 DEF Unended
  <2>6. /\ Planned(group, n, inc[n]) /\ ~folder[n].exhausted /\ inc[n].base.fetched <= folder[n].fetched /\ Bounded(group, n, disk[n]) /\ Bounded(group, n, folder[n])
        /\ Kept(group, n, inc[n], folder[n], buffer[n]) /\ \A k \in DOMAIN inc : EndOk(group, k, inc[k])
    <3>1. fetch.pc # "idle" /\ ~Pulling(fetch) BY <1>1 DEF Pulling
    <3> HIDE DEF Planned, Unended, Bounded, Kept, Flows, Pulling, EndOk
    <3> QED BY <2>2, <2>3, <2>5, <3>1 DEF Ends, PlansOk, BooksOk, KeptOk, EndsOk
  <2>7. Bounded(group, n, m) /\ Enough(inc[n], m) BY <2>2, <2>6, FinishedEnough DEF m
  <2> HIDE DEF m, h
  <2>8. disk'[n] = m /\ folder'[n] = m /\ \A k \in group : k # n => disk'[k] = disk[k] /\ folder'[k] = folder[k] /\ buffer'[k] = buffer[k]
    BY <1>1, <2>1, <2>3
  <2>9. inc' = inc /\ group' = group /\ (Flows(fetch', worker', primary') => Flows(fetch, worker, primary)) /\ fetch.pc # "idle"
    BY <1>1, <2>2
  <2> HIDE DEF Ends, Flows, Pulling, Kept, Unended, Planned, Bounded, EndOk, Account, Enough
  <2>10. EndsOk(group, fetch', inc', disk', primary')
    <3>1. \A k \in DOMAIN inc : k \notin t => Enough(inc[k], disk'[k])
      BY <2>7, <2>8, <2>3, <1>1 DEF t, Ends, EndsOk
    <3> QED BY <2>4, <2>6, <2>9, <3>1 DEF EndsOk
  <2> QED BY <2>2, <2>5, <2>6, <2>7, <2>8, <2>9, <2>10, SourceEnds
<1> QED BY <1>2, <1>3

LEMMA CrashEnds ==
    ASSUME Ends, Crash
    PROVE  Ends'
<1>1. fetch'.pc = "idle" /\ folder' = disk /\ UNCHANGED <<group, disk>> BY DEF Crash, NoFetch
<1> HIDE DEF Ends, BooksOk
<1> QED BY <1>1, IdleEnds DEF Ends, BooksOk

\* Between passes a manifest is opened again or cut.
LEMMA BetweenEnds ==
    ASSUME TypeOK, Ends, NEW n \in group, NEW m, disk' = [disk EXCEPT ![n] = m], UNCHANGED <<group, folder, fetch>>, fetch.pc = "idle", Bounded(group, n, m)
    PROVE  Ends'
<1> HIDE DEF Ends, BooksOk
<1> QED BY IdleEnds DEF BooksOk, TypeOK, Ends

LEMMA ReopenEnds ==
    ASSUME TypeOK, Ends, NEW n \in group, Reopen(n)
    PROVE  Ends'
<1> DEFINE d == disk[n]
           m == [d EXCEPT !.exhausted = FALSE, !.reached = NoLimit]
<1>1. UNCHANGED <<group, folder, fetch>> /\ fetch.pc = "idle" /\ disk' = [disk EXCEPT ![n] = m]
  BY DEF Reopen, fetchVars, Busy, TypeOK
<1>3. Bounded(group, n, d) BY DEF Ends, BooksOk
<1> HIDE DEF d
<1>4. m.shards = d.shards /\ m.fetched = d.fetched /\ m.exhausted = FALSE BY DEF Manifest, TypeOK
<1> HIDE DEF m
<1>5. Bounded(group, n, m) BY <1>3, <1>4 DEF Bounded
<1> HIDE DEF Bounded, Ends, TypeOK
<1> QED BY <1>1, <1>5, BetweenEnds

LEMMA TruncateToEnds ==
    ASSUME TypeOK, Ends, NEW n \in group, NEW good \in 1 .. Len(disk[n].shards), TruncateTo(n, good)
    PROVE  Ends'
<1> DEFINE d == disk[n]
           cut == SubSeq(d.shards, 1, good)
           x == [d EXCEPT !.shards = cut, !.exhausted = FALSE, !.reached = NoLimit]
           asof == d.shards[good].asof
           m == Stored(x, asof)
<1>1. UNCHANGED <<group, folder, fetch>> /\ fetch.pc = "idle" /\ disk' = [disk EXCEPT ![n] = m]
  BY DEF TruncateTo, fetchVars, Busy, Truncated
<1>2. d \in Manifest /\ good \in 1 .. Len(d.shards) BY DEF TypeOK
<1>3. Bounded(group, n, d) BY DEF Ends, BooksOk
<1> HIDE DEF d
<1>4. d.shards \in Seq(Shard) BY <1>2, OffsetType
<1>5. good \in DOMAIN d.shards /\ d.shards[good] \in Shard BY <1>2, <1>4
<1>6. asof \in Offset BY <1>5 DEF Shard
<1>7. cut \in Seq(Shard) /\ Len(cut) = good /\ \A s \in 1 .. good : cut[s] = d.shards[s]
  BY <1>2, <1>4, InitialLemma
<1> HIDE DEF cut, asof
<1>8. x \in Manifest /\ x.shards = cut /\ x.exhausted = FALSE
  <2> DEFINE SS == Seq(Shard)
  <2>1. Manifest = [shards : SS, fetched : Nat, skipped : Nat, dropped : Nat, exhausted : BOOLEAN, reached : Nat \cup {NoLimit}] /\ cut \in SS
    BY <1>7 DEF Manifest
  <2> HIDE DEF SS
  <2> QED BY <1>2, <2>1
<1> HIDE DEF x
<1>9. m.shards = cut /\ m.fetched = asof.fetched /\ m.exhausted = FALSE BY <1>6, <1>8, StoredType
<1> HIDE DEF m
<1>10. Bounded(group, n, m) BY <1>3, <1>4, <1>2, <1>7, <1>9 DEF Bounded, asof
<1> HIDE DEF Bounded, Ends, TypeOK
<1> QED BY <1>1, <1>10, BetweenEnds

\* A source as a pass finds it.
LEMMA FoundBounded ==
    ASSUME NEW g \in Group, NEW n, NEW d \in Manifest, GoodManifest(g, n, d), Bounded(g, n, d), NEW limit \in Nat \cup {NoLimit},
           NEW o, o = Reopened(d, limit)
    PROVE  /\ o \in Manifest /\ GoodManifest(g, n, o) /\ Bounded(g, n, o) /\ (o.exhausted => d.exhausted) /\ RowsOf(o) = RowsOf(d)
           /\ MarkExhausted(o, limit).exhausted
           /\ limit # NoLimit /\ limit <= o.fetched => Bounded(g, n, MarkExhausted(o, limit))
<1> DEFINE m == MarkExhausted(o, limit)
<1>1. o \in Manifest /\ o.shards = d.shards /\ o.fetched = d.fetched /\ o.skipped = d.skipped /\ o.dropped = d.dropped
  BY ReopenedType
<1>3. o = d \/ o.exhausted = FALSE BY DEF Manifest, Reopened
<1>5. m.exhausted = TRUE /\ m.shards = o.shards /\ m.fetched = o.fetched /\ (limit # NoLimit => m.reached = limit)
  BY <1>1, MarkedType
<1> HIDE DEF m
<1> QED BY <1>1, <1>3, <1>5, SameRowsGood, OffsetType DEF m, RowsOf, Bounded

LEMMA PlannedBounded ==
    ASSUME NEW g \in Group, NEW n, NEW o \in Manifest, GoodManifest(g, n, o), Bounded(g, n, o), NEW needed \in Nat, NEW limit \in Nat \cup {NoLimit}
    PROVE  LET i == Increment(o, needed, limit) IN
           /\ Planned(g, n, i) /\ i.base.fetched = o.fetched /\ Kept(g, n, i, o, <<>>)
           /\ i.passive => Len(RowsOf(o)) >= i.needed
<1> DEFINE i == Increment(o, needed, limit)
           r == Len(RowsOf(o))
           c == Count(g, n, o.fetched, {"ok"})
<1>1. /\ i \in Inc /\ i.base = [fetched |-> o.fetched, skipped |-> o.skipped, dropped |-> o.dropped]
      /\ i.consumed = 0 /\ i.kept = 0 /\ i.needed = needed /\ i.limit = limit
      /\ needed <= r + i.wanted
      /\ i.passive <=> i.wanted = 0
      /\ i.budget = IF limit = NoLimit THEN NoLimit ELSE limit - o.fetched
  BY IncrementType
<1>2. i.wanted \in Nat /\ o.fetched \in Nat /\ r \in Nat BY <1>1, IncFields, OffsetType, RowsOfType
<1> HIDE DEF i, r, c
<1>4. i.base.fetched = o.fetched BY <1>1
<1>6. Kept(g, n, i, o, <<>>)
  <2> DEFINE f == o.fetched
  <2>1. f \in Nat BY <1>2
  <2> HIDE DEF f
  <2> QED BY <1>1, <1>4, <2>1, KinEmpty, FS_EmptySet DEF Kept, f
<1> QED BY <1>4, <1>6, <1>1, <1>2, RowsCount DEF i, r, Bounded, c, Planned

\* What a pass begins with.
LEMMA Beginning ==
    ASSUME TypeOK, Data, Ends, StartPass
    PROVE  /\ group' = group /\ worker' = NoWorker /\ primary' = "none" /\ faulted' = FALSE
           /\ fetch'.pc \in {"idle", "row"} /\ outcome' = (IF fetch'.pc = "row" THEN "none" ELSE "ok")
           /\ DOMAIN inc' \subseteq group /\ BooksOk(group, disk', folder')
           /\ \A n \in group \ DOMAIN inc' : disk'[n].exhausted
           /\ \A n \in DOMAIN inc' : /\ Planned(group, n, inc'[n]) /\ ~folder'[n].exhausted /\ inc'[n].base.fetched <= folder'[n].fetched
                                     /\ Kept(group, n, inc'[n], folder'[n], buffer'[n])
                                     /\ fetch'.pc = "idle" => Len(RowsOf(disk'[n])) >= inc'[n].needed
<1>1. PICK needed \in [group -> Needs], limit \in Limits :
        LET opened == [n \in group |-> Reopened(disk[n], limit)]
            spent == {n \in group : ~opened[n].exhausted /\ limit # NoLimit /\ limit <= opened[n].fetched}
            members == {n \in group \ spent : ~opened[n].exhausted}
            planned == [n \in members |-> Increment(opened[n], needed[n], limit)]
            reads == \E n \in members : ~planned[n].passive
        IN /\ disk' = [n \in group |-> IF n \in spent THEN MarkExhausted(opened[n], limit) ELSE disk[n]]
           /\ folder' = [n \in group |-> IF n \in spent THEN disk'[n] ELSE opened[n]]
           /\ inc' = planned
           /\ outcome' = IF reads THEN "none" ELSE "ok"
           /\ fetch' = [NoFetch EXCEPT !.pc = IF reads THEN "row" ELSE "idle"]
  BY DEF StartPass
<1> DEFINE opened == [n \in group |-> Reopened(disk[n], limit)]
           spent == {n \in group : ~opened[n].exhausted /\ limit # NoLimit /\ limit <= opened[n].fetched}
           members == {n \in group \ spent : ~opened[n].exhausted}
           planned == [n \in members |-> Increment(opened[n], needed[n], limit)]
           reads == \E n \in members : ~planned[n].passive
           g == group
<1>2. /\ disk' = [n \in group |-> IF n \in spent THEN MarkExhausted(opened[n], limit) ELSE disk[n]]
      /\ folder' = [n \in group |-> IF n \in spent THEN disk'[n] ELSE opened[n]]
      /\ inc' = planned
      /\ outcome' = (IF reads THEN "none" ELSE "ok")
      /\ fetch' = [NoFetch EXCEPT !.pc = IF reads THEN "row" ELSE "idle"]
  BY <1>1
<1>3. group' = group /\ worker' = NoWorker /\ primary' = "none" /\ faulted' = FALSE /\ buffer' = [n \in group |-> <<>>] /\ g \in Group
  BY DEF StartPass, TypeOK
<1>4. limit \in Nat \cup {NoLimit} /\ \A n \in group : needed[n] \in Nat BY LimitsType
<1>5. ASSUME NEW n \in group
      PROVE  /\ opened[n] \in Manifest /\ GoodManifest(g, n, opened[n]) /\ Bounded(g, n, opened[n]) /\ Bounded(g, n, disk[n])
             /\ (opened[n].exhausted => disk[n].exhausted) /\ RowsOf(opened[n]) = RowsOf(disk[n])
             /\ n \in spent => Bounded(g, n, MarkExhausted(opened[n], limit)) /\ MarkExhausted(opened[n], limit).exhausted
  <2> DEFINE d == disk[n]
             o == opened[n]
  <2>1. d \in Manifest /\ g \in Group /\ GoodManifest(g, n, d) /\ Bounded(g, n, d)
    <3> HIDE DEF GoodManifest, Bounded
    <3> QED BY DEF TypeOK, Data, ManifestsOk, Ends, BooksOk
  <2>2. o = Reopened(d, limit) /\ (n \in spent => limit # NoLimit /\ limit <= o.fetched) OBVIOUS
  <2> HIDE DEF o, d, g, GoodManifest, Bounded
  <2>3. /\ o \in Manifest /\ GoodManifest(g, n, o) /\ Bounded(g, n, o) /\ (o.exhausted => d.exhausted) /\ RowsOf(o) = RowsOf(d)
        /\ MarkExhausted(o, limit).exhausted
        /\ limit # NoLimit /\ limit <= o.fetched => Bounded(g, n, MarkExhausted(o, limit))
    BY <1>4, <2>1, <2>2, FoundBounded
  <2> HIDE DEF opened, spent
  <2> QED BY <2>1, <2>2, <2>3 DEF o, d
<1>6. \A n \in group : /\ n \in spent => n \notin members
                       /\ n \notin spent /\ n \notin members => opened[n].exhausted
                       /\ n \in members => ~opened[n].exhausted
  OBVIOUS
<1>7. members \subseteq group OBVIOUS
<1> HIDE DEF opened, GoodManifest, Bounded
<1> HIDE DEF spent
<1>8. \A n \in members : inc'[n] = Increment(opened[n], needed[n], limit) BY <1>2
<1>9. DOMAIN inc' = members /\ (reads <=> \E n \in members : ~inc'[n].passive) BY <1>2
<1>10. fetch'.pc = (IF reads THEN "row" ELSE "idle") BY <1>2 DEF NoFetch
<1> HIDE DEF members, planned, reads
<1>11. BooksOk(group, disk', folder') BY <1>2, <1>5 DEF BooksOk
<1>12. ASSUME NEW n \in group, n \notin members PROVE disk'[n].exhausted BY <1>2, <1>5, <1>6, <1>12
<1>13. ASSUME NEW n \in members
       PROVE  /\ Planned(group, n, inc'[n]) /\ ~folder'[n].exhausted /\ inc'[n].base.fetched <= folder'[n].fetched
              /\ Kept(group, n, inc'[n], folder'[n], buffer'[n])
              /\ ~reads => Len(RowsOf(disk'[n])) >= inc'[n].needed
  <2> DEFINE o == opened[n]
             d == needed[n]
             i == Increment(o, d, limit)
  <2>1. n \in group /\ n \notin spent BY <1>6, <1>7
  <2>2. disk'[n] = disk[n] /\ folder'[n] = o /\ buffer'[n] = <<>> /\ inc'[n] = i BY <1>2, <1>3, <1>8, <2>1
  <2>3. o \in Manifest /\ GoodManifest(g, n, o) /\ Bounded(g, n, o) /\ d \in Nat /\ ~o.exhausted /\ RowsOf(o) = RowsOf(disk[n])
    BY <1>4, <1>5, <1>6, <2>1
  <2> HIDE DEF o, d, g
  <2>4. /\ Planned(g, n, i) /\ i.base.fetched = o.fetched /\ Kept(g, n, i, o, <<>>)
        /\ i.passive => Len(RowsOf(o)) >= i.needed
    BY <1>3, <1>4, <2>3, PlannedBounded
  <2> HIDE DEF i, RowsOf, Planned, Kept
  <2> QED BY <2>2, <2>3, <2>4, OffsetType, <1>9 DEF g
<1> HIDE DEF BooksOk, Planned, Kept, RowsOf
<1>14. fetch'.pc \in {"idle", "row"} /\ outcome' = (IF fetch'.pc = "row" THEN "none" ELSE "ok") BY <1>2, <1>10
<1>15. DOMAIN inc' \subseteq group /\ \A n \in group \ DOMAIN inc' : disk'[n].exhausted BY <1>7, <1>9, <1>12
<1>16. ASSUME NEW n \in DOMAIN inc'
       PROVE  /\ Planned(group, n, inc'[n]) /\ ~folder'[n].exhausted /\ inc'[n].base.fetched <= folder'[n].fetched
              /\ Kept(group, n, inc'[n], folder'[n], buffer'[n])
              /\ fetch'.pc = "idle" => Len(RowsOf(disk'[n])) >= inc'[n].needed
  BY <1>9, <1>10, <1>13
<1> QED BY <1>3, <1>11, <1>14, <1>15, <1>16

LEMMA StartPassEnds ==
    ASSUME TypeOK, Data, Ends, StartPass
    PROVE  Ends'
<1>1. /\ group' = group /\ fetch'.pc \in {"idle", "row"} /\ BooksOk(group, disk', folder')
      /\ \A n \in group \ DOMAIN inc' : disk'[n].exhausted
      /\ \A n \in DOMAIN inc' : /\ Planned(group, n, inc'[n]) /\ ~folder'[n].exhausted /\ inc'[n].base.fetched <= folder'[n].fetched
                                /\ Kept(group, n, inc'[n], folder'[n], buffer'[n])
  <2> HIDE DEF BooksOk, Planned, Kept
  <2> QED BY Beginning
<1>2. CASE fetch'.pc = "idle"
  <2> HIDE DEF BooksOk
  <2> QED BY <1>1, <1>2, IdleEnds
<1>3. CASE fetch'.pc = "row" BY <1>3, <1>1 DEF Pulling, Ends, PlansOk, KeptOk, EndsOk
<1> QED BY <1>1, <1>2, <1>3

LEMMA StartPassHonest ==
    ASSUME TypeOK, Data, Ends, StartPass
    PROVE  Honest'
<1>1. /\ group' = group /\ worker' = NoWorker /\ primary' = "none" /\ faulted' = FALSE
      /\ fetch'.pc \in {"idle", "row"} /\ outcome' = (IF fetch'.pc = "row" THEN "none" ELSE "ok")
      /\ \A n \in group \ DOMAIN inc' : disk'[n].exhausted
      /\ \A n \in DOMAIN inc' : fetch'.pc = "idle" => Len(RowsOf(disk'[n])) >= inc'[n].needed
  <2> HIDE DEF RowsOf
  <2> QED BY Beginning
<1> HIDE DEF RowsOf
<1> QED BY <1>1 DEF Honest, FailureTold, Joined, NoWorker

LEMMA InitEnds ==
    ASSUME Init
    PROVE  Ends /\ Honest
<1>1. group \in Group /\ folder = disk /\ disk = [n \in group |-> NewManifest] /\ fetch.pc = "idle" /\ outcome = "none"
  BY DEF Init, NoFetch
<1>4. BooksOk(group, disk, folder)
  <2> HIDE DEF Bounded, NewManifest
  <2> QED BY <1>1, OrdBounded DEF BooksOk, Bounded, NewManifest
<1>6. Honest BY <1>1 DEF Honest, FailureTold
<1> QED BY <1>6, <1>1, <1>4 DEF Ends, PlansOk, KeptOk, EndsOk, Flows

LEMMA EndsStep ==
    ASSUME TypeOK, Control, Data, Ends, [Next]_vars
    PROVE  Ends'
<1> HIDE DEF TypeOK, Control, Data, Ends, Honest
<1>1. CASE StartPass BY <1>1, StartPassEnds
<1>2. CASE RequestStop BY <1>2, RequestStopEnds
<1>3. CASE SkipRow \/ SeeFailure \/ Submit \/ Put \/ ReadKept \/ CompareTarget \/ Drain BY <1>3, ReadingEnds
<1>4. CASE PullRow BY <1>4, PullRowEnds
<1>5. CASE EndOfRows BY <1>5, EndOfRowsEnds
<1>6. CASE SettlePending \/ CloseRows \/ CloseWorker \/ JoinWorker \/ WritersReleased BY <1>6, CleanupEnds
<1>7. CASE FlushWriter BY <1>7, FlushWriterEnds
<1>8. CASE FinishIncrement BY <1>8, FinishIncrementEnds
<1>9. CASE TakeBatch \/ FinishBatch \/ SettleBatch BY <1>9, BatchEnds
<1>10. CASE StoreRow BY <1>10, StoreRowEnds
<1>11. CASE EndWorker BY <1>11, EndWorkerEnds
<1>12. CASE Crash BY <1>12, CrashEnds
<1>13. CASE \E n \in group : Reopen(n) BY <1>13, ReopenEnds
<1>14. CASE \E n \in group : \E good \in 1 .. Len(disk[n].shards) : TruncateTo(n, good)
  BY <1>14, TruncateToEnds
<1>15. CASE UNCHANGED vars BY <1>15 DEF Ends, vars
<1> QED BY <1>1, <1>2, <1>3, <1>4, <1>5, <1>6, <1>7, <1>8, <1>9, <1>10, <1>11, <1>12, <1>13, <1>14, <1>15 DEF Next, FetchStep, WorkerStep

LEMMA HonestStep ==
    ASSUME TypeOK, Control, Ends, Data, Honest, [Next]_vars
    PROVE  Honest'
<1> HIDE DEF TypeOK, Control, Data, Ends, Honest
<1>1. CASE StartPass BY <1>1, StartPassHonest
<1>2. CASE RequestStop \/ EndWorker BY <1>2, QuietHonest
<1>3. CASE SkipRow \/ PullRow \/ EndOfRows \/ SeeFailure \/ Put \/ ReadKept \/ CompareTarget \/ SettlePending \/ CloseRows \/ CloseWorker
  BY <1>3, FetchHonest
<1>4. CASE Submit \/ Drain \/ JoinWorker BY <1>4, RaisingHonest
<1>5. CASE FlushWriter BY <1>5, FlushHonest
<1>6. CASE WritersReleased BY <1>6, ReleasedHonest
<1>7. CASE FinishIncrement BY <1>7, FinishHonest
<1>8. CASE TakeBatch \/ FinishBatch \/ StoreRow \/ SettleBatch BY <1>8, WorkerHonest
<1>9. CASE Crash BY <1>9, CrashHonest
<1>10. CASE \E n \in group : Reopen(n) \/ (\E good \in 1 .. Len(disk[n].shards) : TruncateTo(n, good))
  BY <1>10, BetweenHonest
<1>11. CASE UNCHANGED vars BY <1>11 DEF Honest, vars
<1> QED BY <1>1, <1>2, <1>3, <1>4, <1>5, <1>6, <1>7, <1>8, <1>9, <1>10, <1>11 DEF Next, FetchStep, WorkerStep

\* What is owed at the end of a pass is met: the invariants about the ends of the sources and about what a
\* pass reports hold with those about where the threads are and what the rows on disk account for
\* (_fetch, _DownloadFailures, finish_download_pass).
THEOREM DownloadEndsInvariant == Spec => [](TypeOK /\ Control /\ Data /\ Ends /\ Honest)
<1> HIDE DEF TypeOK, Control, Data, Ends, Honest
<1>1. Init => TypeOK /\ Control /\ Data /\ Ends /\ Honest BY InitControl, InitData, InitEnds
<1>2. (TypeOK /\ Control /\ Data /\ Ends /\ Honest) /\ [Next]_vars => (TypeOK /\ Control /\ Data /\ Ends /\ Honest)'
  BY ControlStep, DataStep, EndsStep, HonestStep
<1> QED BY <1>1, <1>2, PTL DEF Spec

\* A source is called exhausted only at its end, or at the row limit it was read up to
\* (finish_download_pass, mark_exhausted).
THEOREM DownloadExhaustedIsAtEnd == Spec => []ExhaustedIsAtEnd
<1>1. TypeOK /\ Ends => ExhaustedIsAtEnd
  <2> SUFFICES ASSUME TypeOK, Ends, NEW n \in group, disk[n].exhausted
               PROVE  \/ disk[n].fetched = Cardinality(Own(n))
                      \/ disk[n].reached # NoLimit /\ disk[n].fetched >= disk[n].reached
    BY DEF ExhaustedIsAtEnd
  <2>1. Bounded(group, n, disk[n])
    <3> HIDE DEF Bounded
    <3> QED BY DEF Ends, BooksOk
  <2> QED BY <2>1 DEF Bounded, Total, Own, Rows, OwnOf
<1> HIDE DEF TypeOK, Control, Data, Ends, Honest, ExhaustedIsAtEnd
<1> QED BY <1>1, DownloadEndsInvariant, PTL

\* A pass that reports success has the rows it was asked for or knows there are no more, and neither a success
\* nor a stop hides a failure of the network, the tokenizer or the disk (_DownloadFailures, _TokenWorker).
THEOREM DownloadOutcomeHonest == Spec => []OutcomeHonest
<1>1. Honest => OutcomeHonest
  <2> HIDE DEF RowsOf
  <2> QED BY DEF Honest, OutcomeHonest
<1> HIDE DEF TypeOK, Control, Data, Ends, Honest, OutcomeHonest
<1> QED BY <1>1, DownloadEndsInvariant, PTL
=============================================================================
