--------------------------- MODULE InferenceProofs ----------------------------
(* Proofs about inference: the sessions of Generation, for every            *)
(* architecture, schedule and sequence of calls, whatever the layers        *)
(* compute; and DistributedEvaluation, for every number of ranks, plan,     *)
(* list of calls and requests to stop, whichever rank dies.                 *)
EXTENDS Generation, DistributedEvaluation, FiniteSetTheorems, WellFoundedInduction, TLAPS

\* a sequence of n elements, of whatever kind
Shaped(f, n) == f = [k \in 1..n |-> f[k]]
IsSeq(f) == Len(f) \in Nat /\ Shaped(f, Len(f))

\* what a caller hands in
Request(r) ==
    /\ r = [ids |-> r.ids, mask |-> r.mask, positions |-> r.positions, steps |-> r.steps,
            model |-> r.model, inference |-> r.inference, cached |-> r.cached,
            batch |-> r.batch]
    /\ IsSeq(r.ids) /\ r.cached \in BOOLEAN
    /\ r.steps \in [Cores -> Nat \ {0}]
    /\ \A m \in r.mask : IsSeq(m)
    /\ \A p \in r.positions : IsSeq(p)

\* what the proofs assume of the constants
Assumptions ==
    /\ Prelude \in Nat /\ Coda \in Nat
    /\ Len(CoreLayers) \in Nat \ {0}
    /\ \A c \in Cores : CoreLayers[c] \in Nat \ {0}
    /\ LearnedStart \in BOOLEAN
    /\ \A r \in Requests : Request(r)

-----------------------------------------------------------------------------
(* Sequences                                                                *)

LEMMA ShapedIsSeq ==
    ASSUME NEW n \in Nat, NEW f, Shaped(f, n)
    PROVE  f \in Seq({f[k] : k \in 1..n}) /\ Len(f) = n
<1> DEFINE S == {f[k] : k \in 1..n}
<1> QED BY DEF Shaped

\* Concatenation, element by element.
LEMMA Concatenation ==
    ASSUME NEW a, NEW b, IsSeq(a), IsSeq(b)
    PROVE  /\ IsSeq(a \o b)
           /\ Len(a \o b) = Len(a) + Len(b)
           /\ \A k \in 1..Len(a) : (a \o b)[k] = a[k]
           /\ \A k \in 1..Len(b) : (a \o b)[Len(a) + k] = b[k]
<1> DEFINE A == {a[k] : k \in 1..Len(a)}
           B == {b[k] : k \in 1..Len(b)}
           S == A \union B
<1>1. a \in Seq(A) /\ b \in Seq(B) BY ShapedIsSeq DEF IsSeq
<1> HIDE DEF A, B
<1>2. a \in Seq(S) /\ b \in Seq(S) BY <1>1
<1> HIDE DEF S
<1>3. a \o b \in Seq(S) /\ Len(a \o b) = Len(a) + Len(b) BY <1>2
<1>4. a \o b = [k \in 1..Len(a \o b) |-> (a \o b)[k]]
  <2> DEFINE c == a \o b
  <2>1. c \in Seq(S) BY <1>3
  <2> HIDE DEF c
  <2>2. c = [k \in 1..Len(c) |-> c[k]] BY <2>1
  <2> QED BY <2>2 DEF c
<1> QED BY <1>3, <1>2, <1>4 DEF IsSeq, Shaped

\* The tail of a sequence.
LEMMA TailOf ==
    ASSUME NEW f, IsSeq(f), NEW i \in 0..Len(f)
    PROVE  /\ IsSeq(SubSeq(f, i + 1, Len(f)))
           /\ Len(SubSeq(f, i + 1, Len(f))) = Len(f) - i
           /\ \A k \in 1..(Len(f) - i) : SubSeq(f, i + 1, Len(f))[k] = f[i + k]
<1> DEFINE S == {f[k] : k \in 1..Len(f)}
           t == SubSeq(f, i + 1, Len(f))
<1>1. f \in Seq(S) /\ Len(f) \in Nat BY ShapedIsSeq DEF IsSeq
<1> HIDE DEF S
<1>2. t \in Seq(S) /\ Len(t) = Len(f) - i BY <1>1
<1> HIDE DEF t
<1>5. IsSeq(t) BY <1>1, <1>2 DEF IsSeq, Shaped
<1> QED BY <1>2, <1>5, <1>1 DEF t

-----------------------------------------------------------------------------
(* The order of the occurrences                                             *)

Before(s, t) ==
    \/ s[1] < t[1]
    \/ s[1] = t[1] /\ s[2] < t[2]
    \/ s[1] = t[1] /\ s[2] = t[2] /\ s[3] < t[3]
    \/ s[1] = t[1] /\ s[2] = t[2] /\ s[3] = t[3] /\ s[4] < t[4]

Schedule(steps) == steps \in [Cores -> Nat \ {0}]

LEMMA FirstIsFirst ==
    ASSUME Assumptions, NEW steps, Schedule(steps)
    PROVE  /\ First \in Slots(steps)
           /\ \A s \in Slots(steps) : ~Before(s, First)
<1>1. First \in Slots(steps)
  <2>1. CASE Prelude > 0 BY <2>1 DEF First, Slots, Assumptions
  <2>2. CASE ~(Prelude > 0) BY <2>2 DEF Assumptions, Schedule, Cores, First, Slots
  <2> QED BY <2>1, <2>2
<1>2. ASSUME NEW s \in Slots(steps) PROVE ~Before(s, First)
  <2>1. CASE s \in {PreludeSlot(i) : i \in 1..Prelude}
    BY <2>1 DEF Before, First, PreludeSlot, CoreSlot, Assumptions
  <2>2. CASE s \in {CodaSlot(i) : i \in 1..Coda}
    BY <2>2 DEF Before, First, PreludeSlot, CoreSlot, CodaSlot, Assumptions
  <2>3. ASSUME NEW c \in Cores, NEW n \in 1..steps[c], NEW l \in 1..CoreLayers[c],
               s = CoreSlot(c, n, l)
        PROVE  ~Before(s, First)
    BY <2>3 DEF Before, First, PreludeSlot, CoreSlot, Assumptions, Cores, Schedule
  <2> QED BY <2>1, <2>2, <2>3 DEF Slots
<1> QED BY <1>1, <1>2

\* The three kinds of occurrence.
InPrelude(s) == s[1] = 1 /\ s[2] \in 1..Prelude /\ s[3] = 0 /\ s[4] = 0
InCore(s, steps) ==
    /\ s[1] = 2 /\ s[2] \in Cores
    /\ s[3] \in 1..steps[s[2]] /\ s[4] \in 1..CoreLayers[s[2]]
InCoda(s) == s[1] = 3 /\ s[2] \in 1..Coda /\ s[3] = 0 /\ s[4] = 0

LEMMA SlotCases ==
    ASSUME Assumptions, NEW steps, Schedule(steps), NEW s \in Slots(steps)
    PROVE  /\ s = <<s[1], s[2], s[3], s[4]>>
           /\ InPrelude(s) \/ InCore(s, steps) \/ InCoda(s)
<1>1. CASE s \in {PreludeSlot(i) : i \in 1..Prelude} BY <1>1 DEF PreludeSlot, InPrelude
<1>2. CASE s \in {CodaSlot(i) : i \in 1..Coda} BY <1>2 DEF CodaSlot, InCoda
<1>3. ASSUME NEW c \in Cores, NEW n \in 1..steps[c], NEW l \in 1..CoreLayers[c],
             s = CoreSlot(c, n, l)
      PROVE  s = <<s[1], s[2], s[3], s[4]>> /\ InCore(s, steps)
    BY <1>3 DEF CoreSlot, InCore
<1> QED BY <1>1, <1>2, <1>3 DEF Slots

\* After walks through all of them, in this order.
LEMMA AfterIsNext ==
    ASSUME Assumptions, NEW steps, Schedule(steps), NEW s \in Slots(steps)
    PROVE  /\ After(s, steps) \in Slots(steps) \union {End}
           /\ \A t \in Slots(steps) : Before(t, After(s, steps)) <=> Before(t, s) \/ t = s
<1> DEFINE a == After(s, steps)
<1>0. /\ Prelude \in Nat /\ Coda \in Nat /\ Len(CoreLayers) \in Nat \ {0}
      /\ \A c \in 1..Len(CoreLayers) : CoreLayers[c] \in Nat \ {0} /\ steps[c] \in Nat \ {0}
    BY DEF Assumptions, Schedule, Cores
<1>c. \A c \in Cores : \A n \in 1..steps[c] : \A l \in 1..CoreLayers[c] :
        CoreSlot(c, n, l) \in Slots(steps)
  BY DEF Slots
<1>d. \A i \in 1..Coda : CodaSlot(i) \in Slots(steps) BY DEF Slots
<1>1. a \in Slots(steps) \union {End}
  <2>1. CASE InPrelude(s)
    <3>1. s[1] = 1 /\ s[2] \in 1..Prelude BY <2>1 DEF InPrelude
    <3>2. 1 \in Cores /\ 1 \in 1..steps[1] /\ 1 \in 1..CoreLayers[1] BY <1>0 DEF Cores
    <3> QED BY <3>1, <3>2, <1>0, <1>c, SMTT(30), Z3T(30) DEF After, Slots
  <2>2. CASE InCore(s, steps)
    <3>0. /\ s[1] = 2 /\ s[2] \in Cores
          /\ s[3] \in 1..steps[s[2]] /\ s[4] \in 1..CoreLayers[s[2]]
        BY <2>2 DEF InCore
    <3>2. a = AfterCore(s, steps) BY <3>0 DEF After
    <3>n. CoreLayers[s[2]] \in Nat \ {0} /\ steps[s[2]] \in Nat \ {0} BY <3>0, <1>0 DEF Cores
    <3>4. CASE s[4] < CoreLayers[s[2]] BY <3>4, <3>0, <3>n, <3>2, <1>c DEF AfterCore
    <3>5. CASE ~(s[4] < CoreLayers[s[2]]) /\ s[3] < steps[s[2]] BY <3>5, <3>0, <3>n, <1>c, <3>2 DEF AfterCore
    <3>6. CASE ~(s[4] < CoreLayers[s[2]]) /\ ~(s[3] < steps[s[2]]) /\ s[2] < Len(CoreLayers)
      <4>1. s[2] + 1 \in Cores BY <3>6, <3>0, <1>0 DEF Cores
      <4>3. CoreSlot(s[2] + 1, 1, 1) \in Slots(steps) BY <4>1, <1>c, <1>0 DEF Cores
      <4> QED BY <4>3, <3>2, <3>6 DEF AfterCore
    <3>7. CASE ~(s[4] < CoreLayers[s[2]]) /\ ~(s[3] < steps[s[2]]) /\ ~(s[2] < Len(CoreLayers))
      BY <3>2, <3>7, <1>0, <1>d DEF AfterCore, CodaStart
    <3> QED BY <3>4, <3>5, <3>6, <3>7
  <2>3. CASE InCoda(s) BY <2>3, <1>0, <1>d DEF InCoda, After
  <2> QED BY <2>1, <2>2, <2>3, SlotCases
<1>2. ASSUME NEW t \in Slots(steps)
      PROVE  Before(t, a) <=> Before(t, s) \/ t = s
  <2> DEFINE s1 == s[1]  s2 == s[2]  s3 == s[3]  s4 == s[4]
             t1 == t[1]  t2 == t[2]  t3 == t[3]  t4 == t[4]
             same == t1 = s1 /\ t2 = s2 /\ t3 = s3 /\ t4 = s4
  <2>e. t = s <=> same BY SlotCases
  <2>t. InPrelude(t) \/ InCore(t, steps) \/ InCoda(t) BY SlotCases
  <2>1. CASE InPrelude(s)
    <3>1. \/ s2 < Prelude /\ a = <<1, s2 + 1, 0, 0>>
          \/ s2 = Prelude /\ a = <<2, 1, 1, 1>>
        BY <2>1, <1>0 DEF After, PreludeSlot, CoreSlot, InPrelude
    <3> HIDE DEF a
    <3>0. s1 = 1 /\ s2 \in 1..Prelude /\ s3 = 0 /\ s4 = 0 BY <2>1 DEF InPrelude
    <3>2. Before(t, a) <=> Before(t, s) \/ same
      <4>1. CASE InPrelude(t)
        <5>1. t1 = 1 /\ t2 \in 1..Prelude /\ t3 = 0 /\ t4 = 0 BY <4>1 DEF InPrelude
        <5> HIDE DEF s1, s2, s3, s4, t1, t2, t3, t4
        <5>2. Before(t, s) <=> t2 < s2 BY <5>1, <3>0 DEF Before, s1, s2, s3, s4, t1, t2, t3, t4
        <5> QED BY <5>1, <5>2, <3>0, <1>0, <3>1 DEF Before, t1, t2, t3, t4
      <4>2. CASE InCore(t, steps)
        <5>1. t1 = 2 /\ t2 >= 1 /\ t3 >= 1 /\ t4 >= 1 /\ t2 \in Int /\ t3 \in Int /\ t4 \in Int
            BY <4>2, <1>0 DEF InCore, Cores
        <5> HIDE DEF s1, s2, s3, s4, t1, t2, t3, t4
        <5>2. ~Before(t, s) /\ ~Before(t, a) BY <5>1, <3>0, <3>1 DEF Before, s1, s2, s3, s4, t1, t2, t3, t4
        <5> QED BY <5>1, <5>2, <3>0
      <4>3. CASE InCoda(t)
        <5>1. t1 = 3 BY <4>3 DEF InCoda
        <5> HIDE DEF s1, s2, s3, s4, t1, t2, t3, t4
        <5>2. ~Before(t, s) /\ ~Before(t, a) BY <5>1, <3>0, <3>1 DEF Before, s1, s2, s3, s4, t1, t2, t3, t4
        <5> QED BY <5>1, <5>2, <3>0
      <4> QED BY <2>t, <4>1, <4>2, <4>3
    <3> QED BY <2>e, <3>2
  <2>2. CASE InCore(s, steps)
    <3>0. /\ s1 = 2 /\ s2 \in 1..Len(CoreLayers)
          /\ s3 \in 1..steps[s2] /\ s4 \in 1..CoreLayers[s2]
        BY <2>2 DEF InCore, Cores
    <3>1. \/ s4 < CoreLayers[s2] /\ a = <<2, s2, s3, s4 + 1>>
          \/ s4 = CoreLayers[s2] /\ s3 < steps[s2] /\ a = <<2, s2, s3 + 1, 1>>
          \/ /\ s4 = CoreLayers[s2] /\ s3 = steps[s2] /\ s2 < Len(CoreLayers)
             /\ a = <<2, s2 + 1, 1, 1>>
          \/ /\ s4 = CoreLayers[s2] /\ s3 = steps[s2] /\ s2 = Len(CoreLayers)
             /\ a = <<3, 1, 0, 0>> \/ (Coda = 0 /\ a = <<4, 0, 0, 0>>)
      <4>1. a = AfterCore(s, steps) BY <3>0 DEF After
      <4>2. CoreLayers[s2] \in Nat \ {0} /\ steps[s2] \in Nat \ {0} BY <3>0, <1>0
      <4>3. AfterCore(s, steps) =
                IF s4 < CoreLayers[s2] THEN <<2, s2, s3, s4 + 1>>
                ELSE IF s3 < steps[s2] THEN <<2, s2, s3 + 1, 1>>
                ELSE IF s2 < Len(CoreLayers) THEN <<2, s2 + 1, 1, 1>> ELSE CodaStart
        BY DEF AfterCore, CoreSlot
      <4> HIDE DEF a
      <4>5. CASE s4 < CoreLayers[s2] BY <4>1, <4>3, <4>5
      <4>6. CASE ~(s4 < CoreLayers[s2])
        <5>1. s4 = CoreLayers[s2] BY <4>6, <4>2, <3>0
        <5>2. CASE s3 < steps[s2] BY <4>1, <4>3, <4>6, <5>1, <5>2
        <5>3. CASE ~(s3 < steps[s2])
          <6>1. s3 = steps[s2] BY <5>3, <4>2, <3>0
          <6>2. CASE s2 < Len(CoreLayers) BY <4>1, <4>3, <4>6, <5>1, <5>3, <6>1, <6>2
          <6>3. CASE ~(s2 < Len(CoreLayers))
            <7>1. s2 = Len(CoreLayers) /\ a = CodaStart BY <4>1, <4>3, <4>6, <5>3, <6>3, <3>0, <1>0
            <7> QED BY <7>1, <5>1, <6>1, <1>0 DEF CodaStart, CodaSlot, End
          <6> QED BY <6>2, <6>3
        <5> QED BY <5>2, <5>3
      <4> QED BY <4>5, <4>6
    <3> HIDE DEF a
    <3>2. CASE InPrelude(t) BY <3>2, <3>1, <3>0, <2>e DEF InPrelude, Before
    <3>3. CASE InCore(t, steps)
      <4>1. /\ t1 = 2 /\ t2 \in 1..Len(CoreLayers)
            /\ t3 \in 1..steps[t2] /\ t4 \in 1..CoreLayers[t2]
        BY <3>3 DEF InCore, Cores
      <4>2. t2 = s2 => t3 \in 1..steps[s2] /\ t4 \in 1..CoreLayers[s2] BY <4>1
      <4>3. t3 \in Int /\ t4 \in Int /\ s3 \in Int /\ s4 \in Int BY <4>1, <3>0, <1>0, SMTT(30)
      <4> DEFINE L == CoreLayers[s2]
                 N == steps[s2]
                 C == Len(CoreLayers)
      <4>4. L \in Nat \ {0} /\ N \in Nat \ {0} /\ C \in Nat \ {0} BY <3>0, <1>0
      <4>5. /\ s1 = 2 /\ s2 \in 1..C /\ s3 \in 1..N /\ s4 \in 1..L
            /\ t1 = 2 /\ t2 \in 1..C /\ t3 >= 1 /\ t4 >= 1
            /\ t2 = s2 => t3 \in 1..N /\ t4 \in 1..L
        BY <4>1, <4>2, <3>0, <1>0
      <4>6. \/ s4 < L /\ a = <<2, s2, s3, s4 + 1>>
            \/ s4 = L /\ s3 < N /\ a = <<2, s2, s3 + 1, 1>>
            \/ s4 = L /\ s3 = N /\ s2 < C /\ a = <<2, s2 + 1, 1, 1>>
            \/ s4 = L /\ s3 = N /\ s2 = C /\ a[1] \in {3, 4}
        BY <3>1
      <4>7. /\ Before(t, s) <=> \/ t1 < s1
                                \/ t1 = s1 /\ t2 < s2
                                \/ t1 = s1 /\ t2 = s2 /\ t3 < s3
                                \/ t1 = s1 /\ t2 = s2 /\ t3 = s3 /\ t4 < s4
            /\ Before(t, a) <=> \/ t1 < a[1]
                                \/ t1 = a[1] /\ t2 < a[2]
                                \/ t1 = a[1] /\ t2 = a[2] /\ t3 < a[3]
                                \/ t1 = a[1] /\ t2 = a[2] /\ t3 = a[3] /\ t4 < a[4]
        BY DEF Before
      <4> SUFFICES Before(t, a) <=> \/ Before(t, s)
                                    \/ t1 = s1 /\ t2 = s2 /\ t3 = s3 /\ t4 = s4
        BY <2>e
      <4> HIDE DEF L, N, C, s1, s2, s3, s4, t1, t2, t3, t4
      <4>8. CASE s4 < L /\ a = <<2, s2, s3, s4 + 1>> BY <4>8, <4>3, <4>4, <4>5, <4>7
      <4>9. CASE s4 = L /\ s3 < N /\ a = <<2, s2, s3 + 1, 1>> BY <4>9, <4>3, <4>4, <4>5, <4>7
      <4>10. CASE s4 = L /\ s3 = N /\ s2 < C /\ a = <<2, s2 + 1, 1, 1>> BY <4>10, <4>3, <4>4, <4>5, <4>7
      <4>11. CASE s4 = L /\ s3 = N /\ s2 = C /\ a[1] \in {3, 4} BY <4>3, <4>4, <4>5, <4>7, <4>11
      <4> QED BY <4>6, <4>8, <4>9, <4>10, <4>11
    <3>4. CASE InCoda(t) BY <3>4, <3>0, <3>1, <1>0, <2>e, SMTT(30), Z3T(30) DEF InCoda, Before
    <3> QED BY <3>2, <3>3, <3>4, <2>t
  <2>3. CASE InCoda(s)
    <3>1. \/ s2 < Coda /\ a = <<3, s2 + 1, 0, 0>>
          \/ s2 = Coda /\ a = <<4, 0, 0, 0>>
        BY <2>3, <1>0 DEF After, CodaSlot, End, InCoda
    <3> HIDE DEF a
    <3>2. Before(t, a) <=> Before(t, s) \/ same
        BY <2>3, <2>t, <3>1, <1>0, SMTT(30) DEF Before, Cores, InPrelude, InCore, InCoda
    <3> QED BY <2>e, <3>2
  <2> QED BY <2>1, <2>2, <2>3, SlotCases
<1> QED BY <1>1, <1>2

LEMMA BeforeIsStrict ==
    ASSUME Assumptions, NEW steps, Schedule(steps),
           NEW s \in Slots(steps), NEW t \in Slots(steps)
    PROVE  /\ ~Before(s, s)
           /\ ~(Before(s, t) /\ Before(t, s))
           /\ Before(s, End)
           /\ s # End
<1>1. s[1] \in {1, 2, 3} /\ s[2] \in Int /\ s[3] \in Int /\ s[4] \in Int
    BY SlotCases DEF Assumptions, Schedule, Cores, InPrelude, InCore, InCoda
<1>2. t[1] \in {1, 2, 3} /\ t[2] \in Int /\ t[3] \in Int /\ t[4] \in Int
    BY SlotCases DEF Assumptions, Schedule, Cores, InPrelude, InCore, InCoda
<1> QED BY <1>1, <1>2 DEF Before, End

\* No two occurrences have the same successor, and none has the first one.
LEMMA AfterIsInjective ==
    ASSUME Assumptions, NEW steps, Schedule(steps), NEW s \in Slots(steps)
    PROVE  /\ After(s, steps) # First
           /\ After(s, steps) # s
           /\ \A u \in Slots(steps) : After(u, steps) = After(s, steps) => u = s
<1>4. ASSUME NEW u \in Slots(steps), After(u, steps) = After(s, steps)
      PROVE  u = s
  BY <1>4, AfterIsNext, BeforeIsStrict
<1> QED BY <1>4, FirstIsFirst, BeforeIsStrict, AfterIsNext

\* Every occurrence but the first one follows another.
LEMMA EveryOccurrenceFollows ==
    ASSUME Assumptions, NEW steps, Schedule(steps), NEW s \in Slots(steps), s # First
    PROVE  \E u \in Slots(steps) : After(u, steps) = s
<1>0. /\ Prelude \in Nat /\ Coda \in Nat /\ Len(CoreLayers) \in Nat \ {0}
      /\ \A c \in 1..Len(CoreLayers) : CoreLayers[c] \in Nat \ {0} /\ steps[c] \in Nat \ {0}
    BY DEF Assumptions, Schedule, Cores
<1>c. \A c \in Cores : \A n \in 1..steps[c] : \A l \in 1..CoreLayers[c] :
        CoreSlot(c, n, l) \in Slots(steps)
  BY DEF Slots
<1>p. \A i \in 1..Prelude : PreludeSlot(i) \in Slots(steps) BY DEF Slots
<1>d. \A i \in 1..Coda : CodaSlot(i) \in Slots(steps) BY DEF Slots
\* the last occurrence of a block
<1>l. \A c \in Cores : /\ CoreSlot(c, steps[c], CoreLayers[c]) \in Slots(steps)
                       /\ After(CoreSlot(c, steps[c], CoreLayers[c]), steps) =
                            IF c < Len(CoreLayers) THEN CoreSlot(c + 1, 1, 1) ELSE CodaStart
  <2> SUFFICES ASSUME NEW c \in Cores
               PROVE  /\ CoreSlot(c, steps[c], CoreLayers[c]) \in Slots(steps)
                      /\ After(CoreSlot(c, steps[c], CoreLayers[c]), steps) =
                            IF c < Len(CoreLayers) THEN CoreSlot(c + 1, 1, 1) ELSE CodaStart
    OBVIOUS
  <2>1. steps[c] \in Nat \ {0} /\ CoreLayers[c] \in Nat \ {0} BY <1>0 DEF Cores
  <2>3. /\ ~(CoreLayers[c] < CoreLayers[c]) /\ ~(steps[c] < steps[c]) BY <2>1
  <2> QED BY <2>3, <1>c, <2>1 DEF After, AfterCore, CoreSlot
<1>1. CASE InPrelude(s)
  <2>1. s = PreludeSlot(s[2]) /\ s[2] \in 1..Prelude BY <1>1, SlotCases DEF InPrelude, PreludeSlot
  <2>3. s[2] - 1 \in 1..Prelude /\ s[2] - 1 < Prelude /\ (s[2] - 1) + 1 = s[2] BY <2>1, <1>0 DEF First
  <2>4. After(PreludeSlot(s[2] - 1), steps) = PreludeSlot((s[2] - 1) + 1) BY <2>3 DEF After, PreludeSlot
  <2> QED BY <2>1, <2>3, <2>4, <1>p
<1>2. CASE InCore(s, steps)
  <2>1. /\ s = CoreSlot(s[2], s[3], s[4]) /\ s[2] \in Cores
        /\ s[3] \in 1..steps[s[2]] /\ s[4] \in 1..CoreLayers[s[2]]
    BY <1>2, SlotCases DEF InCore, CoreSlot
  <2> DEFINE c == s[2]
             n == s[3]
             l == s[4]
             L == CoreLayers[c]
             N == steps[c]
  <2>0. L \in Nat \ {0} /\ N \in Nat \ {0} /\ c \in 1..Len(CoreLayers) BY <2>1, <1>0 DEF Cores
  <2>2. CASE l > 1
    <3>1. l - 1 \in 1..L /\ l - 1 < L /\ (l - 1) + 1 = l BY <2>0, <2>1, <2>2 DEF L, l
    <3>2. After(CoreSlot(c, n, l - 1), steps) = CoreSlot(c, n, (l - 1) + 1)
        BY <3>1 DEF After, AfterCore, CoreSlot
    <3> QED BY <2>1, <3>1, <3>2, <1>c
  <2>3. CASE l = 1 /\ n > 1
    <3>1. n - 1 \in 1..N /\ n - 1 < N /\ (n - 1) + 1 = n /\ L \in 1..L /\ ~(L < L)
        BY <2>0, <2>1, <2>3, SMTT(30)
    <3>2. After(CoreSlot(c, n - 1, L), steps) = CoreSlot(c, (n - 1) + 1, 1)
        BY <3>1 DEF After, AfterCore, CoreSlot
    <3> QED BY <2>1, <2>3, <3>1, <3>2, <1>c
  <2>4. CASE l = 1 /\ n = 1 /\ c > 1
    <3>1. c - 1 \in Cores /\ c - 1 < Len(CoreLayers) /\ (c - 1) + 1 = c BY <2>0, <2>4, <1>0 DEF Cores
    <3> QED BY <2>1, <2>4, <3>1, <1>l
  <2>5. CASE l = 1 /\ n = 1 /\ c = 1
    <3>1. s = CoreSlot(1, 1, 1) BY <2>1, <2>5
    <3>3. Prelude \in 1..Prelude /\ ~(Prelude < Prelude) BY <1>0, <3>1 DEF First
    <3>4. After(PreludeSlot(Prelude), steps) = CoreSlot(1, 1, 1) BY <3>3 DEF After, PreludeSlot
    <3> QED BY <3>1, <3>3, <3>4, <1>p
  <2> QED BY <2>2, <2>3, <2>4, <2>5, <2>0, <2>1
<1>3. CASE InCoda(s)
  <2>1. s = CodaSlot(s[2]) /\ s[2] \in 1..Coda BY <1>3, SlotCases DEF InCoda, CodaSlot
  <2>2. CASE s[2] = 1 BY <2>1, <2>2, <1>0, <1>l DEF CodaStart, Cores
  <2>3. CASE s[2] # 1
    <3>1. s[2] - 1 \in 1..Coda /\ s[2] - 1 < Coda /\ (s[2] - 1) + 1 = s[2] BY <2>1, <2>3, <1>0
    <3>2. After(CodaSlot(s[2] - 1), steps) = CodaSlot((s[2] - 1) + 1) BY <3>1 DEF After, CodaSlot
    <3> QED BY <2>1, <3>1, <3>2, <1>d
  <2> QED BY <2>2, <2>3
<1> QED BY <1>1, <1>2, <1>3, SlotCases

-----------------------------------------------------------------------------
(* The invariant                                                            *)

\* A column enters an occurrence with the noise drawn for it.
Noise(c, j) == IF LearnedStart THEN Learned(c) ELSE Draw(c, j)
EnterAt(s, column, j) == IF StartsCore(s) THEN EnterCore(s[2], column, Noise(s[2], j)) ELSE column

SessionTyped ==
    /\ session = [ids |-> session.ids, mask |-> session.mask, positions |-> session.positions,
                  batch |-> session.batch, steps |-> session.steps, model |-> session.model,
                  cached |-> session.cached, pending |-> session.pending,
                  failed |-> session.failed, latents |-> session.latents,
                  slots |-> session.slots]
    /\ IsSeq(session.ids) /\ IsSeq(session.mask) /\ IsSeq(session.positions)
    /\ Len(session.mask) = Length(session) /\ Len(session.positions) = Length(session)
    /\ session.failed \in BOOLEAN
    /\ session.latents = [c \in Cores |-> session.latents[c]]
    /\ session.slots = [s \in DOMAIN session.slots |-> session.slots[s]]

ForwardTyped ==
    \/ forward = NoForward
    \/ /\ forward = [on |-> TRUE, cached |-> forward.cached, start |-> forward.start,
                     prefix |-> forward.prefix, steps |-> forward.steps, at |-> forward.at,
                     stream |-> forward.stream, full |-> forward.full]
       /\ forward.cached \in BOOLEAN
       /\ Schedule(forward.steps)
       /\ forward.at \in Slots(forward.steps) \union {End}

\* The forward continues the session it was begun on.
ForwardContinues ==
    forward.on =>
        LET p == forward.prefix
        IN  /\ ~session.failed /\ session.pending = Some(p)
            /\ session.cached = Some(forward.cached) /\ session.steps = Some(forward.steps)
            /\ IsSeq(p.ids) /\ IsSeq(p.mask) /\ IsSeq(p.positions)
            /\ Len(p.mask) = Len(p.ids) /\ Len(p.positions) = Len(p.ids)
            /\ Extends(p.ids, session.ids) /\ Extends(p.mask, session.mask)
            /\ Extends(p.positions, session.positions)
            /\ forward.start = (IF forward.cached THEN Length(session) ELSE 0)

\* The slots hold what the layers make of one another, column by column.
Linked(slots, steps, p) ==
    /\ \A j \in 1..Len(Of(slots, First)) :
        Of(slots, First)[j] = EnterAt(First, Embed(p.ids[j], p.positions[j]), j)
    /\ \A u \in Slots(steps) : After(u, steps) # End =>
        \A j \in 1..Len(Of(slots, After(u, steps))) :
            Of(slots, After(u, steps))[j] =
                EnterAt(After(u, steps),
                        Layer(u, Of(slots, u)[j], View(p.mask, Of(slots, u), j)), j)

\* Between two forwards every slot ends with the prefix.
SlotsSettled ==
    ~forward.on /\ ~session.failed /\ session.pending = None =>
        \A steps : /\ Schedule(steps)
                   /\ session.steps = None \/ session.steps = Some(steps)
                   /\ session.cached = None \/ session.cached = Some(TRUE)
                   => /\ DOMAIN session.slots \subseteq Slots(steps)
                      /\ \A s \in Slots(steps) :
                            /\ IsSeq(Of(session.slots, s))
                            /\ Len(Of(session.slots, s)) = Length(session)
                      /\ Linked(session.slots, steps, session)

\* Without the cache there are no slots.
NoSlots == session.cached = None \/ session.cached = Some(FALSE) => DOMAIN session.slots = {}

\* What the session has fixed: a schedule, and whether it caches.
ModeKnown ==
    /\ session.steps = None \/ \E steps : Schedule(steps) /\ session.steps = Some(steps)
    /\ session.cached = None \/ \E b \in BOOLEAN : session.cached = Some(b)
    /\ session.cached # None => session.steps # None

\* A cached forward has run the occurrences before the one it is at.
HalfWay ==
    forward.on /\ forward.cached =>
        LET p == forward.prefix
        IN  /\ DOMAIN session.slots \subseteq Slots(forward.steps)
            /\ \A s \in Slots(forward.steps) :
                /\ IsSeq(Of(session.slots, s))
                /\ Len(Of(session.slots, s)) =
                    (IF Before(s, forward.at) THEN Len(p.ids) ELSE forward.start)
            /\ Linked(session.slots, forward.steps, p)
            /\ forward.at = First =>
                \A j \in 1..Len(p.ids) : forward.full[j] = Embed(p.ids[j], p.positions[j])
            /\ \A u \in Slots(forward.steps) : After(u, forward.steps) = forward.at =>
                \A j \in 1..Len(p.ids) :
                    forward.full[j] = Layer(u, Of(session.slots, u)[j],
                                            View(p.mask, Of(session.slots, u), j))

\* The columns of a forward are those of the reference.
StreamIsFull ==
    forward.on => \A j \in 1..Len(forward.prefix.ids) :
        j > forward.start => forward.stream[j] = forward.full[j]

Inv ==
    /\ SessionTyped /\ ForwardTyped /\ ForwardContinues /\ LatentsAreDraws
    /\ SlotsSettled /\ NoSlots /\ ModeKnown /\ HalfWay /\ StreamIsFull

-----------------------------------------------------------------------------
(* What the steps rest on                                                   *)

\* A column attends to what it attended to, whatever comes behind it.
LEMMA ViewIsCausal ==
    ASSUME NEW m1, NEW m2, NEW a, NEW b, NEW j \in Nat,
           \A k \in 1..j : m1[k] = m2[k],
           \A k \in 1..j : a[k] = b[k]
    PROVE  View(m1, a, j) = View(m2, b, j)
<1> QED BY DEF View, Visible

\* A link between two occurrences only concerns the columns they have run.
LEMMA LinkedAgrees ==
    ASSUME NEW slots, NEW steps, NEW p, NEW q, NEW n \in Nat,
           \A u \in Slots(steps) : Len(Of(slots, u)) = n,
           First \in Slots(steps),
           \A u \in Slots(steps) : After(u, steps) # End => After(u, steps) \in Slots(steps),
           \A j \in 1..n : /\ p.ids[j] = q.ids[j] /\ p.mask[j] = q.mask[j]
                           /\ p.positions[j] = q.positions[j],
           Linked(slots, steps, q)
    PROVE  Linked(slots, steps, p)
<1>1. ASSUME NEW j \in 1..Len(Of(slots, First))
      PROVE  Of(slots, First)[j] = EnterAt(First, Embed(p.ids[j], p.positions[j]), j)
  BY DEF Linked
<1>2. ASSUME NEW u \in Slots(steps), After(u, steps) # End,
             NEW j \in 1..Len(Of(slots, After(u, steps)))
      PROVE  Of(slots, After(u, steps))[j] =
                EnterAt(After(u, steps),
                        Layer(u, Of(slots, u)[j], View(p.mask, Of(slots, u), j)), j)
  BY <1>2, ViewIsCausal DEF Linked
<1> QED BY <1>1, <1>2 DEF Linked

LEMMA ExtendsItself ==
    ASSUME NEW f, IsSeq(f)
    PROVE  Extends(f, f)
BY DEF Extends, IsSeq

\* What is cut off a request leaves a request.
LEMMA SlicedIsRequest ==
    ASSUME SessionTyped, NEW r, Request(r), KeepsPrefix(session, r)
    PROVE  Request(Sliced(session, r))
<1> DEFINE n == Length(session)
           q == Sliced(session, r)
           W == WholePositions(r)
<1>1. n \in Nat /\ Len(r.ids) \in Nat /\ Len(session.positions) = n
    BY DEF SessionTyped, IsSeq, Length, Request
<1>3. IsSeq(SubSeq(r.ids, n + 1, Len(r.ids))) BY TailOf, <1>1 DEF Request, KeepsPrefix
<1>4. ASSUME NEW p \in W PROVE IsSeq(p) BY ShapedIsSeq DEF WholePositions, Request, IsSeq, Shaped
<1>5. ASSUME NEW p \in W PROVE IsSeq(SubSeq(p, n + 1, Len(p)))
  BY <1>4, <1>1, TailOf DEF IsSeq, KeepsPrefix, Extends
<1>6. q = [r EXCEPT !.ids = SubSeq(r.ids, n + 1, Len(r.ids)),
                    !.positions = {SubSeq(p, n + 1, Len(p)) : p \in W}]
    BY DEF Sliced
<1>7. /\ q.ids = SubSeq(r.ids, n + 1, Len(r.ids))
      /\ q.positions = {SubSeq(p, n + 1, Len(p)) : p \in W}
      /\ q.mask = r.mask /\ q.steps = r.steps /\ q.cached = r.cached
      /\ q = [ids |-> q.ids, mask |-> q.mask, positions |-> q.positions, steps |-> q.steps,
              model |-> q.model, inference |-> q.inference, cached |-> q.cached,
              batch |-> q.batch]
  <2> HIDE DEF W, n
  <2> QED BY <1>6 DEF Request
<1>8. \A p \in q.positions : IsSeq(p)
  <2> HIDE DEF q, n, W
  <2>1. ASSUME NEW x \in q.positions PROVE IsSeq(x)
    <3>1. PICK p \in W : x = SubSeq(p, n + 1, Len(p)) BY <1>7
    <3> QED BY <3>1, <1>5
  <2> QED BY <2>1
<1> HIDE DEF q, n, W
<1> QED BY <1>3, <1>7, <1>8 DEF q, Request

\* The prefix a forward is begun with continues the session.
LEMMA PendingContinues ==
    ASSUME SessionTyped, NEW r, Request(r), Accepts(session, r)
    PROVE  LET p == Pending(session, r)
           IN  /\ p = [ids |-> p.ids, mask |-> p.mask, positions |-> p.positions]
               /\ IsSeq(p.ids) /\ IsSeq(p.mask) /\ IsSeq(p.positions)
               /\ Len(p.mask) = Len(p.ids) /\ Len(p.positions) = Len(p.ids)
               /\ Extends(p.ids, session.ids) /\ Extends(p.mask, session.mask)
               /\ Extends(p.positions, session.positions)
<1> DEFINE p == Pending(session, r)
           mask == MaskOf(session, r)
           pos == PositionsOf(session, r)
           n == Length(session)
           k == Len(r.ids)
           total == Total(session, r)
<1>1. /\ IsSeq(session.ids) /\ IsSeq(session.positions) /\ IsSeq(r.ids)
      /\ Len(session.ids) = n /\ Len(session.positions) = n /\ n \in Nat /\ k \in Nat
      /\ r.cached \in BOOLEAN
    BY DEF SessionTyped, IsSeq, Length, Request
<1>2. total = (IF r.cached THEN n + k ELSE k) /\ total \in Nat BY <1>1 DEF Total, StartOf
<1>3. IsSeq(mask)
  <2>1. CASE r.mask = None
    <3>2. Shaped(mask, total) BY <2>1 DEF Shaped, MaskOf
    <3>3. Len(mask) = total
      <4> HIDE DEF mask, total
      <4> QED BY <3>2, <1>2, ShapedIsSeq
    <3> QED BY <3>2, <3>3, <1>2 DEF IsSeq
  <2>2. CASE r.mask # None BY <2>2 DEF MaskOf, None, Request
  <2> QED BY <2>1, <2>2
<1>4. IsSeq(pos)
  <2>1. CASE r.positions = None
    <3>2. Shaped(pos, k) BY <2>1 DEF Shaped, PositionsOf
    <3>3. Len(pos) = k
      <4> HIDE DEF pos, k
      <4> QED BY <3>2, <1>1, ShapedIsSeq
    <3> QED BY <3>2, <3>3, <1>1 DEF IsSeq
  <2>2. CASE r.positions # None BY <2>2 DEF PositionsOf, None, Request
  <2> QED BY <2>1, <2>2
<1>5. Len(mask) = total /\ Len(pos) = k /\ Extends(mask, session.mask) BY DEF Accepts, InputsHold
<1>6. ~r.cached => Extends(r.ids, session.ids) /\ Extends(pos, session.positions) BY DEF Accepts, PrefixHolds
<1>7. p = [ids |-> IF r.cached THEN session.ids \o r.ids ELSE r.ids,
           mask |-> mask,
           positions |-> IF r.cached THEN session.positions \o pos ELSE pos]
    BY DEF Pending
<1> HIDE DEF p, mask, pos, n, k, total
<1>8. CASE r.cached
  <2>1. p.ids = session.ids \o r.ids /\ p.mask = mask /\ p.positions = session.positions \o pos BY <1>7, <1>8
  <2>a. /\ IsSeq(session.ids \o r.ids)
        /\ Len(session.ids \o r.ids) = Len(session.ids) + Len(r.ids)
        /\ \A i \in 1..Len(session.ids) : (session.ids \o r.ids)[i] = session.ids[i]
    BY <1>1, Concatenation
  <2>b. /\ IsSeq(session.positions \o pos)
        /\ Len(session.positions \o pos) = Len(session.positions) + Len(pos)
        /\ \A i \in 1..Len(session.positions) :
            (session.positions \o pos)[i] = session.positions[i]
    BY <1>1, <1>4, Concatenation
  <2>4. Len(r.ids) = k /\ Len(pos) = k /\ n + k >= n /\ n \in Nat BY <1>1, <1>5 DEF k
  <2>2. /\ IsSeq(p.ids) /\ Len(p.ids) = n + k
        /\ \A i \in 1..n : p.ids[i] = session.ids[i]
    BY <2>1, <2>a, <2>4, <1>1
  <2>3. /\ IsSeq(p.positions) /\ Len(p.positions) = n + k
        /\ \A i \in 1..n : p.positions[i] = session.positions[i]
    BY <2>1, <2>b, <2>4, <1>1
  <2>5. Extends(p.ids, session.ids) /\ Extends(p.positions, session.positions)
    BY <1>1, <2>2, <2>3, <2>4 DEF Extends
  <2> QED BY <2>1, <2>2, <2>3, <2>4, <2>5, <1>7, <1>3, <1>5, <1>2, <1>8 DEF p
<1>9. CASE ~r.cached
  <2>1. p.ids = r.ids /\ p.mask = mask /\ p.positions = pos BY <1>7, <1>9
  <2>2. Len(r.ids) = k BY DEF k
  <2> QED BY <2>1, <2>2, <1>7, <1>1, <1>3, <1>4, <1>5, <1>6, <1>2, <1>9 DEF p
<1> QED BY <1>8, <1>9, <1>1

LEMMA BeginKeepsInv ==
    ASSUME Assumptions, Inv, NEW r, Request(r), Begin(r)
    PROVE  Inv'
<1> DEFINE p == Pending(session, r)
           embedded == [k \in 1..Len(p.ids) |-> Embed(p.ids[k], p.positions[k])]
<1>0. ~forward.on /\ Accepts(session, r) /\ forward = NoForward BY DEF Begin, Inv, ForwardTyped
<1>1. /\ p = [ids |-> p.ids, mask |-> p.mask, positions |-> p.positions]
      /\ IsSeq(p.ids) /\ IsSeq(p.mask) /\ IsSeq(p.positions)
      /\ Len(p.mask) = Len(p.ids) /\ Len(p.positions) = Len(p.ids)
      /\ Extends(p.ids, session.ids) /\ Extends(p.mask, session.mask)
      /\ Extends(p.positions, session.positions)
    BY <1>0, PendingContinues DEF Inv
<1>2. session' = [session EXCEPT
            !.steps = Some(r.steps), !.model = Some(r.model), !.batch = Some(r.batch),
            !.cached = Some(r.cached), !.pending = Some(p)]
    BY DEF Begin
<1>3. forward' = [on |-> TRUE, cached |-> r.cached, start |-> StartOf(session, r),
                  prefix |-> p, steps |-> r.steps, at |-> First,
                  stream |-> embedded, full |-> embedded]
    BY DEF Begin
<1> HIDE DEF p, embedded
<1>4. /\ session'.ids = session.ids /\ session'.mask = session.mask
      /\ session'.positions = session.positions /\ session'.failed = session.failed
      /\ session'.latents = session.latents /\ session'.slots = session.slots
      /\ session'.steps = Some(r.steps) /\ session'.cached = Some(r.cached)
      /\ session'.pending = Some(p)
    BY <1>2 DEF Inv, SessionTyped
<1>5. SessionTyped'
  <2>1. session' = [ids |-> session'.ids, mask |-> session'.mask,
                    positions |-> session'.positions, batch |-> session'.batch,
                    steps |-> session'.steps, model |-> session'.model,
                    cached |-> session'.cached, pending |-> session'.pending,
                    failed |-> session'.failed, latents |-> session'.latents,
                    slots |-> session'.slots]
    BY <1>2 DEF Inv, SessionTyped
  <2> QED BY <1>4, <2>1 DEF Inv, SessionTyped, Length
<1>6. /\ forward'.on /\ forward'.cached = r.cached /\ forward'.start = StartOf(session, r)
      /\ forward'.prefix = p /\ forward'.steps = r.steps /\ forward'.at = First
      /\ forward'.stream = embedded /\ forward'.full = embedded
    BY <1>3
<1>7. Schedule(r.steps) /\ First \in Slots(r.steps) /\ r.cached \in BOOLEAN
    BY FirstIsFirst DEF Request, Schedule
<1>8. ForwardTyped' BY <1>3, <1>6, <1>7 DEF ForwardTyped
<1>9. ~session.failed /\ session.pending = None BY <1>0 DEF Accepts, ModeHolds
<1>10. ForwardContinues' BY <1>1, <1>4, <1>6, <1>9, <1>7 DEF ForwardContinues, StartOf, Length
<1>11. LatentsAreDraws' BY <1>4 DEF Inv, LatentsAreDraws
<1>12. SlotsSettled' BY <1>6 DEF SlotsSettled
<1>13. NoSlots'
  <2>1. session.cached = None \/ session.cached = Some(r.cached) BY <1>0 DEF Accepts, ModeHolds
  <2>2. ASSUME session'.cached = None \/ session'.cached = Some(FALSE)
        PROVE  DOMAIN session.slots = {}
    <3>2. r.cached \in session'.cached BY <1>4 DEF Some
    <3>3. session'.cached = {FALSE} BY <2>2, <3>2 DEF None, Some
    <3>4. r.cached = FALSE BY <3>2, <3>3
    <3>5. session.cached = None \/ session.cached = Some(FALSE) BY <2>1, <3>4
    <3> QED BY <3>5 DEF Inv, NoSlots
  <2> QED BY <2>2, <1>4 DEF NoSlots
<1>14. HalfWay'
  <2> SUFFICES ASSUME r.cached
               PROVE  HalfWay'
    BY <1>6 DEF HalfWay
  <2>1. r.cached = TRUE BY <1>7
  <2>2. session.cached = None \/ session.cached = Some(TRUE) BY <1>0, <2>1 DEF Accepts, ModeHolds
  <2>3. session.steps = None \/ session.steps = Some(r.steps) BY <1>0 DEF Accepts, SignatureHolds
  <2>4. /\ DOMAIN session.slots \subseteq Slots(r.steps)
        /\ \A s \in Slots(r.steps) : /\ IsSeq(Of(session.slots, s))
                                     /\ Len(Of(session.slots, s)) = Length(session)
        /\ Linked(session.slots, r.steps, session)
    BY <1>0, <1>9, <1>7, <2>2, <2>3 DEF Inv, SlotsSettled
  <2>6. \A u \in Slots(r.steps) :
            /\ ~Before(u, First)
            /\ After(u, r.steps) # First
            /\ After(u, r.steps) # End => After(u, r.steps) \in Slots(r.steps)
    BY <1>7, FirstIsFirst, AfterIsInjective, AfterIsNext
  <2>7. Length(session) \in Nat BY DEF Inv, SessionTyped, IsSeq, Length
  <2>8. \A j \in 1..Length(session) : /\ p.ids[j] = session.ids[j]
                                      /\ p.mask[j] = session.mask[j]
                                      /\ p.positions[j] = session.positions[j]
    BY <1>1 DEF Extends, Length, Inv, SessionTyped
  <2>9. Linked(session.slots, r.steps, p) BY <2>4, <2>6, <2>7, <2>8, <1>7, LinkedAgrees
  <2> QED BY <1>4, <1>6, <2>4, <2>6, <2>9, <2>1 DEF HalfWay, embedded, StartOf
<1>15. StreamIsFull' BY <1>6 DEF StreamIsFull
<1>16. ModeKnown' BY <1>4, <1>7 DEF ModeKnown, Some, None
<1> QED BY <1>5, <1>8, <1>10, <1>11, <1>12, <1>13, <1>14, <1>15, <1>16 DEF Inv

\* What leaves an invalidated session, and the calls that find one to refuse.
LEMMA InvalidatedKeepsInv ==
    ASSUME Assumptions, Inv, session' = Invalidated(session), forward' = NoForward
    PROVE  Inv'
<1>1. session' = [ids |-> <<>>, mask |-> <<>>, positions |-> <<>>, batch |-> None,
                  steps |-> session.steps, model |-> None, cached |-> session.cached,
                  pending |-> None, failed |-> TRUE, latents |-> [c \in Cores |-> <<>>],
                  slots |-> [s \in {} |-> <<>>]]
    BY DEF Invalidated, Fresh
<1>3. /\ session'.ids = <<>> /\ session'.mask = <<>> /\ session'.positions = <<>>
      /\ session'.failed = TRUE /\ session'.latents = [c \in Cores |-> <<>>]
      /\ session'.slots = [s \in {} |-> <<>>]
    BY <1>1
<1>4. SessionTyped' BY <1>1, <1>3 DEF SessionTyped, Length, IsSeq, Shaped
<1>5. ~forward'.on BY DEF NoForward
<1>6. LatentsAreDraws' BY <1>3 DEF LatentsAreDraws
<1>7. NoSlots' BY <1>3 DEF NoSlots
<1>8. ModeKnown' BY <1>1 DEF Inv, ModeKnown
<1> QED
    BY <1>3, <1>4, <1>5, <1>6, <1>7, <1>8
       DEF Inv, ForwardTyped, ForwardContinues, SlotsSettled, HalfWay, StreamIsFull

LEMMA InterruptKeepsInv ==
    ASSUME Assumptions, Inv, Interrupt
    PROVE  Inv'
<1>1. forward.on /\ session' = session /\ forward' = NoForward BY DEF Interrupt
<1>2. ~forward'.on BY <1>1 DEF NoForward
<1>3. session.pending # None BY <1>1 DEF Inv, ForwardContinues, Some, None
<1> QED
    BY <1>1, <1>2, <1>3 DEF Inv, SessionTyped, ForwardTyped, ForwardContinues, LatentsAreDraws,
        SlotsSettled, NoSlots, ModeKnown, HalfWay, StreamIsFull, Length

LEMMA FinishKeepsInv ==
    ASSUME Assumptions, Inv, Finish
    PROVE  Inv'
<1> DEFINE p == forward.prefix
           q == session'
<1>1. /\ forward.on /\ forward.at = End /\ forward' = NoForward
      /\ session' = [session EXCEPT !.ids = p.ids, !.mask = p.mask,
                                    !.positions = p.positions, !.pending = None]
    BY DEF Finish
<1>2. /\ IsSeq(p.ids) /\ IsSeq(p.mask) /\ IsSeq(p.positions)
      /\ Len(p.mask) = Len(p.ids) /\ Len(p.positions) = Len(p.ids)
      /\ session.cached = Some(forward.cached) /\ session.steps = Some(forward.steps)
    BY <1>1 DEF Inv, ForwardContinues
<1>3. forward.cached \in BOOLEAN /\ Schedule(forward.steps) BY <1>1 DEF Inv, ForwardTyped, NoForward
<1> HIDE DEF p
<1>4. /\ q.ids = p.ids /\ q.mask = p.mask /\ q.positions = p.positions
      /\ q.failed = session.failed /\ q.pending = None
      /\ q.latents = session.latents /\ q.slots = session.slots
      /\ q.steps = session.steps /\ q.cached = session.cached
      /\ q = [ids |-> q.ids, mask |-> q.mask, positions |-> q.positions, batch |-> q.batch,
              steps |-> q.steps, model |-> q.model, cached |-> q.cached, pending |-> q.pending,
              failed |-> q.failed, latents |-> q.latents, slots |-> q.slots]
    BY <1>1 DEF Inv, SessionTyped
<1>5. SessionTyped' BY <1>4, <1>2 DEF Inv, SessionTyped, Length
<1>6. ~forward'.on BY <1>1 DEF NoForward
<1>7. ASSUME NEW steps, Schedule(steps),
             session'.steps = None \/ session'.steps = Some(steps),
             session'.cached = None \/ session'.cached = Some(TRUE)
      PROVE  /\ DOMAIN session'.slots \subseteq Slots(steps)
             /\ \A s \in Slots(steps) : /\ IsSeq(Of(session'.slots, s))
                                        /\ Len(Of(session'.slots, s)) = Length(session')
             /\ Linked(session'.slots, steps, session')
  <2>1. steps = forward.steps BY <1>7, <1>4, <1>2 DEF Some, None
  <2>2. forward.cached BY <1>7, <1>4, <1>2, <1>3 DEF Some, None
  <2> QED BY <1>4, <1>7, BeforeIsStrict, <2>1, <2>2, <1>1 DEF Length, Linked, Inv, HalfWay, p
<1>8. SlotsSettled' BY <1>7 DEF SlotsSettled
<1>9. LatentsAreDraws' /\ NoSlots' /\ ModeKnown' BY <1>4 DEF Inv, LatentsAreDraws, NoSlots, ModeKnown
<1> QED
    BY <1>1, <1>5, <1>6, <1>8, <1>9 DEF Inv, ForwardTyped, ForwardContinues, HalfWay,
        StreamIsFull

\* One occurrence of a layer: what it appends to its slot is what the
\* reference computes there.
LEMMA RunLayerKeepsInv ==
    ASSUME Assumptions, Inv, RunLayer
    PROVE  Inv'
<1> DEFINE s == forward.at
           p == forward.prefix
           n == Len(p.ids)
           m == forward.start
           st == forward.steps
           latents == IF StartsCore(s) /\ ~LearnedStart
                      THEN [session.latents EXCEPT ![s[2]] = DrawnUpTo(n, s[2], session.latents[s[2]])]
                      ELSE session.latents
           old == Of(session.slots, s)
           came == [j \in 1..n |-> Input(latents, s, forward.stream[j], j)]
           tail == SubSeq(came, m + 1, n)
           keys == IF forward.cached THEN old \o tail ELSE came
           whole == [j \in 1..n |->
                        Input([c \in Cores |-> [k \in 1..n |-> Draw(c, k)]], s, forward.full[j], j)]
<1>1. forward.on /\ s # End BY DEF RunLayer
<1>2. /\ session' = [session EXCEPT !.latents = latents,
            !.slots = IF forward.cached
                      THEN [t \in (DOMAIN session.slots) \union {s} |->
                                IF t = s THEN keys ELSE session.slots[t]]
                      ELSE session.slots]
      /\ forward' = [forward EXCEPT
            !.at = After(s, st),
            !.stream = [j \in 1..n |->
                IF j > m THEN Layer(s, came[j], View(p.mask, keys, j)) ELSE forward.stream[j]],
            !.full = [j \in 1..n |-> Layer(s, whole[j], View(p.mask, whole, j))]]
    BY DEF RunLayer
<1>3. /\ forward = [on |-> TRUE, cached |-> forward.cached, start |-> forward.start,
                    prefix |-> forward.prefix, steps |-> forward.steps, at |-> forward.at,
                    stream |-> forward.stream, full |-> forward.full]
      /\ forward.cached \in BOOLEAN /\ Schedule(st) /\ s \in Slots(st)
    BY <1>1 DEF Inv, ForwardTyped, NoForward
<1>4. /\ ~session.failed /\ session.pending = Some(p)
      /\ session.cached = Some(forward.cached)
      /\ IsSeq(p.ids) /\ Extends(p.ids, session.ids)
      /\ m = (IF forward.cached THEN Length(session) ELSE 0)
    BY <1>1 DEF Inv, ForwardContinues
<1>5. n \in Nat /\ m \in 0..n /\ 0 <= m /\ m \in Nat BY <1>4 DEF IsSeq, Extends, Length, Inv, SessionTyped
<1>6. /\ s[1] = 2 => s[2] \in Cores
      /\ StartsCore(s) => s[2] \in Cores
    BY <1>3, SlotCases DEF StartsCore, InPrelude, InCore, InCoda
<1> HIDE DEF s, p, n, m, st
\* every column enters the occurrence with its own noise
<1>7. /\ latents = [c \in Cores |-> latents[c]]
      /\ \A c \in Cores : \A j \in 1..Len(latents[c]) : latents[c][j] = Draw(c, j)
      /\ StartsCore(s) /\ ~LearnedStart => \A j \in 1..n : latents[s[2]][j] = Draw(s[2], j)
  <2>1. session.latents = [c \in Cores |-> session.latents[c]] /\ LatentsAreDraws BY DEF Inv, SessionTyped
  <2>2. CASE ~(StartsCore(s) /\ ~LearnedStart) BY <2>1, <2>2 DEF LatentsAreDraws
  <2>3. CASE StartsCore(s) /\ ~LearnedStart
    <3> DEFINE c0 == s[2]
               o == session.latents[c0]
               d == DrawnUpTo(n, c0, o)
    <3>1. latents = [session.latents EXCEPT ![c0] = d] BY <2>3
    <3>2. d = [j \in 1..n |-> IF j <= Len(o) THEN o[j] ELSE Draw(c0, j)] BY DEF DrawnUpTo
    <3>3. c0 \in Cores BY <2>3, <1>6
    <3>4. \A j \in 1..Len(o) : o[j] = Draw(c0, j) BY <2>1, <3>3 DEF LatentsAreDraws
    <3> HIDE DEF latents, c0, o, d
    <3>5. \A j \in 1..n : d[j] = Draw(c0, j) BY <3>4, <3>2
    <3>7. latents = [c \in Cores |-> IF c = c0 THEN d ELSE session.latents[c]] BY <3>1, <3>3, <2>1
    <3>9. ASSUME NEW c \in Cores, NEW j \in 1..Len(latents[c])
          PROVE  latents[c][j] = Draw(c, j)
      BY <3>7, <3>5, <2>1, <3>2, <1>5, ShapedIsSeq DEF LatentsAreDraws, Shaped
    <3> QED BY <3>9, <3>7, <3>3, <3>5 DEF c0
  <2> QED BY <2>2, <2>3
<1> HIDE DEF latents
<1>8. \A j \in 1..n : /\ came[j] = EnterAt(s, forward.stream[j], j)
                      /\ whole[j] = EnterAt(s, forward.full[j], j)
  <2> SUFFICES ASSUME NEW j \in 1..n
               PROVE  /\ came[j] = EnterAt(s, forward.stream[j], j)
                      /\ whole[j] = EnterAt(s, forward.full[j], j)
    OBVIOUS
  <2> DEFINE draws == [c \in Cores |-> [k \in 1..n |-> Draw(c, k)]]
  <2>1. /\ came[j] = Input(latents, s, forward.stream[j], j)
        /\ whole[j] = Input(draws, s, forward.full[j], j)
    OBVIOUS
  <2>2. StartsCore(s) /\ ~LearnedStart => draws[s[2]][j] = Draw(s[2], j) BY <1>6
  <2>3. StartsCore(s) => /\ LatentOf(latents, s[2], j) = Noise(s[2], j)
                         /\ LatentOf(draws, s[2], j) = Noise(s[2], j)
    <3> HIDE DEF draws
    <3>1. CASE LearnedStart BY <3>1 DEF LatentOf, Noise
    <3>2. CASE ~LearnedStart BY <3>2, <2>2, <1>7 DEF LatentOf, Noise
    <3> QED BY <3>1, <3>2
  <2> HIDE DEF draws, came, whole
  <2> QED BY <2>1, <2>3 DEF Input, EnterAt
<1>9. Shaped(came, n) /\ Shaped(whole, n) BY DEF Shaped
<1> HIDE DEF came, whole
<1>10. IsSeq(came) /\ Len(came) = n BY <1>5, <1>9, ShapedIsSeq DEF IsSeq
<1>11. StreamIsFull /\ \A j \in 1..n : j > m => came[j] = whole[j]
  BY <1>1, <1>8 DEF Inv, StreamIsFull, p, n, m
\* what the cached forward found
<1>12. ASSUME forward.cached
       PROVE  /\ DOMAIN session.slots \subseteq Slots(st)
              /\ \A u \in Slots(st) :
                    /\ IsSeq(Of(session.slots, u))
                    /\ Len(Of(session.slots, u)) = (IF Before(u, s) THEN n ELSE m)
              /\ Linked(session.slots, st, p)
              /\ s = First => \A j \in 1..n : forward.full[j] = Embed(p.ids[j], p.positions[j])
              /\ \A u \in Slots(st) : After(u, st) = s =>
                    \A j \in 1..n :
                        forward.full[j] = Layer(u, Of(session.slots, u)[j],
                                                View(p.mask, Of(session.slots, u), j))
    BY <1>1, <1>12 DEF Inv, HalfWay, s, p, n, m, st
<1>13. ASSUME forward.cached PROVE IsSeq(old) /\ Len(old) = m BY <1>12, <1>13, <1>3, BeforeIsStrict
\* the slot already held what the reference computes anew
<1>14. ASSUME forward.cached, NEW j \in 1..m PROVE old[j] = whole[j]
  <2>1. j \in 1..n /\ j \in 1..Len(old) BY <1>5, <1>13, <1>14
  <2>2. CASE s = First BY <1>12, <1>14, <2>1, <2>2, <1>8 DEF Linked
  <2>3. CASE s # First
    <3>1. PICK u \in Slots(st) : After(u, st) = s BY <2>3, <1>3, EveryOccurrenceFollows
    <3> QED BY <3>1, <2>1, <1>12, <1>14, <1>8, <1>1 DEF Linked, s
  <2> QED BY <2>2, <2>3
<1>15. /\ IsSeq(keys) /\ Len(keys) = n
       /\ \A j \in 1..n : keys[j] = whole[j]
       /\ forward.cached => \A j \in 1..m : keys[j] = old[j]
  <2>1. CASE ~forward.cached BY <2>1, <1>4, <1>5, <1>10, <1>11
  <2>2. CASE forward.cached
    <3>1. /\ IsSeq(tail) /\ Len(tail) = n - m
          /\ \A k \in 1..(n - m) : tail[k] = came[m + k]
        BY <1>5, <1>10, TailOf
    <3>2. IsSeq(old) /\ Len(old) = m BY <2>2, <1>13
    <3> HIDE DEF tail, old
    <3>3. /\ IsSeq(old \o tail) /\ Len(old \o tail) = Len(old) + Len(tail)
          /\ \A k \in 1..Len(old) : (old \o tail)[k] = old[k]
          /\ \A k \in 1..Len(tail) : (old \o tail)[Len(old) + k] = tail[k]
        BY <3>1, <3>2, Concatenation
    <3>4. keys = old \o tail BY <2>2
    <3> HIDE DEF keys
    <3>5. Len(keys) = n /\ IsSeq(keys) BY <3>1, <3>2, <3>3, <3>4, <1>5
    <3>6. \A j \in 1..m : keys[j] = old[j] BY <3>2, <3>3, <3>4
    <3>7. ASSUME NEW j \in 1..n PROVE keys[j] = whole[j]
      <4>1. CASE j <= m BY <4>1, <1>5, <2>2, <1>14, <3>6 DEF old
      <4>2. CASE ~(j <= m)
        <5>1. j - m \in 1..(n - m) /\ m + (j - m) = j /\ j > m BY <4>2, <1>5
        <5>2. keys[m + (j - m)] = tail[j - m] BY <5>1, <3>1, <3>2, <3>3, <3>4
        <5> QED BY <5>1, <5>2, <1>11, <3>1
      <4> QED BY <4>1, <4>2
    <3> QED BY <3>5, <3>6, <3>7
  <2> QED BY <2>1, <2>2, <1>3
<1> DEFINE slots == IF forward.cached
                    THEN [t \in (DOMAIN session.slots) \union {s} |->
                            IF t = s THEN keys ELSE session.slots[t]]
                    ELSE session.slots
           stream == [j \in 1..n |->
                IF j > m THEN Layer(s, came[j], View(p.mask, keys, j)) ELSE forward.stream[j]]
           full == [j \in 1..n |-> Layer(s, whole[j], View(p.mask, whole, j))]
<1>16. /\ session' = [session EXCEPT !.latents = latents, !.slots = slots]
       /\ forward' = [forward EXCEPT !.at = After(s, st), !.stream = stream, !.full = full]
    BY <1>2
<1> HIDE DEF keys
<1>17. slots = [t \in DOMAIN slots |-> slots[t]] BY DEF Inv, SessionTyped
<1>18. forward.cached => \A u : Of(slots, u) = IF u = s THEN keys ELSE Of(session.slots, u) BY DEF Of
<1>19. /\ \A j \in 1..n : full[j] = Layer(s, whole[j], View(p.mask, whole, j))
       /\ \A j \in 1..n : j > m => stream[j] = Layer(s, came[j], View(p.mask, keys, j))
    OBVIOUS
<1>20. forward.cached => DOMAIN slots = (DOMAIN session.slots) \union {s} OBVIOUS
<1>21. ~forward.cached => slots = session.slots OBVIOUS
<1> HIDE DEF slots, stream, full
<1>22. /\ session'.ids = session.ids /\ session'.mask = session.mask
       /\ session'.positions = session.positions /\ session'.failed = session.failed
       /\ session'.pending = session.pending /\ session'.cached = session.cached
       /\ session'.steps = session.steps
       /\ session'.latents = latents /\ session'.slots = slots
       /\ session' = [ids |-> session'.ids, mask |-> session'.mask,
                    positions |-> session'.positions, batch |-> session'.batch,
                    steps |-> session'.steps, model |-> session'.model,
                    cached |-> session'.cached, pending |-> session'.pending,
                    failed |-> session'.failed, latents |-> session'.latents,
                    slots |-> session'.slots]
    BY <1>16 DEF Inv, SessionTyped
<1>23. SessionTyped' BY <1>22, <1>17, <1>7 DEF Inv, SessionTyped, Length
<1>24. /\ forward'.on /\ forward'.cached = forward.cached /\ forward'.start = m
       /\ forward'.prefix = p /\ forward'.steps = st /\ forward'.at = After(s, st)
       /\ forward'.stream = stream /\ forward'.full = full
       /\ forward' = [on |-> TRUE, cached |-> forward'.cached, start |-> forward'.start,
                    prefix |-> forward'.prefix, steps |-> forward'.steps, at |-> forward'.at,
                    stream |-> forward'.stream, full |-> forward'.full]
  <2> DEFINE next == After(s, st)
  <2> HIDE DEF next
  <2>1. forward' = [forward EXCEPT !.at = next, !.stream = stream, !.full = full] BY <1>16 DEF next
  <2>2. forward = [on |-> TRUE, cached |-> forward.cached, start |-> forward.start,
                   prefix |-> forward.prefix, steps |-> forward.steps, at |-> forward.at,
                   stream |-> forward.stream, full |-> forward.full]
    BY <1>3
  <2> DEFINE fc == forward.cached
             fb == forward.start
             fp == forward.prefix
             fs == forward.steps
             fa == forward.at
             fx == forward.stream
             fy == forward.full
  <2> HIDE DEF fc, fb, fp, fs, fa, fx, fy
  <2>a. forward = [on |-> TRUE, cached |-> fc, start |-> fb, prefix |-> fp, steps |-> fs,
                   at |-> fa, stream |-> fx, full |-> fy]
    BY <2>2 DEF fc, fb, fp, fs, fa, fx, fy
  <2>b. forward' = [on |-> TRUE, cached |-> fc, start |-> fb, prefix |-> fp, steps |-> fs,
                    at |-> next, stream |-> stream, full |-> full]
    BY <2>1, <2>a
  <2>3. forward' = [on |-> TRUE, cached |-> forward.cached, start |-> forward.start,
                    prefix |-> forward.prefix, steps |-> forward.steps, at |-> next,
                    stream |-> stream, full |-> full]
    BY <2>b DEF fc, fb, fp, fs
  <2> QED BY <2>3 DEF next, p, m, st
<1>26. ForwardTyped' BY <1>24, <1>3, AfterIsNext DEF ForwardTyped
<1>27. ForwardContinues' BY <1>1, <1>22, <1>24 DEF Inv, ForwardContinues, Length, p, m, st
<1>28. LatentsAreDraws' BY <1>7, <1>22 DEF LatentsAreDraws
<1>29. SlotsSettled' BY <1>24 DEF SlotsSettled
<1>30. NoSlots'
  <2>1. CASE forward.cached
    <3>1. session'.cached = {forward.cached} /\ forward.cached = TRUE BY <2>1, <1>3, <1>4, <1>22 DEF Some
    <3>2. session'.cached # None /\ session'.cached # Some(FALSE) BY <3>1 DEF None, Some
    <3> QED BY <3>2 DEF NoSlots
  <2>2. CASE ~forward.cached BY <2>2, <1>21, <1>22 DEF Inv, NoSlots
  <2> QED BY <2>1, <2>2
<1>31. ASSUME NEW j \in 1..n
       PROVE  View(p.mask, keys, j) = View(p.mask, whole, j)
  BY <1>5, <1>15, ViewIsCausal
<1>32. StreamIsFull' BY <1>11, <1>19, <1>31, <1>24 DEF StreamIsFull, n
<1>33. ASSUME forward.cached PROVE HalfWay'
  <2>1. \A u \in Slots(st) :
            /\ After(u, st) # First /\ After(u, st) # u
            /\ After(u, st) = After(s, st) => u = s
            /\ Before(u, After(s, st)) <=> Before(u, s) \/ u = s
    BY <1>3, AfterIsInjective, AfterIsNext
  <2>2. DOMAIN slots \subseteq Slots(st) BY <1>12, <1>20, <1>33, <1>3
  <2>3. \A u \in Slots(st) :
            /\ IsSeq(Of(slots, u))
            /\ Len(Of(slots, u)) = (IF Before(u, After(s, st)) THEN n ELSE m)
    BY <1>12, <1>15, <1>18, <1>33, <2>1
  <2>4. After(s, st) # First BY <2>1, <1>3
  <2>5. ASSUME NEW u \in Slots(st), After(u, st) = After(s, st), NEW j \in 1..n
        PROVE  full[j] = Layer(u, Of(slots, u)[j], View(p.mask, Of(slots, u), j))
    <3>2. keys[j] = whole[j] /\ View(p.mask, keys, j) = View(p.mask, whole, j) BY <1>15, <1>31
    <3> QED BY <3>2, <1>19, <2>1, <2>5, <1>18, <1>33
  <2>6. ASSUME NEW j \in 1..Len(Of(slots, First))
        PROVE  Of(slots, First)[j] = EnterAt(First, Embed(p.ids[j], p.positions[j]), j)
    <3>1. CASE s = First
      <4>1. Of(slots, First) = keys /\ j \in 1..n BY <3>1, <1>18, <1>33, <1>15, <2>6
      <4> QED BY <4>1, <3>1, <1>15, <1>8, <1>12, <1>33
    <3>2. CASE s # First BY <3>2, <1>18, <1>33, <2>6, <1>12 DEF Linked
    <3> QED BY <3>1, <3>2
  <2>7. ASSUME NEW u \in Slots(st), After(u, st) # End,
               NEW j \in 1..Len(Of(slots, After(u, st)))
        PROVE  Of(slots, After(u, st))[j] =
                EnterAt(After(u, st), Layer(u, Of(slots, u)[j], View(p.mask, Of(slots, u), j)), j)
    <3> DEFINE v == After(u, st)
               K == Of(session.slots, u)
               V == Of(session.slots, v)
    <3>0. v \in Slots(st) BY <2>7, <1>3, AfterIsNext
    <3>1. \A k \in 1..Len(V) : V[k] = EnterAt(v, Layer(u, K[k], View(p.mask, K, k)), k)
        BY <2>7, <1>12, <1>33 DEF Linked
    <3>2. CASE v = s
      <4>2. Of(slots, v) = keys /\ Of(slots, u) = K BY <3>2, <1>18, <1>33, <2>1
      <4>3. j \in 1..n BY <4>2, <1>15, <2>7
      <4>5. forward.full[j] = Layer(u, K[j], View(p.mask, K, j)) BY <3>2, <4>3, <1>12, <1>33
      <4> QED BY <4>2, <4>5, <3>2, <4>3, <1>15, <1>8
    <3>3. CASE u = s
      <4>2. Of(slots, v) = V /\ Of(slots, u) = keys /\ K = old BY <3>3, <1>18, <1>33, <2>1
      <4>3. ~Before(v, s) BY <3>3, <1>3, AfterIsNext, <3>0, BeforeIsStrict
      <4>4. Len(V) = m BY <4>3, <3>0, <1>12, <1>33
      <4>5. j \in 1..m /\ j \in Nat BY <4>2, <4>4, <2>7
      <4>7. keys[j] = K[j] /\ \A k \in 1..j : keys[k] = K[k] BY <4>2, <4>5, <1>15, <1>33, <1>5
      <4> QED BY <4>2, <4>4, <4>5, <4>7, <3>1, ViewIsCausal
    <3>4. CASE v # s /\ u # s BY <3>4, <1>18, <1>33, <3>1, <2>7
    <3> QED BY <3>2, <3>3, <3>4
  <2>8. Linked(slots, st, p) BY <2>6, <2>7 DEF Linked
  <2> QED BY <1>22, <1>24, <2>2, <2>3, <2>4, <2>5, <2>8 DEF HalfWay, n
<1>34. HalfWay' BY <1>33, <1>24 DEF HalfWay
<1>35. ModeKnown' BY <1>22 DEF Inv, ModeKnown
<1> QED BY <1>23, <1>26, <1>27, <1>28, <1>29, <1>30, <1>32, <1>34, <1>35 DEF Inv

-----------------------------------------------------------------------------
(* The invariant holds, and with it the properties                          *)

LEMMA GenerateIsACall ==
    ASSUME Inv, NEW r, Request(r), Generate(r)
    PROVE  \/ \E q : Request(q) /\ (Begin(q) \/ Refuse(q))
           \/ ~forward.on /\ session' = Invalidated(session) /\ UNCHANGED forward
<1>1. CASE KeepsPrefix(session, r) BY <1>1, SlicedIsRequest DEF Inv, Generate
<1>2. CASE ~KeepsPrefix(session, r) BY <1>2 DEF Generate
<1> QED BY <1>1, <1>2

\* Every step is one of five.
LEMMA StepCases ==
    ASSUME Assumptions, Inv, SessionNext
    PROVE  \/ \E q : Request(q) /\ Begin(q)
           \/ ~forward.on /\ session' = Invalidated(session) /\ forward' = NoForward
           \/ RunLayer
           \/ Finish
           \/ forward.on /\ session' = Invalidated(session) /\ forward' = NoForward
           \/ Interrupt
<1>1. ~forward.on => forward = NoForward BY DEF Inv, ForwardTyped
<1>2. ASSUME NEW q, Request(q), Begin(q) \/ Refuse(q)
      PROVE  \/ \E c : Request(c) /\ Begin(c)
             \/ ~forward.on /\ session' = Invalidated(session) /\ forward' = NoForward
    BY <1>1, <1>2 DEF Refuse
<1>3. ASSUME NEW r \in Requests, Begin(r) \/ Refuse(r) \/ Generate(r)
      PROVE  \/ \E c : Request(c) /\ Begin(c)
             \/ ~forward.on /\ session' = Invalidated(session) /\ forward' = NoForward
  BY <1>2, <1>1, GenerateIsACall, <1>3 DEF Assumptions
<1> QED BY <1>3 DEF SessionNext, Fail

LEMMA InvInductive ==
    ASSUME Assumptions
    PROVE  SessionSpec => []Inv
<1>1. SessionInit => Inv
  <2> SUFFICES ASSUME SessionInit
               PROVE  Inv
    OBVIOUS
  <2>1. session = [ids |-> <<>>, mask |-> <<>>, positions |-> <<>>, batch |-> None,
                   steps |-> None, model |-> None, cached |-> None, pending |-> None,
                   failed |-> FALSE, latents |-> [c \in Cores |-> <<>>],
                   slots |-> [s \in {} |-> <<>>]]
    BY DEF SessionInit, Fresh
  <2>2. Len(<<>>) = 0 OBVIOUS
  <2>3. IsSeq(<<>>) BY <2>2 DEF IsSeq, Shaped
  <2>5. forward = NoForward /\ ~forward.on BY DEF SessionInit, NoForward
  <2>6. LatentsAreDraws BY <2>1, <2>2 DEF LatentsAreDraws
  <2>7. DOMAIN session.slots = {} /\ \A s : Of(session.slots, s) = <<>> BY <2>1 DEF Of
  <2>8. SlotsSettled BY <2>2, <2>7, <2>1, <2>3 DEF Linked, Length, SlotsSettled
  <2>11. ForwardTyped /\ ForwardContinues /\ HalfWay /\ StreamIsFull
    BY <2>5 DEF ForwardTyped, ForwardContinues, HalfWay, StreamIsFull
  <2> QED BY <2>6, <2>8, <2>11, <2>7, <2>1, <2>3 DEF Inv, NoSlots, ModeKnown, SessionTyped, Length
<1>2. Inv /\ [SessionNext]_sessionVars => Inv'
  <2> SUFFICES ASSUME Inv, [SessionNext]_sessionVars
               PROVE  Inv'
    OBVIOUS
  <2>1. CASE SessionNext
    BY <2>1, StepCases, BeginKeepsInv, InvalidatedKeepsInv, RunLayerKeepsInv, FinishKeepsInv,
       InterruptKeepsInv
  <2>2. CASE UNCHANGED sessionVars
    BY <2>2, ZenonT(60) DEF sessionVars, Inv, SessionTyped, ForwardTyped, ForwardContinues, LatentsAreDraws, SlotsSettled,
        NoSlots, ModeKnown, HalfWay, StreamIsFull, Length
  <2> QED BY <2>1, <2>2
<1> QED BY <1>1, <1>2, PTL DEF SessionSpec

\* The cache changes no result, whatever the layers compute and whatever
\* calls, refusals, failures and interrupts came before.
THEOREM CacheSafe ==
    ASSUME Assumptions
    PROVE  SessionSpec => []CacheIsTransparent
<1>1. Inv => CacheIsTransparent
  <2> SUFFICES ASSUME Inv, forward.on,
                      NEW j \in (forward.start + 1)..Len(forward.prefix.ids)
               PROVE  forward.stream[j] = forward.full[j]
    BY DEF CacheIsTransparent
  <2>2. j \in 1..Len(forward.prefix.ids) /\ j > forward.start
    BY DEF Inv, ForwardContinues, SessionTyped, IsSeq, Length
  <2> QED BY <2>2 DEF Inv, StreamIsFull
<1> QED BY <1>1, InvInductive, PTL

\* A session that may be used again holds the same columns everywhere.
THEOREM SlotsSafe ==
    ASSUME Assumptions
    PROVE  SessionSpec => []SlotsHoldThePrefix
<1>1. Inv => SlotsHoldThePrefix
  <2> SUFFICES ASSUME Inv, ~forward.on, ~session.failed, session.pending = None
               PROVE  \A s \in DOMAIN session.slots : Len(session.slots[s]) = Length(session)
    BY DEF SlotsHoldThePrefix, Inv, SessionTyped
  <2> SUFFICES ASSUME NEW s \in DOMAIN session.slots
               PROVE  Len(session.slots[s]) = Length(session)
    OBVIOUS
  <2>1. ~(session.cached = None \/ session.cached = Some(FALSE)) BY DEF Inv, NoSlots
  <2>2. PICK steps : /\ Schedule(steps)
                     /\ session.steps = None \/ session.steps = Some(steps)
                     /\ session.cached = None \/ session.cached = Some(TRUE)
    BY <2>1 DEF Inv, ModeKnown
  <2>3. /\ DOMAIN session.slots \subseteq Slots(steps)
        /\ \A u \in Slots(steps) : Len(Of(session.slots, u)) = Length(session)
    BY <2>2 DEF Inv, SlotsSettled
  <2> QED BY <2>3 DEF Of
<1> QED BY <1>1, InvInductive, PTL

\* A token keeps its noise, however the prefix was cut into calls.
THEOREM LatentsSafe ==
    ASSUME Assumptions
    PROVE  SessionSpec => []LatentsAreDraws
<1>1. Inv => LatentsAreDraws BY DEF Inv
<1> QED BY <1>1, InvInductive, PTL

\* A refused, failed or interrupted forward is the last of its session.
THEOREM FailureIsFinal ==
    ASSUME Assumptions
    PROVE  SessionSpec => NothingAfterAFailure
<1>1. Inv /\ [SessionNext]_sessionVars =>
        [Spoiled => ~forward'.on /\ (Length(session)' # Length(session) => Length(session)' = 0)]_sessionVars
  <2> SUFFICES ASSUME Inv, SessionNext, Spoiled
               PROVE  ~forward'.on /\ (Length(session)' # Length(session) => Length(session)' = 0)
    OBVIOUS
  <2>1. ~forward.on BY DEF Spoiled, Inv, ForwardContinues
  <2>2. \A q : ~Begin(q) BY DEF Begin, Accepts, ModeHolds, Spoiled
  <2>3. session' = Invalidated(session) /\ forward' = NoForward
    BY <2>1, <2>2, StepCases DEF RunLayer, Finish, Interrupt
  <2> QED BY <2>3 DEF NoForward, Length, Invalidated, Fresh
<1> QED BY <1>1, InvInductive, PTL DEF SessionSpec, NothingAfterAFailure

\* What was published stays.
THEOREM PrefixStays ==
    ASSUME Assumptions
    PROVE  SessionSpec => PrefixOnlyGrows
<1>1. Inv /\ [SessionNext]_sessionVars =>
        [~session'.failed => /\ Extends(session'.ids, session.ids)
                             /\ Extends(session'.mask, session.mask)
                             /\ Extends(session'.positions, session.positions)]_sessionVars
  <2> SUFFICES ASSUME Inv, SessionNext, ~session'.failed
               PROVE  /\ Extends(session'.ids, session.ids)
                      /\ Extends(session'.mask, session.mask)
                      /\ Extends(session'.positions, session.positions)
    OBVIOUS
  <2>1. /\ Extends(session.ids, session.ids) /\ Extends(session.mask, session.mask)
        /\ Extends(session.positions, session.positions)
    BY ExtendsItself DEF Inv, SessionTyped
  <2>2. ASSUME NEW q, Begin(q)
        PROVE  /\ session'.ids = session.ids /\ session'.mask = session.mask
               /\ session'.positions = session.positions
    BY <2>2 DEF Begin, Inv, SessionTyped
  <2>3. ASSUME session' = Invalidated(session) PROVE FALSE BY <2>3, SMTT(40) DEF Invalidated, Fresh
  <2>4. ASSUME RunLayer
        PROVE  /\ session'.ids = session.ids /\ session'.mask = session.mask
               /\ session'.positions = session.positions
    BY <2>4 DEF RunLayer, Inv, SessionTyped
  <2>5. ASSUME Finish
        PROVE  /\ Extends(session'.ids, session.ids) /\ Extends(session'.mask, session.mask)
               /\ Extends(session'.positions, session.positions)
    BY <2>5 DEF Finish, Inv, SessionTyped, ForwardContinues
  <2>6. ASSUME Interrupt PROVE session' = session BY <2>6 DEF Interrupt
  <2> QED BY <2>1, <2>2, <2>3, <2>4, <2>5, <2>6, StepCases
<1> QED BY <1>1, InvInductive, PTL DEF SessionSpec, PrefixOnlyGrows

-----------------------------------------------------------------------------
(* Induction, and folds as recursions.                                      *)

\* A non-empty set of numbers has a least element.
LEMMA LeastElement ==
    ASSUME NEW T \in SUBSET Nat, T # {}
    PROVE  \E n \in T : \A m \in T : n <= m
<1> DEFINE R == OpToRel(<, Nat)
<1>1. IsWellFoundedOn(R, Nat) BY NatLessThanWellFounded DEF OpToRel
<1>2. \A m, n \in Nat : m < n => <<m, n>> \in R BY DEF OpToRel
<1> HIDE DEF R
<1>3. PICK n \in T : \A m \in T : ~ (<<m, n>> \in R) BY <1>1, WFMin
<1>4. ASSUME NEW m \in T PROVE n <= m
  <2>1. m \in Nat /\ n \in Nat /\ ~(m < n) BY <1>2, <1>3
  <2> QED BY <2>1
<1> QED BY <1>4

\* Induction, over the numbers that have a property rather than over the property.
LEMMA NumberInduction ==
    ASSUME NEW P, 0 \in P, \A n \in Nat : n \in P => n + 1 \in P
    PROVE  Nat \subseteq P
<1> DEFINE T == Nat \ P
<1> SUFFICES ASSUME T # {} PROVE FALSE OBVIOUS
<1>1. PICK n \in T : \A m \in T : n <= m BY LeastElement
<1> QED BY <1>1

\* A fold over the subsets of a finite set: the function its recursion asks for exists.
Folds(iter, D, base, g, pick) ==
    \A s \in SUBSET D :
        iter[s] = IF s = {} THEN base ELSE g[<<pick[s], iter[s \ {pick[s]}]>>]

\* The recursion of a fold over a finite set has a solution.
LEMMA FoldExists ==
    ASSUME NEW D, IsFiniteSet(D), NEW V, NEW base \in V, NEW g \in [D \X V -> V],
           NEW pick, \A s \in SUBSET D : s # {} => pick[s] \in s
    PROVE  \E iter \in [SUBSET D -> V] : Folds(iter, D, base, g, pick)
<1> DEFINE next(f, s) == IF s = {} THEN base ELSE g[<<pick[s], f[s \ {pick[s]}]>>]
           Below(f, n) == \A s \in SUBSET D : Cardinality(s) <= n => f[s] = next(f, s)
           N == {n \in Nat : \E f \in [SUBSET D -> V] : Below(f, n)}
<1>1. \A s \in SUBSET D : IsFiniteSet(s) /\ Cardinality(s) \in Nat BY FS_Subset, FS_CardinalityType
<1>3. ASSUME NEW f \in [SUBSET D -> V], NEW s \in SUBSET D PROVE next(f, s) \in V OBVIOUS
<1>4. 0 \in N
  <2> DEFINE f == [s \in SUBSET D |-> base]
  <2>1. Below(f, 0) BY <1>1, FS_EmptySet
  <2> QED BY <2>1
<1>5. ASSUME NEW n \in Nat, n \in N PROVE n + 1 \in N
  <2>1. PICK f \in [SUBSET D -> V] : Below(f, n) BY <1>5
  <2> DEFINE h == [s \in SUBSET D |-> next(f, s)]
  <2>2. h \in [SUBSET D -> V] BY <1>3
  <2>3. ASSUME NEW s \in SUBSET D, Cardinality(s) <= n + 1 PROVE h[s] = next(h, s)
    <3>1. CASE s # {}
      <4> DEFINE r == s \ {pick[s]}
      <4>1. r \in SUBSET D /\ Cardinality(r) <= n BY <1>1, <3>1, FS_RemoveElement, <2>3
      <4>2. f[r] = h[r] BY <2>1, <4>1
      <4> QED BY <3>1, <4>2
    <3> QED BY <3>1
  <2> HIDE DEF h
  <2>4. Below(h, n + 1) BY <2>3
  <2>5. \E x \in [SUBSET D -> V] : Below(x, n + 1)
    <3> HIDE DEF Below
    <3> QED BY <2>2, <2>4
  <2> HIDE DEF Below
  <2> QED BY <2>5
<1> HIDE DEF N
<1>6. Cardinality(D) \in N BY <1>1, <1>4, <1>5, NumberInduction
<1>7. PICK f \in [SUBSET D -> V] : Below(f, Cardinality(D)) BY <1>6 DEF N
<1>8. \A s \in SUBSET D : Cardinality(s) <= Cardinality(D) BY FS_Subset
<1> QED BY <1>7, <1>8 DEF Folds

\* The largest number of an interval.
LEMMA MaxLemma == ASSUME NEW k \in Nat \ {0} PROVE Max(1..k) = k
<1> QED BY DEF Max

\* A nonempty set of positions has a last one.
LEMMA MaxExists == ASSUME NEW n \in Nat, NEW s \in SUBSET (1..n), s # {} PROVE Max(s) \in s
<1> DEFINE T == {n - x : x \in s}
<1>1. T \in SUBSET Nat /\ T # {}
  <2>1. \A x \in s : n - x \in Nat OBVIOUS
  <2> QED BY <2>1
<1>2. PICK m \in T : \A y \in T : m <= y BY <1>1, LeastElement
<1>3. PICK x \in s : m = n - x BY <1>2
<1>4. \A y \in s : x >= y
  <2> TAKE y \in s
  <2>1. n - x <= n - y BY <1>2, <1>3
  <2> QED BY <2>1
<1> QED BY <1>4 DEF Max

\* The fold of a sequence as a recursion on its initial segments.
IsFold(f, n, base, g) ==
    f = [s \in SUBSET (1..n) |-> IF s = {} THEN base ELSE g[<<Max(s), f[s \ {Max(s)}]>>]]

\* The recursion of a fold over a sequence has a solution.
LEMMA SequenceFold ==
    ASSUME NEW n \in Nat, NEW V, NEW base \in V, NEW g \in [(1..n) \X V -> V]
    PROVE  \E f \in [SUBSET (1..n) -> V] : IsFold(f, n, base, g)
<1> DEFINE D == 1..n
           pick == [s \in SUBSET D |-> Max(s)]
<1>1. IsFiniteSet(D) BY FS_Interval
<1>2. \A s \in SUBSET D : s # {} => pick[s] \in s BY MaxExists
<1> HIDE DEF D
<1>3. PICK f \in [SUBSET D -> V] : Folds(f, D, base, g, pick)
  <2> HIDE DEF pick
  <2> QED BY <1>1, <1>2, FoldExists DEF D
<1>4. f = [s \in SUBSET D |-> IF s = {} THEN base ELSE g[<<Max(s), f[s \ {Max(s)}]>>]] BY <1>3 DEF Folds
<1> QED BY <1>4 DEF D, IsFold

\* The elements of a set up to a bound.
UpTo(T, i) == {j \in T : j <= i}

\* A finite set of numbers has a first, a second, ..., a last element.
LEMMA RankLemma ==
    ASSUME NEW T \in SUBSET Nat, NEW n \in Nat, \A x \in T : x <= n,
           NEW k \in 1..Cardinality(T)
    PROVE  \E i \in T : Cardinality(UpTo(T, i)) = k
<1> DEFINE M == {i \in Nat : Cardinality(UpTo(T, i)) >= k}
<1>1. IsFiniteSet(T) /\ Cardinality(T) \in Nat BY FS_BoundedSetOfNaturals, FS_CardinalityType
<1>2. \A i \in Nat : IsFiniteSet(UpTo(T, i)) /\ Cardinality(UpTo(T, i)) \in Nat
  BY <1>1, FS_Subset, FS_CardinalityType DEF UpTo
<1>3. UpTo(T, n) = T BY DEF UpTo
<1>4. n \in M BY <1>1, <1>3
<1>5. PICK i \in M : \A m \in M : i <= m BY <1>4, LeastElement
<1>6. i \in Nat /\ Cardinality(UpTo(T, i)) >= k OBVIOUS
<1> DEFINE less == UpTo(T, i) \ {i}
<1> HIDE DEF M
<1>8. IsFiniteSet(less) /\ Cardinality(less) \in Nat /\ Cardinality(less) < k
  <2>1. CASE i = 0
    <3>1. less = {}
      <4>1. \A j \in T : j <= 0 => j = 0 OBVIOUS
      <4> QED BY <2>1, <4>1 DEF UpTo
    <3> QED BY <3>1, FS_EmptySet
  <2>2. CASE i # 0
    <3>1. i - 1 \in Nat /\ i - 1 < i BY <1>6, <2>2
    <3>2. less = UpTo(T, i - 1)
      <4>1. \A j \in T : j <= i - 1 <=> j <= i /\ j # i BY <1>6
      <4> QED BY <4>1 DEF UpTo
    <3>3. Cardinality(UpTo(T, i - 1)) \in Nat /\ ~(Cardinality(UpTo(T, i - 1)) >= k)
      BY <1>2, <3>1, <1>5, <1>6 DEF M
    <3> QED BY <1>2, <3>1, <3>2, <3>3
  <2> QED BY <2>1, <2>2
<1>9. i \in T BY <1>6, <1>8 DEF UpTo
<1> HIDE DEF less
<1>12. Cardinality(less) = Cardinality(UpTo(T, i)) - 1 BY <1>6, <1>9, <1>2, FS_RemoveElement, SMTT(30), Z3T(30) DEF less, UpTo
<1> QED BY <1>9, <1>2, <1>6, <1>8, <1>12

-----------------------------------------------------------------------------
(* The requests of a call, grouped by document.                             *)

\* A function on 1 .. m is a sequence.
LEMMA FunctionIsSequence ==
    ASSUME NEW S, NEW m \in Nat, NEW l \in [1 .. m -> S]
    PROVE  l \in Seq(S)
<1> QED OBVIOUS

\* The k-th position of a set, for every k.
LEMMA AscendingLemma ==
    ASSUME NEW n \in Nat, NEW S \in SUBSET (1 .. n)
    PROVE  /\ Cardinality(S) \in Nat
           /\ Ascending(S) \in [1 .. Cardinality(S) -> S]
           /\ \A k, h \in 1 .. Cardinality(S) : Ascending(S)[k] = Ascending(S)[h] => k = h
           /\ \A p \in S : \E k \in 1 .. Cardinality(S) : Ascending(S)[k] = p
<1> DEFINE c == Cardinality(S)
           a == Ascending(S)
           at(k) == CHOOSE p \in S : Cardinality(UpTo(S, p)) = k
<1>1. IsFiniteSet(S) /\ c \in Nat /\ S \in SUBSET Nat /\ \A x \in S : x <= n
  <2>1. IsFiniteSet(1 .. n) /\ Cardinality(1 .. n) \in Nat BY FS_Interval, FS_CardinalityType
  <2>2. IsFiniteSet(S) /\ c \in Nat BY <2>1, FS_Subset, FS_CardinalityType
  <2> QED BY <2>2
<1>2. a = [k \in 1 .. c |-> at(k)] BY DEF Ascending, UpTo
<1>3. ASSUME NEW k \in 1 .. c
      PROVE  at(k) \in S /\ Cardinality(UpTo(S, at(k))) = k
  BY <1>1, RankLemma
<1>4. \A p \in S : IsFiniteSet(UpTo(S, p)) /\ Cardinality(UpTo(S, p)) \in Nat
                   /\ Cardinality(UpTo(S, p)) <= c
  BY <1>1, FS_Subset, FS_CardinalityType DEF UpTo
<1>5. ASSUME NEW p \in S, NEW q \in S, p < q
      PROVE  Cardinality(UpTo(S, p)) < Cardinality(UpTo(S, q))
  <2>0. p \in Nat /\ q \in Nat /\ (\A x \in S : x \in Nat) BY <1>1
  <2>1. UpTo(S, p) \in SUBSET UpTo(S, q) /\ q \in UpTo(S, q) /\ q \notin UpTo(S, p)
    <3>1. \A x \in S : x <= p => x <= q BY <1>5, <2>0
    <3>2. q <= q /\ ~(q <= p) BY <1>5, <2>0
    <3> QED BY <3>1, <3>2 DEF UpTo
  <2> DEFINE less == UpTo(S, p)
             more == UpTo(S, q)
  <2>2. IsFiniteSet(more) /\ less \in SUBSET more /\ less # more BY <1>4, <2>1
  <2>3. Cardinality(less) \in Nat /\ Cardinality(more) \in Nat BY <1>4
  <2> HIDE DEF less, more
  <2>5. Cardinality(less) < Cardinality(more) BY <2>3, <2>2, FS_Subset
  <2> QED BY <2>5 DEF less, more
<1>6. \A p, q \in S : Cardinality(UpTo(S, p)) = Cardinality(UpTo(S, q)) => p = q
  <2> TAKE p, q \in S
  <2> QED BY <1>4, <1>5, <1>1
<1>7. ASSUME NEW p \in S
      PROVE  /\ Cardinality(UpTo(S, p)) \in 1 .. c
             /\ at(Cardinality(UpTo(S, p))) = p
  <2>2. Cardinality(UpTo(S, p)) # 0 BY <1>4, FS_EmptySet, <1>1 DEF UpTo
  <2> QED BY <1>3, <1>6, <1>1, <1>4, <2>2
<1> HIDE DEF at
<1> QED BY <1>1, <1>2, <1>3, <1>7

\* The positions that share the document of one.
SameDocument(requests, p) == {q \in DOMAIN requests : requests[q] = requests[p]}
\* The first request of every document.
Firsts(requests) == {p \in DOMAIN requests : \A q \in SameDocument(requests, p) : p <= q}

\* Sequences of positions in which each position stands once.
Disjoint(lists) ==
    \A i, j \in DOMAIN lists : \A k \in DOMAIN lists[i], h \in DOMAIN lists[j] :
        lists[i][k] = lists[j][h] => i = j /\ k = h

\* The numbers a list of positions holds.
Positions(list) == {list[k] : k \in DOMAIN list}

\* The requests of a call, as the plan assumes them.
IsCall(requests) == Len(requests) \in Nat \ {0} /\ DOMAIN requests = 1 .. Len(requests)

\* The requests of a call are grouped by document, in the order of their first ones.
LEMMA GroupsLemma ==
    ASSUME NEW requests, IsCall(requests)
    PROVE  /\ Groups(requests) \in Seq(Seq(1 .. Len(requests)))
           /\ Disjoint(Groups(requests))
           /\ \A p \in 1 .. Len(requests) :
                 \E i \in DOMAIN Groups(requests) : p \in Positions(Groups(requests)[i])
           /\ \A i \in DOMAIN Groups(requests) :
                 \A p \in Positions(Groups(requests)[i]) :
                    Positions(Groups(requests)[i]) = SameDocument(requests, p)
<1> DEFINE n == Len(requests)
           first == Ascending(Firsts(requests))
           c == Cardinality(Firsts(requests))
           group(i) == Ascending(SameDocument(requests, first[i]))
           size(i) == Cardinality(SameDocument(requests, first[i]))
           g == Groups(requests)
<1>1. n \in Nat /\ DOMAIN requests = 1 .. n BY DEF IsCall
<1>2. g = [i \in DOMAIN first |-> group(i)] BY DEF Groups, Firsts, SameDocument
<1>3. Firsts(requests) \in SUBSET (1 .. n) /\ \A p : SameDocument(requests, p) \in SUBSET (1 .. n)
  BY <1>1 DEF Firsts, SameDocument
<1> HIDE DEF n
<1>4. /\ c \in Nat /\ first \in [1 .. c -> Firsts(requests)]
      /\ \A k, h \in 1 .. c : first[k] = first[h] => k = h
      /\ \A p \in Firsts(requests) : \E k \in 1 .. c : first[k] = p
  BY <1>1, <1>3, AscendingLemma
<1> HIDE DEF first, c
<1>5. ASSUME NEW i \in 1 .. c
      PROVE  /\ size(i) \in Nat /\ group(i) \in [1 .. size(i) -> SameDocument(requests, first[i])]
             /\ \A k, h \in 1 .. size(i) : group(i)[k] = group(i)[h] => k = h
             /\ \A p \in SameDocument(requests, first[i]) : \E k \in 1 .. size(i) : group(i)[k] = p
  BY <1>1, <1>3, AscendingLemma
<1> HIDE DEF size, group
<1>6. DOMAIN g = 1 .. c /\ \A i \in 1 .. c : g[i] = group(i) /\ DOMAIN g[i] = 1 .. size(i) BY <1>2, <1>4, <1>5
<1>7. \A i \in 1 .. c : g[i] \in Seq(1 .. n)
  <2> TAKE i \in 1 .. c
  <2> DEFINE m == size(i)
             l == g[i]
             T == SameDocument(requests, first[i])
  <2>1. m \in Nat /\ group(i) \in [1 .. m -> T] /\ l = group(i) BY <1>5, <1>6
  <2>2. T \in SUBSET (1 .. n) BY <1>3
  <2> HIDE DEF m, l, T
  <2>3. l \in [1 .. m -> 1 .. n] BY <2>1, <2>2
  <2>4. l \in Seq(1 .. n) BY <2>1, <2>3, FunctionIsSequence
  <2> QED BY <2>4 DEF l
<1>8. g \in Seq(Seq(1 .. n)) BY <1>2, <1>4, <1>6, <1>7
<1>9. \A i \in 1 .. c : Positions(g[i]) = SameDocument(requests, first[i])
  <2> TAKE i \in 1 .. c
  <2> DEFINE T == SameDocument(requests, first[i])
             l == g[i]
  <2>0. l = group(i) BY <1>6
  <2>1. l \in [1 .. size(i) -> T] /\ \A p \in T : \E k \in 1 .. size(i) : l[k] = p
    <3> HIDE DEF l
    <3> QED BY <1>5, <2>0
  <2> HIDE DEF T, l
  <2>2. Positions(l) = T BY <2>1 DEF Positions
  <2> QED BY <2>2 DEF T, l
<1>11. \A p : \A i, j \in 1 .. c :
          p \in SameDocument(requests, first[i]) /\ p \in SameDocument(requests, first[j]) => i = j
  <2> TAKE p
  <2> TAKE i, j \in 1 .. c
  <2> HAVE p \in SameDocument(requests, first[i]) /\ p \in SameDocument(requests, first[j])
  <2>4. first[i] = first[j] BY <1>1, <1>3, <1>4 DEF Firsts, SameDocument
  <2> QED BY <1>4, <2>4
<1>12. Disjoint(g)
  <2> SUFFICES ASSUME NEW i \in 1 .. c, NEW j \in 1 .. c, NEW k \in DOMAIN g[i], NEW h \in DOMAIN g[j],
                      g[i][k] = g[j][h]
               PROVE  i = j /\ k = h
    BY <1>6 DEF Disjoint
  <2>1. g[i][k] \in SameDocument(requests, first[i]) /\ g[j][h] \in SameDocument(requests, first[j])
    BY <1>5, <1>6
  <2>2. i = j BY <1>11, <2>1
  <2> QED BY <1>5, <1>6, <2>2
<1>13. ASSUME NEW p \in 1 .. n PROVE \E i \in DOMAIN g : p \in Positions(g[i])
  <2> DEFINE T == SameDocument(requests, p)
  <2>1. p \in T /\ T \in SUBSET Nat BY <1>1, <1>3 DEF SameDocument
  <2> HIDE DEF T
  <2>2. PICK q \in T : \A x \in T : q <= x BY <2>1, LeastElement
  <2>3. q \in 1 .. n /\ requests[q] = requests[p] BY <1>1, <2>2 DEF T, SameDocument
  <2>4. SameDocument(requests, q) = T BY <2>3 DEF T, SameDocument
  <2>5. q \in Firsts(requests) BY <1>1, <2>2, <2>3, <2>4 DEF Firsts
  <2>6. PICK i \in 1 .. c : first[i] = q BY <1>4, <2>5
  <2> QED BY <1>6, <1>9, <2>1, <2>4, <2>6
<1>14. ASSUME NEW i \in 1 .. c, NEW p \in Positions(g[i])
       PROVE  Positions(g[i]) = SameDocument(requests, p)
  BY <1>9 DEF SameDocument
<1> QED BY <1>6, <1>8, <1>12, <1>13, <1>14 DEF n

\* The positions that stand in some of the lists.
Covered(lists) == UNION {Positions(lists[i]) : i \in DOMAIN lists}

\* Every list of one stands whole in a list of the other.
Within(lists, others) ==
    \A i \in DOMAIN lists : \E j \in DOMAIN others : Positions(lists[i]) \subseteq Positions(others[j])

\* Sequences of jobs, each the positions it answers.
Lists(n) == Seq(Seq(1 .. n))

\* A group that joins jobs none of which holds a position of it.
LEMMA JoinedLemma ==
    ASSUME NEW n \in Nat, NEW chunks \in Lists(n), NEW group \in Seq(1 .. n), Disjoint(chunks),
           \A k, h \in DOMAIN group : group[k] = group[h] => k = h,
           Covered(chunks) \intersect Positions(group) = {}
    PROVE  /\ Joined(chunks, group) \in Lists(n)
           /\ Disjoint(Joined(chunks, group))
           /\ Covered(Joined(chunks, group)) = Covered(chunks) \union Positions(group)
           /\ Within(chunks, Joined(chunks, group))
           /\ \E j \in DOMAIN Joined(chunks, group) :
                 Positions(group) \subseteq Positions(Joined(chunks, group)[j])
<1> DEFINE S == Seq(1 .. n)
           c == Len(chunks)
           new == Joined(chunks, group)
<1>1. c \in Nat /\ DOMAIN chunks = 1 .. c /\ chunks \in Seq(S) /\ (\A i \in 1 .. c : chunks[i] \in S)
  BY DEF Lists
<1>2. /\ Len(group) \in Nat /\ DOMAIN group = 1 .. Len(group)
      /\ \A k \in DOMAIN group : group[k] \in Positions(group)
  BY DEF Positions
<1>3. \A i \in 1 .. c : \A k \in DOMAIN chunks[i] : chunks[i][k] \in Positions(chunks[i]) BY DEF Positions
<1>4. \A i \in 1 .. c : \A h \in DOMAIN chunks[i] : \A k \in DOMAIN group : chunks[i][h] # group[k]
  BY <1>1, <1>2, <1>3 DEF Covered
<1>5. \A i, j \in 1 .. c : \A k \in DOMAIN chunks[i], h \in DOMAIN chunks[j] :
         chunks[i][k] = chunks[j][h] => i = j /\ k = h
  BY <1>1 DEF Disjoint
<1>6. ASSUME new = Append(chunks, group)
      PROVE  /\ new \in Seq(S) /\ Disjoint(new)
             /\ Covered(new) = Covered(chunks) \union Positions(group)
             /\ Within(chunks, new)
             /\ \E j \in DOMAIN new : Positions(group) \subseteq Positions(new[j])
  <2>1. group \in S OBVIOUS
  <2> HIDE DEF c, S, new
  <2>2. /\ new \in Seq(S) /\ DOMAIN new = 1 .. c + 1 /\ new[c + 1] = group
        /\ \A i \in 1 .. c : new[i] = chunks[i]
    BY <1>1, <1>6, <2>1 DEF c
  <2>3. \A i \in 1 .. c + 1 : i \in 1 .. c \/ i = c + 1 BY <1>1
  <2>4. Disjoint(new) BY <2>2, <1>5, <1>4, <2>3 DEF Disjoint
  <2>5. /\ c + 1 \in 1 .. c + 1 /\ \A i \in 1 .. c : i \in 1 .. c + 1 BY <1>1
  <2> QED BY <2>2, <2>4, <2>5, <1>1, <2>3 DEF Covered, Within
<1>7. ASSUME chunks # <<>>, new = Append(Front(chunks), Last(chunks) \o group)
      PROVE  /\ new \in Seq(S) /\ Disjoint(new)
             /\ Covered(new) = Covered(chunks) \union Positions(group)
             /\ Within(chunks, new)
             /\ \E j \in DOMAIN new : Positions(group) \subseteq Positions(new[j])
  <2> DEFINE last == chunks[c]
             both == last \o group
             front == Front(chunks)
             m == Len(last)
  <2>1. c # 0 /\ c \in 1 .. c /\ last \in S BY <1>1, <1>7
  <2>2. Last(chunks) = last BY DEF Last
  <2>4. both \in S BY <2>1
  <2>5. /\ m \in Nat /\ DOMAIN both = 1 .. m + Len(group) /\ DOMAIN last = 1 .. m
        /\ \A k \in 1 .. m : both[k] = last[k]
        /\ \A k \in m + 1 .. m + Len(group) : both[k] = group[k - m]
    BY <2>1
  <2> HIDE DEF S, c, new, last, both, front, m
  <2>6. /\ new \in Seq(S) /\ DOMAIN new = 1 .. c /\ new[c] = both
        /\ \A i \in 1 .. c - 1 : new[i] = chunks[i]
    BY <1>7, <2>2, <1>1, <2>1, <2>4 DEF both, front, Front
  <2>7. /\ \A i \in 1 .. c : i \in 1 .. c - 1 \/ i = c
        /\ \A i \in 1 .. c - 1 : i \in 1 .. c /\ i # c
    BY <1>1, <2>1
  <2>8. \A k \in DOMAIN both : \/ k \in 1 .. m /\ both[k] = last[k]
                               \/ k - m \in DOMAIN group /\ both[k] = group[k - m] /\ k \notin 1 .. m
    <3> TAKE k \in DOMAIN both
    <3> QED BY <1>2, <2>5
  <2>9. ASSUME NEW k \in DOMAIN both, NEW h \in DOMAIN both, both[k] = both[h] PROVE k = h
    <3>1. CASE k \in 1 .. m /\ h \in 1 .. m BY <1>5, <2>1, <2>5, <2>9, <3>1 DEF last
    <3>2. CASE k \in 1 .. m /\ h \notin 1 .. m BY <2>5, <2>8, <2>9, <3>2, <1>4, <2>1 DEF last
    <3>3. CASE k \notin 1 .. m /\ h \in 1 .. m BY <2>5, <2>8, <2>9, <3>3, <1>4, <2>1, SMTT(30) DEF last
    <3>4. CASE k \notin 1 .. m /\ h \notin 1 .. m BY <2>8, <2>9, <3>4, <1>2, <2>5
    <3> QED BY <3>1, <3>2, <3>3, <3>4
  <2>10. ASSUME NEW i \in 1 .. c - 1, NEW k \in DOMAIN chunks[i], NEW h \in DOMAIN both
         PROVE  chunks[i][k] # both[h]
    <3>1. i \in 1 .. c /\ i # c BY <2>7
    <3>2. CASE h \in 1 .. m
      <4>1. h \in DOMAIN chunks[c] /\ both[h] = chunks[c][h] BY <2>5, <3>2 DEF last
      <4> QED BY <1>5, <2>1, <3>1, <4>1
    <3>3. CASE h \notin 1 .. m BY <2>8, <3>3, <1>4, <3>1
    <3> QED BY <3>2, <3>3
  <2>11. Disjoint(new) BY <2>6, <1>5, <2>7, <2>10, <2>9 DEF Disjoint
  <2>12. Positions(both) = Positions(last) \union Positions(group)
    <3>1. ASSUME NEW p \in Positions(both) PROVE p \in Positions(last) \union Positions(group)
      BY <2>5, <2>8 DEF Positions
    <3>2. ASSUME NEW p \in Positions(last) PROVE p \in Positions(both) BY <2>5, <1>2 DEF Positions
    <3>3. ASSUME NEW p \in Positions(group) PROVE p \in Positions(both)
      <4>1. PICK k \in 1 .. Len(group) : p = group[k] BY <1>2 DEF Positions
      <4>2. m + k \in m + 1 .. m + Len(group) /\ m + k \in 1 .. m + Len(group) /\ (m + k) - m = k
        BY <1>2, <2>5
      <4> QED BY <2>5, <4>1, <4>2 DEF Positions
    <3> QED BY <3>1, <3>2, <3>3
  <2>13. Covered(new) = Covered(chunks) \union Positions(group)
    <3>1. \A p : p \in Covered(new) <=> \E i \in 1 .. c : p \in Positions(new[i]) BY <2>6 DEF Covered
    <3>2. \A p : p \in Covered(chunks) <=> \E i \in 1 .. c : p \in Positions(chunks[i]) BY <1>1 DEF Covered
    <3>3. Positions(new[c]) = Positions(chunks[c]) \union Positions(group) BY <2>6, <2>12 DEF last
    <3>4. \A i \in 1 .. c - 1 : Positions(new[i]) = Positions(chunks[i]) BY <2>6
    <3> QED BY <2>1, <2>7, <3>1, <3>2, <3>3, <3>4
  <2>14. Within(chunks, new) BY <1>1, <2>6, <2>7, <2>12 DEF Within, last
  <2> QED BY <2>1, <2>6, <2>11, <2>13, <2>14, <2>12
<1>8. new = Append(chunks, group) \/ (chunks # <<>> /\ new = Append(Front(chunks), Last(chunks) \o group))
  BY DEF Joined
<1> HIDE DEF new
<1>9. new \in Lists(n) <=> new \in Seq(S) BY DEF Lists
<1> QED BY <1>6, <1>7, <1>8, <1>9 DEF new

\* The fold that joins the groups of a call into jobs.
IsJoinFold(f, groups) ==
    f = [s \in SUBSET DOMAIN groups |->
            IF s = {} THEN <<>> ELSE Joined(f[s \ {Max(s)}], groups[Max(s)])]

\* Joining is the value of such a fold.
LEMMA JoinFold ==
    ASSUME NEW n \in Nat, NEW requests, Groups(requests) \in Lists(n)
    PROVE  \E f : IsJoinFold(f, Groups(requests)) /\ Chunks(requests) = f[DOMAIN Groups(requests)]
<1> DEFINE groups == Groups(requests)
           c == Len(groups)
           g == [p \in (1 .. c) \X Lists(n) |-> Joined(p[2], groups[p[1]])]
<1>1. c \in Nat /\ DOMAIN groups = 1 .. c /\ \A i \in 1 .. c : groups[i] \in Seq(1 .. n) BY DEF Lists, groups
<1>2. \A i \in 1 .. c : \A chunks \in Lists(n) : Joined(chunks, groups[i]) \in Lists(n)
  <2> TAKE i \in 1 .. c
  <2> TAKE chunks \in Lists(n)
  <2> DEFINE S == Seq(1 .. n)
             group == groups[i]
  <2>1. group \in S /\ chunks \in Seq(S) BY <1>1 DEF Lists
  <2>2. \A a, b \in S : a \o b \in S OBVIOUS
  <2> HIDE DEF S, group
  <2>3. CASE chunks # <<>>
    <3>1. Front(chunks) \in Seq(S) /\ Last(chunks) \in S BY <2>1, <2>3 DEF Front, Last
    <3> DEFINE front == Front(chunks)
               both == Last(chunks) \o group
    <3> HIDE DEF front, both
    <3>4. Joined(chunks, group) \in Seq(S) BY <2>1, <3>1, <2>2 DEF Joined, front, both
    <3> QED BY <3>4 DEF Lists, S, group
  <2>4. CASE chunks = <<>> BY <2>1, <2>4 DEF Joined, Lists, S, group
  <2> QED BY <2>3, <2>4
<1>3. g \in [(1 .. c) \X Lists(n) -> Lists(n)] BY <1>2
<1>4. <<>> \in Lists(n) BY DEF Lists
<1> HIDE DEF c, g, groups
<1>5. PICK f \in [SUBSET (1 .. c) -> Lists(n)] : IsFold(f, c, <<>>, g) BY <1>1, <1>3, <1>4, SequenceFold
<1>6. ASSUME NEW s \in SUBSET (1 .. c), s # {}
      PROVE  g[<<Max(s), f[s \ {Max(s)}]>>] = Joined(f[s \ {Max(s)}], groups[Max(s)])
  <2>1. Max(s) \in 1 .. c /\ f[s \ {Max(s)}] \in Lists(n) BY <1>1, <1>6, MaxExists
  <2> QED BY <2>1 DEF g
<1>7. f = [s \in SUBSET (1 .. c) |->
              IF s = {} THEN <<>> ELSE Joined(f[s \ {Max(s)}], groups[Max(s)])]
  BY <1>5, <1>6 DEF IsFold
<1>8. \E h : IsJoinFold(h, groups) BY <1>1, <1>7 DEF IsJoinFold
<1>9. \E h : h = (CHOOSE e : IsJoinFold(e, groups)) /\ Chunks(requests) = h[DOMAIN groups]
  BY Zenon DEF Chunks, FoldLeft, MapThenFoldSet, IsJoinFold, groups
<1>10. IsJoinFold(CHOOSE e : IsJoinFold(e, groups), groups) BY <1>8, Zenon
<1> QED BY <1>9, <1>10, Zenon DEF groups

\* A fold over the front of the groups joins one of them.
LEMMA JoinFront ==
    ASSUME NEW n \in Nat, NEW groups \in Lists(n), NEW f, IsJoinFold(f, groups)
    PROVE  /\ f[1 .. 0] = <<>>
           /\ \A k \in 1 .. Len(groups) : f[1 .. k] = Joined(f[1 .. (k - 1)], groups[k])
<1> DEFINE c == Len(groups)
<1>1. DOMAIN groups = 1 .. c /\ c \in Nat BY DEF Lists
<1> HIDE DEF c
<1>2. f[1 .. 0] = <<>> BY DEF IsJoinFold
<1>3. ASSUME NEW k \in 1 .. c
      PROVE  f[1 .. k] = Joined(f[1 .. (k - 1)], groups[k])
  <2>1. 1 .. k \in SUBSET DOMAIN groups /\ k \in 1 .. k /\ (1 .. k) \ {k} = 1 .. (k - 1) BY <1>1
  <2>2. Max(1 .. k) = k BY MaxLemma
  <2>3. f[1 .. k] = Joined(f[(1 .. k) \ {Max(1 .. k)}], groups[Max(1 .. k)]) BY <2>1 DEF IsJoinFold
  <2> QED BY <2>1, <2>2, <2>3
<1> QED BY <1>2, <1>3 DEF c

\* What the jobs of a call are: every request stands once, with its document.
Planned(lists, requests) ==
    /\ lists \in Lists(Len(requests))
    /\ Disjoint(lists)
    /\ \A p \in 1 .. Len(requests) : \E i \in DOMAIN lists :
          p \in Positions(lists[i]) /\ SameDocument(requests, p) \subseteq Positions(lists[i])

\* The jobs of the first groups.
Joining(lists, groups, n, k) ==
    /\ lists \in Lists(n) /\ Disjoint(lists)
    /\ Covered(lists) = UNION {Positions(groups[i]) : i \in 1 .. k}
    /\ \A i \in 1 .. k : \E j \in DOMAIN lists : Positions(groups[i]) \subseteq Positions(lists[j])

\* The jobs of a call, numbered: each answers positions of the call that were not
\* answered before, and every position is in one.
LEMMA ChunksLemma ==
    ASSUME NEW requests, IsCall(requests)
    PROVE  Planned(Chunks(requests), requests)
<1> DEFINE n == Len(requests)
           groups == Groups(requests)
           c == Len(groups)
<1>1. /\ n \in Nat /\ groups \in Lists(n) /\ Disjoint(groups)
      /\ \A p \in 1 .. n : \E i \in DOMAIN groups : p \in Positions(groups[i])
      /\ \A i \in DOMAIN groups : \A p \in Positions(groups[i]) :
            Positions(groups[i]) = SameDocument(requests, p)
  BY GroupsLemma DEF IsCall, Lists
<1>2. PICK f : IsJoinFold(f, groups) /\ Chunks(requests) = f[DOMAIN groups] BY <1>1, JoinFold
<1> HIDE DEF n, groups
<1>3. f[1 .. 0] = <<>> /\ \A k \in 1 .. c : f[1 .. k] = Joined(f[1 .. (k - 1)], groups[k])
  BY <1>1, <1>2, JoinFront
<1>4. c \in Nat /\ DOMAIN groups = 1 .. c BY <1>1 DEF Lists
<1> HIDE DEF c
<1> DEFINE N == {k \in Nat : k <= c => Joining(f[1 .. k], groups, n, k)}
<1>7. 0 \in N
  <2>3. Joining(f[1 .. 0], groups, n, 0) BY <1>3 DEF Joining, Lists, Disjoint, Covered
  <2> QED BY <2>3
<1>8. ASSUME NEW k \in Nat, k \in N PROVE k + 1 \in N
  <2> SUFFICES ASSUME k + 1 <= c PROVE Joining(f[1 .. (k + 1)], groups, n, k + 1) OBVIOUS
  <2> DEFINE old == f[1 .. k]
             new == f[1 .. (k + 1)]
             group == groups[k + 1]
  <2>1. k + 1 \in 1 .. c /\ (k + 1) - 1 = k /\ k <= c /\ k \in 0 .. c BY <1>4
  <2>2. Joining(old, groups, n, k) BY <1>8, <2>1
  <2>3. new = Joined(old, group) BY <1>3, <2>1
  <2>5. \A i \in 1 .. k + 1 : i \in 1 .. k \/ i = k + 1 OBVIOUS
  <2>6. group \in Seq(1 .. n) /\ \A i, h \in DOMAIN group : group[i] = group[h] => i = h
    <3>1. k + 1 \in DOMAIN groups /\ group \in Seq(1 .. n) BY <1>4, <2>1, <1>1 DEF Lists
    <3> DEFINE m == k + 1
    <3> HIDE DEF m
    <3> QED BY <3>1, <1>1 DEF m, Disjoint
  <2> HIDE DEF new, old, group, N
  <2>7. Covered(old) \intersect Positions(group) = {}
    <3>1. \A i \in 1 .. k : Positions(groups[i]) \intersect Positions(group) = {}
      <4> TAKE i \in 1 .. k
      <4> QED BY <2>1, <1>4, <1>1 DEF group, Disjoint, Positions
    <3> QED BY <3>1, <2>2 DEF Joining
  <2>8. /\ new \in Lists(n) /\ Disjoint(new)
        /\ Covered(new) = Covered(old) \union Positions(group)
        /\ Within(old, new)
        /\ \E j \in DOMAIN new : Positions(group) \subseteq Positions(new[j])
    BY <1>1, <2>2, <2>3, <2>6, <2>7, JoinedLemma DEF Joining
  <2>9. UNION {Positions(groups[i]) : i \in 1 .. k + 1} = Covered(old) \union Positions(group)
    BY <2>2, <2>5 DEF Joining, group
  <2>10. ASSUME NEW i \in 1 .. k + 1
         PROVE  \E j \in DOMAIN new : Positions(groups[i]) \subseteq Positions(new[j])
    BY <2>8, <2>2, <2>5 DEF group, Joining, Within
  <2> QED BY <2>8, <2>9, <2>10 DEF Joining, new
<1> HIDE DEF N
<1>9. Joining(f[1 .. c], groups, n, c)
  <2>1. c \in N BY <1>4, <1>7, <1>8, NumberInduction
  <2> QED BY <1>4, <2>1 DEF N
<1> DEFINE lists == Chunks(requests)
<1>10. Joining(lists, groups, n, c) BY <1>2, <1>4, <1>9
<1> HIDE DEF lists
<1>11. ASSUME NEW p \in 1 .. n
       PROVE  \E i \in DOMAIN lists :
                 p \in Positions(lists[i]) /\ SameDocument(requests, p) \subseteq Positions(lists[i])
  BY <1>1, <1>4, <1>10 DEF Joining
<1> QED BY <1>10, <1>11 DEF Planned, Joining, n, lists

-----------------------------------------------------------------------------
(* The evaluation: the inductive invariant.                                 *)

\* The locals of a rank.
Fields == {"at", "phase", "requested", "completed", "generator", "plan", "start", "seq", "rec",
           "call", "jobs", "cancelled", "replies", "ordered", "answers", "scores", "refused"}

\* A record of locals.
IsLocal(l) == l = [f \in Fields |-> l[f]]

\* The collectives in which a rank serves samples, or benchmarks; the others
\* are those of both phases.
SamplePlaces == {"plan", "round"}
\* Those in which it serves benchmarks.
BenchmarkPlaces == {"ready", "command", "replies", "stats", "after recurrence"}
\* Those of both phases.
CommonPlaces == {"agree", "before jobs", "after round", "publish", "after publication", "after phase"}
\* The collectives.
Places == SamplePlaces \union BenchmarkPlaces \union CommonPlaces

\* The locals of one rank: which requests and cancellations it may know of
\* where it is.
Flow(r, l) ==
    /\ IsLocal(l)
    /\ l.at \in Places \union Ended /\ l.phase \in Phases
    /\ l.requested \in BOOLEAN /\ l.cancelled \in BOOLEAN /\ ~l.refused
    /\ l.completed \subseteq Phases
    /\ l.start \in Nat /\ l.call \in Nat \ {0} /\ l.rec \in 1 .. Recurrences
    /\ l.at \in SamplePlaces => l.phase = "samples" /\ ~l.requested
    /\ l.at \in BenchmarkPlaces => l.phase = "benchmarks"
    /\ l.at \in {"ready", "replies"} => ~l.requested
    /\ l.at \in {"ready", "replies", "after round"} => ~l.cancelled
    /\ l.phase = "samples" => ~l.cancelled
    /\ l.at = "command" => (l.cancelled => r = Main)
    /\ l.at = "command" /\ r = Main => (l.requested <=> l.cancelled)
    /\ l.at \in {"after phase", "done"} => l.generator = Training
    /\ l.at = "round" \/ (l.at = "after round" /\ l.phase = "samples") => l.plan = SamplePlan

\* What two ranks have in common in the same collective.
SameControl(l, m) ==
    /\ l.at = m.at /\ l.phase = m.phase /\ l.requested = m.requested
    /\ l.completed = m.completed /\ l.rec = m.rec /\ l.seq = m.seq
    /\ l.phase = "samples" => l.start = m.start
    /\ l.at \in {"replies", "after round"} /\ l.phase = "benchmarks" => l.jobs = m.jobs
    /\ l.at # "command" => l.cancelled = m.cancelled

\* Any two ranks that are alive share their control.
LocalsAgree ==
    \A r, q \in Rank :
        local[r].at # "dead" /\ local[q].at # "dead" => SameControl(local[r], local[q])

\* What a rank contributes by its locals alone, when it is not asked for a flag.
Handed(r, l) ==
    CASE l.at = "plan" -> CommandOf(IF r = Main THEN Command(l, "plan", SamplePlan) ELSE NoCommand)
      [] l.at = "command" -> CommandOf(IF r = Main THEN MainCommand(l) ELSE NoCommand)
      [] l.at \in {"round", "replies"} -> ReplyOf(Reply(l, r, RoundJobs(l)))
      [] OTHER -> Nothing

\* What a rank in a collective contributed is what its locals say.
GivenHonestly ==
    \A r \in Rank : entered[r] =>
        /\ local[r].at \in Places
        /\ local[r].at \notin Polls => given[r] = Handed(r, local[r])

\* A rank that counts a phase as completed, or left its publication, knows its file is there.
FilesThere ==
    /\ \A r \in Rank :
          /\ \A p \in local[r].completed : artifact[p] # NoFile
          /\ local[r].at = "after publication" => artifact[local[r].phase] # NoFile
    /\ entered[Main] /\ local[Main].at = "publish" => artifact[local[Main].phase] # NoFile
    /\ DOMAIN artifact = Phases
    /\ \A p \in Phases : artifact[p] \in {NoFile, {Reference[p]}}

\* The answers of the first n jobs of the plan.
SampleAnswers(n) == [i \in 1 .. n |-> Answers(Seeded(SamplePlan[i].seed), SamplePlan[i])]

\* How far the main rank is with the samples.
SamplesInv(l) ==
    /\ l.rec = 1 /\ l.scores = <<>>
    /\ l.at \in {"agree", "before jobs", "plan"} => l.start = 0 /\ l.answers = <<>>
    /\ l.at = "round" => l.start < Len(SamplePlan) /\ l.answers = SampleAnswers(l.start)
    /\ l.at = "after round" =>
          /\ l.start < Len(SamplePlan)
          /\ l.answers = SampleAnswers(IF l.start + World < Len(SamplePlan)
                                       THEN l.start + World ELSE Len(SamplePlan))
    /\ l.at = "publish" => l.answers = SampleAnswers(Len(SamplePlan))

\* What a call's first n jobs answer, the calls before the n-th, the recurrences before it.
Partly(rec, call, n) ==
    LET jobs == BenchmarkJobs(rec, call)
    IN  [p \in DOMAIN Calls[call] |->
            IF \E i \in DOMAIN jobs : i <= n /\ p \in Range(jobs[i].positions)
            THEN BenchmarkReference[rec][call][p] ELSE Missing]
\* The answers of the calls before the n-th.
CallsAnswered(rec, n) == [c \in 1 .. n |-> BenchmarkReference[rec][c]]
\* The answers of the recurrences before the n-th.
Scored(n) == [rec \in 1 .. n |-> BenchmarkReference[rec]]

\* The evaluator waits in a call whose first jobs are answered.
InCall(l) ==
    /\ l.call \in DOMAIN Calls
    /\ l.ordered = Partly(l.rec, l.call, l.start)
    /\ l.answers = CallsAnswered(l.rec, l.call - 1)

\* The jobs of the round are those its call has next.
InRound(l) == l.jobs = RoundOf(BenchmarkJobs(l.rec, l.call), l.start)

\* How far the main rank is with the benchmarks.
BenchmarksInv(l) ==
    /\ l.at \in {"agree", "before jobs"} => l.rec = 1
    /\ l.at \in BenchmarkPlaces \union {"agree", "before jobs", "after round"} => l.scores = Scored(l.rec - 1)
    /\ l.at = "ready" => l.call = 1 /\ l.answers = <<>>
    /\ l.at = "command" /\ ~l.cancelled =>
          InCall(l) \/ (l.call = Len(Calls) + 1 /\ l.answers = CallsAnswered(l.rec, Len(Calls)))
    /\ l.at = "replies" => InCall(l) /\ InRound(l)
    /\ l.at = "after round" => InCall(l) /\ InRound(l)
          /\ \A r \in Rank : r + 1 \in DOMAIN l.jobs =>
                l.replies[r].values = Answers(Seeded(l.jobs[r + 1].seed), l.jobs[r + 1])
    /\ l.at \in {"stats", "after recurrence"} /\ ~l.cancelled => l.answers = CallsAnswered(l.rec, Len(Calls))
    /\ l.at = "publish" => l.scores = Scored(Recurrences)

\* How far the main rank is.
MainInv ==
    LET l == local[Main]
    IN  IF l.phase = "samples" THEN SamplesInv(l) ELSE BenchmarksInv(l)

\* The locals of every rank.
RanksInv == /\ DOMAIN local = Rank /\ entered \in [Rank -> BOOLEAN] /\ DOMAIN given = Rank
            /\ \A r \in Rank : Flow(r, local[r])

\* The inductive invariant.
EvaluationInv == RanksInv /\ LocalsAgree /\ GivenHonestly /\ FilesThere /\ MainInv

\* What two ranks do at a collective that meets.
Pair(r, q, l, m) == Flow(r, l) /\ Flow(q, m) /\ SameControl(l, m)

\* Two locals have the same fields, other than those of a set.
Keep(l, g, changed) ==
    /\ IsLocal(g)
    /\ "at" \notin changed => g.at = l.at
    /\ "phase" \notin changed => g.phase = l.phase
    /\ "requested" \notin changed => g.requested = l.requested
    /\ "completed" \notin changed => g.completed = l.completed
    /\ "generator" \notin changed => g.generator = l.generator
    /\ "plan" \notin changed => g.plan = l.plan
    /\ "start" \notin changed => g.start = l.start
    /\ "seq" \notin changed => g.seq = l.seq
    /\ "rec" \notin changed => g.rec = l.rec
    /\ "call" \notin changed => g.call = l.call
    /\ "jobs" \notin changed => g.jobs = l.jobs
    /\ "cancelled" \notin changed => g.cancelled = l.cancelled
    /\ "replies" \notin changed => g.replies = l.replies
    /\ "ordered" \notin changed => g.ordered = l.ordered
    /\ "answers" \notin changed => g.answers = l.answers
    /\ "scores" \notin changed => g.scores = l.scores
    /\ "refused" \notin changed => g.refused = l.refused

\* Entering a collective changes the place and the call number only.
LEMMA GotoKeeps ==
    ASSUME NEW l, NEW place, IsLocal(l)
    PROVE  Keep(l, Goto(l, place), {"at"}) /\ Goto(l, place).at = place
BY DEF Keep, IsLocal, Fields, Goto

\* Leaving a phase changes where a rank is, and what it knows of the phase.
LEMMA LeaveKeeps ==
    ASSUME NEW l, IsLocal(l)
    PROVE  /\ Keep(l, Leave(l, TRUE), {"at", "generator", "completed"})
           /\ Leave(l, TRUE).at = "after phase" /\ Leave(l, TRUE).generator = Training
           /\ Leave(l, TRUE).completed = l.completed \union {l.phase}
           /\ Keep(l, Leave(l, FALSE), {"at", "generator"})
           /\ Leave(l, FALSE).at = "after phase" /\ Leave(l, FALSE).generator = Training
<1>1. /\ Leave(l, TRUE) = [l EXCEPT !.at = "after phase", !.generator = Training,
                                    !.completed = @ \union {l.phase}]
      /\ Leave(l, FALSE) = [l EXCEPT !.at = "after phase", !.generator = Training, !.completed = @]
  BY DEF Leave
<1>2. Keep(l, Leave(l, TRUE), {"at", "generator", "completed"}) BY <1>1, ZenonT(60) DEF Keep, IsLocal, Fields
<1>3. Keep(l, Leave(l, FALSE), {"at", "generator"}) BY <1>1, ZenonT(60) DEF Keep, IsLocal, Fields
<1>4. /\ Leave(l, TRUE).at = "after phase" /\ Leave(l, TRUE).generator = Training
      /\ Leave(l, FALSE).at = "after phase" /\ Leave(l, FALSE).generator = Training
  BY <1>1 DEF IsLocal, Fields
<1>5. Leave(l, TRUE).completed = l.completed \union {l.phase} BY <1>1 DEF IsLocal, Fields
<1> QED BY <1>2, <1>3, <1>4, <1>5

\* Hearing of a request changes that flag only.
LEMMA RequestKeeps ==
    ASSUME NEW l, NEW b, IsLocal(l)
    PROVE  Keep(l, [l EXCEPT !.requested = b], {"requested"}) /\ [l EXCEPT !.requested = b].requested = b
BY DEF Keep, IsLocal, Fields

\* A recurrence starts with its locals reset.
LEMMA BeginKeeps ==
    ASSUME NEW l, IsLocal(l)
    PROVE  /\ Keep(l, BeginRecurrence(l),
                   {"at", "generator", "seq", "call", "start", "cancelled", "answers", "ordered"})
           /\ BeginRecurrence(l).at = "ready" /\ BeginRecurrence(l).seq = 0
           /\ BeginRecurrence(l).call = 1 /\ BeginRecurrence(l).start = 0
           /\ BeginRecurrence(l).cancelled = FALSE /\ BeginRecurrence(l).answers = <<>>
<1> DEFINE g == BeginRecurrence(l)
<1>1. IsLocal(g) BY DEF IsLocal, Fields, BeginRecurrence, Fields
<1>2. /\ g.at = "ready" /\ g.phase = l.phase /\ g.requested = l.requested
      /\ g.completed = l.completed /\ g.plan = l.plan
  BY SMTT(30) DEF IsLocal, Fields, BeginRecurrence
<1>3. /\ g.rec = l.rec /\ g.jobs = l.jobs /\ g.replies = l.replies /\ g.scores = l.scores
      /\ g.refused = l.refused
  BY SMTT(30) DEF IsLocal, Fields, BeginRecurrence
<1>4. /\ g.seq = 0 /\ g.call = 1 /\ g.start = 0 /\ g.cancelled = FALSE /\ g.answers = <<>>
  BY SMTT(30) DEF IsLocal, Fields, BeginRecurrence
<1> HIDE DEF g
<1> QED BY <1>2, <1>4, <1>1, <1>3 DEF g, Keep

\* A call starts with its locals reset.
LEMMA CallKeeps ==
    ASSUME NEW l, IsLocal(l)
    PROVE  /\ Keep(l, NextCall(l), {"at", "start", "ordered"})
           /\ NextCall(l).at = "command" /\ NextCall(l).start = 0
           /\ NextCall(l).ordered = IF l.call \in DOMAIN Calls
                                    THEN [p \in DOMAIN Calls[l.call] |-> Missing] ELSE <<>>
<1> DEFINE ordered == IF l.call \in DOMAIN Calls
                      THEN [p \in DOMAIN Calls[l.call] |-> Missing] ELSE <<>>
<1>1. NextCall(l) = [l EXCEPT !.at = "command", !.start = 0, !.ordered = ordered] BY Zenon DEF NextCall
<1> HIDE DEF ordered
<1>2. /\ Keep(l, NextCall(l), {"at", "start", "ordered"})
      /\ NextCall(l).at = "command" /\ NextCall(l).start = 0
      /\ NextCall(l).ordered = ordered
  BY <1>1 DEF Keep, IsLocal, Fields
<1> QED BY <1>2 DEF ordered

\* The next round of a call.
LEMMA StepKeeps ==
    ASSUME NEW l, NEW n, IsLocal(l)
    PROVE  Keep(l, [l EXCEPT !.start = n], {"start"}) /\ [l EXCEPT !.start = n].start = n
BY DEF Keep, IsLocal, Fields

\* The next round of samples.
LEMMA RoundKeeps ==
    ASSUME NEW l, IsLocal(l)
    PROVE  /\ Keep(l, SampleRound(l), {"at"})
           /\ SampleRound(l).at = IF l.start < Len(l.plan) THEN "round" ELSE "publish"
BY GotoKeeps DEF SampleRound

USE DEF Places, SamplePlaces, BenchmarkPlaces, CommonPlaces, Ended, Phases

-----------------------------------------------------------------------------
(* What two ranks do at a collective that meets.                            *)

\* Two ranks that go on to the next collective together.
LEMMA GotoStep ==
    ASSUME NEW r, NEW q, NEW l, NEW m, Pair(r, q, l, m),
           NEW place, \/ l.at = "agree" /\ place = "before jobs"
                      \/ l.at = "before jobs" /\ l.phase = "samples" /\ ~l.requested /\ place = "plan"
                      \/ l.at = "after phase" /\ place = "done"
                      \/ l.at = "after recurrence" /\ place = "publish"
                      \/ l.at = "stats" /\ place = "after recurrence"
                      \/ l.at = "publish" /\ place = "after publication"
    PROVE  Pair(r, q, Goto(l, place), Goto(m, place))
<1>1. m.at = l.at /\ IsLocal(l) /\ IsLocal(m) BY DEF Pair, SameControl, Flow
<1> DEFINE g == Goto(l, place)
           h == Goto(m, place)
<1>2. Keep(l, g, {"at"}) /\ g.at = place /\ Keep(m, h, {"at"}) /\ h.at = place BY <1>1, GotoKeeps
<1> HIDE DEF g, h
<1>3. /\ place \in Places \union Ended
      /\ place \in SamplePlaces => l.phase = "samples" /\ ~l.requested
      /\ place \in BenchmarkPlaces => l.phase = "benchmarks"
      /\ place \notin {"ready", "replies", "command", "round", "after round"}
      /\ place \in {"after phase", "done"} => l.at = "after phase"
  BY DEF Pair, Flow
<1>4. m.phase = l.phase /\ m.requested = l.requested BY DEF Pair, SameControl
<1>5. ASSUME NEW s, NEW k, NEW u, Flow(s, k), Keep(k, u, {"at"}), u.at = place,
             k.phase = l.phase, k.requested = l.requested, k.at = l.at
      PROVE  Flow(s, u)
  <2>1. /\ IsLocal(u) /\ u.phase = k.phase /\ u.requested = k.requested /\ u.completed = k.completed
        /\ u.cancelled = k.cancelled /\ u.refused = k.refused /\ u.start = k.start
        /\ u.call = k.call /\ u.rec = k.rec /\ u.generator = k.generator
    BY <1>5 DEF Keep
  <2>2. k.at = "after phase" => k.generator = Training BY <1>5 DEF Flow
  <2>3. /\ u.phase \in Phases /\ u.requested \in BOOLEAN /\ u.cancelled \in BOOLEAN /\ ~u.refused
        /\ u.completed \subseteq Phases
        /\ u.start \in Nat /\ u.call \in Nat \ {0} /\ u.rec \in 1 .. Recurrences
    BY <1>5, <2>1 DEF Flow
  <2>4. /\ u.at \in SamplePlaces => u.phase = "samples" /\ ~u.requested
        /\ u.at \in BenchmarkPlaces => u.phase = "benchmarks"
        /\ u.at \in {"after phase", "done"} => u.generator = Training
    BY <1>3, <1>5, <2>1, <2>2
  <2> QED BY <1>3, <1>5, <2>1, <2>3, <2>4 DEF Flow
<1>6. Flow(r, g) BY <1>2, <1>5 DEF Pair
<1>7. Flow(q, h) BY <1>1, <1>2, <1>4, <1>5 DEF Pair
<1>8. SameControl(g, h) BY <1>1, <1>2 DEF Pair, SameControl, Keep
<1> QED BY <1>6, <1>7, <1>8 DEF Pair, g, h

\* A poll tells all ranks the same.
Asked(l, b) == [l EXCEPT !.requested = b]

\* Two ranks that poll a flag together.
LEMMA PollStep ==
    ASSUME NEW r, NEW q, NEW l, NEW m, NEW b \in BOOLEAN, Pair(r, q, l, m), l.at \in Polls
    PROVE  /\ Keep(l, Asked(l, b), {"requested"}) /\ Keep(m, Asked(m, b), {"requested"})
           /\ Asked(l, b).requested = b /\ Asked(m, b).requested = b
           /\ Flow(r, Asked(l, b)) /\ Flow(q, Asked(m, b)) /\ SameControl(Asked(l, b), Asked(m, b))
<1>1. m.at = l.at /\ IsLocal(l) /\ IsLocal(m) BY DEF Pair, SameControl, Flow
<1> DEFINE g == Asked(l, b)
           h == Asked(m, b)
<1>2. Keep(l, g, {"requested"}) /\ g.requested = b /\ Keep(m, h, {"requested"}) /\ h.requested = b
  BY <1>1, RequestKeeps DEF Asked
<1> HIDE DEF g, h
<1>3. Flow(r, g) BY <1>1, <1>2 DEF Pair, Flow, Keep, Polls
<1>4. Flow(q, h) BY <1>1, <1>2 DEF Pair, Flow, Keep, Polls
<1>5. SameControl(g, h) BY <1>1, <1>2 DEF Pair, SameControl, Keep, Polls
<1> QED BY <1>2, <1>3, <1>4, <1>5 DEF g, h

\* The session of a phase ends on all ranks.
LEMMA LeaveStep ==
    ASSUME NEW r, NEW q, NEW l, NEW m, NEW b \in BOOLEAN, Pair(r, q, l, m), l.at \in Polls
    PROVE  Pair(r, q, Leave(l, b), Leave(m, b))
<1>1. m.at = l.at /\ IsLocal(l) /\ IsLocal(m) BY DEF Pair, SameControl, Flow
<1> DEFINE g == Leave(l, b)
           h == Leave(m, b)
<1>2. /\ Keep(l, g, {"at", "generator", "completed"}) /\ Keep(m, h, {"at", "generator", "completed"})
      /\ g.at = "after phase" /\ h.at = "after phase"
      /\ g.generator = Training /\ h.generator = Training
      /\ g.completed = IF b THEN l.completed \union {l.phase} ELSE l.completed
      /\ h.completed = IF b THEN m.completed \union {m.phase} ELSE m.completed
  <2>1. CASE b BY <1>1, <2>1, LeaveKeeps
  <2>2. CASE ~b
    <3>1. b = FALSE BY <2>2
    <3>2. Keep(l, g, {"at", "generator"}) /\ Keep(m, h, {"at", "generator"})
          /\ g.at = "after phase" /\ h.at = "after phase"
          /\ g.generator = Training /\ h.generator = Training
      BY <1>1, <3>1, LeaveKeeps
    <3> HIDE DEF g, h
    <3> QED BY <2>2, <3>2 DEF Keep
  <2> QED BY <2>1, <2>2
<1> HIDE DEF g, h
<1>3. /\ g.completed \subseteq Phases /\ h.completed \subseteq Phases
      /\ IsLocal(g) /\ IsLocal(h) /\ g.phase = l.phase /\ h.phase = m.phase
      /\ g.requested = l.requested /\ h.requested = m.requested
      /\ g.cancelled = l.cancelled /\ h.cancelled = m.cancelled
      /\ g.refused = l.refused /\ h.refused = m.refused
      /\ g.start = l.start /\ h.start = m.start /\ g.call = l.call /\ h.call = m.call
      /\ g.rec = l.rec /\ h.rec = m.rec
  <2>1. l.phase \in Phases /\ m.phase \in Phases /\ l.completed \subseteq Phases /\ m.completed \subseteq Phases
    BY DEF Pair, Flow
  <2>2. g.completed \subseteq Phases /\ h.completed \subseteq Phases BY <1>2, <2>1
  <2> QED BY <1>2, <2>2 DEF Keep
<1>4. Flow(r, g) BY <1>1, <1>2, <1>3 DEF Pair, Flow, Polls
<1>5. Flow(q, h) BY <1>1, <1>2, <1>3 DEF Pair, Flow, Polls
<1>6. SameControl(g, h) BY <1>1, <1>2 DEF Pair, SameControl, Keep, Polls
<1> QED BY <1>4, <1>5, <1>6 DEF Pair, g, h

\* A session of the benchmarks begins on all ranks that know of no request.
LEMMA BeginStep ==
    ASSUME NEW r, NEW q, NEW l, NEW m, Pair(r, q, l, m), l.phase = "benchmarks", ~l.requested
    PROVE  Pair(r, q, BeginRecurrence(l), BeginRecurrence(m))
<1>1. m.phase = "benchmarks" /\ ~m.requested /\ IsLocal(l) /\ IsLocal(m) BY DEF Pair, SameControl, Flow
<1> DEFINE g == BeginRecurrence(l)
           h == BeginRecurrence(m)
           F == {"at", "generator", "seq", "call", "start", "cancelled", "answers", "ordered"}
<1>2. /\ Keep(l, g, F) /\ Keep(m, h, F)
      /\ g.at = "ready" /\ h.at = "ready" /\ g.seq = 0 /\ h.seq = 0
      /\ g.call = 1 /\ h.call = 1 /\ g.start = 0 /\ h.start = 0
      /\ g.cancelled = FALSE /\ h.cancelled = FALSE
  BY <1>1, BeginKeeps
<1> HIDE DEF g, h
<1>3. /\ g.completed = l.completed /\ h.completed = m.completed
      /\ IsLocal(g) /\ IsLocal(h) /\ g.phase = l.phase /\ h.phase = m.phase
      /\ g.requested = l.requested /\ h.requested = m.requested
      /\ g.refused = l.refused /\ h.refused = m.refused
      /\ g.rec = l.rec /\ h.rec = m.rec
  BY <1>2 DEF Keep
<1>4. g.cancelled \in BOOLEAN /\ ~g.cancelled /\ h.cancelled \in BOOLEAN /\ ~h.cancelled BY <1>2
<1>5. g.start \in Nat /\ h.start \in Nat /\ g.call \in Nat \ {0} /\ h.call \in Nat \ {0} BY <1>2
<1>6. Flow(r, g) BY <1>1, <1>2, <1>3, <1>4, <1>5 DEF Pair, Flow
<1>7. Flow(q, h) BY <1>1, <1>2, <1>3, <1>4, <1>5 DEF Pair, Flow
<1>8. SameControl(g, h) BY <1>1, <1>2 DEF Pair, SameControl, Keep
<1> QED BY <1>6, <1>7, <1>8 DEF Pair, g, h

\* Samples go on, or are published, on all ranks.
LEMMA RoundStep ==
    ASSUME NEW r, NEW q, NEW l, NEW m, Flow(r, l), Flow(q, m), SameControl(l, m),
           l.phase = "samples", l.at \in {"plan", "after round"}, l.plan = SamplePlan, m.plan = SamplePlan,
           l.requested => ~(l.start < Len(SamplePlan))
    PROVE  Pair(r, q, SampleRound(l), SampleRound(m))
<1>1. m.phase = "samples" /\ m.at = l.at /\ m.requested = l.requested /\ m.start = l.start
      /\ m.cancelled = l.cancelled /\ IsLocal(l) /\ IsLocal(m)
  BY DEF SameControl, Flow
<1> DEFINE g == SampleRound(l)
           h == SampleRound(m)
           place == IF l.start < Len(SamplePlan) THEN "round" ELSE "publish"
<1>2. Keep(l, g, {"at"}) /\ g.at = place /\ Keep(m, h, {"at"}) /\ h.at = place BY <1>1, RoundKeeps
<1> HIDE DEF g, h
<1>3. Flow(r, g) BY <1>1, <1>2 DEF Flow, Keep
<1>4. Flow(q, h) BY <1>1, <1>2 DEF Flow, Keep
<1>5. SameControl(g, h) BY <1>1, <1>2 DEF SameControl, Keep
<1> QED BY <1>3, <1>4, <1>5 DEF Pair, g, h

\* One field of the locals changes.
LEMMA OtherKeeps ==
    ASSUME NEW l, NEW x, IsLocal(l)
    PROVE  /\ Keep(l, [l EXCEPT !.plan = x], {"plan"}) /\ [l EXCEPT !.plan = x].plan = x
           /\ Keep(l, [l EXCEPT !.scores = x], {"scores"}) /\ [l EXCEPT !.scores = x].scores = x
           /\ Keep(l, [l EXCEPT !.rec = x], {"rec"}) /\ [l EXCEPT !.rec = x].rec = x
BY DEF Keep, IsLocal, Fields

\* What a rank does at each place, with what all contributed.
Commands(gave) == [q \in Rank |-> gave[q].command]
\* The replies a collective was given.
Replies(gave) == [q \in Rank |-> gave[q].reply]

\* What a rank does when its collective meets, by its place.
LEMMA ContinueLemma ==
    ASSUME NEW r, NEW l, NEW gave
    PROVE  /\ Polled(r, gave) \in BOOLEAN
           /\ l.at = "agree" => Continue(r, l, gave) = Goto(l, "before jobs")
           /\ l.at = "before jobs" =>
                 Continue(r, l, gave) = AfterFirstPoll(Asked(l, Polled(r, gave)))
           /\ l.at = "plan" => Continue(r, l, gave) = AfterPlan(l, Commands(gave))
           /\ l.at = "round" => Continue(r, l, gave) = AfterRound(r, l, Replies(gave))
           /\ l.at = "after round" /\ l.phase = "samples" =>
                 Continue(r, l, gave) = AfterSampleRound(Asked(l, Polled(r, gave)))
           /\ l.at = "after round" /\ l.phase # "samples" =>
                 Continue(r, l, gave) = AfterBenchmarkRound(r, Asked(l, Polled(r, gave)))
           /\ l.at = "ready" => Continue(r, l, gave) = Ready(r, l)
           /\ l.at = "command" => Continue(r, l, gave) = AfterCommand(l, Commands(gave))
           /\ l.at = "replies" => Continue(r, l, gave) = AfterReplies(l, Replies(gave))
           /\ l.at = "stats" => Continue(r, l, gave) = Goto(l, "after recurrence")
           /\ l.at = "after recurrence" =>
                 Continue(r, l, gave) = AfterRecurrence(Asked(l, Polled(r, gave)))
           /\ l.at = "publish" => Continue(r, l, gave) = Goto(l, "after publication")
           /\ l.at = "after publication" =>
                 Continue(r, l, gave) = Leave(Asked(l, Polled(r, gave)), TRUE)
           /\ l.at = "after phase" =>
                 Continue(r, l, gave) = NextPhase(Asked(l, Polled(r, gave)))
<1>1. Polled(r, gave) \in BOOLEAN BY DEF Polled
<1>2. /\ l.at = "agree" => Continue(r, l, gave) = Goto(l, "before jobs")
      /\ l.at = "ready" => Continue(r, l, gave) = Ready(r, l)
      /\ l.at = "stats" => Continue(r, l, gave) = Goto(l, "after recurrence")
      /\ l.at = "publish" => Continue(r, l, gave) = Goto(l, "after publication")
  BY DEF Continue, Asked
<1>3. /\ l.at = "plan" => Continue(r, l, gave) = AfterPlan(l, Commands(gave))
      /\ l.at = "round" => Continue(r, l, gave) = AfterRound(r, l, Replies(gave))
      /\ l.at = "command" => Continue(r, l, gave) = AfterCommand(l, Commands(gave))
      /\ l.at = "replies" => Continue(r, l, gave) = AfterReplies(l, Replies(gave))
  BY DEF Continue, Commands, Replies
<1>4. /\ l.at = "before jobs" =>
            Continue(r, l, gave) = AfterFirstPoll(Asked(l, Polled(r, gave)))
      /\ l.at = "after round" /\ l.phase = "samples" =>
            Continue(r, l, gave) = AfterSampleRound(Asked(l, Polled(r, gave)))
      /\ l.at = "after round" /\ l.phase # "samples" =>
            Continue(r, l, gave) = AfterBenchmarkRound(r, Asked(l, Polled(r, gave)))
  BY DEF Continue, Asked
<1>5. /\ l.at = "after recurrence" =>
            Continue(r, l, gave) = AfterRecurrence(Asked(l, Polled(r, gave)))
      /\ l.at = "after publication" =>
            Continue(r, l, gave) = Leave(Asked(l, Polled(r, gave)), TRUE)
      /\ l.at = "after phase" =>
            Continue(r, l, gave) = NextPhase(Asked(l, Polled(r, gave)))
  BY DEF Continue, Asked
<1> QED BY <1>1, <1>2, <1>3, <1>4, <1>5

\* A rank's verdicts are what they were, and it is not behind a publication.
Settled(l, g) == g.completed = l.completed /\ g.at # "after publication"

\* After the first poll two ranks enter a phase, or leave the evaluation, together.
LEMMA FirstPollStep ==
    ASSUME NEW r, NEW q, NEW l, NEW m, NEW b \in BOOLEAN, Pair(r, q, l, m), l.at = "before jobs"
    PROVE  /\ Pair(r, q, AfterFirstPoll(Asked(l, b)), AfterFirstPoll(Asked(m, b)))
           /\ Settled(l, AfterFirstPoll(Asked(l, b)))
<1>1. l.at \in Polls BY DEF Polls
<1> DEFINE g == Asked(l, b)
           h == Asked(m, b)
<1>2. /\ Keep(l, g, {"requested"}) /\ Keep(m, h, {"requested"})
      /\ g.requested = b /\ h.requested = b
      /\ Flow(r, g) /\ Flow(q, h) /\ SameControl(g, h)
  BY <1>1, PollStep
<1> HIDE DEF g, h
<1>3. /\ Pair(r, q, g, h) /\ IsLocal(g) /\ g.at = "before jobs" /\ g.at \in Polls /\ g.completed = l.completed
      /\ h.requested = g.requested /\ h.phase = g.phase
  BY <1>2 DEF Pair, Keep, SameControl, Polls
<1>4. CASE b
  <2>1. AfterFirstPoll(g) = Leave(g, FALSE) /\ AfterFirstPoll(h) = Leave(h, FALSE)
    BY <1>2, <1>4 DEF AfterFirstPoll
  <2>2. Pair(r, q, Leave(g, FALSE), Leave(h, FALSE)) BY <1>3, LeaveStep
  <2>3. Settled(l, Leave(g, FALSE)) BY <1>3, LeaveKeeps DEF Settled, Keep
  <2> QED BY <1>2, <2>1, <2>2, <2>3 DEF g, h
<1>5. CASE ~b /\ g.phase = "samples"
  <2>1. AfterFirstPoll(g) = Goto(g, "plan") /\ AfterFirstPoll(h) = Goto(h, "plan")
    BY <1>2, <1>3, <1>5 DEF AfterFirstPoll
  <2>2. Pair(r, q, Goto(g, "plan"), Goto(h, "plan")) BY <1>2, <1>3, <1>5, GotoStep
  <2>3. Settled(l, Goto(g, "plan"))
    <3>1. Keep(g, Goto(g, "plan"), {"at"}) /\ Goto(g, "plan").at = "plan" BY <1>3, GotoKeeps
    <3> QED BY <1>3, <3>1 DEF Settled, Keep
  <2> QED BY <1>2, <2>1, <2>2, <2>3 DEF g, h
<1>6. CASE ~b /\ g.phase # "samples"
  <2>1. AfterFirstPoll(g) = BeginRecurrence(g) /\ AfterFirstPoll(h) = BeginRecurrence(h)
    BY <1>2, <1>3, <1>6 DEF AfterFirstPoll
  <2>2. g.phase = "benchmarks" BY <1>2, <1>6 DEF Flow
  <2>3. Pair(r, q, BeginRecurrence(g), BeginRecurrence(h)) BY <1>2, <1>3, <1>6, <2>2, BeginStep
  <2>4. Settled(l, BeginRecurrence(g)) BY <1>3, BeginKeeps DEF Settled, Keep
  <2> QED BY <1>2, <2>1, <2>3, <2>4 DEF g, h
<1> QED BY <1>4, <1>5, <1>6 DEF g, h

\* Behind a phase two ranks enter the next one together.
LEMMA NextPhaseStep ==
    ASSUME NEW r, NEW q, NEW l, NEW m, NEW b \in BOOLEAN, Pair(r, q, l, m), l.at = "after phase"
    PROVE  /\ Pair(r, q, NextPhase(Asked(l, b)), NextPhase(Asked(m, b)))
           /\ Settled(l, NextPhase(Asked(l, b)))
<1>1. l.at \in Polls BY DEF Polls
<1> DEFINE g == Asked(l, b)
           h == Asked(m, b)
<1>2. /\ Keep(l, g, {"requested"}) /\ Keep(m, h, {"requested"})
      /\ g.requested = b /\ h.requested = b
      /\ Flow(r, g) /\ Flow(q, h) /\ SameControl(g, h)
  BY <1>1, PollStep
<1> HIDE DEF g, h
<1>3. /\ Pair(r, q, g, h) /\ IsLocal(g) /\ IsLocal(h) /\ g.at = "after phase" /\ h.at = "after phase"
      /\ g.completed = l.completed /\ h.requested = g.requested /\ h.phase = g.phase
  BY <1>2 DEF Pair, Keep, SameControl
<1>4. CASE ~g.requested /\ g.phase = "samples"
  <2> DEFINE u == Enter(g, "benchmarks")
             v == Enter(h, "benchmarks")
  <2>1. NextPhase(g) = u /\ NextPhase(h) = v BY <1>3, <1>4 DEF NextPhase
  <2>2. /\ Keep(g, u, {"at", "phase"}) /\ u.at = "agree" /\ u.phase = "benchmarks"
        /\ Keep(h, v, {"at", "phase"}) /\ v.at = "agree" /\ v.phase = "benchmarks"
    BY <1>3 DEF Keep, IsLocal, Fields, Enter
  <2> HIDE DEF u, v
  <2>3. Flow(r, u) BY <1>2, <1>3, <2>2 DEF Flow, Keep
  <2>4. Flow(q, v) BY <1>2, <1>3, <2>2 DEF Flow, Keep
  <2>5. SameControl(u, v) BY <1>2, <1>3, <2>2, ZenonT(60) DEF SameControl, Keep
  <2>6. Settled(l, u) BY <1>3, <2>2 DEF Settled, Keep
  <2> QED BY <1>2, <2>1, <2>3, <2>4, <2>5, <2>6 DEF Pair, g, h
<1>5. CASE ~(~g.requested /\ g.phase = "samples")
  <2>1. NextPhase(g) = Goto(g, "done") /\ NextPhase(h) = Goto(h, "done") BY <1>3, <1>5 DEF NextPhase
  <2>2. Pair(r, q, Goto(g, "done"), Goto(h, "done")) BY <1>3, GotoStep
  <2>3. Settled(l, Goto(g, "done"))
    <3>1. Keep(g, Goto(g, "done"), {"at"}) /\ Goto(g, "done").at = "done" BY <1>3, GotoKeeps
    <3> QED BY <1>3, <3>1 DEF Settled, Keep
  <2> QED BY <1>2, <2>1, <2>2, <2>3 DEF g, h
<1> QED BY <1>4, <1>5 DEF g, h

\* Two ranks leave a publication together.
LEMMA PublicationStep ==
    ASSUME NEW r, NEW q, NEW l, NEW m, NEW b \in BOOLEAN, Pair(r, q, l, m), l.at = "after publication"
    PROVE  /\ Pair(r, q, Leave(Asked(l, b), TRUE), Leave(Asked(m, b), TRUE))
           /\ Leave(Asked(l, b), TRUE).completed = l.completed \union {l.phase}
           /\ Leave(Asked(l, b), TRUE).at # "after publication"
<1>1. l.at \in Polls BY DEF Polls
<1> DEFINE g == Asked(l, b)
           h == Asked(m, b)
<1>2. /\ Keep(l, g, {"requested"}) /\ Keep(m, h, {"requested"})
      /\ g.requested = b /\ h.requested = b
      /\ Flow(r, g) /\ Flow(q, h) /\ SameControl(g, h)
  BY <1>1, PollStep
<1> HIDE DEF g, h
<1>3. Pair(r, q, g, h) /\ IsLocal(g) /\ g.at \in Polls /\ g.completed = l.completed /\ g.phase = l.phase
  BY <1>1, <1>2 DEF Pair, Keep
<1>4. Pair(r, q, Leave(g, TRUE), Leave(h, TRUE)) BY <1>3, LeaveStep
<1>5. Leave(g, TRUE).completed = l.completed \union {l.phase} /\ Leave(g, TRUE).at # "after publication"
  BY <1>3, LeaveKeeps
<1> QED BY <1>2, <1>4, <1>5 DEF g, h

\* The recurrence behind one that is not the last.
LEMMA NextRecurrence ==
    ASSUME NEW n \in 1 .. Recurrences, n < Recurrences
    PROVE  n + 1 \in 1 .. Recurrences
<1> QED BY PlanAssumption

\* Behind a recurrence two ranks begin the next one, or publish, together.
LEMMA RecurrenceStep ==
    ASSUME NEW r, NEW q, NEW l, NEW m, NEW b \in BOOLEAN, Pair(r, q, l, m), l.at = "after recurrence"
    PROVE  /\ Pair(r, q, AfterRecurrence(Asked(l, b)), AfterRecurrence(Asked(m, b)))
           /\ Settled(l, AfterRecurrence(Asked(l, b)))
<1>1. l.at \in Polls BY DEF Polls
<1> DEFINE g == Asked(l, b)
           h == Asked(m, b)
<1>2. /\ Keep(l, g, {"requested"}) /\ Keep(m, h, {"requested"})
      /\ g.requested = b /\ h.requested = b
      /\ Flow(r, g) /\ Flow(q, h) /\ SameControl(g, h)
  BY <1>1, PollStep
<1> HIDE DEF g, h
<1>3. /\ Pair(r, q, g, h) /\ IsLocal(g) /\ IsLocal(h) /\ g.at = "after recurrence"
      /\ g.completed = l.completed /\ h.requested = g.requested /\ h.cancelled = g.cancelled
      /\ h.rec = g.rec /\ g.rec \in 1 .. Recurrences /\ g.phase = "benchmarks"
      /\ h.at = "after recurrence" /\ h.phase = "benchmarks"
  BY <1>2 DEF Pair, Keep, SameControl, Flow
<1> DEFINE Scores(k) == IF k.cancelled THEN k ELSE [k EXCEPT !.scores = Append(@, k.answers)]
           u == Scores(g)
           v == Scores(h)
<1>4. \A k : IsLocal(k) => Keep(k, Scores(k), {"scores"})
  <2> SUFFICES ASSUME NEW k, IsLocal(k) PROVE Keep(k, Scores(k), {"scores"}) OBVIOUS
  <2>1. CASE k.cancelled BY <2>1 DEF Keep
  <2>2. CASE ~k.cancelled
    <3> DEFINE x == Append(k.scores, k.answers)
    <3>1. Scores(k) = [k EXCEPT !.scores = x] BY <2>2 DEF IsLocal, Fields
    <3> HIDE DEF x
    <3> QED BY <3>1, OtherKeeps, ZenonT(60)
  <2> QED BY <2>1, <2>2
<1>5. Keep(g, u, {"scores"}) /\ Keep(h, v, {"scores"}) BY <1>3, <1>4
<1> HIDE DEF u, v
<1>6. Pair(r, q, u, v) /\ IsLocal(u) /\ IsLocal(v)
  <2>1. Flow(r, u) BY <1>2, <1>3, <1>5 DEF Flow, Keep
  <2>2. Flow(q, v) BY <1>2, <1>3, <1>5 DEF Flow, Keep
  <2>3. SameControl(u, v) BY <1>2, <1>5 DEF SameControl, Keep
  <2> QED BY <2>1, <2>2, <2>3 DEF Pair, Flow
<1>7. /\ u.at = "after recurrence" /\ u.rec = g.rec /\ v.rec = g.rec /\ u.completed = l.completed
      /\ u.phase = "benchmarks" /\ u.requested = g.requested /\ u.at \in Polls
      /\ v.at = "after recurrence" /\ v.phase = "benchmarks"
  BY <1>3, <1>5 DEF Keep, Polls
<1>8. CASE g.cancelled \/ (g.requested /\ g.rec < Recurrences)
  <2>1. /\ AfterRecurrence(g) = Leave(u, FALSE) /\ AfterRecurrence(h) = Leave(v, FALSE)
    BY <1>3, <1>8 DEF AfterRecurrence, u, v
  <2>2. Pair(r, q, Leave(u, FALSE), Leave(v, FALSE)) BY <1>6, <1>7, LeaveStep
  <2>3. Settled(l, Leave(u, FALSE)) BY <1>6, <1>7, LeaveKeeps DEF Settled, Keep
  <2> QED BY <1>2, <2>1, <2>2, <2>3 DEF g, h
<1>9. CASE ~(g.cancelled \/ (g.requested /\ g.rec < Recurrences)) /\ g.rec < Recurrences
  <2> DEFINE s == [u EXCEPT !.rec = @ + 1]
             t == [v EXCEPT !.rec = @ + 1]
             n == g.rec + 1
  <2>1. AfterRecurrence(g) = BeginRecurrence(s) /\ AfterRecurrence(h) = BeginRecurrence(t)
    BY <1>3, <1>9 DEF AfterRecurrence, u, v
  <2>2. s = [u EXCEPT !.rec = n] /\ t = [v EXCEPT !.rec = n] BY <1>6, <1>7 DEF IsLocal, Fields
  <2>3. n \in 1 .. Recurrences
    <3>1. g.rec < Recurrences BY <1>9
    <3> QED BY <1>3, <3>1, NextRecurrence
  <2> HIDE DEF s, t, n
  <2>4. Keep(u, s, {"rec"}) /\ s.rec = n /\ Keep(v, t, {"rec"}) /\ t.rec = n BY <1>6, <2>2, OtherKeeps
  <2>5. Pair(r, q, s, t)
    <3>1. Flow(r, s) BY <1>6, <1>7, <2>3, <2>4 DEF Pair, Flow, Keep
    <3>2. Flow(q, t) BY <1>6, <1>7, <2>3, <2>4 DEF Pair, Flow, Keep
    <3>3. SameControl(s, t) BY <1>6, <2>4 DEF Pair, SameControl, Keep
    <3> QED BY <3>1, <3>2, <3>3 DEF Pair
  <2>6. s.phase = "benchmarks" /\ ~s.requested /\ IsLocal(s) /\ s.completed = l.completed
    BY <1>7, <1>9, <2>4 DEF Keep
  <2>7. Pair(r, q, BeginRecurrence(s), BeginRecurrence(t)) BY <2>5, <2>6, BeginStep
  <2>8. Settled(l, BeginRecurrence(s)) BY <2>6, BeginKeeps DEF Settled, Keep
  <2> QED BY <1>2, <2>1, <2>7, <2>8 DEF g, h
<1>10. CASE ~(g.cancelled \/ (g.requested /\ g.rec < Recurrences)) /\ ~(g.rec < Recurrences)
  <2>1. AfterRecurrence(g) = Goto(u, "publish") /\ AfterRecurrence(h) = Goto(v, "publish")
    BY <1>3, <1>10 DEF AfterRecurrence, u, v
  <2>2. Pair(r, q, Goto(u, "publish"), Goto(v, "publish")) BY <1>6, <1>7, GotoStep
  <2>3. Settled(l, Goto(u, "publish"))
    <3>1. Keep(u, Goto(u, "publish"), {"at"}) /\ Goto(u, "publish").at = "publish" BY <1>6, <1>7, GotoKeeps
    <3> QED BY <1>6, <1>7, <3>1 DEF Settled, Keep
  <2> QED BY <1>2, <2>1, <2>2, <2>3 DEF g, h
<1> QED BY <1>8, <1>9, <1>10 DEF g, h

\* A sum of numbers.
LEMMA SumInNat == ASSUME NEW a \in Nat, NEW b \in Nat PROVE a + b \in Nat
OBVIOUS

\* Two ranks take the one plan that was given.
LEMMA PlanStep ==
    ASSUME NEW r, NEW q, NEW l, NEW m, NEW commands, Pair(r, q, l, m), l.at = "plan",
           OneCommand(commands), commands[Main].jobs = SamplePlan
    PROVE  Pair(r, q, AfterPlan(l, commands), AfterPlan(m, commands)) /\ Settled(l, AfterPlan(l, commands))
<1> DEFINE g == [l EXCEPT !.plan = SamplePlan]
           h == [m EXCEPT !.plan = SamplePlan]
<1>1. /\ AfterPlan(l, commands) = SampleRound(g) /\ AfterPlan(m, commands) = SampleRound(h) BY DEF AfterPlan
<1>2. m.at = "plan" /\ IsLocal(l) /\ IsLocal(m) /\ l.phase = "samples" /\ ~l.requested
  BY DEF Pair, SameControl, Flow
<1>3. Keep(l, g, {"plan"}) /\ g.plan = SamplePlan /\ Keep(m, h, {"plan"}) /\ h.plan = SamplePlan
  BY <1>2 DEF Keep, IsLocal, Fields, g, h
<1> HIDE DEF g, h
<1>4. Flow(r, g) BY <1>2, <1>3 DEF Pair, Flow, Keep
<1>5. Flow(q, h) BY <1>2, <1>3 DEF Pair, Flow, Keep
<1>6. SameControl(g, h) BY <1>2, <1>3 DEF Pair, SameControl, Keep
<1>7. /\ g.phase = "samples" /\ g.at \in {"plan", "after round"} /\ ~g.requested /\ IsLocal(g)
      /\ g.completed = l.completed
  BY <1>2, <1>3 DEF Keep
<1>8. Pair(r, q, SampleRound(g), SampleRound(h)) BY <1>3, <1>4, <1>5, <1>6, <1>7, RoundStep
<1>9. Settled(l, SampleRound(g)) BY <1>7, RoundKeeps DEF Settled, Keep
<1> QED BY <1>1, <1>8, <1>9

\* Two ranks find the same replies of a round of samples.
LEMMA SampleRepliesStep ==
    ASSUME NEW r, NEW q, NEW l, NEW m, NEW replies, Pair(r, q, l, m), l.at = "round",
           RepliesMatch(l, RoundOf(l.plan, l.start), replies),
           RepliesMatch(m, RoundOf(m.plan, m.start), replies)
    PROVE  /\ Pair(r, q, AfterRound(r, l, replies), AfterRound(q, m, replies))
           /\ Settled(l, AfterRound(r, l, replies))
<1> DEFINE g == AfterRound(r, l, replies)
           h == AfterRound(q, m, replies)
<1>1. m.at = "round" /\ IsLocal(l) /\ IsLocal(m) /\ l.plan = SamplePlan /\ m.plan = SamplePlan
      /\ ~l.cancelled /\ ~m.cancelled
  BY DEF Pair, SameControl, Flow
<1>2. \A s, k : IsLocal(k) /\ RepliesMatch(k, RoundOf(k.plan, k.start), replies) =>
         /\ Keep(k, AfterRound(s, k, replies), {"at", "answers"})
         /\ AfterRound(s, k, replies).at = "after round"
  <2> SUFFICES ASSUME NEW s, NEW k, IsLocal(k), RepliesMatch(k, RoundOf(k.plan, k.start), replies)
               PROVE  /\ Keep(k, AfterRound(s, k, replies), {"at", "answers"})
                      /\ AfterRound(s, k, replies).at = "after round"
    OBVIOUS
  <2> DEFINE x == IF s = Main
                  THEN k.answers \o [i \in DOMAIN RoundOf(k.plan, k.start) |-> replies[i - 1].values]
                  ELSE k.answers
  <2>1. AfterRound(s, k, replies) = [k EXCEPT !.at = "after round", !.answers = x]
    BY DEF AfterRound, IsLocal, Fields
  <2> HIDE DEF x
  <2> QED BY <2>1 DEF Keep, IsLocal, Fields
<1>3. Keep(l, g, {"at", "answers"}) /\ g.at = "after round" /\ Keep(m, h, {"at", "answers"}) /\ h.at = "after round"
  BY <1>1, <1>2
<1> HIDE DEF g, h
<1>4. Flow(r, g) BY <1>1, <1>3 DEF Pair, Flow, Keep
<1>5. Flow(q, h) BY <1>1, <1>3 DEF Pair, Flow, Keep
<1>6. SameControl(g, h) BY <1>1, <1>3, ZenonT(60) DEF Pair, SameControl, Flow, Keep
<1>7. Settled(l, g) BY <1>3 DEF Settled, Keep
<1> QED BY <1>4, <1>5, <1>6, <1>7 DEF Pair, g, h

\* Behind a round of samples two ranks go on together.
LEMMA SamplePollStep ==
    ASSUME NEW r, NEW q, NEW l, NEW m, NEW b \in BOOLEAN, Pair(r, q, l, m),
           l.at = "after round", l.phase = "samples"
    PROVE  /\ Pair(r, q, AfterSampleRound(Asked(l, b)), AfterSampleRound(Asked(m, b)))
           /\ Settled(l, AfterSampleRound(Asked(l, b)))
<1>1. l.at \in Polls BY DEF Polls
<1> DEFINE g == Asked(l, b)
           h == Asked(m, b)
<1>2. /\ Keep(l, g, {"requested"}) /\ Keep(m, h, {"requested"})
      /\ g.requested = b /\ h.requested = b
      /\ Flow(r, g) /\ Flow(q, h) /\ SameControl(g, h)
  BY <1>1, PollStep
<1> HIDE DEF g, h
<1>3. /\ Pair(r, q, g, h) /\ IsLocal(g) /\ IsLocal(h) /\ g.at = "after round" /\ g.at \in Polls
      /\ h.at = "after round" /\ ~g.cancelled /\ ~h.cancelled
      /\ g.completed = l.completed /\ g.phase = "samples" /\ h.phase = "samples"
      /\ h.requested = g.requested /\ h.start = g.start
      /\ g.plan = SamplePlan /\ h.plan = SamplePlan /\ g.start \in Nat
  BY <1>1, <1>2 DEF Pair, Keep, SameControl, Flow
<1>4. g.start + World \in Nat
  <2>1. World \in Nat BY WorldAssumption
  <2>2. g.start \in Nat BY <1>3
  <2> QED BY <2>1, <2>2, SumInNat
<1>5. CASE g.requested /\ g.start + World < Len(g.plan)
  <2>1. AfterSampleRound(g) = Leave(g, FALSE) /\ AfterSampleRound(h) = Leave(h, FALSE)
    BY <1>3, <1>5 DEF AfterSampleRound
  <2>2. Pair(r, q, Leave(g, FALSE), Leave(h, FALSE)) BY <1>3, LeaveStep
  <2>3. Settled(l, Leave(g, FALSE)) BY <1>3, LeaveKeeps DEF Settled, Keep
  <2> QED BY <1>2, <2>1, <2>2, <2>3 DEF g, h
<1>6. CASE ~(g.requested /\ g.start + World < Len(g.plan))
  <2> DEFINE s == [g EXCEPT !.start = @ + World]
             t == [h EXCEPT !.start = @ + World]
             n == g.start + World
  <2>1. AfterSampleRound(g) = SampleRound(s) /\ AfterSampleRound(h) = SampleRound(t)
    BY <1>3, <1>6 DEF AfterSampleRound
  <2>2. s = [g EXCEPT !.start = n] /\ t = [h EXCEPT !.start = n] BY <1>3 DEF IsLocal, Fields
  <2>3. n \in Nat BY <1>4
  <2>4. g.requested => ~(n < Len(SamplePlan)) BY <1>3, <1>6
  <2> HIDE DEF s, t, n
  <2>5. Keep(g, s, {"start"}) /\ s.start = n /\ Keep(h, t, {"start"}) /\ t.start = n BY <1>3, <2>2, StepKeeps
  <2>6. Flow(r, s) BY <1>2, <1>3, <2>3, <2>5 DEF Flow, Keep
  <2>7. Flow(q, t) BY <1>2, <1>3, <2>3, <2>5, ZenonT(60) DEF Flow, Keep
  <2>8. SameControl(s, t) BY <1>2, <2>5 DEF SameControl, Keep
  <2>9. /\ s.phase = "samples" /\ s.at \in {"plan", "after round"} /\ s.plan = SamplePlan
        /\ t.plan = SamplePlan /\ s.requested = g.requested /\ IsLocal(s) /\ s.completed = l.completed
    BY <1>3, <2>5 DEF Keep
  <2>10. s.requested => ~(s.start < Len(SamplePlan)) BY <2>4, <2>5, <2>9
  <2>11. Pair(r, q, SampleRound(s), SampleRound(t)) BY <2>6, <2>7, <2>8, <2>9, <2>10, RoundStep
  <2>12. Settled(l, SampleRound(s)) BY <2>9, RoundKeeps DEF Settled, Keep
  <2> QED BY <1>2, <2>1, <2>11, <2>12 DEF g, h
<1> QED BY <1>5, <1>6 DEF g, h

\* Two ranks obey the one command that was given.
LEMMA CommandStep ==
    ASSUME NEW r, NEW q, NEW l, NEW m, NEW commands, Pair(r, q, l, m), l.at = "command",
           OneCommand(commands), commands[Main].seq = l.seq,
           commands[Main].method \in {"call", "finish", "cancel"},
           commands[Main].method = "call" => ~l.requested /\ ~l.cancelled /\ ~m.cancelled
    PROVE  /\ Pair(r, q, AfterCommand(l, commands), AfterCommand(m, commands))
           /\ Settled(l, AfterCommand(l, commands))
<1> DEFINE g == AfterCommand(l, commands)
           h == AfterCommand(m, commands)
           method == commands[Main].method
           jobs == commands[Main].jobs
<1>1. m.at = "command" /\ IsLocal(l) /\ IsLocal(m) /\ m.seq = l.seq /\ l.requested = m.requested
  BY DEF Pair, SameControl, Flow
<1>2. CASE method # "call"
  <2> DEFINE c == method = "cancel"
  <2>0. method \in {"finish", "cancel"} /\ c \in BOOLEAN BY <1>2
  <2>1. g = [l EXCEPT !.at = "stats", !.cancelled = c] /\ h = [m EXCEPT !.at = "stats", !.cancelled = c]
    BY <1>1, <2>0 DEF AfterCommand
  <2> HIDE DEF g, h, c
  <2>2. /\ Keep(l, g, {"at", "cancelled"}) /\ g.at = "stats" /\ g.cancelled = c
        /\ Keep(m, h, {"at", "cancelled"}) /\ h.at = "stats" /\ h.cancelled = c
    BY <1>1, <2>1 DEF Keep, IsLocal, Fields
  <2>6. SameControl(g, h) BY <1>1, <2>2 DEF Pair, SameControl, Keep
  <2>7. Settled(l, g) BY <2>2 DEF Settled, Keep
  <2> QED BY <2>6, <2>7, <1>1, <2>2, <2>0 DEF Pair, g, h, Flow, Keep
<1>3. CASE method = "call"
  <2>0. ~l.requested /\ ~l.cancelled /\ ~m.cancelled BY <1>3
  <2>1. g = [l EXCEPT !.at = "replies", !.jobs = jobs] /\ h = [m EXCEPT !.at = "replies", !.jobs = jobs]
    BY <1>1, <1>3 DEF AfterCommand
  <2> HIDE DEF g, h, jobs
  <2>2. /\ Keep(l, g, {"at", "jobs"}) /\ g.at = "replies" /\ g.jobs = jobs
        /\ Keep(m, h, {"at", "jobs"}) /\ h.at = "replies" /\ h.jobs = jobs
    BY <1>1, <2>1 DEF Keep, IsLocal, Fields
  <2>5. SameControl(g, h) BY <1>1, <2>2, <2>0 DEF Pair, Flow, Keep, SameControl
  <2>6. Settled(l, g) BY <2>2 DEF Settled, Keep
  <2> QED BY <2>5, <2>6, <1>1, <2>0, <2>2 DEF Pair, g, h, Flow, Keep
<1> QED BY <1>2, <1>3

\* Two ranks find the same replies of a round of a call.
LEMMA RepliesStep ==
    ASSUME NEW r, NEW q, NEW l, NEW m, NEW replies, Pair(r, q, l, m), l.at = "replies",
           RepliesMatch(l, l.jobs, replies), RepliesMatch(m, m.jobs, replies)
    PROVE  Pair(r, q, AfterReplies(l, replies), AfterReplies(m, replies)) /\ Settled(l, AfterReplies(l, replies))
<1> DEFINE g == AfterReplies(l, replies)
           h == AfterReplies(m, replies)
<1>1. m.at = "replies" /\ IsLocal(l) /\ IsLocal(m) /\ m.seq = l.seq BY DEF Pair, SameControl, Flow
<1> DEFINE n == l.seq + 1
<1>2. /\ g = [l EXCEPT !.at = "after round", !.seq = n, !.replies = replies]
      /\ h = [m EXCEPT !.at = "after round", !.seq = n, !.replies = replies]
  BY <1>1 DEF AfterReplies, IsLocal, Fields
<1> HIDE DEF g, h, n
<1>3. /\ Keep(l, g, {"at", "seq", "replies"}) /\ g.at = "after round" /\ g.seq = n
      /\ Keep(m, h, {"at", "seq", "replies"}) /\ h.at = "after round" /\ h.seq = n
  BY <1>1, <1>2 DEF Keep, IsLocal, Fields
<1>4. Flow(r, g) BY <1>1, <1>3 DEF Pair, Flow, Keep
<1>5. Flow(q, h) BY <1>1, <1>3 DEF Pair, Flow, Keep
<1>6. SameControl(g, h) BY <1>1, <1>3 DEF Pair, SameControl, Keep
<1>7. Settled(l, g) BY <1>3 DEF Settled, Keep
<1> QED BY <1>4, <1>5, <1>6, <1>7 DEF Pair, g, h

\* The main rank turns to its next command, the others to waiting for it.
ToCommand(r, l, g) ==
    /\ Keep(l, g, {"at", "start", "ordered", "cancelled", "answers", "call"})
    /\ g.at = "command" /\ g.start \in Nat /\ g.call \in Nat \ {0} /\ g.cancelled \in BOOLEAN
    /\ r # Main => ~g.cancelled
    /\ r = Main => (g.cancelled <=> g.requested)

\* Two ranks turn to the next command together.
LEMMA ToCommandStep ==
    ASSUME NEW r, NEW q, NEW l, NEW m, NEW g, NEW h, Pair(r, q, l, m), l.phase = "benchmarks",
           ToCommand(r, l, g), ToCommand(q, m, h)
    PROVE  Pair(r, q, g, h) /\ Settled(l, g)
<1>1. ASSUME NEW s, NEW k, NEW u, Flow(s, k), k.phase = "benchmarks", ToCommand(s, k, u)
      PROVE  Flow(s, u)
  <2>1. /\ IsLocal(u) /\ u.phase = "benchmarks" /\ u.at = "command" /\ u.requested = k.requested
        /\ u.completed = k.completed /\ u.refused = k.refused /\ u.rec = k.rec
        /\ u.start \in Nat /\ u.call \in Nat \ {0} /\ u.cancelled \in BOOLEAN
        /\ s # Main => ~u.cancelled
        /\ s = Main => (u.cancelled <=> u.requested)
    BY <1>1 DEF ToCommand, Keep
  <2> QED BY <1>1, <2>1 DEF Flow
<1>2. m.phase = "benchmarks" BY DEF Pair, SameControl
<1>4. SameControl(g, h) BY <1>2 DEF Pair, SameControl, ToCommand, Keep
<1> QED BY <1>4, <1>1, <1>2 DEF Pair, Settled, ToCommand, Keep

-----------------------------------------------------------------------------
(* Rounds, plans and answers.                                               *)

\* The jobs of a round are those of the list behind its start.
LEMMA RoundLemma ==
    ASSUME NEW S, NEW jobs \in Seq(S), NEW start \in Nat
    PROVE  /\ DOMAIN RoundOf(jobs, start) = {i \in 1 .. World : start + i <= Len(jobs)}
           /\ \A i \in DOMAIN RoundOf(jobs, start) :
                 start + i \in 1 .. Len(jobs) /\ RoundOf(jobs, start)[i] = jobs[start + i]
<1> DEFINE c == Len(jobs)
           w == IF start + World < c THEN start + World ELSE c
<1>1. World \in Nat /\ c \in Nat BY WorldAssumption
<1>2. RoundOf(jobs, start) = SubSeq(jobs, start + 1, w) BY DEF RoundOf
<1> HIDE DEF c
<1>3. w \in Nat /\ w <= c /\ (\A i \in Nat : i <= w - start <=> i <= World /\ start + i <= c) BY <1>1
<1> HIDE DEF w
<1>4. SubSeq(jobs, start + 1, w) = [i \in 1 .. (w - start) |-> jobs[start + i]] BY <1>1, <1>3
<1>5. 1 .. (w - start) = {i \in 1 .. World : start + i <= c}
  <2> DEFINE D == 1 .. (w - start)
             E == {i \in 1 .. World : start + i <= c}
  <2>1. ASSUME NEW i \in D PROVE i \in E BY <1>3, <1>1
  <2>2. ASSUME NEW i \in E PROVE i \in D
    <3>1. i \in Nat /\ i # 0 /\ i <= World /\ start + i <= c BY <1>1
    <3> QED BY <1>3, <3>1
  <2> HIDE DEF D, E
  <2> QED BY <2>1, <2>2 DEF D, E
<1>6. \A i \in 1 .. (w - start) : start + i \in 1 .. c BY <1>1, <1>3
<1> QED BY <1>2, <1>4, <1>5, <1>6 DEF c

\* A job answers every request.
LEMMA AnswersLemma ==
    ASSUME NEW generator, NEW job, NEW n, job.positions \in Seq(n)
    PROVE  Len(Answers(generator, job)) = Len(job.positions)
<1> DEFINE list == job.positions
           f == [k \in DOMAIN list |-> <<generator, k, list[k]>>]
<1> HIDE DEF list
<1> QED BY DEF list, Answers

\* What the collective of a round returns to all ranks.
Answered(jobs, replies) ==
    \A r \in Rank : r + 1 \in DOMAIN jobs =>
        replies[r].values = Answers(Seeded(jobs[r + 1].seed), jobs[r + 1])

\* Ranks that share the jobs of a round send the replies it waits for.
LEMMA RepliesLemma ==
    ASSUME NEW l, NEW jobs, NEW S, NEW state, NEW replies,
           \A r \in Rank : r + 1 \in DOMAIN jobs => jobs[r + 1].positions \in Seq(S),
           \A r \in Rank : state[r].seq = l.seq /\ replies[r] = Reply(state[r], r, jobs)
    PROVE  RepliesMatch(l, jobs, replies) /\ Answered(jobs, replies)
<1>1. ASSUME NEW r \in Rank, r + 1 \in DOMAIN jobs
      PROVE  /\ replies[r].seq = l.seq /\ replies[r].rank = r /\ replies[r].job = jobs[r + 1].index
             /\ replies[r].values = Answers(Seeded(jobs[r + 1].seed), jobs[r + 1])
  <2> DEFINE job == jobs[r + 1]
             values == Answers(Seeded(job.seed), job)
  <2>1. Reply(state[r], r, jobs) = [seq |-> state[r].seq, rank |-> r, job |-> job.index, values |-> values]
    BY <1>1 DEF Reply, RunJob
  <2> HIDE DEF job, values
  <2> QED BY <2>1 DEF job, values
<1>2. ASSUME NEW r \in Rank, r + 1 \notin DOMAIN jobs
      PROVE  /\ replies[r].seq = l.seq /\ replies[r].rank = r /\ replies[r].job = 0
             /\ replies[r].values = <<>>
  <2>1. Reply(state[r], r, jobs) = [seq |-> state[r].seq, rank |-> r, job |-> 0, values |-> <<>>]
    BY <1>2 DEF Reply, NoReply
  <2> QED BY <2>1
<1>3. ASSUME NEW r \in Rank, r + 1 \in DOMAIN jobs
      PROVE  Len(replies[r].values) = Len(jobs[r + 1].positions)
  <2> DEFINE job == jobs[r + 1]
  <2>1. job.positions \in Seq(S) BY <1>3
  <2> HIDE DEF job
  <2>2. Len(Answers(Seeded(job.seed), job)) = Len(job.positions) BY <2>1, AnswersLemma
  <2> QED BY <1>1, <1>3, <2>2 DEF job
<1> QED BY <1>1, <1>2, <1>3 DEF RepliesMatch, Answered

\* The plan of the samples is a sequence of its jobs.
LEMMA PlanLemma ==
    /\ Len(SamplePlan) \in Nat /\ DOMAIN SamplePlan = 1 .. Len(SamplePlan)
    /\ SamplePlan \in Seq({SampleJob(i) : i \in 1 .. Len(SamplePlan)})
    /\ \A i \in 1 .. Len(SamplePlan) : SamplePlan[i] = SampleJob(i) /\ SamplePlan[i].positions \in Seq(Nat)
<1> DEFINE c == SampleSettings * Batches
           J == {SampleJob(i) : i \in 1 .. c}
           f == [i \in 1 .. c |-> SampleJob(i)]
<1>1. c \in Nat BY PlanAssumption
<1>2. SamplePlan = f BY DEF SamplePlan
<1> HIDE DEF c
<1>4. f \in [1 .. c -> J] OBVIOUS
<1> HIDE DEF J
<1>5. f \in Seq(J) /\ Len(f) = c /\ DOMAIN f = 1 .. c BY <1>1, <1>4, FunctionIsSequence
<1>6. \A i \in 1 .. c : SampleJob(i).positions \in Seq(Nat)
  <2> TAKE i \in 1 .. c
  <2> QED BY <1>1 DEF SampleJob
<1> HIDE DEF f
<1> QED BY <1>1, <1>2, <1>5, <1>6 DEF J, f

\* The jobs of a call, and what the reference takes from them.
LEMMA JobsLemma ==
    ASSUME NEW rec \in 1 .. Recurrences, NEW call \in DOMAIN Calls
    PROVE  /\ Len(BenchmarkJobs(rec, call)) \in Nat
           /\ DOMAIN BenchmarkJobs(rec, call) = 1 .. Len(BenchmarkJobs(rec, call))
           /\ BenchmarkJobs(rec, call) \in
                 Seq({BenchmarkJobs(rec, call)[i] : i \in 1 .. Len(BenchmarkJobs(rec, call))})
           /\ \A i \in DOMAIN BenchmarkJobs(rec, call) :
                 /\ BenchmarkJobs(rec, call)[i].positions = Chunks(Calls[call])[i]
                 /\ BenchmarkJobs(rec, call)[i].positions \in Seq(1 .. Len(Calls[call]))
           /\ Planned(Chunks(Calls[call]), Calls[call])
           /\ DOMAIN BenchmarkJobs(rec, call) = DOMAIN Chunks(Calls[call])
           /\ DOMAIN Calls[call] = 1 .. Len(Calls[call])
<1> DEFINE lists == Chunks(Calls[call])
           n == Len(Calls[call])
           c == Len(lists)
           job(i) == [index |-> i, positions |-> lists[i], seed |-> <<rec, call, i>>]
           f == [i \in 1 .. c |-> job(i)]
           J == {f[i] : i \in 1 .. c}
<1>1. IsCall(Calls[call]) /\ DOMAIN Calls[call] = 1 .. n BY PlanAssumption DEF IsCall
<1>2. Planned(lists, Calls[call]) BY <1>1, ChunksLemma
<1>3. BenchmarkJobs(rec, call) = [i \in DOMAIN lists |-> job(i)] BY DEF BenchmarkJobs, CallChunks
<1> HIDE DEF lists, n
<1>4. c \in Nat /\ DOMAIN lists = 1 .. c /\ \A i \in 1 .. c : lists[i] \in Seq(1 .. n)
  BY <1>2 DEF Planned, Lists, n
<1> HIDE DEF c, job
<1>5. BenchmarkJobs(rec, call) = f BY <1>3, <1>4
<1>6. f \in [1 .. c -> J] OBVIOUS
<1> HIDE DEF J
<1>7. f \in Seq(J) /\ Len(f) = c /\ DOMAIN f = 1 .. c BY <1>4, <1>6, FunctionIsSequence
<1>8. \A i \in 1 .. c : f[i] = job(i) /\ job(i).positions = lists[i] BY DEF job
<1> HIDE DEF f
<1> QED BY <1>1, <1>2, <1>4, <1>5, <1>7, <1>8 DEF J, n, lists

\* What the reference takes from a job.
LEMMA ReferenceLemma ==
    ASSUME NEW rec \in 1 .. Recurrences, NEW call \in DOMAIN Calls, NEW i \in DOMAIN BenchmarkJobs(rec, call),
           NEW k \in DOMAIN BenchmarkJobs(rec, call)[i].positions, NEW p,
           BenchmarkJobs(rec, call)[i].positions[k] = p
    PROVE  /\ p \in DOMAIN Calls[call]
           /\ BenchmarkReference[rec][call][p] =
                 Answers(Seeded(BenchmarkJobs(rec, call)[i].seed), BenchmarkJobs(rec, call)[i])[k]
           /\ BenchmarkReference[rec][call][p] # Missing
<1> DEFINE jobs == BenchmarkJobs(rec, call)
           lists == Chunks(Calls[call])
           n == Len(Calls[call])
           D == DOMAIN jobs
<1>1. /\ \A j \in D : jobs[j].positions = lists[j] /\ jobs[j].positions \in Seq(1 .. n)
      /\ Planned(lists, Calls[call]) /\ D = DOMAIN lists /\ DOMAIN Calls[call] = 1 .. n
  BY JobsLemma
<1> HIDE DEF jobs, lists, D
<1>2. lists[i] \in Seq(1 .. n) /\ k \in DOMAIN lists[i] /\ lists[i][k] = p /\ i \in D BY <1>1 DEF jobs, D
<1>3. p \in 1 .. n BY <1>2
<1>4. \A j \in D : \A h \in DOMAIN lists[j] : lists[j][h] = p => j = i /\ h = k
  BY <1>1, <1>2 DEF Planned, Disjoint
<1>5. \A j \in D : Contains(lists[j], p) <=> \E h \in DOMAIN lists[j] : lists[j][h] = p
  <2> TAKE j \in D
  <2> DEFINE list == lists[j]
  <2> HIDE DEF list
  <2> QED BY <1>1 DEF list, Contains
<1>7. DocumentJob(rec, call, p) = jobs[i] BY <1>1, <1>2, <1>4, <1>5 DEF DocumentJob, jobs, D
<1>9. \A q \in SameDocument(Calls[call], p) : Contains(lists[i], q)
  <2> TAKE q \in SameDocument(Calls[call], p)
  <2>1. PICK j \in DOMAIN lists : p \in Positions(lists[j]) /\ SameDocument(Calls[call], p) \subseteq Positions(lists[j])
    BY <1>1, <1>3 DEF Planned
  <2>3. PICK h \in DOMAIN lists[i] : lists[i][h] = q BY <2>1, <1>1, <1>4 DEF Positions
  <2> DEFINE list == lists[i]
  <2>4. list \in Seq(1 .. n) /\ h \in DOMAIN list /\ list[h] = q BY <1>2, <2>3
  <2> HIDE DEF list
  <2> QED BY <2>4 DEF list, Contains
<1>10. BenchmarkReference[rec][call][p] = <<Seeded(jobs[i].seed), k, p>>
  <2> DEFINE value(x, y, z) ==
                LET job == DocumentJob(x, y, z)
                    group == {q \in DOMAIN Calls[y] : Calls[y][q] = Calls[y][z]}
                IN  IF \E q \in group : ~Contains(job.positions, q) THEN Missing
                    ELSE <<Seeded(job.seed), CHOOSE h \in DOMAIN job.positions : job.positions[h] = z, z>>
  <2>1. BenchmarkReference = [x \in 1 .. Recurrences |-> [y \in DOMAIN Calls |-> [z \in DOMAIN Calls[y] |-> value(x, y, z)]]]
    BY DEF BenchmarkReference
  <2>2. value(rec, call, p) = <<Seeded(jobs[i].seed), k, p>>
    <3> QED BY <1>7, <1>9, <1>2, <1>4, <1>1 DEF SameDocument
  <2> HIDE DEF value
  <2> QED BY <2>2, <1>1, <1>3, <2>1
<1> QED BY <1>1, <1>3, <1>10, <1>2 DEF jobs, Answers, Missing

-----------------------------------------------------------------------------
(* What the main rank has gathered.                                        *)

\* How far the main rank is, of its locals.
MainOk(l) == IF l.phase = "samples" THEN SamplesInv(l) ELSE BenchmarksInv(l)

\* One sequence behind another.
Behind(S, s, t, v) ==
    /\ v \in Seq(S) /\ Len(v) = Len(s) + Len(t)
    /\ \A i \in 1 .. Len(s) : v[i] = s[i]
    /\ \A i \in 1 .. Len(t) : v[Len(s) + i] = t[i]

\* Two sequences behind one another.
LEMMA Concatenated ==
    ASSUME NEW S, NEW s, NEW t, s \in Seq(S), t \in Seq(S)
    PROVE  Behind(S, s, t, s \o t)
<1> QED BY DEF Behind

\* u begins with s and goes on with t.
IsJoin(S, a, b, s, t, u) ==
    /\ a \in Nat /\ b \in Nat
    /\ s \in [1 .. a -> S] /\ t \in [1 .. b -> S] /\ u \in [1 .. a + b -> S]
    /\ \A i \in 1 .. a : u[i] = s[i]
    /\ \A i \in 1 .. b : u[a + i] = t[i]

\* A sequence that is two others behind one another is their concatenation.
LEMMA SequencesJoin ==
    ASSUME NEW S, NEW a, NEW b, NEW s, NEW t, NEW u, IsJoin(S, a, b, s, t, u)
    PROVE  s \o t = u
<1>1. /\ a \in Nat /\ b \in Nat
      /\ s \in [1 .. a -> S] /\ t \in [1 .. b -> S] /\ u \in [1 .. a + b -> S]
      /\ \A i \in 1 .. a : u[i] = s[i]
      /\ \A i \in 1 .. b : u[a + i] = t[i]
  BY DEF IsJoin
<1>2. s \in Seq(S) /\ t \in Seq(S) /\ u \in Seq(S) /\ Len(s) = a /\ Len(t) = b /\ Len(u) = a + b
  BY <1>1, FunctionIsSequence
<1> DEFINE v == s \o t
<1>3. v \in Seq(S) /\ Len(v) = a + b /\ (\A i \in 1 .. a : v[i] = s[i]) /\ (\A i \in 1 .. b : v[a + i] = t[i])
  <2>0. Behind(S, s, t, v) BY <1>2, Concatenated
  <2> HIDE DEF v
  <2> QED BY <1>2, <2>0 DEF Behind
<1> HIDE DEF v
<1>4. \A i \in 1 .. a + b : v[i] = u[i]
  <2> TAKE i \in 1 .. a + b
  <2>2. CASE i \in 1 .. a BY <1>1, <1>3, <2>2
  <2>3. CASE i - a \in 1 .. b /\ a + (i - a) = i
    <3> DEFINE k == i - a
    <3>1. k \in 1 .. b /\ a + k = i BY <2>3
    <3> HIDE DEF k
    <3>2. v[a + k] = u[a + k] BY <1>1, <1>3, <3>1
    <3> QED BY <3>1, <3>2
  <2> QED BY <2>2, <2>3, <1>1
<1>5. v = u BY <1>1, <1>2, <1>3, <1>4
<1> QED BY <1>5 DEF v

\* The answers so far and those of a round are the answers so far after it.
LEMMA SamplesGather ==
    ASSUME NEW start \in Nat, start < Len(SamplePlan), NEW replies,
           Answered(RoundOf(SamplePlan, start), replies)
    PROVE  SampleAnswers(start)
              \o [i \in DOMAIN RoundOf(SamplePlan, start) |-> replies[i - 1].values]
           = SampleAnswers(IF start + World < Len(SamplePlan) THEN start + World ELSE Len(SamplePlan))
<1> DEFINE c == Len(SamplePlan)
           round == RoundOf(SamplePlan, start)
           w == IF start + World < c THEN start + World ELSE c
           n == w - start
           A(i) == Answers(Seeded(SamplePlan[i].seed), SamplePlan[i])
           t == [i \in DOMAIN round |-> replies[i - 1].values]
           S == {A(i) : i \in 1 .. w}
<1>1. c \in Nat /\ World \in Nat \ {0} /\ SamplePlan \in Seq({SampleJob(i) : i \in 1 .. c})
  BY PlanLemma, WorldAssumption
<1>2. /\ DOMAIN round = {i \in 1 .. World : start + i <= c}
      /\ \A i \in DOMAIN round : start + i \in 1 .. c /\ round[i] = SamplePlan[start + i]
  BY <1>1, RoundLemma
<1> HIDE DEF c, round
<1>3. w \in Nat /\ n \in Nat /\ start + n = w /\ (\A i \in Nat : i <= n <=> i <= World /\ start + i <= c)
      /\ (\A i \in 1 .. start : i \in 1 .. w) /\ (\A i \in 1 .. n : start + i \in 1 .. w)
  BY <1>1 DEF c
<1>4. DOMAIN round = 1 .. n BY <1>1, <1>3, <1>2
<1>5. \A i \in 1 .. n : replies[i - 1].values = A(start + i)
  <2> TAKE i \in 1 .. n
  <2> DEFINE r == i - 1
  <2>1. i \in DOMAIN round /\ r + 1 = i /\ r \in Rank BY <1>2, <1>4, <1>1 DEF Rank
  <2> HIDE DEF r
  <2> QED BY <2>1, <1>2 DEF r, Answered, round
<1> HIDE DEF n, w, A
<1>6. SampleAnswers(start) = [i \in 1 .. start |-> A(i)] /\ SampleAnswers(w) = [i \in 1 .. w |-> A(i)]
  BY DEF SampleAnswers, A
<1>7. t = [i \in 1 .. n |-> A(start + i)] BY <1>4, <1>5
<1> HIDE DEF t
<1>8. SampleAnswers(start) \in [1 .. start -> S] /\ SampleAnswers(w) \in [1 .. start + n -> S] /\ t \in [1 .. n -> S]
  BY <1>3, <1>6, <1>7
<1> DEFINE before == SampleAnswers(start)
           after == SampleAnswers(w)
<1> HIDE DEF S, before, after
<1>10. before \o t = after
  <2>2. (\A i \in 1 .. start : after[i] = before[i]) /\ (\A i \in 1 .. n : after[start + i] = t[i])
    BY <1>3, <1>6, <1>7 DEF before, after
  <2>3. IsJoin(S, start, n, before, t, after) BY <2>2, <1>3, <1>8 DEF IsJoin, before, after
  <2> QED BY <2>3, SequencesJoin
<1> QED BY <1>10 DEF before, after, t, w, c, round

\* Nothing of a call is answered before its first job, everything after its last.
LEMMA PartlyLemma ==
    ASSUME NEW rec \in 1 .. Recurrences, NEW call \in DOMAIN Calls
    PROVE  /\ Partly(rec, call, 0) = [p \in DOMAIN Calls[call] |-> Missing]
           /\ \A n \in Nat : n >= Len(BenchmarkJobs(rec, call)) =>
                 /\ Partly(rec, call, n) = BenchmarkReference[rec][call]
                 /\ \A p \in DOMAIN Calls[call] : Partly(rec, call, n)[p] # Missing
<1> DEFINE jobs == BenchmarkJobs(rec, call)
           D == DOMAIN Calls[call]
           holds(i, p) == p \in Range(jobs[i].positions)
           ref == BenchmarkReference[rec][call]
<1>1. /\ Len(jobs) \in Nat /\ DOMAIN jobs = 1 .. Len(jobs)
      /\ \A i \in DOMAIN jobs : jobs[i].positions = Chunks(Calls[call])[i]
      /\ DOMAIN jobs = DOMAIN Chunks(Calls[call]) /\ D = 1 .. Len(Calls[call])
      /\ Planned(Chunks(Calls[call]), Calls[call])
  BY JobsLemma
<1>2. \A n : Partly(rec, call, n) =
         [p \in D |-> IF \E i \in DOMAIN jobs : i <= n /\ holds(i, p) THEN ref[p] ELSE Missing]
  BY DEF Partly
<1>3. \A p \in D : \E i \in DOMAIN jobs : holds(i, p) /\ ref[p] # Missing
  <2> TAKE p \in D
  <2>1. PICK i \in DOMAIN jobs : p \in Positions(jobs[i].positions) BY <1>1 DEF Planned
  <2>2. PICK k \in DOMAIN jobs[i].positions : jobs[i].positions[k] = p BY <2>1 DEF Positions
  <2> QED BY <2>2, ReferenceLemma DEF Range
<1>4. ref = [p \in D |-> ref[p]] BY DEF BenchmarkReference
<1> HIDE DEF jobs, D, holds, ref
<1>6. ASSUME NEW n \in Nat, n >= Len(jobs)
      PROVE  Partly(rec, call, n) = ref /\ \A p \in D : Partly(rec, call, n)[p] # Missing
  BY <1>1, <1>6, <1>2, <1>3, <1>4
<1> QED BY <1>6, <1>1, <1>2 DEF D, jobs, ref

\* A sequence and its first values.
IsGrown(S, n, s, u) ==
    /\ n \in Nat /\ s \in [1 .. n -> S] /\ u \in [1 .. n + 1 -> S]
    /\ \A i \in 1 .. n : u[i] = s[i]

\* A sequence that is another one with an element behind it.
LEMMA AppendLemma ==
    ASSUME NEW S, NEW n, NEW s, NEW u, NEW x, IsGrown(S, n, s, u), x = u[n + 1]
    PROVE  Append(s, x) = u
<1>1. /\ n \in Nat /\ s \in [1 .. n -> S] /\ u \in [1 .. n + 1 -> S]
      /\ \A i \in 1 .. n : u[i] = s[i]
  BY DEF IsGrown
<1> DEFINE c == n + 1
<1>2. c \in Nat /\ c # 0 /\ u \in [1 .. c -> S] /\ c \in 1 .. c /\ x = u[c]
      /\ \A i \in 1 .. c : i \in 1 .. n \/ i = c
  BY <1>1
<1> DEFINE v == Append(s, x)
<1> HIDE DEF c, v
<1>7. v = u BY <1>2, <1>1, FunctionIsSequence DEF v
<1> QED BY <1>7 DEF v

\* A call's answers behind those of the calls before it.
LEMMA AnswersGrow ==
    ASSUME NEW rec, NEW call \in Nat \ {0}
    PROVE  Append(CallsAnswered(rec, call - 1), BenchmarkReference[rec][call]) = CallsAnswered(rec, call)
<1> DEFINE n == call - 1
           S == {BenchmarkReference[rec][c] : c \in 1 .. call}
           s == CallsAnswered(rec, n)
           u == CallsAnswered(rec, call)
<1>1. n \in Nat /\ n + 1 = call /\ call \in 1 .. call /\ \A i \in 1 .. n : i \in 1 .. call OBVIOUS
<1> HIDE DEF n
<1>2. s = [c \in 1 .. n |-> BenchmarkReference[rec][c]] /\ u = [c \in 1 .. call |-> BenchmarkReference[rec][c]]
  BY DEF CallsAnswered
<1> HIDE DEF s, u
<1> HIDE DEF S
<1>5. Append(s, BenchmarkReference[rec][call]) = u BY AppendLemma, <1>1, <1>2 DEF IsGrown
<1> QED BY <1>5 DEF s, u, n

\* A recurrence's answers behind those of the recurrences before it.
LEMMA ScoresGrow ==
    ASSUME NEW rec \in Nat \ {0}
    PROVE  Append(Scored(rec - 1), BenchmarkReference[rec]) = Scored(rec)
<1> DEFINE n == rec - 1
           S == {BenchmarkReference[c] : c \in 1 .. rec}
           s == Scored(n)
           u == Scored(rec)
<1>1. n \in Nat /\ n + 1 = rec /\ rec \in 1 .. rec /\ \A i \in 1 .. n : i \in 1 .. rec OBVIOUS
<1> HIDE DEF n
<1>2. s = [c \in 1 .. n |-> BenchmarkReference[c]] /\ u = [c \in 1 .. rec |-> BenchmarkReference[c]]
  BY DEF Scored
<1> HIDE DEF s, u
<1> HIDE DEF S
<1>5. Append(s, BenchmarkReference[rec]) = u BY AppendLemma, <1>1, <1>2 DEF IsGrown
<1> QED BY <1>5 DEF s, u, n

\* The answers of all calls and recurrences are the reference.
LEMMA ReferenceIs ==
    /\ \A rec \in 1 .. Recurrences : CallsAnswered(rec, Len(Calls)) = BenchmarkReference[rec]
    /\ Scored(Recurrences) = BenchmarkReference
<1> DEFINE value(x, y, z) ==
              LET job == DocumentJob(x, y, z)
                  group == {q \in DOMAIN Calls[y] : Calls[y][q] = Calls[y][z]}
              IN  IF \E q \in group : ~Contains(job.positions, q) THEN Missing
                  ELSE <<Seeded(job.seed), CHOOSE h \in DOMAIN job.positions : job.positions[h] = z, z>>
<1>1. BenchmarkReference = [x \in 1 .. Recurrences |-> [y \in DOMAIN Calls |-> [z \in DOMAIN Calls[y] |-> value(x, y, z)]]]
  BY DEF BenchmarkReference
<1> HIDE DEF value
<1>3. \A rec \in 1 .. Recurrences : CallsAnswered(rec, Len(Calls)) = BenchmarkReference[rec]
  <2> TAKE rec \in 1 .. Recurrences
  <2> QED BY <1>1, PlanAssumption DEF CallsAnswered
<1> QED BY <1>3, <1>1 DEF Scored

-----------------------------------------------------------------------------
(* The evaluator.                                                           *)

\* The evaluator is in a call whose first jobs are answered, or through with all calls.
InEvaluator(g) ==
    InCall(g) \/ (g.call = Len(Calls) + 1 /\ g.answers = CallsAnswered(g.rec, Len(Calls)))

\* Behind a call the evaluator is in the next one, or through.
LEMMA NextCallLemma ==
    ASSUME NEW k, IsLocal(k), k.rec \in 1 .. Recurrences, k.call \in Nat \ {0}, k.call <= Len(Calls) + 1,
           k.answers = CallsAnswered(k.rec, k.call - 1)
    PROVE  InEvaluator(NextCall(k))
<1> DEFINE g == NextCall(k)
<1>1. /\ Keep(k, g, {"at", "start", "ordered"}) /\ g.start = 0
      /\ g.ordered = IF k.call \in DOMAIN Calls
                     THEN [p \in DOMAIN Calls[k.call] |-> Missing] ELSE <<>>
  BY CallKeeps
<1> HIDE DEF g
<1>2. g.rec = k.rec /\ g.call = k.call /\ g.answers = k.answers BY <1>1 DEF Keep
<1>4. CASE k.call \in DOMAIN Calls BY <1>4, PartlyLemma, <1>1, <1>2 DEF InCall, InEvaluator, g
<1>5. CASE k.call \notin DOMAIN Calls BY <1>5, <1>2, PlanAssumption DEF InEvaluator, g
<1> QED BY <1>4, <1>5

\* The main rank after a round of a call whose answers are there.
HasRound(l) ==
    /\ IsLocal(l) /\ l.rec \in 1 .. Recurrences /\ l.start \in Nat
    /\ InCall(l) /\ InRound(l) /\ Answered(l.jobs, l.replies)

\* A job that answers a position.
Holds(jobs, i, p) == \E k \in DOMAIN jobs[i].positions : jobs[i].positions[k] = p

\* The jobs of the round, among those of the call.
LEMMA RoundJobsLemma ==
    ASSUME NEW l, HasRound(l)
    PROVE  /\ DOMAIN l.jobs = {i \in 1 .. World : l.start + i <= Len(BenchmarkJobs(l.rec, l.call))}
           /\ \A i \in DOMAIN l.jobs :
                 /\ l.start + i \in DOMAIN BenchmarkJobs(l.rec, l.call)
                 /\ l.jobs[i] = BenchmarkJobs(l.rec, l.call)[l.start + i]
                 /\ l.jobs[i].positions \in Seq(1 .. Len(Calls[l.call]))
           /\ \A i, j \in DOMAIN BenchmarkJobs(l.rec, l.call) :
                 \A k \in DOMAIN BenchmarkJobs(l.rec, l.call)[i].positions,
                    h \in DOMAIN BenchmarkJobs(l.rec, l.call)[j].positions :
                    BenchmarkJobs(l.rec, l.call)[i].positions[k] = BenchmarkJobs(l.rec, l.call)[j].positions[h]
                       => i = j /\ k = h
<1> DEFINE jobs == BenchmarkJobs(l.rec, l.call)
           J == {jobs[i] : i \in 1 .. Len(jobs)}
           lists == Chunks(Calls[l.call])
<1>1. l.rec \in 1 .. Recurrences /\ l.start \in Nat /\ l.call \in DOMAIN Calls /\ l.jobs = RoundOf(jobs, l.start)
  BY DEF HasRound, InCall, InRound
<1>2. /\ Len(jobs) \in Nat /\ DOMAIN jobs = 1 .. Len(jobs) /\ jobs \in Seq(J)
      /\ \A i \in DOMAIN jobs : jobs[i].positions = lists[i] /\ jobs[i].positions \in Seq(1 .. Len(Calls[l.call]))
      /\ Planned(lists, Calls[l.call]) /\ DOMAIN jobs = DOMAIN lists
  BY <1>1, JobsLemma
<1> HIDE DEF jobs, J, lists
<1>3. /\ DOMAIN l.jobs = {i \in 1 .. World : l.start + i <= Len(jobs)}
      /\ \A i \in DOMAIN l.jobs : l.start + i \in 1 .. Len(jobs) /\ l.jobs[i] = jobs[l.start + i]
  <2> DEFINE start == l.start
  <2>1. start \in Nat /\ l.jobs = RoundOf(jobs, start) BY <1>1
  <2> HIDE DEF start
  <2>2. /\ DOMAIN RoundOf(jobs, start) = {i \in 1 .. World : start + i <= Len(jobs)}
        /\ \A i \in DOMAIN RoundOf(jobs, start) :
              start + i \in 1 .. Len(jobs) /\ RoundOf(jobs, start)[i] = jobs[start + i]
    BY <1>2, <2>1, RoundLemma
  <2> QED BY <2>1, <2>2 DEF start
<1>4. \A i, j \in DOMAIN jobs : \A k \in DOMAIN jobs[i].positions, h \in DOMAIN jobs[j].positions :
         jobs[i].positions[k] = jobs[j].positions[h] => i = j /\ k = h
  BY <1>2, SMTT(30) DEF Planned, Disjoint
<1> QED BY <1>2, <1>3, <1>4 DEF jobs

\* No position of a round is one that an earlier round answered.
LEMMA NothingMisplaced ==
    ASSUME NEW l, HasRound(l), NEW i \in DOMAIN l.jobs, NEW p \in Range(l.jobs[i].positions)
    PROVE  ~Misplaced(l, p)
<1> DEFINE jobs == BenchmarkJobs(l.rec, l.call)
<1>1. l.rec \in 1 .. Recurrences /\ l.start \in Nat /\ l.call \in DOMAIN Calls
      /\ l.ordered = Partly(l.rec, l.call, l.start)
  BY DEF HasRound, InCall
<1>2. /\ \A j \in DOMAIN l.jobs : l.start + j \in DOMAIN jobs /\ l.jobs[j] = jobs[l.start + j] /\ j \in 1 .. World
      /\ \A j, g \in DOMAIN jobs : \A k \in DOMAIN jobs[j].positions, h \in DOMAIN jobs[g].positions :
            jobs[j].positions[k] = jobs[g].positions[h] => j = g /\ k = h
  BY RoundJobsLemma
<1>3. Len(jobs) \in Nat /\ DOMAIN jobs = 1 .. Len(jobs) BY <1>1, JobsLemma
<1>4. PICK k \in DOMAIN l.jobs[i].positions : l.jobs[i].positions[k] = p BY DEF Range
<1> HIDE DEF jobs
<1>8. ASSUME NEW j \in DOMAIN l.jobs, NEW g \in DOMAIN l.jobs,
             NEW x \in DOMAIN l.jobs[j].positions, NEW h \in DOMAIN l.jobs[g].positions,
             l.jobs[j].positions[x] = p, l.jobs[g].positions[h] = p
      PROVE  <<j, x>> = <<g, h>>
  BY <1>8, <1>2, <1>1, WorldAssumption
<1> QED BY <1>8, <1>1, <1>2, <1>4, WorldAssumption, ReferenceLemma DEF Misplaced, Partly, Range, jobs

\* A position of the round gets its answer.
Owners(l, p) == {r \in Rank : r + 1 \in DOMAIN l.jobs /\ Contains(l.jobs[r + 1].positions, p)}

\* The rank of a round that answers a position, and its answer.
LEMMA OwnersLemma ==
    ASSUME NEW l, HasRound(l), NEW p \in DOMAIN Calls[l.call]
    PROVE  /\ \A r \in Owners(l, p) :
                 /\ r + 1 \in DOMAIN l.jobs
                 /\ \E k \in DOMAIN l.jobs[r + 1].positions : l.jobs[r + 1].positions[k] = p
           /\ \A i \in DOMAIN BenchmarkJobs(l.rec, l.call) :
                 Holds(BenchmarkJobs(l.rec, l.call), i, p) /\ l.start < i /\ i <= l.start + World
                    => Owners(l, p) # {}
<1> DEFINE jobs == BenchmarkJobs(l.rec, l.call)
           n == Len(Calls[l.call])
<1>2. /\ DOMAIN l.jobs = {i \in 1 .. World : l.start + i <= Len(jobs)}
      /\ \A j \in DOMAIN l.jobs : l.start + j \in DOMAIN jobs /\ l.jobs[j] = jobs[l.start + j]
      /\ \A j \in DOMAIN l.jobs : l.jobs[j].positions \in Seq(1 .. n)
  BY RoundJobsLemma
<1> HIDE DEF jobs, n
<1>4. \A j \in DOMAIN l.jobs :
         Contains(l.jobs[j].positions, p) <=> \E k \in DOMAIN l.jobs[j].positions : l.jobs[j].positions[k] = p
  <2> TAKE j \in DOMAIN l.jobs
  <2> DEFINE list == l.jobs[j].positions
  <2> HIDE DEF list
  <2> QED BY <1>2 DEF list, Contains
<1>6. ASSUME NEW i \in DOMAIN jobs, Holds(jobs, i, p), l.start < i, i <= l.start + World
      PROVE  Owners(l, p) # {}
  <2> DEFINE start == l.start
             c == Len(jobs)
             j == i - start
             r == j - 1
  <2>1. /\ start \in Nat /\ c \in Nat /\ World \in Nat /\ i \in 1 .. c
        /\ start < i /\ i <= start + World
    BY <1>6, WorldAssumption, JobsLemma DEF HasRound, InCall
  <2> HIDE DEF start, c
  <2>2. j \in 1 .. World /\ start + j = i /\ start + j <= c /\ r \in 0 .. World - 1 /\ r + 1 = j BY <2>1
  <2> HIDE DEF j, r
  <2> QED BY <2>2, <1>4, <1>6, <1>2 DEF Owners, Holds, start, c, Rank
<1> QED BY <1>6, <1>4 DEF jobs, Owners

\* Behind a round its positions hold what the reference says.
LEMMA FilledLemma ==
    ASSUME NEW l, HasRound(l)
    PROVE  Filled(l) = Partly(l.rec, l.call, l.start + World)
<1> DEFINE jobs == BenchmarkJobs(l.rec, l.call)
           D == DOMAIN Calls[l.call]
           ref == BenchmarkReference[l.rec][l.call]
           start == l.start
           after == start + World
           picked(p) == CHOOSE r \in Owners(l, p) : TRUE
           place(r, p) == CHOOSE k \in DOMAIN l.jobs[r + 1].positions : l.jobs[r + 1].positions[k] = p
           filled(p) == IF Owners(l, p) = {} THEN l.ordered[p]
                        ELSE l.replies[picked(p)].values[place(picked(p), p)]
           part(n, p) == IF \E i \in DOMAIN jobs : i <= n /\ p \in Range(jobs[i].positions)
                         THEN ref[p] ELSE Missing
<1>1. l.rec \in 1 .. Recurrences /\ start \in Nat /\ l.call \in DOMAIN Calls
      /\ l.ordered = Partly(l.rec, l.call, start) /\ Answered(l.jobs, l.replies)
  BY DEF HasRound, InCall
<1>3. l.ordered = [p \in D |-> part(start, p)] BY <1>1 DEF Partly
<1>4. DOMAIN l.ordered = D BY <1>3
<1>5. Filled(l) = [p \in D |-> filled(p)] BY <1>4 DEF Filled, Owners
<1>7. World \in Nat /\ start \in Nat /\ Len(jobs) \in Nat /\ DOMAIN jobs = 1 .. Len(jobs)
  BY <1>1, JobsLemma, WorldAssumption
<1>8. ASSUME NEW p \in D PROVE filled(p) = part(after, p)
  <2>1. /\ \A r \in Owners(l, p) :
              /\ r + 1 \in DOMAIN l.jobs
              /\ \E k \in DOMAIN l.jobs[r + 1].positions : l.jobs[r + 1].positions[k] = p
        /\ \A i \in DOMAIN jobs : Holds(jobs, i, p) /\ start < i /\ i <= start + World => Owners(l, p) # {}
    BY OwnersLemma
  <2>2. CASE Owners(l, p) = {}
    <3> HIDE DEF jobs, start
    <3>3. \A i \in DOMAIN jobs : p \in Range(jobs[i].positions) => (i <= start <=> i <= after)
      <4> TAKE i \in DOMAIN jobs
      <4> QED BY <1>7, <2>1, <2>2 DEF Range, Holds
    <3> HIDE DEF after
    <3>4. (\E i \in DOMAIN jobs : i <= start /\ p \in Range(jobs[i].positions))
             <=> \E i \in DOMAIN jobs : i <= after /\ p \in Range(jobs[i].positions)
      BY <3>3, SMTT(30)
    <3> HIDE DEF ref
    <3> QED BY <2>2, <3>4, <1>8, <1>3
  <2>3. CASE Owners(l, p) # {}
    <3> DEFINE r == picked(p)
               k == place(r, p)
               i == start + (r + 1)
    <3>1. r \in Owners(l, p) BY <2>3
    <3> HIDE DEF r
    <3>3. r + 1 \in DOMAIN l.jobs /\ k \in DOMAIN l.jobs[r + 1].positions /\ l.jobs[r + 1].positions[k] = p
      BY <2>1, <3>1
    <3> HIDE DEF k
    <3>4. i \in DOMAIN jobs /\ l.jobs[r + 1] = jobs[i] /\ r + 1 \in 1 .. World BY <3>3, RoundJobsLemma
    <3>5. i <= after BY <1>7, <3>4
    <3> HIDE DEF i
    <3>6. k \in DOMAIN jobs[i].positions /\ jobs[i].positions[k] = p BY <3>3, <3>4
    <3>7. ref[p] = Answers(Seeded(jobs[i].seed), jobs[i])[k] BY <1>1, <3>4, <3>6, ReferenceLemma
    <3>8. l.replies[r].values = Answers(Seeded(jobs[i].seed), jobs[i])
      BY <1>1, <3>3, <3>4, <3>1 DEF Answered, Owners
    <3> HIDE DEF jobs, ref, after, start
    <3>10. part(after, p) = ref[p] BY <3>4, <3>5, <3>6 DEF Range
    <3> QED BY <3>7, <3>8, <3>10, <2>3 DEF r, k
  <2> QED BY <2>2, <2>3
<1>9. Partly(l.rec, l.call, after) = [p \in D |-> part(after, p)] BY DEF Partly
<1> HIDE DEF filled, part, D, after
<1> QED BY <1>5, <1>8, <1>9 DEF after, start

\* After a round the evaluator waits for the next, or has the call's answers and goes on.
LEMMA CollectLemma ==
    ASSUME NEW l, HasRound(l), l.call \in Nat \ {0}, l.cancelled = FALSE, l.requested = FALSE
    PROVE  ToCommand(Main, l, Collect(l)) /\ InEvaluator(Collect(l))
<1> DEFINE after == l.start + World
           c == Len(BenchmarkJobs(l.rec, l.call))
           ordered == Filled(l)
           ref == BenchmarkReference[l.rec][l.call]
           g == Collect(l)
<1>1. /\ IsLocal(l) /\ l.rec \in 1 .. Recurrences /\ l.start \in Nat /\ l.call \in DOMAIN Calls
      /\ l.answers = CallsAnswered(l.rec, l.call - 1) /\ World \in Nat
  BY WorldAssumption DEF HasRound, InCall
<1>2. c \in Nat /\ after \in Nat BY <1>1, JobsLemma
<1>3. ordered = Partly(l.rec, l.call, after) /\ DOMAIN ordered = DOMAIN Calls[l.call]
  BY FilledLemma DEF Partly
<1>4. ~(\E i \in DOMAIN l.jobs : \E p \in Range(l.jobs[i].positions) : Misplaced(l, p)) BY NothingMisplaced
<1>5. CASE ~(after >= c)
  <2>2. g = [l EXCEPT !.at = "command", !.start = after, !.ordered = ordered]
    BY <1>1, <1>4, <1>5 DEF IsLocal, Fields, Collect
  <2> HIDE DEF g, after, ordered
  <2>3. Keep(l, g, {"at", "start", "ordered"}) /\ g.at = "command" /\ g.start = after /\ g.ordered = ordered
    BY <1>1, <2>2 DEF Keep, IsLocal, Fields
  <2>4. /\ g.rec = l.rec /\ g.call = l.call /\ g.answers = l.answers /\ g.cancelled = FALSE
        /\ g.requested = FALSE
    BY <2>3 DEF Keep
  <2>5. ToCommand(Main, l, g)
    <3>2. g.start \in Nat /\ g.call \in Nat \ {0} /\ g.cancelled \in BOOLEAN BY <1>2, <2>3, <2>4
    <3> QED BY <2>3, <2>4, <3>2 DEF ToCommand, Keep
  <2> QED BY <2>5, <1>1, <1>3, <2>3, <2>4 DEF InEvaluator, g, InCall
<1>6. CASE after >= c
  <2>1. ordered = ref /\ \A p \in DOMAIN Calls[l.call] : ordered[p] # Missing
    <3>1. Partly(l.rec, l.call, after) = ref
          /\ \A p \in DOMAIN Calls[l.call] : Partly(l.rec, l.call, after)[p] # Missing
      <4> HIDE DEF after
      <4> QED BY <1>1, <1>2, <1>6, PartlyLemma
    <3> QED BY <1>3, <3>1
  <2> DEFINE answers == Append(l.answers, ordered)
             call == l.call + 1
             k == [l EXCEPT !.answers = answers, !.call = call]
  <2>3. g = NextCall(k) BY <1>1, <1>3, <1>4, <1>6, <2>1 DEF IsLocal, Fields, Collect
  <2> HIDE DEF g, k, ordered
  <2>4. Keep(l, k, {"answers", "call"}) /\ k.answers = answers /\ k.call = call
    <3> HIDE DEF answers, call
    <3>1. IsLocal(l) /\ k = [l EXCEPT !.answers = answers, !.call = call] BY <1>1 DEF k
    <3> QED BY <3>1 DEF Keep, IsLocal, Fields
  <2>5. IsLocal(k) /\ k.rec = l.rec /\ k.cancelled = FALSE /\ k.requested = FALSE BY <2>4 DEF Keep
  <2>6. call \in Nat \ {0} /\ call <= Len(Calls) + 1 /\ call - 1 = l.call BY <1>1, PlanAssumption
  <2>7. answers = CallsAnswered(l.rec, l.call) BY AnswersGrow, <1>1, <2>1
  <2> HIDE DEF answers, call
  <2>8. k.answers = CallsAnswered(k.rec, k.call - 1) /\ k.rec \in 1 .. Recurrences
        /\ k.call \in Nat \ {0} /\ k.call <= Len(Calls) + 1
    BY <1>1, <2>4, <2>5, <2>6, <2>7
  <2>10. Keep(k, NextCall(k), {"at", "start", "ordered"}) /\ NextCall(k).at = "command" /\ NextCall(k).start = 0
    BY <2>5, CallKeeps
  <2>11. ToCommand(Main, l, g)
    <3>2. g.at = "command" /\ g.start = 0 /\ g.call = k.call /\ g.cancelled = FALSE /\ g.requested = FALSE
      BY <2>3, <2>5, <2>10 DEF Keep
    <3>3. g.start \in Nat /\ g.call \in Nat \ {0} /\ g.cancelled \in BOOLEAN
      <4>1. g.cancelled \in BOOLEAN BY <3>2
      <4> QED BY <4>1, <2>8, <3>2
    <3> QED BY <3>2, <3>3, <2>3, <2>4, <2>10 DEF ToCommand, Keep
  <2> QED BY <2>3, <2>11, <2>5, <2>8, NextCallLemma DEF g
<1> QED BY <1>5, <1>6 DEF g

\* The main rank's locals are those of its rank.
Known(r, l) == Flow(r, l) /\ (r = Main => MainOk(l))

\* A rank that is ready turns to the first command.
LEMMA ReadyTurns ==
    ASSUME NEW r, NEW l, Known(r, l), l.at = "ready"
    PROVE  ToCommand(r, l, Ready(r, l)) /\ (r = Main => InEvaluator(Ready(r, l)))
<1>1. /\ IsLocal(l) /\ l.phase = "benchmarks" /\ l.requested = FALSE /\ l.cancelled = FALSE
      /\ l.start \in Nat /\ l.call \in Nat \ {0} /\ l.rec \in 1 .. Recurrences
  BY DEF Known, Flow
<1>2. CASE r # Main
  <2> DEFINE g == Goto(l, "command")
  <2>1. Ready(r, l) = g BY <1>2 DEF Ready
  <2>2. Keep(l, g, {"at"}) /\ g.at = "command" BY <1>1, GotoKeeps
  <2> HIDE DEF g
  <2>3. /\ g.cancelled = FALSE /\ g.start = l.start /\ g.call = l.call
        /\ Keep(l, g, {"at", "start", "ordered", "cancelled", "answers", "call"})
    BY <1>1, <2>2 DEF Keep
  <2>4. g.start \in Nat /\ g.call \in Nat \ {0} BY <1>1, <2>3
  <2>5. ToCommand(r, l, g) BY <1>2, <2>2, <2>3, <2>4 DEF ToCommand
  <2> QED BY <1>2, <2>1, <2>5
<1>3. CASE r = Main
  <2> DEFINE g == NextCall(l)
  <2>1. Ready(r, l) = g BY <1>3 DEF Ready
  <2>2. l.call = 1 /\ l.answers = <<>> BY <1>1, <1>3 DEF Known, MainOk, BenchmarksInv
  <2>3. CallsAnswered(l.rec, 0) = <<>> /\ l.call - 1 = 0 /\ l.call <= Len(Calls) + 1
    BY PlanAssumption, <2>2 DEF CallsAnswered
  <2>5. InEvaluator(g) BY <1>1, <2>3, NextCallLemma, <2>2
  <2>6. Keep(l, g, {"at", "start", "ordered"}) /\ g.at = "command" /\ g.start = 0 BY <1>1, CallKeeps
  <2> HIDE DEF g
  <2>7. /\ g.cancelled = FALSE /\ g.requested = FALSE /\ g.call = l.call
        /\ Keep(l, g, {"at", "start", "ordered", "cancelled", "answers", "call"})
    BY <1>1, <2>6 DEF Keep
  <2>8. g.start \in Nat /\ g.call \in Nat \ {0} BY <1>1, <2>6, <2>7
  <2>9. ToCommand(r, l, g) BY <1>3, <2>6, <2>7, <2>8 DEF ToCommand
  <2> QED BY <2>1, <2>5, <2>9
<1> QED BY <1>2, <1>3

\* Once a rank has heard of the request after a round it turns to the next command.
LEMMA RoundTurns ==
    ASSUME NEW r, NEW l, NEW b \in BOOLEAN, Known(r, l), l.at = "after round", l.phase = "benchmarks"
    PROVE  /\ ToCommand(r, Asked(l, b), AfterBenchmarkRound(r, Asked(l, b)))
           /\ r = Main /\ ~b => InEvaluator(AfterBenchmarkRound(r, Asked(l, b)))
           /\ r = Main /\ b => AfterBenchmarkRound(r, Asked(l, b)).cancelled = TRUE
<1> DEFINE k == Asked(l, b)
           g == AfterBenchmarkRound(r, k)
<1>1. /\ IsLocal(l) /\ l.phase = "benchmarks" /\ l.cancelled = FALSE
      /\ l.start \in Nat /\ l.call \in Nat \ {0} /\ l.rec \in 1 .. Recurrences
  BY DEF Known, Flow
<1>2. Keep(l, k, {"requested"}) /\ k.requested = b BY <1>1, RequestKeeps DEF Asked
<1> HIDE DEF k, g
<1>3. /\ IsLocal(k) /\ k.phase = "benchmarks" /\ k.cancelled = FALSE /\ k.start = l.start
      /\ k.call = l.call /\ k.rec = l.rec /\ k.jobs = l.jobs /\ k.replies = l.replies
      /\ k.ordered = l.ordered /\ k.answers = l.answers
  BY <1>1, <1>2 DEF Keep
<1>4. k.start \in Nat /\ k.call \in Nat \ {0} BY <1>1, <1>3
<1>5. CASE r # Main
  <2> DEFINE u == Goto(k, "command")
  <2>1. g = u BY <1>5 DEF AfterBenchmarkRound, g
  <2>2. Keep(k, u, {"at"}) /\ u.at = "command" BY <1>3, GotoKeeps
  <2> HIDE DEF u
  <2>3. /\ u.cancelled = FALSE /\ u.start = k.start /\ u.call = k.call
        /\ Keep(k, u, {"at", "start", "ordered", "cancelled", "answers", "call"})
    BY <1>3, <2>2 DEF Keep
  <2>4. u.start \in Nat /\ u.call \in Nat \ {0} BY <1>4, <2>3
  <2>5. ToCommand(r, k, u) BY <1>5, <2>2, <2>3, <2>4 DEF ToCommand
  <2> QED BY <1>5, <2>1, <2>5 DEF k, g
<1>6. CASE r = Main /\ b
  <2> DEFINE u == [k EXCEPT !.at = "command", !.cancelled = TRUE]
  <2>1. g = u BY <1>2, <1>6 DEF AfterBenchmarkRound, g
  <2>2. Keep(k, u, {"at", "cancelled"}) /\ u.at = "command" /\ u.cancelled = TRUE
    BY <1>3 DEF Keep, IsLocal, Fields
  <2> HIDE DEF u
  <2>3. /\ u.start = k.start /\ u.call = k.call /\ u.requested = TRUE
        /\ Keep(k, u, {"at", "start", "ordered", "cancelled", "answers", "call"})
    BY <1>2, <1>6, <2>2 DEF Keep
  <2>4. u.start \in Nat /\ u.call \in Nat \ {0} BY <1>4, <2>3
  <2>5. ToCommand(r, k, u) BY <1>6, <2>2, <2>3, <2>4 DEF ToCommand
  <2> QED BY <1>6, <2>1, <2>2, <2>5 DEF k, g
<1>7. CASE r = Main /\ ~b
  <2>0. k.requested = FALSE BY <1>2, <1>7
  <2>1. g = Collect(k) BY <1>7, <2>0 DEF AfterBenchmarkRound, g
  <2>2. HasRound(k)
    <3>1. InCall(l) /\ InRound(l) /\ Answered(l.jobs, l.replies)
      BY <1>7 DEF Known, MainOk, BenchmarksInv, Answered
    <3>2. InCall(k) /\ InRound(k) /\ Answered(k.jobs, k.replies) BY <1>3, <3>1 DEF InCall, InRound
    <3> QED BY <1>1, <1>3, <3>2 DEF HasRound
  <2>3. ToCommand(Main, k, Collect(k)) /\ InEvaluator(Collect(k)) BY <1>3, <1>4, <2>0, <2>2, CollectLemma
  <2> QED BY <1>7, <2>1, <2>3 DEF k, g
<1> QED BY <1>5, <1>6, <1>7

\* Two ranks that are ready turn to it together.
LEMMA ReadyStep ==
    ASSUME NEW r, NEW q, NEW l, NEW m, Pair(r, q, l, m), l.at = "ready", Known(r, l), Known(q, m)
    PROVE  Pair(r, q, Ready(r, l), Ready(q, m)) /\ Settled(l, Ready(r, l))
<1>1. l.phase = "benchmarks" /\ m.at = "ready" BY DEF Pair, Flow, SameControl
<1> QED BY <1>1, ToCommandStep, ReadyTurns

\* Behind a round of a call two ranks turn to the next command together.
LEMMA BenchmarkPollStep ==
    ASSUME NEW r, NEW q, NEW l, NEW m, NEW b \in BOOLEAN, Pair(r, q, l, m),
           l.at = "after round", l.phase = "benchmarks", Known(r, l), Known(q, m)
    PROVE  /\ Pair(r, q, AfterBenchmarkRound(r, Asked(l, b)), AfterBenchmarkRound(q, Asked(m, b)))
           /\ Settled(l, AfterBenchmarkRound(r, Asked(l, b)))
<1>1. m.at = "after round" /\ m.phase = "benchmarks" BY DEF Pair, SameControl
<1> DEFINE g == Asked(l, b)
           h == Asked(m, b)
<1>2. /\ Keep(l, g, {"requested"}) /\ Flow(r, g) /\ Flow(q, h) /\ SameControl(g, h)
  <2>1. l.at \in Polls BY DEF Polls
  <2> QED BY <2>1, PollStep
<1>3. ToCommand(r, g, AfterBenchmarkRound(r, g)) /\ ToCommand(q, h, AfterBenchmarkRound(q, h))
  BY <1>1, RoundTurns
<1> HIDE DEF g, h
<1>4. Pair(r, q, g, h) /\ g.phase = "benchmarks" /\ g.completed = l.completed BY <1>2 DEF Pair, Keep
<1>5. /\ Pair(r, q, AfterBenchmarkRound(r, g), AfterBenchmarkRound(q, h))
      /\ Settled(g, AfterBenchmarkRound(r, g))
  BY <1>3, <1>4, ToCommandStep
<1> QED BY <1>4, <1>5 DEF Settled, g, h

-----------------------------------------------------------------------------
(* How far the main rank is.                                                *)

\* Behind a publication or a phase nothing is kept but that samples came first.
LEMMA ElsewhereMain ==
    ASSUME NEW l, NEW g, MainOk(l), l.phase \in Phases,
           g.phase = l.phase, g.rec = l.rec, g.scores = l.scores,
           g.at \in {"after publication", "after phase", "done", "dead"}
    PROVE  MainOk(g)
BY DEF MainOk, SamplesInv, BenchmarksInv

\* Entering a collective leaves the main rank as far as it was.
LEMMA GotoMain ==
    ASSUME NEW l, NEW place, IsLocal(l), MainOk(l), l.phase \in Phases,
           \/ l.at = "agree" /\ place = "before jobs"
           \/ l.at = "stats" /\ place = "after recurrence"
           \/ l.at = "publish" /\ place = "after publication"
           \/ l.at = "after phase" /\ place = "done"
    PROVE  MainOk(Goto(l, place))
<1> DEFINE g == Goto(l, place)
<1>1. Keep(l, g, {"at"}) /\ g.at = place BY GotoKeeps
<1> HIDE DEF g
<1>2. CASE place \in {"after publication", "done"} BY <1>1, <1>2, ElsewhereMain DEF Keep, g
<1>3. CASE l.at = "agree" /\ place = "before jobs"
  <2>1. MainOk(g) BY <1>1, <1>3 DEF Keep, MainOk, SamplesInv, BenchmarksInv
  <2> QED BY <2>1 DEF g
<1>4. CASE l.at = "stats" /\ place = "after recurrence"
  <2>1. MainOk(g) BY <1>1, <1>4 DEF Keep, MainOk, SamplesInv, BenchmarksInv
  <2> QED BY <2>1 DEF g
<1> QED BY <1>2, <1>3, <1>4

\* Hearing of a request leaves the main rank as far as it was.
LEMMA AskedMain ==
    ASSUME NEW l, NEW b, IsLocal(l), MainOk(l)
    PROVE  Keep(l, Asked(l, b), {"requested"}) /\ Asked(l, b).requested = b /\ MainOk(Asked(l, b))
<1> DEFINE g == Asked(l, b)
<1>1. Keep(l, g, {"requested"}) /\ g.requested = b BY RequestKeeps DEF Asked
<1> HIDE DEF g
<1>2. MainOk(g) BY <1>1 DEF Keep, MainOk, SamplesInv, BenchmarksInv, InCall, InRound
<1> QED BY <1>1, <1>2 DEF g

\* A rank that leaves a phase has nothing to keep up.
LEMMA LeaveMain ==
    ASSUME NEW l, NEW b \in BOOLEAN, IsLocal(l), MainOk(l), l.phase \in Phases
    PROVE  MainOk(Leave(l, b))
<1> DEFINE g == Leave(l, b)
<1>1. Keep(l, g, {"at", "generator", "completed"}) /\ g.at = "after phase"
  <2>1. CASE b BY <2>1, LeaveKeeps
  <2>2. CASE ~b
    <3>1. b = FALSE BY <2>2
    <3>2. Keep(l, g, {"at", "generator"}) /\ g.at = "after phase" BY <3>1, LeaveKeeps
    <3> HIDE DEF g
    <3> QED BY <3>2 DEF Keep
  <2> QED BY <2>1, <2>2
<1> HIDE DEF g
<1> QED BY <1>1, ElsewhereMain DEF Keep, g

\* A recurrence begins with those before it scored.
LEMMA BeginMain ==
    ASSUME NEW l, IsLocal(l), l.phase = "benchmarks", l.scores = Scored(l.rec - 1)
    PROVE  MainOk(BeginRecurrence(l))
<1> DEFINE g == BeginRecurrence(l)
<1>1. /\ Keep(l, g, {"at", "generator", "seq", "call", "start", "cancelled", "answers", "ordered"})
      /\ g.at = "ready" /\ g.call = 1 /\ g.answers = <<>>
  BY BeginKeeps
<1> HIDE DEF g
<1> QED BY <1>1 DEF g, Keep, MainOk, BenchmarksInv

\* The first poll of a phase.
LEMMA FirstPollMain ==
    ASSUME NEW l, NEW b \in BOOLEAN, IsLocal(l), MainOk(l), l.phase \in Phases, l.at = "before jobs"
    PROVE  MainOk(AfterFirstPoll(Asked(l, b)))
<1> DEFINE k == Asked(l, b)
<1>1. Keep(l, k, {"requested"}) /\ k.requested = b /\ MainOk(k) BY AskedMain
<1> HIDE DEF k
<1>2. IsLocal(k) /\ k.phase \in Phases /\ k.at = "before jobs" BY <1>1 DEF Keep
<1>3. CASE b
  <2>1. AfterFirstPoll(k) = Leave(k, FALSE) BY <1>1, <1>3 DEF AfterFirstPoll
  <2> QED BY <1>1, <1>2, <2>1, LeaveMain DEF k
<1>4. CASE ~b /\ k.phase = "samples"
  <2> DEFINE g == Goto(k, "plan")
  <2>1. AfterFirstPoll(k) = g BY <1>1, <1>4 DEF AfterFirstPoll
  <2>2. Keep(k, g, {"at"}) /\ g.at = "plan" BY <1>2, GotoKeeps
  <2> HIDE DEF g
  <2>3. MainOk(g) BY <1>1, <1>2, <1>4, <2>2 DEF Keep, MainOk, SamplesInv
  <2> QED BY <2>1, <2>3 DEF k
<1>5. CASE ~b /\ k.phase = "benchmarks"
  <2>1. AfterFirstPoll(k) = BeginRecurrence(k) BY <1>1, <1>5 DEF AfterFirstPoll
  <2>2. k.scores = Scored(k.rec - 1) BY <1>1, <1>2, <1>5 DEF MainOk, BenchmarksInv
  <2> QED BY <1>2, <1>5, <2>1, <2>2, BeginMain DEF k
<1> QED BY <1>2, <1>3, <1>4, <1>5

\* No recurrence before the first.
LEMMA NothingScored == Scored(1 - 1) = <<>>
<1> QED BY DEF Scored

\* The number behind a recurrence.
LEMMA RecurrenceNumbers ==
    ASSUME NEW n \in 1 .. Recurrences
    PROVE  /\ n \in Nat \ {0} /\ (n + 1) - 1 = n
           /\ ~(n < Recurrences) => n = Recurrences
<1> QED BY PlanAssumption

\* The next phase begins from nothing.
LEMMA NextPhaseMain ==
    ASSUME NEW l, NEW b \in BOOLEAN, IsLocal(l), MainOk(l), l.phase \in Phases, l.at = "after phase"
    PROVE  MainOk(NextPhase(Asked(l, b)))
<1> DEFINE k == Asked(l, b)
<1>1. Keep(l, k, {"requested"}) /\ k.requested = b /\ MainOk(k) BY AskedMain
<1> HIDE DEF k
<1>2. IsLocal(k) /\ k.phase \in Phases /\ k.at = "after phase" BY <1>1 DEF Keep
<1>3. CASE ~k.requested /\ k.phase = "samples"
  <2> DEFINE g == Enter(k, "benchmarks")
  <2>1. NextPhase(k) = g BY <1>3 DEF NextPhase
  <2>2. Keep(k, g, {"at", "phase"}) /\ g.at = "agree" /\ g.phase = "benchmarks"
    BY <1>2 DEF Keep, IsLocal, Fields, Enter
  <2> HIDE DEF g
  <2>3. k.rec = 1 /\ k.scores = <<>> BY <1>1, <1>3 DEF MainOk, SamplesInv
  <2>4. g.rec = 1 /\ g.scores = <<>> BY <2>2, <2>3 DEF Keep
  <2>5. g.scores = Scored(g.rec - 1)
    <3>1. Scored(g.rec - 1) = Scored(1 - 1) BY <2>4
    <3> QED BY <2>4, <3>1, NothingScored
  <2>6. MainOk(g) BY <2>2, <2>4, <2>5 DEF MainOk, BenchmarksInv
  <2> QED BY <2>1, <2>6 DEF k
<1>4. CASE ~(~k.requested /\ k.phase = "samples")
  <2>1. NextPhase(k) = Goto(k, "done") BY <1>4 DEF NextPhase
  <2>2. MainOk(Goto(k, "done")) BY <1>1, <1>2, GotoMain
  <2> QED BY <2>1, <2>2 DEF k
<1> QED BY <1>3, <1>4

\* Behind a publication there is nothing to keep up.
LEMMA PublicationMain ==
    ASSUME NEW l, NEW b \in BOOLEAN, IsLocal(l), MainOk(l), l.phase \in Phases
    PROVE  MainOk(Leave(Asked(l, b), TRUE))
<1> DEFINE k == Asked(l, b)
<1>1. Keep(l, k, {"requested"}) /\ MainOk(k) BY AskedMain
<1> HIDE DEF k
<1>2. IsLocal(k) /\ k.phase \in Phases BY <1>1 DEF Keep
<1> QED BY <1>1, <1>2, LeaveMain DEF k

\* A recurrence that ends is scored.
LEMMA RecurrenceMain ==
    ASSUME NEW l, NEW b \in BOOLEAN, IsLocal(l), MainOk(l), l.phase = "benchmarks", l.at = "after recurrence",
           l.rec \in 1 .. Recurrences
    PROVE  MainOk(AfterRecurrence(Asked(l, b)))
<1> DEFINE k == Asked(l, b)
<1>1. Keep(l, k, {"requested"}) /\ k.requested = b /\ MainOk(k) BY AskedMain
<1> HIDE DEF k
<1>2. IsLocal(k) /\ k.phase = "benchmarks" /\ k.at = "after recurrence" /\ k.rec \in 1 .. Recurrences
  BY <1>1 DEF Keep
<1>3. /\ k.scores = Scored(k.rec - 1)
      /\ ~k.cancelled => k.answers = CallsAnswered(k.rec, Len(Calls))
  BY <1>1, <1>2 DEF MainOk, BenchmarksInv
<1>4. CASE k.cancelled
  <2>1. AfterRecurrence(k) = Leave(k, FALSE) BY <1>4 DEF AfterRecurrence
  <2>2. MainOk(Leave(k, FALSE)) BY <1>1, <1>2, LeaveMain
  <2> QED BY <2>1, <2>2 DEF k
<1>5. CASE ~k.cancelled
  <2> DEFINE x == Append(k.scores, k.answers)
             u == [k EXCEPT !.scores = x]
             rec == k.rec
  <2>1. u = [k EXCEPT !.scores = Append(@, k.answers)] BY <1>2 DEF IsLocal, Fields
  <2>2. rec \in 1 .. Recurrences /\ Recurrences \in Nat BY <1>2, PlanAssumption
  <2>3. x = Scored(rec)
    <3>1. k.answers = BenchmarkReference[rec] BY <1>3, <1>5, <2>2, ReferenceIs
    <3>2. k.scores = Scored(rec - 1) BY <1>3
    <3> HIDE DEF rec
    <3>3. rec \in Nat \ {0} BY <2>2, RecurrenceNumbers
    <3>4. Append(Scored(rec - 1), BenchmarkReference[rec]) = Scored(rec) BY <3>3, ScoresGrow
    <3> QED BY <3>1, <3>2, <3>4
  <2> HIDE DEF u, x
  <2>4. Keep(k, u, {"scores"}) /\ u.scores = x BY <1>2, OtherKeeps DEF u
  <2>5. /\ IsLocal(u) /\ u.phase = "benchmarks" /\ u.rec = rec /\ u.requested = k.requested
        /\ u.at = "after recurrence" /\ u.scores = Scored(rec)
    BY <1>2, <2>3, <2>4 DEF Keep
  <2>6. CASE k.requested /\ k.rec < Recurrences
    <3> DEFINE g == Leave(u, FALSE)
    <3>1. AfterRecurrence(k) = g BY <1>5, <2>1, <2>6 DEF AfterRecurrence
    <3>2. Keep(u, g, {"at", "generator"}) /\ g.at = "after phase" BY <2>5, LeaveKeeps
    <3> HIDE DEF g
    <3>3. MainOk(g) BY <2>5, <3>2 DEF Keep, MainOk, BenchmarksInv
    <3> QED BY <3>1, <3>3 DEF k
  <2>7. CASE ~(k.requested /\ k.rec < Recurrences) /\ k.rec < Recurrences
    <3> DEFINE n == rec + 1
               v == [u EXCEPT !.rec = n]
    <3>1. v = [u EXCEPT !.rec = @ + 1] BY <2>5 DEF IsLocal, Fields
    <3>2. AfterRecurrence(k) = BeginRecurrence(v) BY <1>5, <2>1, <2>7, <3>1 DEF AfterRecurrence
    <3>3. n - 1 = rec
      <4> HIDE DEF rec
      <4> QED BY <2>2, RecurrenceNumbers
    <3> HIDE DEF v, n, rec
    <3>4. Keep(u, v, {"rec"}) /\ v.rec = n BY <2>5, OtherKeeps DEF v
    <3>5. IsLocal(v) /\ v.phase = "benchmarks" /\ v.scores = Scored(v.rec - 1) BY <2>5, <3>3, <3>4 DEF Keep
    <3> QED BY <3>2, <3>5, BeginMain DEF k
  <2>8. CASE ~(k.requested /\ k.rec < Recurrences) /\ ~(k.rec < Recurrences)
    <3> DEFINE g == Goto(u, "publish")
    <3>1. AfterRecurrence(k) = g BY <1>5, <2>1, <2>8 DEF AfterRecurrence
    <3>2. Keep(u, g, {"at"}) /\ g.at = "publish" BY <2>5, GotoKeeps
    <3>3. rec = Recurrences
      <4>0. ~(rec < Recurrences) BY <2>8
      <4> HIDE DEF rec
      <4> QED BY <2>2, <4>0, RecurrenceNumbers
    <3> HIDE DEF g
    <3>4. MainOk(g) BY <2>5, <3>2, <3>3 DEF Keep, MainOk, BenchmarksInv
    <3> QED BY <3>1, <3>4 DEF k
  <2> QED BY <2>6, <2>7, <2>8
<1> QED BY <1>4, <1>5

\* No sample before the first.
LEMMA NothingAnswered == SampleAnswers(0) = <<>>
<1> QED BY DEF SampleAnswers

\* A round of samples, or their publication, follows what was answered so far.
LEMMA SampleRoundMain ==
    ASSUME NEW l, IsLocal(l), l.phase = "samples", l.rec = 1, l.scores = <<>>, l.plan = SamplePlan,
           l.answers = SampleAnswers(IF l.start < Len(SamplePlan) THEN l.start ELSE Len(SamplePlan))
    PROVE  MainOk(SampleRound(l))
<1> DEFINE g == SampleRound(l)
<1>1. Keep(l, g, {"at"}) /\ g.at = IF l.start < Len(SamplePlan) THEN "round" ELSE "publish" BY RoundKeeps
<1> HIDE DEF g
<1>2. /\ g.phase = "samples" /\ g.rec = 1 /\ g.scores = <<>> /\ g.start = l.start
      /\ g.answers = SampleAnswers(IF g.start < Len(SamplePlan) THEN g.start ELSE Len(SamplePlan))
  BY <1>1 DEF Keep
<1>3. CASE l.start < Len(SamplePlan) BY <1>1, <1>2, <1>3 DEF SamplesInv, MainOk, g
<1>4. CASE ~(l.start < Len(SamplePlan)) BY <1>1, <1>2, <1>4 DEF SamplesInv, MainOk, g
<1> QED BY <1>3, <1>4

\* The plan is answered from its start.
LEMMA PlanMain ==
    ASSUME NEW l, NEW commands, IsLocal(l), MainOk(l), l.phase = "samples", l.at = "plan",
           OneCommand(commands), commands[Main].jobs = SamplePlan
    PROVE  MainOk(AfterPlan(l, commands))
<1> DEFINE g == [l EXCEPT !.plan = SamplePlan]
<1>1. AfterPlan(l, commands) = SampleRound(g) BY DEF AfterPlan
<1>2. Keep(l, g, {"plan"}) /\ g.plan = SamplePlan BY DEF Keep, IsLocal, Fields
<1> HIDE DEF g
<1>4. /\ IsLocal(g) /\ g.phase = "samples" /\ g.rec = 1 /\ g.scores = <<>> /\ g.start = 0
      /\ g.answers = <<>>
  BY <1>2 DEF Keep, MainOk, SamplesInv
<1>7. MainOk(SampleRound(g)) BY <1>2, <1>4, SampleRoundMain, NothingAnswered, PlanLemma
<1> QED BY <1>1, <1>7

\* A round of samples answers its jobs.
LEMMA SampleRepliesMain ==
    ASSUME NEW l, NEW replies, IsLocal(l), MainOk(l), l.phase = "samples", l.at = "round",
           l.start \in Nat, l.plan = SamplePlan,
           RepliesMatch(l, RoundOf(l.plan, l.start), replies), Answered(RoundOf(l.plan, l.start), replies)
    PROVE  MainOk(AfterRound(Main, l, replies))
<1> DEFINE g == AfterRound(Main, l, replies)
           start == l.start
           c == Len(SamplePlan)
           new == [i \in DOMAIN RoundOf(SamplePlan, start) |-> replies[i - 1].values]
           x == l.answers \o new
<1>1. l.rec = 1 /\ l.scores = <<>> /\ start < c /\ l.answers = SampleAnswers(start) /\ start \in Nat
  BY DEF MainOk, SamplesInv
<1>2. g = [l EXCEPT !.at = "after round", !.answers = x] BY DEF AfterRound, IsLocal, Fields
<1>3. x = SampleAnswers(IF start + World < c THEN start + World ELSE c)
  <2>1. Answered(RoundOf(SamplePlan, start), replies) OBVIOUS
  <2>2. l.answers = SampleAnswers(start) BY <1>1
  <2> HIDE DEF start, g
  <2>3. SampleAnswers(start) \o new = SampleAnswers(IF start + World < c THEN start + World ELSE c)
    BY <1>1, <2>1, SamplesGather
  <2> QED BY <2>2, <2>3
<1> HIDE DEF g, x, new
<1>4. Keep(l, g, {"at", "answers"}) /\ g.at = "after round" /\ g.answers = x BY <1>2 DEF Keep, IsLocal, Fields
<1>5. g.phase = "samples" /\ g.rec = 1 /\ g.scores = <<>> /\ g.start = start BY <1>1, <1>4 DEF Keep
<1>6. SamplesInv(g) BY <1>1, <1>3, <1>4, <1>5 DEF SamplesInv
<1> QED BY <1>5, <1>6 DEF MainOk, g

\* Behind a round of samples.
LEMMA SamplePollMain ==
    ASSUME NEW l, NEW b \in BOOLEAN, IsLocal(l), MainOk(l), l.phase = "samples", l.at = "after round",
           l.plan = SamplePlan
    PROVE  MainOk(AfterSampleRound(Asked(l, b)))
<1> DEFINE k == Asked(l, b)
<1>1. Keep(l, k, {"requested"}) /\ k.requested = b /\ MainOk(k) BY AskedMain
<1> HIDE DEF k
<1>2. IsLocal(k) /\ k.phase = "samples" /\ k.at = "after round" /\ k.plan = SamplePlan BY <1>1 DEF Keep
<1>3. CASE k.requested /\ k.start + World < Len(k.plan)
  <2>1. AfterSampleRound(k) = Leave(k, FALSE) BY <1>3 DEF AfterSampleRound
  <2> QED BY <1>1, <1>2, <2>1, LeaveMain DEF k
<1>4. CASE ~(k.requested /\ k.start + World < Len(k.plan))
  <2> DEFINE n == k.start + World
             u == [k EXCEPT !.start = n]
  <2>1. u = [k EXCEPT !.start = @ + World] BY <1>2 DEF IsLocal, Fields
  <2>2. AfterSampleRound(k) = SampleRound(u) BY <1>4, <2>1 DEF AfterSampleRound
  <2>3. k.rec = 1 /\ k.scores = <<>> /\ k.answers = SampleAnswers(IF n < Len(SamplePlan) THEN n ELSE Len(SamplePlan))
    BY <1>1, <1>2 DEF MainOk, SamplesInv
  <2> HIDE DEF n, u
  <2>4. Keep(k, u, {"start"}) /\ u.start = n BY <1>2, StepKeeps DEF u
  <2>5. /\ IsLocal(u) /\ u.phase = "samples" /\ u.rec = 1 /\ u.scores = <<>> /\ u.plan = SamplePlan
        /\ u.answers = SampleAnswers(IF u.start < Len(SamplePlan) THEN u.start ELSE Len(SamplePlan))
    BY <1>2, <2>3, <2>4 DEF Keep
  <2> QED BY <2>2, <2>5, SampleRoundMain DEF k
<1> QED BY <1>3, <1>4

-----------------------------------------------------------------------------

\* The main rank at a command: its evaluator waits in a call or is through.
LEMMA CommandMainOk ==
    ASSUME NEW l, NEW g, ToCommand(Main, l, g), l.phase = "benchmarks", l.scores = Scored(l.rec - 1),
           ~g.cancelled => InEvaluator(g)
    PROVE  MainOk(g)
<1> QED BY DEF MainOk, BenchmarksInv, InEvaluator, ToCommand, Keep

\* The evaluator's first command.
LEMMA ReadyMain ==
    ASSUME NEW l, Known(Main, l), l.at = "ready"
    PROVE  MainOk(Ready(Main, l))
<1>2. l.phase = "benchmarks" BY DEF Known, Flow
<1>3. l.scores = Scored(l.rec - 1) BY <1>2 DEF Known, MainOk, BenchmarksInv
<1> QED BY <1>2, <1>3, CommandMainOk, ReadyTurns

\* The evaluator's next command, behind a round.
LEMMA BenchmarkPollMain ==
    ASSUME NEW l, NEW b \in BOOLEAN, Known(Main, l), l.at = "after round", l.phase = "benchmarks"
    PROVE  MainOk(AfterBenchmarkRound(Main, Asked(l, b)))
<1> DEFINE k == Asked(l, b)
           g == AfterBenchmarkRound(Main, k)
<1>1. /\ ToCommand(Main, k, g)
      /\ ~b => InEvaluator(g)
      /\ b => g.cancelled = TRUE
  BY RoundTurns
<1>2. IsLocal(l) /\ MainOk(l) /\ l.scores = Scored(l.rec - 1) BY DEF Known, Flow, MainOk, BenchmarksInv
<1>3. Keep(l, k, {"requested"}) BY <1>2, AskedMain
<1> HIDE DEF k, g
<1>4. k.phase = "benchmarks" /\ k.scores = Scored(k.rec - 1) BY <1>2, <1>3 DEF Keep
<1>5. ~g.cancelled => InEvaluator(g) BY <1>1
<1> QED BY <1>1, <1>4, <1>5, CommandMainOk DEF k, g

\* What the main rank's command says of where its evaluator is.
LEMMA MainCommandLemma ==
    ASSUME NEW l, Known(Main, l), l.at = "command"
    PROVE  /\ MainCommand(l) # NoCommand /\ MainCommand(l).seq = l.seq
           /\ MainCommand(l).method \in {"call", "finish", "cancel"}
           /\ MainCommand(l).method = "call" =>
                 /\ ~l.requested /\ ~l.cancelled /\ InCall(l)
                 /\ MainCommand(l).jobs = RoundOf(BenchmarkJobs(l.rec, l.call), l.start)
           /\ MainCommand(l).method = "finish" => ~l.cancelled /\ l.answers = CallsAnswered(l.rec, Len(Calls))
           /\ MainCommand(l).method = "cancel" => l.cancelled
<1> DEFINE jobs == RoundOf(BenchmarkJobs(l.rec, l.call), l.start)
<1>1. l.phase = "benchmarks" /\ (l.requested <=> l.cancelled) /\ l.cancelled \in BOOLEAN BY DEF Known, Flow
<1>2. ~l.cancelled => InEvaluator(l) BY <1>1 DEF Known, MainOk, BenchmarksInv, InEvaluator
<1> HIDE DEF jobs
<1>3. CASE l.cancelled BY <1>3 DEF MainCommand, Command, NoCommand
<1>4. CASE ~l.cancelled /\ l.call \in DOMAIN Calls
  BY <1>4, PlanAssumption, <1>2, <1>1 DEF MainCommand, Command, jobs, InEvaluator, NoCommand
<1>5. CASE ~l.cancelled /\ l.call \notin DOMAIN Calls
  BY <1>5, <1>2 DEF MainCommand, Command, InEvaluator, InCall, NoCommand
<1> QED BY <1>3, <1>4, <1>5

\* The command a main rank gave itself.
LEMMA CommandMain ==
    ASSUME NEW l, NEW commands, Known(Main, l), l.at = "command", OneCommand(commands),
           commands[Main] = MainCommand(l)
    PROVE  MainOk(AfterCommand(l, commands))
<1> DEFINE g == AfterCommand(l, commands)
           command == MainCommand(l)
           jobs == command.jobs
<1>1. /\ command.seq = l.seq /\ command.method \in {"call", "finish", "cancel"}
      /\ command.method = "call" =>
            /\ ~l.cancelled /\ InCall(l)
            /\ jobs = RoundOf(BenchmarkJobs(l.rec, l.call), l.start)
      /\ command.method = "finish" => l.answers = CallsAnswered(l.rec, Len(Calls))
  BY MainCommandLemma
<1>2. IsLocal(l) /\ l.phase = "benchmarks" /\ l.scores = Scored(l.rec - 1)
  BY DEF Known, Flow, MainOk, BenchmarksInv
<1> HIDE DEF command
<1>3. CASE command.method = "call"
  <2>1. g = [l EXCEPT !.at = "replies", !.jobs = jobs] BY <1>1, <1>3 DEF AfterCommand, command
  <2> HIDE DEF g, jobs
  <2>2. Keep(l, g, {"at", "jobs"}) /\ g.at = "replies" /\ g.jobs = jobs
    BY <1>2, <2>1 DEF Keep, IsLocal, Fields
  <2>3. /\ g.phase = "benchmarks" /\ g.scores = Scored(g.rec - 1) /\ g.rec = l.rec /\ g.call = l.call
        /\ g.start = l.start /\ g.ordered = l.ordered /\ g.answers = l.answers
    BY <1>2, <2>2 DEF Keep
  <2> QED BY <2>3, <2>2, <1>1, <1>3 DEF MainOk, g, BenchmarksInv, InCall, InRound
<1>4. CASE command.method # "call"
  <2> DEFINE c == command.method = "cancel"
  <2>0. c \in BOOLEAN OBVIOUS
  <2>1. g = [l EXCEPT !.at = "stats", !.cancelled = c] BY <1>1, <1>4 DEF AfterCommand, command
  <2> HIDE DEF g, c
  <2>2. Keep(l, g, {"at", "cancelled"}) /\ g.at = "stats" /\ g.cancelled = c
    BY <1>2, <2>1 DEF Keep, IsLocal, Fields
  <2>3. /\ g.phase = "benchmarks" /\ g.scores = Scored(g.rec - 1) /\ g.rec = l.rec /\ g.answers = l.answers
    BY <1>2, <2>2 DEF Keep
  <2>4. ~g.cancelled => g.answers = CallsAnswered(g.rec, Len(Calls)) BY <1>1, <1>4, <2>2, <2>3 DEF c
  <2> QED BY <2>3, <2>2, <2>4 DEF MainOk, g, BenchmarksInv
<1> QED BY <1>3, <1>4

\* A round of a call answers its jobs.
LEMMA RepliesMain ==
    ASSUME NEW l, NEW replies, Known(Main, l), l.at = "replies",
           RepliesMatch(l, l.jobs, replies), Answered(l.jobs, replies)
    PROVE  MainOk(AfterReplies(l, replies))
<1> DEFINE g == AfterReplies(l, replies)
           n == l.seq + 1
<1>1. IsLocal(l) /\ l.phase = "benchmarks" /\ l.scores = Scored(l.rec - 1) /\ InCall(l) /\ InRound(l)
  BY DEF Known, Flow, MainOk, BenchmarksInv
<1>2. g = [l EXCEPT !.at = "after round", !.seq = n, !.replies = replies]
  BY <1>1 DEF AfterReplies, IsLocal, Fields
<1> HIDE DEF g, n
<1>3. Keep(l, g, {"at", "seq", "replies"}) /\ g.at = "after round" /\ g.replies = replies
  BY <1>1, <1>2 DEF Keep, IsLocal, Fields
<1>4. /\ g.phase = "benchmarks" /\ g.scores = Scored(g.rec - 1) /\ g.jobs = l.jobs /\ g.rec = l.rec
      /\ g.call = l.call /\ g.start = l.start /\ g.ordered = l.ordered /\ g.answers = l.answers
  BY <1>1, <1>3 DEF Keep
<1>5. InCall(g) /\ InRound(g) /\ Answered(g.jobs, g.replies) BY <1>1, <1>3, <1>4 DEF InCall, InRound
<1>6. BenchmarksInv(g) BY <1>3, <1>4, <1>5 DEF BenchmarksInv, Answered
<1> QED BY <1>4, <1>6 DEF MainOk, g

-----------------------------------------------------------------------------
(* A collective that meets.                                                 *)

\* The ranks of a collective, with what they gave it.
AtMeet(l, gave) ==
    /\ \A r, q \in Rank : Pair(r, q, l[r], l[q])
    /\ \A r \in Rank : Known(r, l[r]) /\ l[r].at \in Places
    /\ \A r \in Rank : l[r].at \notin Polls => gave[r] = Contribution(r, l[r])

\* A rank comes out of it with the verdicts it had, or in or out of a publication.
Outcome(l, g) ==
    \/ Settled(l, g)
    \/ l.at = "publish" /\ g = Goto(l, "after publication")
    \/ /\ l.at = "after publication" /\ g.at # "after publication"
       /\ g.completed = l.completed \union {l.phase}

\* What is to be shown of two ranks and the main rank when a collective meets.
Meeting(r, q, l, gave) ==
    /\ Pair(r, q, Continue(r, l[r], gave), Continue(q, l[q], gave))
    /\ Outcome(l[r], Continue(r, l[r], gave))
    /\ MainOk(Continue(Main, l[Main], gave))

\* Agreed on the request.
LEMMA AgreeContinues ==
    ASSUME NEW r, NEW l, NEW gave, l.at = "agree"
    PROVE  Continue(r, l, gave) = Goto(l, "before jobs")
BY ContinueLemma

\* At the first poll of a phase.
LEMMA FirstPollContinues ==
    ASSUME NEW r, NEW l, NEW gave, l.at = "before jobs"
    PROVE  Continue(r, l, gave) = AfterFirstPoll(Asked(l, Polled(r, gave)))
BY ContinueLemma

\* Behind a round of samples.
LEMMA SamplePollContinues ==
    ASSUME NEW r, NEW l, NEW gave, l.at = "after round", l.phase = "samples"
    PROVE  Continue(r, l, gave) = AfterSampleRound(Asked(l, Polled(r, gave)))
BY ContinueLemma

\* Behind a round of a call.
LEMMA CallPollContinues ==
    ASSUME NEW r, NEW l, NEW gave, l.at = "after round", l.phase = "benchmarks"
    PROVE  Continue(r, l, gave) = AfterBenchmarkRound(r, Asked(l, Polled(r, gave)))
BY ContinueLemma

\* Before the first call.
LEMMA ReadyContinues ==
    ASSUME NEW r, NEW l, NEW gave, l.at = "ready"
    PROVE  Continue(r, l, gave) = Ready(r, l)
BY ContinueLemma

\* Behind the calls.
LEMMA StatsContinue ==
    ASSUME NEW r, NEW l, NEW gave, l.at = "stats"
    PROVE  Continue(r, l, gave) = Goto(l, "after recurrence")
BY ContinueLemma

\* Behind a recurrence.
LEMMA RecurrenceContinues ==
    ASSUME NEW r, NEW l, NEW gave, l.at = "after recurrence"
    PROVE  Continue(r, l, gave) = AfterRecurrence(Asked(l, Polled(r, gave)))
BY ContinueLemma

\* At a publication.
LEMMA PublishContinues ==
    ASSUME NEW r, NEW l, NEW gave, l.at = "publish"
    PROVE  Continue(r, l, gave) = Goto(l, "after publication")
BY ContinueLemma

\* Behind it.
LEMMA PublicationContinues ==
    ASSUME NEW r, NEW l, NEW gave, l.at = "after publication"
    PROVE  Continue(r, l, gave) = Leave(Asked(l, Polled(r, gave)), TRUE)
BY ContinueLemma

\* Behind a phase.
LEMMA PhaseContinues ==
    ASSUME NEW r, NEW l, NEW gave, l.at = "after phase"
    PROVE  Continue(r, l, gave) = NextPhase(Asked(l, Polled(r, gave)))
BY ContinueLemma

\* At the plan.
LEMMA PlanContinues ==
    ASSUME NEW r, NEW l, NEW gave, l.at = "plan"
    PROVE  Continue(r, l, gave) = AfterPlan(l, Commands(gave))
BY ContinueLemma

\* At a round of samples.
LEMMA RoundContinues ==
    ASSUME NEW r, NEW l, NEW gave, l.at = "round"
    PROVE  Continue(r, l, gave) = AfterRound(r, l, Replies(gave))
BY ContinueLemma

\* At a command.
LEMMA CommandContinues ==
    ASSUME NEW r, NEW l, NEW gave, l.at = "command"
    PROVE  Continue(r, l, gave) = AfterCommand(l, Commands(gave))
BY ContinueLemma

\* At the replies of a call.
LEMMA RepliesContinue ==
    ASSUME NEW r, NEW l, NEW gave, l.at = "replies"
    PROVE  Continue(r, l, gave) = AfterReplies(l, Replies(gave))
BY ContinueLemma

\* The main rank is one.
LEMMA MainIsRank == Main \in Rank
BY WorldAssumption DEF Main, Rank

\* All ranks of a collective are at one place, in one phase.
LEMMA SamePlace ==
    ASSUME NEW l, NEW gave, AtMeet(l, gave), NEW r \in Rank
    PROVE  /\ l[r].at = l[Main].at /\ l[r].phase = l[Main].phase /\ l[r].seq = l[Main].seq
           /\ l[r].requested = l[Main].requested
           /\ Flow(r, l[r]) /\ IsLocal(l[r]) /\ MainOk(l[Main]) /\ Known(Main, l[Main]) /\ IsLocal(l[Main])
           /\ l[Main].phase \in Phases /\ Polled(r, gave) = Polled(Main, gave)
           /\ Pair(r, Main, l[r], l[Main])
<1>1. Pair(r, Main, l[r], l[Main]) /\ Known(r, l[r]) /\ Known(Main, l[Main]) BY MainIsRank DEF AtMeet
<1>2. Polled(r, gave) = Polled(Main, gave) BY DEF Polled
<1> QED BY <1>1, <1>2 DEF Pair, SameControl, Flow, Known

\* The polls, and the collectives that carry nothing.
LEMMA PollsMeet ==
    ASSUME NEW l, NEW gave, AtMeet(l, gave), NEW r \in Rank, NEW q \in Rank,
           l[Main].at \in {"agree", "before jobs", "stats", "after recurrence", "publish",
                           "after publication", "after phase"}
    PROVE  Meeting(r, q, l, gave)
<1> DEFINE k == l[r]
           m == l[q]
           z == l[Main]
           b == Polled(Main, gave)
<1>1. /\ k.at = z.at /\ m.at = z.at /\ Pair(r, q, k, m) /\ Main \in Rank /\ b \in BOOLEAN
      /\ IsLocal(k) /\ IsLocal(z) /\ MainOk(z) /\ z.phase \in Phases /\ Flow(Main, z)
      /\ Polled(r, gave) = b /\ Polled(q, gave) = b
  <2>1. Pair(r, q, k, m) BY DEF AtMeet
  <2>2. b \in BOOLEAN BY DEF Polled
  <2> QED BY <2>1, <2>2, SamePlace, MainIsRank
<1> HIDE DEF k, m, z, b
<1> SUFFICES /\ Pair(r, q, Continue(r, k, gave), Continue(q, m, gave))
             /\ Outcome(k, Continue(r, k, gave))
             /\ MainOk(Continue(Main, z, gave))
  BY DEF Meeting, k, m, z
<1>2. ASSUME NEW place, \/ z.at = "agree" /\ place = "before jobs"
                        \/ z.at = "stats" /\ place = "after recurrence"
                        \/ z.at = "publish" /\ place = "after publication"
      PROVE  /\ Pair(r, q, Goto(k, place), Goto(m, place)) /\ MainOk(Goto(z, place))
             /\ Outcome(k, Goto(k, place))
  <2>1. Pair(r, q, Goto(k, place), Goto(m, place)) BY <1>1, <1>2, GotoStep
  <2>2. MainOk(Goto(z, place)) BY <1>1, <1>2, GotoMain
  <2>3. Outcome(k, Goto(k, place))
    <3>1. CASE place = "after publication" BY <1>1, <1>2, <3>1 DEF Outcome
    <3>2. CASE place # "after publication"
      <4>1. Keep(k, Goto(k, place), {"at"}) /\ Goto(k, place).at = place BY <1>1, GotoKeeps
      <4>2. Settled(k, Goto(k, place)) BY <3>2, <4>1 DEF Settled, Keep
      <4> QED BY <4>2 DEF Outcome
    <3> QED BY <3>1, <3>2
  <2> QED BY <2>1, <2>2, <2>3
<1>3. CASE z.at = "agree"
  <2>1. /\ Continue(r, k, gave) = Goto(k, "before jobs") /\ Continue(q, m, gave) = Goto(m, "before jobs")
        /\ Continue(Main, z, gave) = Goto(z, "before jobs")
    BY <1>1, <1>3, AgreeContinues
  <2> QED BY <1>2, <1>3, <2>1
<1>4. CASE z.at = "stats"
  <2>1. /\ Continue(r, k, gave) = Goto(k, "after recurrence") /\ Continue(q, m, gave) = Goto(m, "after recurrence")
        /\ Continue(Main, z, gave) = Goto(z, "after recurrence")
    BY <1>1, <1>4, StatsContinue
  <2> QED BY <1>2, <1>4, <2>1
<1>5. CASE z.at = "publish"
  <2>1. /\ Continue(r, k, gave) = Goto(k, "after publication") /\ Continue(q, m, gave) = Goto(m, "after publication")
        /\ Continue(Main, z, gave) = Goto(z, "after publication")
    BY <1>1, <1>5, PublishContinues
  <2> QED BY <1>2, <1>5, <2>1
<1>6. CASE z.at = "before jobs"
  <2>1. /\ Continue(r, k, gave) = AfterFirstPoll(Asked(k, b)) /\ Continue(q, m, gave) = AfterFirstPoll(Asked(m, b))
        /\ Continue(Main, z, gave) = AfterFirstPoll(Asked(z, b))
    BY <1>1, <1>6, FirstPollContinues, ZenonT(60) DEF b
  <2>2. Pair(r, q, AfterFirstPoll(Asked(k, b)), AfterFirstPoll(Asked(m, b))) /\ Settled(k, AfterFirstPoll(Asked(k, b)))
    BY <1>1, <1>6, FirstPollStep
  <2>3. MainOk(AfterFirstPoll(Asked(z, b))) BY <1>1, <1>6, FirstPollMain
  <2> QED BY <2>1, <2>2, <2>3 DEF Outcome
<1>7. CASE z.at = "after recurrence"
  <2>1. /\ Continue(r, k, gave) = AfterRecurrence(Asked(k, b)) /\ Continue(q, m, gave) = AfterRecurrence(Asked(m, b))
        /\ Continue(Main, z, gave) = AfterRecurrence(Asked(z, b))
    BY <1>1, <1>7, RecurrenceContinues, ZenonT(60) DEF b
  <2>2. Pair(r, q, AfterRecurrence(Asked(k, b)), AfterRecurrence(Asked(m, b))) /\ Settled(k, AfterRecurrence(Asked(k, b)))
    BY <1>1, <1>7, RecurrenceStep
  <2>3. z.phase = "benchmarks" /\ z.rec \in 1 .. Recurrences BY <1>1, <1>7 DEF Flow
  <2>4. MainOk(AfterRecurrence(Asked(z, b))) BY <1>1, <1>7, <2>3, RecurrenceMain
  <2> QED BY <2>1, <2>2, <2>4 DEF Outcome
<1>8. CASE z.at = "after publication"
  <2>1. /\ Continue(r, k, gave) = Leave(Asked(k, b), TRUE) /\ Continue(q, m, gave) = Leave(Asked(m, b), TRUE)
        /\ Continue(Main, z, gave) = Leave(Asked(z, b), TRUE)
    BY <1>1, <1>8, PublicationContinues, ZenonT(60) DEF b
  <2>2. /\ Pair(r, q, Leave(Asked(k, b), TRUE), Leave(Asked(m, b), TRUE))
        /\ Leave(Asked(k, b), TRUE).completed = k.completed \union {k.phase}
        /\ Leave(Asked(k, b), TRUE).at # "after publication"
    BY <1>1, <1>8, PublicationStep, ZenonT(60)
  <2>3. MainOk(Leave(Asked(z, b), TRUE)) BY <1>1, PublicationMain
  <2>4. k.at = "after publication" BY <1>1, <1>8
  <2> QED BY <2>1, <2>2, <2>3, <2>4 DEF Outcome
<1>9. CASE z.at = "after phase"
  <2>1. /\ Continue(r, k, gave) = NextPhase(Asked(k, b)) /\ Continue(q, m, gave) = NextPhase(Asked(m, b))
        /\ Continue(Main, z, gave) = NextPhase(Asked(z, b))
    BY <1>1, <1>9, PhaseContinues, ZenonT(60) DEF b
  <2>2. Pair(r, q, NextPhase(Asked(k, b)), NextPhase(Asked(m, b))) /\ Settled(k, NextPhase(Asked(k, b)))
    BY <1>1, <1>9, NextPhaseStep
  <2>3. MainOk(NextPhase(Asked(z, b))) BY <1>1, <1>9, NextPhaseMain
  <2> QED BY <2>1, <2>2, <2>3 DEF Outcome
<1> QED BY <1>3, <1>4, <1>5, <1>6, <1>7, <1>8, <1>9 DEF z

\* After a round, and before the evaluator's first call.
LEMMA RoundsMeet ==
    ASSUME NEW l, NEW gave, AtMeet(l, gave), NEW r \in Rank, NEW q \in Rank,
           l[Main].at \in {"after round", "ready"}
    PROVE  Meeting(r, q, l, gave)
<1> DEFINE k == l[r]
           m == l[q]
           z == l[Main]
           b == Polled(Main, gave)
<1>1. /\ k.at = z.at /\ m.at = z.at /\ k.phase = z.phase /\ m.phase = z.phase
      /\ Pair(r, q, k, m) /\ Main \in Rank /\ b \in BOOLEAN
      /\ IsLocal(k) /\ IsLocal(z) /\ MainOk(z) /\ z.phase \in Phases /\ Flow(Main, z)
      /\ Polled(r, gave) = b /\ Polled(q, gave) = b
      /\ Known(r, k) /\ Known(q, m) /\ Known(Main, z)
  <2>1. Pair(r, q, k, m) /\ Known(r, k) /\ Known(q, m) BY DEF AtMeet
  <2>2. b \in BOOLEAN BY DEF Polled
  <2>3. /\ k.at = z.at /\ k.phase = z.phase /\ IsLocal(k) /\ Polled(r, gave) = b
        /\ MainOk(z) /\ Known(Main, z) /\ IsLocal(z) /\ z.phase \in Phases
    BY SamePlace
  <2>4. m.at = z.at /\ m.phase = z.phase /\ Polled(q, gave) = b BY SamePlace
  <2>5. Flow(Main, z) BY <2>3 DEF Known
  <2> HIDE DEF k, m, z, b
  <2> QED BY <2>1, <2>2, <2>3, <2>4, <2>5, MainIsRank
<1> HIDE DEF k, m, z, b
<1> SUFFICES /\ Pair(r, q, Continue(r, k, gave), Continue(q, m, gave))
             /\ Outcome(k, Continue(r, k, gave))
             /\ MainOk(Continue(Main, z, gave))
  BY DEF Meeting, k, m, z
<1>2. CASE z.at = "ready"
  <2>1. /\ Continue(r, k, gave) = Ready(r, k) /\ Continue(q, m, gave) = Ready(q, m)
        /\ Continue(Main, z, gave) = Ready(Main, z)
    BY <1>1, <1>2, ReadyContinues
  <2>2. Pair(r, q, Ready(r, k), Ready(q, m)) /\ Settled(k, Ready(r, k)) BY <1>1, <1>2, ReadyStep
  <2>3. MainOk(Ready(Main, z)) BY <1>1, <1>2, ReadyMain
  <2> QED BY <2>1, <2>2, <2>3 DEF Outcome
<1>3. CASE z.at = "after round" /\ z.phase = "samples"
  <2>1. /\ Continue(r, k, gave) = AfterSampleRound(Asked(k, b)) /\ Continue(q, m, gave) = AfterSampleRound(Asked(m, b))
        /\ Continue(Main, z, gave) = AfterSampleRound(Asked(z, b))
    BY <1>1, <1>3, SamplePollContinues, ZenonT(60) DEF b
  <2>2. Pair(r, q, AfterSampleRound(Asked(k, b)), AfterSampleRound(Asked(m, b))) /\ Settled(k, AfterSampleRound(Asked(k, b)))
    BY <1>1, <1>3, SamplePollStep
  <2>3. z.plan = SamplePlan BY <1>1, <1>3 DEF Flow
  <2>4. MainOk(AfterSampleRound(Asked(z, b))) BY <1>1, <1>3, <2>3, SamplePollMain
  <2> QED BY <2>1, <2>2, <2>4 DEF Outcome
<1>4. CASE z.at = "after round" /\ z.phase = "benchmarks"
  <2>1. /\ Continue(r, k, gave) = AfterBenchmarkRound(r, Asked(k, b))
        /\ Continue(q, m, gave) = AfterBenchmarkRound(q, Asked(m, b))
        /\ Continue(Main, z, gave) = AfterBenchmarkRound(Main, Asked(z, b))
    BY <1>1, <1>4, CallPollContinues DEF b
  <2>2. /\ Pair(r, q, AfterBenchmarkRound(r, Asked(k, b)), AfterBenchmarkRound(q, Asked(m, b)))
        /\ Settled(k, AfterBenchmarkRound(r, Asked(k, b)))
    BY <1>1, <1>4, BenchmarkPollStep
  <2>3. MainOk(AfterBenchmarkRound(Main, Asked(z, b))) BY <1>1, <1>4, BenchmarkPollMain
  <2> QED BY <2>1, <2>2, <2>3 DEF Outcome
<1> QED BY <1>1, <1>2, <1>3, <1>4 DEF z

\* Only the main rank gives a command.
LEMMA OneCommandLemma ==
    ASSUME NEW l, NEW gave, AtMeet(l, gave), l[Main].at \in {"plan", "command"},
           NEW command, command # NoCommand, Contribution(Main, l[Main]) = CommandOf(command)
    PROVE  OneCommand(Commands(gave)) /\ Commands(gave)[Main] = command
<1>2. \A r \in Rank : l[r].at = l[Main].at /\ gave[r] = Contribution(r, l[r])
  <2>1. \A r \in Rank : l[r].at = l[Main].at BY SamePlace
  <2>2. l[Main].at \notin Polls BY DEF Polls
  <2> QED BY <2>1, <2>2 DEF AtMeet
<1>4. ASSUME NEW r \in Rank, r # Main PROVE gave[r].command = NoCommand
  <2>1. Contribution(r, l[r]) = CommandOf(NoCommand)
    <3>1. CASE l[Main].at = "plan"
      <4>1. l[r].at = "plan" BY <1>2, <3>1
      <4> QED BY <1>4, <4>1 DEF Contribution, Polls
    <3>2. CASE l[Main].at = "command"
      <4>1. l[r].at = "command" BY <1>2, <3>2
      <4> QED BY <1>4, <4>1 DEF Contribution, Polls
    <3> QED BY <3>1, <3>2
  <2> QED BY <1>2, <2>1 DEF CommandOf
<1> QED BY <1>4, <1>2, MainIsRank DEF OneCommand, CommandOf, Commands

\* The plan of the samples.
LEMMA PlanMeets ==
    ASSUME NEW l, NEW gave, AtMeet(l, gave), NEW r \in Rank, NEW q \in Rank, l[Main].at = "plan"
    PROVE  Meeting(r, q, l, gave)
<1> DEFINE k == l[r]
           m == l[q]
           z == l[Main]
           c == Commands(gave)
           command == [method |-> "plan", seq |-> z.seq, jobs |-> SamplePlan]
<1>1. /\ k.at = "plan" /\ m.at = "plan" /\ z.at = "plan" /\ Pair(r, q, k, m)
      /\ IsLocal(z) /\ MainOk(z) /\ Flow(Main, z)
  <2>1. Pair(r, q, k, m) BY DEF AtMeet
  <2>3. m.at = z.at BY SamePlace
  <2> QED BY <2>1, <2>3, SamePlace DEF Known
<1>2. OneCommand(c) /\ c[Main] = command
  <2>1. Contribution(Main, z) = CommandOf(command) BY <1>1 DEF Contribution, Command, Polls
  <2>2. command # NoCommand BY DEF NoCommand
  <2> HIDE DEF command, c
  <2> QED BY <1>1, <2>1, <2>2, OneCommandLemma DEF c
<1>3. c[Main].jobs = SamplePlan BY <1>2
<1> HIDE DEF k, m, z, c
<1>4. /\ Continue(r, k, gave) = AfterPlan(k, c) /\ Continue(q, m, gave) = AfterPlan(m, c)
      /\ Continue(Main, z, gave) = AfterPlan(z, c)
  BY <1>1, PlanContinues DEF c
<1>6. MainOk(AfterPlan(z, c)) BY <1>1, <1>2, <1>3, PlanMain DEF Flow
<1> QED BY <1>4, <1>6, <1>1, <1>2, <1>3, PlanStep DEF Meeting, Outcome, k, m, z

\* A command of the benchmarks.
LEMMA CommandMeets ==
    ASSUME NEW l, NEW gave, AtMeet(l, gave), NEW r \in Rank, NEW q \in Rank, l[Main].at = "command"
    PROVE  Meeting(r, q, l, gave)
<1> DEFINE k == l[r]
           m == l[q]
           z == l[Main]
           c == Commands(gave)
           command == MainCommand(z)
<1>1. /\ k.at = "command" /\ m.at = "command" /\ z.at = "command" /\ Pair(r, q, k, m)
      /\ Known(Main, z) /\ k.seq = z.seq /\ k.requested = z.requested
      /\ Flow(r, k) /\ Flow(q, m) /\ (r = Main => k = z) /\ (q = Main => m = z)
  <2>1. Pair(r, q, k, m) BY DEF AtMeet
  <2>3. m.at = z.at /\ Flow(q, m) BY SamePlace
  <2> QED BY <2>1, <2>3, SamePlace
<1>2. /\ command # NoCommand /\ command.seq = z.seq
      /\ command.method \in {"call", "finish", "cancel"}
      /\ command.method = "call" => ~z.requested /\ ~z.cancelled
  BY <1>1, MainCommandLemma
<1>3. OneCommand(c) /\ c[Main] = command
  <2>1. Contribution(Main, z) = CommandOf(command) BY <1>1 DEF Contribution, Polls
  <2> HIDE DEF command, c
  <2> QED BY <1>1, <1>2, <2>1, OneCommandLemma DEF c
<1> HIDE DEF k, m, z, c
<1>4. /\ Continue(r, k, gave) = AfterCommand(k, c) /\ Continue(q, m, gave) = AfterCommand(m, c)
      /\ Continue(Main, z, gave) = AfterCommand(z, c)
  BY <1>1, CommandContinues DEF c
<1>6. Pair(r, q, AfterCommand(k, c), AfterCommand(m, c)) /\ Settled(k, AfterCommand(k, c))
  BY <1>1, <1>2, <1>3, CommandStep DEF Flow
<1> QED BY <1>4, <1>6, <1>1, <1>3, CommandMain DEF Meeting, Outcome, k, m, z

\* The replies of a round are those its jobs ask for, on every rank.
LEMMA RepliesMeet ==
    ASSUME NEW l, NEW gave, AtMeet(l, gave), l[Main].at \in {"round", "replies"}, NEW jobs, NEW S,
           \A r \in Rank : RoundJobs(l[r]) = jobs,
           \A r \in Rank : r + 1 \in DOMAIN jobs => jobs[r + 1].positions \in Seq(S)
    PROVE  /\ \A r \in Rank : RepliesMatch(l[r], jobs, Replies(gave))
           /\ Answered(jobs, Replies(gave))
<1>1. \A r \in Rank : l[r].at = l[Main].at /\ l[r].seq = l[Main].seq /\ gave[r] = Contribution(r, l[r])
  <2>1. \A r \in Rank : l[r].at = l[Main].at /\ l[r].seq = l[Main].seq BY SamePlace
  <2>2. l[Main].at \notin Polls BY DEF Polls
  <2> QED BY <2>1, <2>2 DEF AtMeet
<1>2. \A r \in Rank : Replies(gave)[r] = Reply(l[r], r, jobs)
  <2> TAKE r \in Rank
  <2>1. l[r].at \in {"round", "replies"} /\ RoundJobs(l[r]) = jobs BY <1>1
  <2>2. Contribution(r, l[r]) = ReplyOf(Reply(l[r], r, jobs)) BY <2>1 DEF Contribution, Polls
  <2> QED BY <1>1, <2>2 DEF Replies, ReplyOf
<1>3. ASSUME NEW q \in Rank
      PROVE  RepliesMatch(l[q], jobs, Replies(gave)) /\ Answered(jobs, Replies(gave))
  BY <1>1, <1>2, RepliesLemma, SMTT(30), Z3T(30)
<1> QED BY <1>3, MainIsRank

\* A round of samples.
LEMMA SampleRoundMeets ==
    ASSUME NEW l, NEW gave, AtMeet(l, gave), NEW r \in Rank, NEW q \in Rank, l[Main].at = "round"
    PROVE  Meeting(r, q, l, gave)
<1> DEFINE k == l[r]
           m == l[q]
           z == l[Main]
           y == Replies(gave)
           start == z.start
           jobs == RoundOf(SamplePlan, start)
<1>1. \A p \in Rank : /\ l[p].at = "round" /\ l[p].phase = "samples" /\ l[p].plan = SamplePlan
                      /\ l[p].start = start /\ RoundJobs(l[p]) = jobs
  <2> TAKE p \in Rank
  <2>1. Pair(p, Main, l[p], z) /\ l[p].at = "round" /\ Flow(p, l[p]) BY SamePlace
  <2> QED BY <2>1 DEF RoundJobs, Pair, SameControl, Flow
<1>2. /\ Pair(r, q, k, m) /\ Known(Main, z) /\ Flow(Main, z) /\ IsLocal(z) /\ MainOk(z) /\ start \in Nat
  BY SamePlace, MainIsRank DEF AtMeet, Known, Flow
<1>3. \A p \in Rank : p + 1 \in DOMAIN jobs => jobs[p + 1].positions \in Seq(Nat)
  <2> DEFINE J == {SampleJob(i) : i \in 1 .. Len(SamplePlan)}
  <2>1. SamplePlan \in Seq(J) /\ \A i \in 1 .. Len(SamplePlan) : SamplePlan[i].positions \in Seq(Nat)
    BY PlanLemma
  <2> HIDE DEF J, start
  <2>2. \A i \in DOMAIN jobs : start + i \in 1 .. Len(SamplePlan) /\ jobs[i] = SamplePlan[start + i]
    BY <1>2, <2>1, RoundLemma
  <2> QED BY <2>1, <2>2
<1> HIDE DEF jobs
<1>5. /\ RepliesMatch(k, RoundOf(k.plan, k.start), y) /\ RepliesMatch(m, RoundOf(m.plan, m.start), y)
      /\ RepliesMatch(z, RoundOf(z.plan, z.start), y) /\ Answered(RoundOf(z.plan, z.start), y)
      /\ k.at = "round" /\ m.at = "round" /\ z.at = "round" /\ z.phase = "samples" /\ z.plan = SamplePlan
  BY <1>1, MainIsRank, <1>3, RepliesMeet DEF jobs
<1> HIDE DEF k, m, z, y
<1>6. /\ Continue(r, k, gave) = AfterRound(r, k, y) /\ Continue(q, m, gave) = AfterRound(q, m, y)
      /\ Continue(Main, z, gave) = AfterRound(Main, z, y)
  BY <1>5, RoundContinues DEF y
<1> QED BY <1>6, <1>2, <1>5, SampleRepliesStep, SampleRepliesMain DEF Meeting, Outcome, k, m, z

\* A round of a call.
LEMMA BenchmarkRoundMeets ==
    ASSUME NEW l, NEW gave, AtMeet(l, gave), NEW r \in Rank, NEW q \in Rank, l[Main].at = "replies"
    PROVE  Meeting(r, q, l, gave)
<1> DEFINE k == l[r]
           m == l[q]
           z == l[Main]
           y == Replies(gave)
           jobs == z.jobs
<1>1. \A p \in Rank : l[p].at = "replies" /\ l[p].jobs = jobs /\ RoundJobs(l[p]) = jobs
  <2> TAKE p \in Rank
  <2>1. Pair(p, Main, l[p], z) /\ l[p].at = "replies" /\ Flow(p, l[p]) BY SamePlace
  <2> QED BY <2>1 DEF RoundJobs, Pair, SameControl, Flow
<1>2. /\ Pair(r, q, k, m) /\ Known(Main, z) /\ Flow(Main, z) /\ IsLocal(z) /\ MainOk(z)
  BY SamePlace, MainIsRank DEF AtMeet, Known
<1>3. \E S : \A p \in Rank : p + 1 \in DOMAIN jobs => jobs[p + 1].positions \in Seq(S)
  <2> DEFINE all == BenchmarkJobs(z.rec, z.call)
             J == {all[i] : i \in 1 .. Len(all)}
             S == 1 .. Len(Calls[z.call])
             start == z.start
  <2>1. InCall(z) /\ InRound(z) /\ z.rec \in 1 .. Recurrences /\ start \in Nat
    BY <1>2 DEF Flow, MainOk, BenchmarksInv
  <2>2. jobs = RoundOf(all, start) /\ z.call \in DOMAIN Calls BY <2>1 DEF InRound, InCall
  <2>3. all \in Seq(J) /\ DOMAIN all = 1 .. Len(all) /\ \A i \in DOMAIN all : all[i].positions \in Seq(S)
    BY <2>1, <2>2, JobsLemma
  <2> HIDE DEF all, J, S, start, jobs
  <2>4. \A i \in DOMAIN RoundOf(all, start) :
           start + i \in 1 .. Len(all) /\ RoundOf(all, start)[i] = all[start + i]
    BY <2>1, <2>3, RoundLemma
  <2> QED BY <2>2, <2>3, <2>4
<1> HIDE DEF jobs
<1>4. (\A p \in Rank : RepliesMatch(l[p], jobs, y)) /\ Answered(jobs, y) BY <1>1, <1>3, RepliesMeet
<1>5. /\ RepliesMatch(k, k.jobs, y) /\ RepliesMatch(m, m.jobs, y)
      /\ RepliesMatch(z, z.jobs, y) /\ Answered(z.jobs, y)
      /\ k.at = "replies" /\ m.at = "replies" /\ z.at = "replies"
  BY <1>1, <1>4, MainIsRank DEF jobs
<1> HIDE DEF k, m, z, y
<1>6. /\ Continue(r, k, gave) = AfterReplies(k, y) /\ Continue(q, m, gave) = AfterReplies(m, y)
      /\ Continue(Main, z, gave) = AfterReplies(z, y)
  BY <1>5, RepliesContinue DEF y
<1> QED BY <1>6, <1>2, <1>5, RepliesStep, RepliesMain DEF Meeting, Outcome, k, m, z

\* Whatever the collective, it leaves the ranks together.
LEMMA MeetLemma ==
    ASSUME NEW l, NEW gave, AtMeet(l, gave), NEW r \in Rank, NEW q \in Rank
    PROVE  Meeting(r, q, l, gave)
<1>1. l[Main].at \in Places BY MainIsRank DEF AtMeet
<1> QED BY <1>1, PollsMeet, RoundsMeet, PlanMeets, CommandMeets, SampleRoundMeets, BenchmarkRoundMeets

-----------------------------------------------------------------------------
(* The invariant is inductive.                                              *)

\* What a rank hands in is its contribution.
LEMMA HandedLemma ==
    ASSUME NEW r, NEW l, l.at \notin Polls
    PROVE  Contribution(r, l) = Handed(r, l)
BY DEF Contribution, Handed

\* How far the main rank is.
LEMMA MainKnown == MainInv <=> MainOk(local[Main])
BY DEF MainInv, MainOk

\* The locals of a rank that starts.
LEMMA StartsRight ==
    ASSUME NEW r
    PROVE  Flow(r, Start) /\ SameControl(Start, Start) /\ MainOk(Start) /\ Start.completed = {} /\ Start.at = "agree"
<1>2. IsLocal(Start) BY DEF IsLocal, Start, Fields
<1>3. /\ Start.at = "agree" /\ Start.phase = "samples" /\ Start.requested = FALSE /\ Start.completed = {}
      /\ Start.start = 0 /\ Start.rec = 1 /\ Start.call = 1 /\ Start.cancelled = FALSE
      /\ Start.answers = <<>> /\ Start.scores = <<>> /\ Start.refused = FALSE
  BY DEF Start
<1>5. Start.requested \in BOOLEAN /\ Start.cancelled \in BOOLEAN /\ ~Start.requested /\ ~Start.cancelled
      /\ ~Start.refused
  BY <1>3
<1>6. Flow(r, Start) BY <1>2, <1>3, <1>5, PlanAssumption DEF Flow
<1> QED BY <1>3, <1>6 DEF SameControl, MainOk, SamplesInv

\* The invariant holds initially.
LEMMA EvaluationInit == Init => EvaluationInv
<1> SUFFICES ASSUME Init PROVE EvaluationInv OBVIOUS
<1>1. /\ local = [r \in Rank |-> Start] /\ entered = [r \in Rank |-> FALSE] /\ given = [r \in Rank |-> Nothing]
      /\ artifact = [p \in Phases |-> NoFile]
  BY DEF Init
<1>5. FilesThere BY <1>1, StartsRight, MainIsRank DEF FilesThere
<1>6. MainInv BY <1>1, StartsRight, MainIsRank, MainKnown
<1> QED BY <1>5, <1>6, <1>1, StartsRight DEF EvaluationInv, RanksInv, LocalsAgree, GivenHonestly

\* The ranks of a collective, when all of them entered it.
LEMMA AllMeet ==
    ASSUME EvaluationInv, \A r \in Rank : Alive(r) /\ entered[r]
    PROVE  AtMeet(local, given)
<1>1. ASSUME NEW r \in Rank
      PROVE  /\ Known(r, local[r]) /\ local[r].at \in Places /\ local[r].at # "dead"
             /\ local[r].at \notin Polls => given[r] = Contribution(r, local[r])
  <2>1. Known(r, local[r]) BY MainKnown DEF EvaluationInv, RanksInv, Known
  <2>2. local[r].at \in Places /\ (local[r].at \notin Polls => given[r] = Handed(r, local[r]))
    BY DEF EvaluationInv, GivenHonestly
  <2>3. local[r].at # "dead" BY <2>2
  <2> QED BY <2>1, <2>2, <2>3, HandedLemma
<1>2. \A r, q \in Rank : Pair(r, q, local[r], local[q]) BY <1>1 DEF EvaluationInv, LocalsAgree, Known, Pair
<1> QED BY <1>1, <1>2 DEF AtMeet

\* A collective that meets keeps it.
LEMMA MeetKeeps == EvaluationInv /\ Meet => EvaluationInv'
<1> SUFFICES ASSUME EvaluationInv, Meet PROVE EvaluationInv' OBVIOUS
<1>1. AtMeet(local, given) BY AllMeet DEF Meet
<1>2. /\ local' = [r \in Rank |-> Continue(r, local[r], given)]
      /\ entered' = [r \in Rank |-> FALSE] /\ given' = [r \in Rank |-> Nothing] /\ artifact' = artifact
      /\ entered[Main]
  BY MainIsRank DEF Meet
<1>4. /\ \A r, q \in Rank : Pair(r, q, local'[r], local'[q])
      /\ \A r \in Rank : Outcome(local[r], local'[r])
      /\ MainOk(local'[Main])
  BY <1>2, MainIsRank, <1>1, MeetLemma DEF Meeting
<1>7. GivenHonestly' BY <1>2 DEF GivenHonestly
<1>8. FilesThere'
  <2>1. ASSUME NEW r \in Rank
        PROVE  /\ \A p \in local'[r].completed : artifact[p] # NoFile
               /\ local'[r].at = "after publication" => artifact[local'[r].phase] # NoFile
    <3> DEFINE k == local[r]
               g == local'[r]
    <3>1. /\ \A p \in k.completed : artifact[p] # NoFile
          /\ k.at = "after publication" => artifact[k.phase] # NoFile
          /\ local[Main].at = "publish" => artifact[local[Main].phase] # NoFile
      BY <1>2 DEF EvaluationInv, FilesThere
    <3>2. k.at = local[Main].at /\ k.phase = local[Main].phase /\ IsLocal(k) BY <1>1, SamePlace
    <3>3. Outcome(k, g) BY <1>4
    <3> HIDE DEF k, g
    <3>4. CASE Settled(k, g) BY <3>1, <3>4 DEF Settled, k, g
    <3>5. CASE k.at = "publish" /\ g = Goto(k, "after publication")
      <4>1. g.completed = k.completed /\ g.phase = k.phase
        <5>1. Keep(k, Goto(k, "after publication"), {"at"}) BY <3>2, GotoKeeps
        <5> DEFINE u == Goto(k, "after publication")
        <5> HIDE DEF u
        <5>2. Keep(k, u, {"at"}) /\ g = u BY <3>5, <5>1 DEF u
        <5> QED BY <5>2 DEF Keep
      <4> QED BY <3>1, <3>2, <3>5, <4>1 DEF g
    <3>6. CASE k.at = "after publication" /\ g.at # "after publication" /\ g.completed = k.completed \union {k.phase}
      BY <3>1, <3>6 DEF g
    <3> QED BY <3>3, <3>4, <3>5, <3>6 DEF Outcome
  <2>2. ~entered'[Main] BY <1>2, MainIsRank
  <2>3. DOMAIN artifact = Phases /\ \A p \in Phases : artifact[p] \in {NoFile, {Reference[p]}}
    BY DEF EvaluationInv, FilesThere
  <2> QED BY <1>2, <2>1, <2>2, <2>3 DEF FilesThere
<1>9. MainInv' BY <1>4 DEF MainInv, MainOk
<1> QED BY <1>7, <1>8, <1>9, <1>4, <1>2 DEF EvaluationInv, Pair, RanksInv, LocalsAgree

\* The main rank publishes what one process would have computed.
LEMMA ResultsComplete ==
    ASSUME NEW l, MainOk(l), l.at = "publish", l.phase \in Phases
    PROVE  Results(l) = Reference[l.phase]
<1>1. CASE l.phase = "samples"
  <2>2. SampleAnswers(Len(SamplePlan)) = [i \in DOMAIN SamplePlan |-> Answers(Seeded(SamplePlan[i].seed), SamplePlan[i])]
    BY PlanLemma DEF SampleAnswers
  <2> QED BY <1>1, <2>2 DEF Reference, Results, SampleReference, MainOk, SamplesInv
<1>2. CASE l.phase = "benchmarks" BY <1>2, ReferenceIs DEF MainOk, BenchmarksInv, Results, Reference
<1> QED BY <1>1, <1>2

\* A rank that enters a collective keeps it.
LEMMA ArriveKeeps == ASSUME EvaluationInv, NEW r \in Rank, Arrive(r) PROVE EvaluationInv'
<1>1. /\ Alive(r) /\ entered' = [entered EXCEPT ![r] = TRUE]
      /\ given' = [given EXCEPT ![r] = Contribution(r, local[r])]
      /\ artifact' = IF Writes(r, local[r])
                     THEN [artifact EXCEPT ![local[r].phase] = {Results(local[r])}]
                     ELSE artifact
      /\ local' = local
  BY DEF Arrive
<1>2. /\ DOMAIN local = Rank /\ entered \in [Rank -> BOOLEAN] /\ DOMAIN given = Rank
      /\ \A q \in Rank : Flow(q, local[q])
  BY DEF EvaluationInv, RanksInv
<1>5. GivenHonestly'
  <2>1. local[r].at \in Places BY <1>1, <1>2 DEF Alive, Flow
  <2>3. \A q \in Rank : q # r => given'[q] = given[q] /\ entered'[q] = entered[q] BY <1>1, <1>2
  <2>4. \A q \in Rank : entered[q] =>
           local[q].at \in Places /\ (local[q].at \notin Polls => given[q] = Handed(q, local[q]))
    BY DEF EvaluationInv, GivenHonestly
  <2> HIDE DEF Places, SamplePlaces, BenchmarkPlaces, CommonPlaces
  <2> QED BY <1>1, <2>1, <2>3, <2>4, <1>2, HandedLemma DEF GivenHonestly
<1>6. FilesThere'
  <2>1. /\ DOMAIN artifact = Phases /\ \A p \in Phases : artifact[p] \in {NoFile, {Reference[p]}}
        /\ \A q \in Rank :
              /\ \A p \in local[q].completed : artifact[p] # NoFile
              /\ local[q].at = "after publication" => artifact[local[q].phase] # NoFile
        /\ entered[Main] /\ local[Main].at = "publish" => artifact[local[Main].phase] # NoFile
    BY DEF EvaluationInv, FilesThere
  <2>2. \A q \in Rank : local[q].phase \in Phases /\ local[q].completed \subseteq Phases BY <1>2 DEF Flow
  <2>3. CASE Writes(r, local[r])
    <3> DEFINE p == local[r].phase
    <3>1. r = Main /\ local[r].at = "publish" /\ p \in Phases BY <2>2, <2>3 DEF Writes
    <3>2. MainOk(local[r]) BY <3>1, MainKnown DEF EvaluationInv
    <3>3. artifact' = [artifact EXCEPT ![p] = {Reference[p]}] BY <1>1, <2>3, <3>1, <3>2, ResultsComplete
    <3>4. DOMAIN artifact' = Phases /\ artifact'[p] = {Reference[p]} /\ \A x \in Phases : x # p => artifact'[x] = artifact[x]
      <4> HIDE DEF p
      <4> QED BY <2>1, <3>1, <3>3
    <3>5. {Reference[p]} # NoFile BY DEF NoFile
    <3>6. \A x \in Phases : artifact'[x] \in {NoFile, {Reference[x]}} /\ (artifact[x] # NoFile => artifact'[x] # NoFile)
      <4> HIDE DEF p
      <4> QED BY <2>1, <3>4, <3>5
    <3> QED BY <1>1, <2>1, <2>2, <3>1, <3>4, <3>5, <3>6, ZenonT(60) DEF FilesThere
  <2>4. CASE ~Writes(r, local[r])
    <3>1. artifact' = artifact BY <1>1, <2>4
    <3>2. entered'[Main] /\ local[Main].at = "publish" => entered[Main]
      BY <2>4, <1>1, <1>2, MainIsRank DEF Writes
    <3> QED BY <1>1, <2>1, <3>1, <3>2 DEF FilesThere
  <2> QED BY <2>3, <2>4
<1> QED BY <1>5, <1>6, <1>1, <1>2, MainKnown DEF EvaluationInv, RanksInv, LocalsAgree, MainInv, MainOk

\* A rank that is gone leaves the others as they are.
LEMMA DeathKeeps ==
    ASSUME EvaluationInv, NEW r \in Rank,
           local' = [local EXCEPT ![r].at = "dead"], entered' = [entered EXCEPT ![r] = FALSE],
           given' = given, artifact' = artifact
    PROVE  EvaluationInv'
<1> DEFINE k == local[r]
           g == Goto(k, "dead")
<1>1. /\ DOMAIN local = Rank /\ entered \in [Rank -> BOOLEAN] /\ DOMAIN given = Rank
      /\ \A q \in Rank : Flow(q, local[q])
  BY DEF EvaluationInv, RanksInv
<1>2. local' = [local EXCEPT ![r] = g] BY DEF Goto
<1>3. Keep(k, g, {"at"}) /\ g.at = "dead"
  <2>1. IsLocal(k) BY <1>1 DEF Flow
  <2> HIDE DEF k
  <2> QED BY <2>1, GotoKeeps
<1> HIDE DEF g
<1>4. DOMAIN local' = Rank /\ local'[r] = g /\ \A q \in Rank : q # r => local'[q] = local[q] BY <1>1, <1>2
<1>5. entered' \in [Rank -> BOOLEAN] /\ ~entered'[r] /\ \A q \in Rank : q # r => entered'[q] = entered[q]
  BY <1>1
<1>6. Flow(r, g)
  <2>1. Flow(r, k) BY <1>1
  <2> HIDE DEF k
  <2> QED BY <1>3, <2>1 DEF Flow, Keep
<1>7. RanksInv' BY <1>1, <1>4, <1>6, <1>5 DEF RanksInv
<1>9. GivenHonestly'
  <2> HIDE DEF Places, SamplePlaces, BenchmarkPlaces, CommonPlaces
  <2> QED BY <1>4, <1>5 DEF GivenHonestly, EvaluationInv
<1>10. FilesThere'
  <2>1. /\ DOMAIN artifact = Phases /\ \A p \in Phases : artifact[p] \in {NoFile, {Reference[p]}}
        /\ \A q \in Rank :
              /\ \A p \in local[q].completed : artifact[p] # NoFile
              /\ local[q].at = "after publication" => artifact[local[q].phase] # NoFile
        /\ entered[Main] /\ local[Main].at = "publish" => artifact[local[Main].phase] # NoFile
    BY DEF EvaluationInv, FilesThere
  <2>2. \A q \in Rank : local'[q].completed = local[q].completed BY <1>3, <1>4 DEF Keep
  <2>3. \A q \in Rank : local'[q].at = "after publication" => local'[q] = local[q] BY <1>3, <1>4
  <2>4. entered'[Main] => entered[Main] /\ local'[Main] = local[Main] BY <1>4, <1>5, MainIsRank
  <2> QED BY <2>1, <2>2, <2>3, <2>4 DEF FilesThere
<1>11. MainInv'
  <2>1. MainOk(local[Main]) BY MainKnown DEF EvaluationInv
  <2>2. CASE r = Main
    <3>1. local[Main] = k /\ k.phase \in Phases BY <1>1, <2>2 DEF Flow
    <3> HIDE DEF k
    <3>2. MainOk(g) BY <1>3, <2>1, <3>1, ElsewhereMain DEF Keep
    <3>3. local'[Main] = g BY <1>4, <2>2
    <3> QED BY <3>2, <3>3 DEF MainInv, MainOk
  <2>3. CASE r # Main BY <1>4, <2>3, MainIsRank, <2>1 DEF MainInv, MainOk
  <2> QED BY <2>2, <2>3
<1> QED BY <1>7, <1>9, <1>10, <1>11, <1>3, <1>4 DEF EvaluationInv, LocalsAgree

\* Steps that touch neither locals nor files keep it.
LEMMA EvaluationKept ==
    ASSUME EvaluationInv, UNCHANGED <<local, entered, given, artifact>>
    PROVE  EvaluationInv'
<1>2. GivenHonestly' /\ FilesThere' BY DEF EvaluationInv, GivenHonestly, FilesThere
<1> QED BY <1>2 DEF EvaluationInv, RanksInv, LocalsAgree, MainInv

\* Every step keeps it.
LEMMA EvaluationStep == EvaluationInv /\ [Next]_vars => EvaluationInv'
<1> SUFFICES ASSUME EvaluationInv, [Next]_vars PROVE EvaluationInv' OBVIOUS
<1>1. CASE Meet BY <1>1, MeetKeeps
<1>2. ASSUME NEW r \in Rank, Arrive(r) PROVE EvaluationInv' BY <1>2, ArriveKeeps
<1>3. ASSUME NEW r \in Rank, Fails(r) PROVE EvaluationInv' BY <1>3, DeathKeeps DEF Fails
<1>4. ASSUME NEW r \in Rank, LauncherKill(r) PROVE EvaluationInv' BY <1>4, DeathKeeps DEF LauncherKill
<1>5. ASSUME NEW r \in Rank, RequestStop(r) PROVE EvaluationInv' BY <1>5, EvaluationKept DEF RequestStop
<1>6. CASE UNCHANGED vars BY <1>6, EvaluationKept DEF vars
<1> QED BY <1>1, <1>2, <1>3, <1>4, <1>5, <1>6 DEF Next

\* THEOREM: the inductive invariant of the evaluation (run_distributed_inference_jobs
\* and the phases it serves, src/evaluation/distributed_inference.py).
THEOREM EvaluationInvariance == Spec => []EvaluationInv
<1> QED BY EvaluationInit, EvaluationStep, PTL DEF Spec

\* THEOREM: the ranks meet in the collective each of them is in, with one command and
\* replies to the jobs of the round, so no round is refused, whatever requests arrive
\* and whichever rank dies.
THEOREM RoundsAlwaysMatch == Spec => []RoundsMatch
<1>1. EvaluationInv => RoundsMatch
  <2> SUFFICES ASSUME EvaluationInv PROVE RoundsMatch OBVIOUS
  <2>1. \A r \in Rank : entered[r] => local[r].at # "dead" BY DEF EvaluationInv, GivenHonestly
  <2>2. \A r, q \in Rank : entered[r] /\ entered[q] => Site(local[r]) = Site(local[q])
    BY <2>1 DEF EvaluationInv, LocalsAgree, SameControl, Site
  <2>3. \A r \in Rank : ~local[r].refused BY DEF EvaluationInv, RanksInv, Flow
  <2> QED BY <2>2, <2>3 DEF RoundsMatch
<1> QED BY <1>1, EvaluationInvariance, PTL

\* THEOREM: a file that is published holds the answer of the reference to every
\* request, whatever the number of ranks that answered (the merge of the rounds).
THEOREM PublishedAlwaysComplete == Spec => []PublishedComplete
<1>1. EvaluationInv => PublishedComplete BY DEF EvaluationInv, FilesThere, PublishedComplete
<1> QED BY <1>1, EvaluationInvariance, PTL

\* THEOREM: no round begins on a rank that knows of the request to stop.
THEOREM StopAlwaysEndsTheJobs == Spec => StopEndsTheJobs
<1>1. EvaluationInv /\ EvaluationInv' /\ [Next]_vars =>
         [/\ ran' # ran => \A r \in Rank : Alive(r) => ~local[r].requested
          /\ \A r, q \in Rank : local'[r].at = "done" /\ local'[q].at = "done" =>
               /\ local'[r].completed = local'[q].completed
               /\ local'[r].requested = local'[q].requested
               /\ local'[r].generator = Training]_vars
  <2> SUFFICES ASSUME EvaluationInv, EvaluationInv', [Next]_vars
               PROVE  /\ ran' # ran => \A r \in Rank : Alive(r) => ~local[r].requested
                      /\ \A r, q \in Rank : local'[r].at = "done" /\ local'[q].at = "done" =>
                           /\ local'[r].completed = local'[q].completed
                           /\ local'[r].requested = local'[q].requested
                           /\ local'[r].generator = Training
    OBVIOUS
  <2>1. ASSUME ran' # ran, NEW q \in Rank, Alive(q) PROVE ~local[q].requested
    <3>1. PICK r \in Rank : Arrive(r) BY <2>1 DEF Next, vars, Meet, Fails, LauncherKill, RequestStop
    <3>2. local[r].at \in {"round", "replies"} BY <2>1, <3>1 DEF Arrive, JobsOnTheWay
    <3>3. ~local[r].requested BY <3>2 DEF EvaluationInv, RanksInv, Flow
    <3>4. local[q].requested = local[r].requested
      BY <2>1, <3>2 DEF EvaluationInv, LocalsAgree, SameControl, Alive
    <3> QED BY <3>3, <3>4
  <2>2. ASSUME NEW r \in Rank, NEW q \in Rank, local'[r].at = "done", local'[q].at = "done"
        PROVE  /\ local'[r].completed = local'[q].completed
               /\ local'[r].requested = local'[q].requested
               /\ local'[r].generator = Training
    <3> DEFINE g == local'[r]
               h == local'[q]
    <3>3. g.at = "done" /\ Flow(r, g) /\ SameControl(g, h) BY <2>2 DEF EvaluationInv, RanksInv, LocalsAgree
    <3> HIDE DEF g, h
    <3> QED BY <3>3 DEF g, h, Flow, SameControl
  <2> QED BY <2>1, <2>2
<1> QED BY <1>1, EvaluationInvariance, PTL DEF Spec, StopEndsTheJobs
=============================================================================
