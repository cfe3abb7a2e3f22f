-------------------------- MODULE SourceFolderProofs --------------------------
(* Proofs about the folders of a source: SourceFolder, for every set of     *)
(* configs that share them, every upstream, shard size and budget, and      *)
(* every sequence of runs, crashes and lost files; and ShardBuild, the      *)
(* build of one raw shard after another inside such a run, for every        *)
(* source, budget and number of workers.                                    *)
EXTENDS SourceFolder, ShardBuild, FiniteSetTheorems, WellFoundedInduction, TLAPS

-----------------------------------------------------------------------------
(* The invariant of the folders: what every folder is, on its own.         *)

\* The three places of a folder.
Slots == {"final", "temporary", "backup"}
\* The actions of a repair plan.
Acts == [verb : {"delete", "swap", "truncate"}, folder : Slots \union {"raw"}, keep : Nat]
\* Where a run of prepare is.
Pcs == {"idle", "repair", "round", "fetch", "record", "fetched", "build", "mark", "write", "cover", "complete",
        "step aside", "park", "place", "discard", "review", "finish"}
\* The type of the raw folder.
RawFolder == [hash : Nat, shards : Seq(Seq(Nat)), exhausted : BOOLEAN, files : SUBSET Nat]

\* of a raw folder
RawOk(r) == r \in RawFolder /\ (r.hash = 0 <=> r.shards = <<>>)

\* generations
GenOk(m, n, snap) ==
    /\ m.gen <= n
    /\ m.gen = 0 => m.shards = <<>>
    /\ \A c \in Config : m.gen # 0 /\ m.gen = snap[c].gen => m.complete /\ m.shards = snap[c].shards
\* Ids are given out in order, and a snapshot names one that was.
IdsOk(n, snap) ==
    /\ n \in Nat
    /\ snap \in [Config -> [gen : Nat, shards : Seq(SUBSET Nat)]]
    /\ \A c \in Config : snap[c].gen <= n

\* The volatile state of a run.
RunOk(q, l, n, snap) ==
    /\ q \in [config : Config \union {0}, plan : Seq(Acts), out : Manifest, rounds : 0 .. MaxRounds, target : Nat]
    /\ l \in Pcs
    /\ q.config = 0 <=> l = "idle"
    /\ l = "idle" => q = NoRun
    /\ l \in {"repair", "round"} => q.rounds < MaxRounds
    /\ l \in {"fetch", "record"} => q.target # 0
    /\ GenOk(q.out, n, snap)

\* Shards hold disjoint documents.
Apart(shards) == \A i, j \in DOMAIN shards : i # j => shards[i] \intersect shards[j] = {}

\* of a folder and a raw folder
DocsIn(shards, n) == UNION {ToSet(shards[i]) : i \in 1..n}
\* The shards hold what some config's filters keep of the raw shards that were covered.
Filtered(m, r) == \E c \in Config :
    /\ m.hash = Hash[c] /\ r.hash = RawHash[c]
    /\ Content(m.shards) = Keeps[c] \intersect DocsIn(r.shards, Len(m.covered))
\* A manifest is about a prefix of the raw shards.
Describes(m, r) == IsPrefix(m.covered, Rows(r.shards)) /\ Apart(m.shards) /\ Filtered(m, r)
\* The files hold what the manifest says.
Readable(files, shards) == \A g \in files : g.i \in DOMAIN shards => g.docs = shards[g.i]
\* What a folder holds was derived from the raw shards that are there.
Derived(f, r) == f.manifest # NoManifest => Describes(f.manifest, r) /\ Readable(f.files, f.manifest.shards)

\* the next shard's survivors
NextSurvivors(c, shards, covered, r) == (ToSet(r.shards[Len(covered) + 1]) \intersect Keeps[c]) \ Content(shards)
\* An unlisted file is the next shard of an interrupted build.
LeftBehind(files, shards, covered, c, r) ==
    \A g \in files : g.i \notin DOMAIN shards =>
        /\ g.i = Len(shards) + 1 /\ Len(covered) < Len(r.shards)
        /\ g.docs = NextSurvivors(c, shards, covered, r) /\ g.docs # {}
\* Whatever config the folder was built for.
Leftover(f, r) ==
    f.manifest # NoManifest => \A c \in Config : f.manifest.hash = Hash[c] =>
        LeftBehind(f.files, f.manifest.shards, f.manifest.covered, c, r)

\* Of a single folder.
FolderOk(f, r, n, snap) ==
    /\ f \in Folder /\ (f.there \/ f = Absent)
    /\ Derived(f, r)
    /\ GenOk(f.manifest, n, snap)
\* Of all folders; only the final one must be free of stray files.
DisksOk(d, r, n, snap) ==
    /\ d = [s \in Slots |-> d[s]]
    /\ \A s \in Slots : FolderOk(d[s], r, n, snap)
    /\ Leftover(d["final"], r)

-----------------------------------------------------------------------------
(* What the repair looks at and plans.                                     *)

\* The raw shards before the first unreadable one are g.
GoodTo(r, g) ==
    /\ g \in 0 .. Len(r.shards)
    /\ \A i \in 1 .. g : i \in r.files
    /\ g = Len(r.shards) \/ g + 1 \notin r.files
\* Their number (GoodPrefix of another raw folder than the one that is there).
GoodIn(r) == CHOOSE g \in 0 .. Len(r.shards) :
    /\ \A i \in 1 .. g : i \in r.files
    /\ g = Len(r.shards) \/ g + 1 \notin r.files
\* What the plan finds, of any raw folder and any disk: RawDeleted ...
DeletedIn(r, c) ==
    \/ r.hash # 0 /\ r.hash # RawHash[c]
    \/ r.hash = RawHash[c] /\ GoodIn(r) = 0 /\ r.shards # <<>>
\* ... RawTruncated ...
TruncatedIn(r, c) == r.hash = RawHash[c] /\ GoodIn(r) \in 1 .. (Len(r.shards) - 1)
\* ... KeptRaw ...
KeptIn(r, c) == Kept(DeletedIn(r, c), IF TruncatedIn(r, c) THEN Rows(SubSeq(r.shards, 1, GoodIn(r))) ELSE Rows(r.shards))
\* ... and FinalSurvives.
Survives(f, c, kept) == f.there /\ ~NeedsRebuild(f, c, kept)

\* The place of an action in a plan.
RankOf(a) == CASE a.folder = "final" -> 1 [] a.folder = "temporary" -> 2 [] a.folder = "backup" -> 3 [] OTHER -> 4
\* A plan works on one folder after the other.
Ordered(plan) == \A i, j \in DOMAIN plan : i < j => RankOf(plan[i]) < RankOf(plan[j])
\* An action of a rank is left.
Has(acts, k) == \E a \in acts : RankOf(a) = k
\* A swap of that rank is left.
Swaps(acts, k) == \E a \in acts : RankOf(a) = k /\ a.verb = "swap"

\* What an action that is left may rely on: for the final folder ...
FinalAct(acts, a, d, r, c) == a.verb = "delete"
\* ... the temporary ...
TemporaryAct(acts, a, d, r, c) ==
    \/ a.verb = "swap" /\ IsWhole(d["temporary"], c, KeptIn(r, c)) /\ (~Has(acts, 1) => ~d["final"].there)
    \/ a.verb = "delete" /\ (Survives(d["final"], c, KeptIn(r, c)) \/ ~IsWhole(d["temporary"], c, KeptIn(r, c)))
\* ... the backup ...
BackupAct(acts, a, d, r, c) ==
    \/ /\ a.verb = "swap" /\ IsWhole(d["backup"], c, KeptIn(r, c))
       /\ ~Has(acts, 1) => ~d["final"].there
       /\ ~Swaps(acts, 2)
    \/ a.verb = "delete" /\ (Survives(d["final"], c, KeptIn(r, c)) \/ Swaps(acts, 2))
\* ... and the raw folder.
RawAct(acts, a, d, r, c) ==
    \/ a.verb = "delete" /\ DeletedIn(r, c)
    \/ a.verb = "truncate" /\ TruncatedIn(r, c) /\ a.keep = GoodIn(r) /\ ~DeletedIn(r, c)
\* What is left of a plan is what is left to be repaired.
PlanOk(acts, d, r, c) ==
    /\ Has(acts, 1) <=> NeedsRebuild(d["final"], c, KeptIn(r, c))
    /\ Has(acts, 2) <=> d["temporary"].there
    /\ Has(acts, 3) <=> d["backup"].there
    /\ Has(acts, 4) <=> DeletedIn(r, c) \/ TruncatedIn(r, c)
    /\ \A a \in acts : /\ RankOf(a) = 1 => FinalAct(acts, a, d, r, c)
                       /\ RankOf(a) = 2 => TemporaryAct(acts, a, d, r, c)
                       /\ RankOf(a) = 3 => BackupAct(acts, a, d, r, c)
                       /\ RankOf(a) = 4 => RawAct(acts, a, d, r, c)

-----------------------------------------------------------------------------
(* What the planner counts, and the stages of a run.                       *)

\* what is derived from all the raw shards
AllOf(r) == Kept(FALSE, Rows(r.shards))
\* A folder that needs no repair.
Sound(f, c, r) == ~NeedsRebuild(f, c, AllOf(r))
\* A folder that is complete for the raw shards.
WholeFor(f, c, r) == f.there /\ IsWhole(f, c, AllOf(r))
\* The planner's verdicts, of any folders: Built ...
BuiltIn(f, c, r) == f.manifest.hash = Hash[c] /\ f.manifest.covered = Rows(r.shards)
\* ... Healthy ...
HealthyIn(f, c, r) == f.manifest.hash = Hash[c] /\ IsPrefix(f.manifest.covered, Rows(r.shards))
\* ... HealthyRows ...
KeptRows(f, c, r) == IF HealthyIn(f, c, r) THEN ProcessedRows(f.manifest) ELSE 0
\* ... Serves ...
ServesIn(f, c, r) == HealthyIn(f, c, r) /\ KeptRows(f, c, r) >= Sufficient[c]
\* ... Satisfied ...
SatisfiedIn(f, c, r) ==
    /\ r.hash = RawHash[c]
    /\ \/ ServesIn(f, c, r)
       \/ BuiltIn(f, c, r) /\ r.exhausted /\ KeptRows(f, c, r) > 0
\* ... the rows, one for each place of a shard ...
Places(shards) == UNION {{i} \X DOMAIN shards[i] : i \in DOMAIN shards}
\* ... RawRows ...
RowsIn(r) == Cardinality(Places(r.shards))
\* ... TopUp ...
TopUpFor(kept, c, rows) ==
    LET wanted == (6 * (Sufficient[c] - kept) * rows + 5 * kept - 1) \div (5 * kept)
    IN IF kept = 0 THEN 0 ELSE IF wanted <= Needed[c] THEN wanted ELSE Needed[c]
\* ... and RowsToFetch.
ToFetch(f, c, r) ==
    CASE r.hash = 0 -> Needed[c]
      [] r.hash # 0 /\ (r.exhausted \/ ServesIn(f, c, r)) -> 0
      [] r.hash # 0 /\ ~r.exhausted /\ ~ServesIn(f, c, r) /\ RowsIn(r) < Needed[c] -> Needed[c] - RowsIn(r)
      [] r.hash # 0 /\ ~r.exhausted /\ ~ServesIn(f, c, r) /\ RowsIn(r) >= Needed[c] ->
            IF BuiltIn(f, c, r) THEN TopUpFor(KeptRows(f, c, r), c, RowsIn(r)) ELSE 0
\* A slot nothing is in.
Free(f) == ~f.there

\* Every listed shard is on disk, as it was listed.
Written(files, shards) ==
    Readable(files, shards) /\ \A i \in DOMAIN shards : \E g \in files : g.i = i

\* No file is unlisted.
OnlyListed(files, shards) == \A g \in files : g.i \in DOMAIN shards

\* a whole-source build, in the temporary folder
WholeOut(f, out, c, r) ==
    /\ out.hash = Hash[c] /\ out.covered = <<>> /\ Apart(out.shards)
    /\ Written(f.files, out.shards)
    /\ Content(out.shards) \subseteq Keeps[c] \intersect DocsIn(r.shards, Len(r.shards))
    /\ OnlyListed(f.files, out.shards)
    /\ f.there
    /\ f.manifest = NoManifest \/ ~f.manifest.complete
    /\ f.manifest.shards = <<>>
    /\ out.gen # 0 => ~out.complete

\* a build of one raw shard after another, in the final folder
NextOut(f, out, c, r) ==
    /\ out.hash = Hash[c] /\ Apart(out.shards) /\ IsPrefix(out.covered, Rows(r.shards))
    /\ Written(f.files, out.shards)
    /\ Content(out.shards) = Keeps[c] \intersect DocsIn(r.shards, Len(out.covered))
    /\ LeftBehind(f.files, out.shards, out.covered, c, r)
    /\ f.manifest = out \/ (f = Absent /\ out = [NoManifest EXCEPT !.hash = Hash[c]])

\* The same between the shard and the manifest that covers it.
CoveredOut(f, out, c, r) ==
    /\ out.hash = Hash[c] /\ Apart(out.shards) /\ IsPrefix(out.covered, Rows(r.shards))
    /\ Written(f.files, out.shards)
    /\ Len(out.covered) < Len(r.shards)
    /\ Content(out.shards) = Keeps[c] \intersect DocsIn(r.shards, Len(out.covered) + 1)
    /\ OnlyListed(f.files, out.shards)
    /\ f.there /\ f.manifest.hash = out.hash /\ f.manifest.covered = out.covered
    /\ out.gen # 0

\* Where a run stands.
Settled(d, c, r) ==
    /\ r.hash \in {0, RawHash[c]}
    /\ Sound(d["final"], c, r) /\ Free(d["temporary"]) /\ Free(d["backup"])
\* A source whose raw shards are there.
ToBuild(d, c, r) == Settled(d, c, r) /\ r.hash = RawHash[c]
\* A whole-source build, next to the final folder.
Aside(d, c, r) == r.hash = RawHash[c] /\ WholeSource[c] /\ Sound(d["final"], c, r) /\ Free(d["backup"])
\* Its slot was made.
Marking(d, c, r) == Aside(d, c, r) /\ d["temporary"] = [Absent EXCEPT !.there = TRUE]
\* It is written.
WritingWhole(d, out, c, r) == Aside(d, c, r) /\ WholeOut(d["temporary"], out, c, r)
\* The final folder is extended.
WritingNext(d, out, c, r) ==
    /\ r.hash = RawHash[c] /\ ~WholeSource[c]
    /\ NextOut(d["final"], out, c, r) /\ Free(d["temporary"]) /\ Free(d["backup"])
\* A shard was written to it.
Covering(d, out, c, r) ==
    /\ r.hash = RawHash[c] /\ ~WholeSource[c]
    /\ CoveredOut(d["final"], out, c, r) /\ Free(d["temporary"]) /\ Free(d["backup"])
\* The temporary was saved.
Completing(d, c, r) == Aside(d, c, r) /\ WholeFor(d["temporary"], c, r)
\* The temporary is complete.
Swapping(d, c, r) ==
    /\ r.hash = RawHash[c] /\ WholeSource[c]
    /\ WholeFor(d["temporary"], c, r) /\ d["temporary"].manifest.complete
\* The final folder is to step aside.
Parking(d, c, r) == Swapping(d, c, r) /\ d["final"].there /\ Free(d["backup"])
\* The temporary is to take its place.
Placing(d, c, r) == Swapping(d, c, r) /\ Free(d["final"])
\* The backup is to go.
Discarding(d, c, r) ==
    /\ r.hash = RawHash[c] /\ WholeSource[c] /\ Free(d["temporary"])
    /\ WholeFor(d["final"], c, r) /\ d["final"].manifest.complete
\* A round is over.
Reviewing(d, c, r) ==
    /\ Settled(d, c, r)
    /\ r.hash # 0 =>
        /\ BuiltIn(d["final"], c, r) \/ ServesIn(d["final"], c, r)
        /\ d["final"].manifest.complete
\* The rounds are over.
Finishing(d, c, r, rounds) ==
    /\ Reviewing(d, c, r)
    /\ SatisfiedIn(d["final"], c, r) \/ ToFetch(d["final"], c, r) = 0 \/ rounds = MaxRounds

\* What holds where a run is.
StageOk(l, q, d, r, c) ==
    /\ l = "repair" => Ordered(q.plan) /\ PlanOk(ToSet(q.plan), d, r, c)
    /\ l \in {"round", "fetch", "record", "fetched"} => Settled(d, c, r)
    /\ l = "fetched" => r.hash = RawHash[c]
    /\ l = "build" => ToBuild(d, c, r)
    /\ l = "mark" => Marking(d, c, r)
    /\ l = "write" /\ WholeSource[c] => WritingWhole(d, q.out, c, r)
    /\ l = "write" /\ ~WholeSource[c] => WritingNext(d, q.out, c, r)
    /\ l = "cover" => Covering(d, q.out, c, r)
    /\ l = "complete" => Completing(d, c, r)
    /\ l \in {"step aside", "park"} => Parking(d, c, r)
    /\ l = "place" => Placing(d, c, r)
    /\ l = "discard" => Discarding(d, c, r)
    /\ l = "review" => Reviewing(d, c, r)
    /\ l = "finish" => Finishing(d, c, r, q.rounds)

\* The inductive invariant.
Inv ==
    /\ RawOk(raw) /\ IdsOk(ids, snapshot)
    /\ DisksOk(disk, raw, ids, snapshot)
    /\ RunOk(run, pc, ids, snapshot)
    /\ StageOk(pc, run, disk, raw, run.config)

-----------------------------------------------------------------------------
(* Numbers and sequences.                                                  *)

\* A non-empty set of numbers has a least element.
LEMMA LeastElement ==
    ASSUME NEW T \in SUBSET Nat, T # {}
    PROVE  \E n \in T : \A m \in T : n <= m
<1> DEFINE R == OpToRel(<, Nat)
<1>1. IsWellFoundedOn(R, Nat) BY NatLessThanWellFounded DEF OpToRel
<1>2. \A m, n \in Nat : m < n => <<m, n>> \in R BY DEF OpToRel
<1> HIDE DEF R
<1>3. PICK n \in T : \A m \in T : ~ (<<m, n>> \in R) BY <1>1, WFMin
<1>4. ASSUME NEW m \in T PROVE n <= m
  <2>1. m \in Nat /\ n \in Nat /\ ~(m < n) BY <1>2, <1>3
  <2> QED BY <2>1
<1> QED BY <1>4

\* A function on 1 .. m is a sequence.
LEMMA FunctionIsSequence ==
    ASSUME NEW S, NEW m \in Nat, NEW l \in [1 .. m -> S]
    PROVE  l \in Seq(S)
<1> QED OBVIOUS

\* Prefixes, element by element.
LEMMA PrefixIs ==
    ASSUME NEW S, NEW s \in Seq(S), NEW t \in Seq(S)
    PROVE  IsPrefix(s, t) <=> Len(s) <= Len(t) /\ \A i \in 1 .. Len(s) : s[i] = t[i]
<1> DEFINE n == Len(s)
<1>1. ASSUME n <= Len(t) PROVE SubSeq(s, 1, n) = SubSeq(t, 1, n) <=> \A i \in 1 .. n : s[i] = t[i] BY <1>1
<1> QED BY <1>1 DEF IsPrefix

\* The first n elements of a sequence.
LEMMA InitialLemma ==
    ASSUME NEW S, NEW s \in Seq(S), NEW n \in 0 .. Len(s)
    PROVE  /\ SubSeq(s, 1, n) \in Seq(S)
           /\ Len(SubSeq(s, 1, n)) = n
           /\ \A i \in 1 .. n : SubSeq(s, 1, n)[i] = s[i]
           /\ IsPrefix(SubSeq(s, 1, n), s)
<1>1. Len(s) \in Nat /\ n \in Nat /\ n <= Len(s) OBVIOUS
<1> DEFINE p == SubSeq(s, 1, n)
<1>2. p \in Seq(S) /\ Len(p) = n /\ \A i \in 1 .. n : p[i] = s[i] BY <1>1
<1> HIDE DEF p
<1>3. IsPrefix(p, s) BY <1>1, <1>2, PrefixIs
<1> QED BY <1>2, <1>3 DEF p

\* Sequences with the same elements are equal.
LEMMA SameSequence ==
    ASSUME NEW S, NEW s \in Seq(S), NEW t \in Seq(S), Len(s) = Len(t),
           \A i \in 1 .. Len(s) : s[i] = t[i]
    PROVE  s = t
OBVIOUS

\* A prefix that is as long as the whole is the whole.
LEMMA WholePrefix ==
    ASSUME NEW S, NEW s \in Seq(S), NEW t \in Seq(S), IsPrefix(s, t), Len(t) <= Len(s)
    PROVE  s = t
<1> QED BY SameSequence, PrefixIs

\* A sequence is a prefix of itself.
LEMMA PrefixSelf ==
    ASSUME NEW S, NEW s \in Seq(S)
    PROVE  IsPrefix(s, s)
BY DEF IsPrefix

\* A prefix of a prefix.
LEMMA PrefixTransitive ==
    ASSUME NEW S, NEW s \in Seq(S), NEW t \in Seq(S), NEW u \in Seq(S),
           IsPrefix(s, t), IsPrefix(t, u)
    PROVE  IsPrefix(s, u)
<1>1. Len(s) \in Nat /\ Len(t) \in Nat /\ Len(u) \in Nat OBVIOUS
<1>2. Len(s) <= Len(t) /\ Len(t) <= Len(u) BY PrefixIs
<1> QED BY PrefixIs, <1>1, <1>2

\* Two prefixes of one sequence: the shorter one is a prefix of the longer one.
LEMMA PrefixesNest ==
    ASSUME NEW S, NEW s \in Seq(S), NEW t \in Seq(S), NEW u \in Seq(S),
           IsPrefix(s, u), IsPrefix(t, u), Len(s) <= Len(t)
    PROVE  IsPrefix(s, t)
<1>4. \A i \in 1 .. Len(s) : s[i] = t[i] BY PrefixIs
<1> QED BY <1>4, PrefixIs

\* A sequence with an element behind it.
LEMMA AppendLemma ==
    ASSUME NEW S, NEW s \in Seq(S), NEW e \in S
    PROVE  /\ Append(s, e) \in Seq(S)
           /\ Len(Append(s, e)) = Len(s) + 1
           /\ DOMAIN Append(s, e) = 1 .. Len(s) + 1
           /\ \A i \in 1 .. Len(s) : Append(s, e)[i] = s[i]
           /\ Append(s, e)[Len(s) + 1] = e
           /\ IsPrefix(s, Append(s, e))
<1> DEFINE t == Append(s, e)
<1>1. t \in Seq(S) /\ Len(t) = Len(s) + 1 /\ DOMAIN t = 1 .. Len(s) + 1 OBVIOUS
<1>2. \A i \in 1 .. Len(s) : t[i] = s[i] OBVIOUS
<1> HIDE DEF t
<1>5. IsPrefix(s, t) BY <1>1, <1>2, PrefixIs
<1> QED BY <1>1, <1>2, <1>5 DEF t

\* The rows of raw shards.
LEMMA RowsLemma ==
    ASSUME NEW s \in Seq(Seq(Nat))
    PROVE  /\ Rows(s) \in Seq(Nat) /\ Len(Rows(s)) = Len(s)
           /\ \A i \in 1 .. Len(s) : Rows(s)[i] = Len(s[i])
<1>1. DOMAIN s = 1 .. Len(s) /\ Len(s) \in Nat OBVIOUS
<1> DEFINE r == [i \in 1 .. Len(s) |-> Len(s[i])]
<1>5. r \in Seq(Nat) BY <1>1, FunctionIsSequence
<1>6. DOMAIN r = 1 .. Len(s) OBVIOUS
<1> HIDE DEF r
<1> QED BY <1>5, <1>1, <1>6 DEF Rows

\* The row counts of a prefix.
LEMMA RowsOfPrefix ==
    ASSUME NEW s \in Seq(Seq(Nat)), NEW t \in Seq(Seq(Nat)), IsPrefix(s, t)
    PROVE  IsPrefix(Rows(s), Rows(t))
<1>2. Len(s) <= Len(t) /\ \A i \in 1 .. Len(s) : s[i] = t[i] BY PrefixIs
<1>3. ASSUME NEW i \in 1 .. Len(s) PROVE Rows(s)[i] = Rows(t)[i]
  <2>1. i \in 1 .. Len(t) /\ s[i] = t[i] BY <1>2
  <2>2. Rows(s)[i] = Len(s[i]) /\ Rows(t)[i] = Len(t[i]) BY <2>1, RowsLemma
  <2> QED BY <2>1, <2>2
<1> QED BY <1>2, <1>3, PrefixIs, RowsLemma

-----------------------------------------------------------------------------
(* Documents.                                                              *)

\* The image of a finite set is finite.
LEMMA FiniteImage ==
    ASSUME NEW T, IsFiniteSet(T), NEW f
    PROVE  IsFiniteSet({f[x] : x \in T})
<1> DEFINE R == {f[x] : x \in T}
           g == [x \in T |-> f[x]]
<1>1. g \in Surjection(T, R) BY DEF Surjection
<1> HIDE DEF R, g
<1> QED BY <1>1, FS_Surjection DEF R

\* A finite union of finite sets is finite.
LEMMA FiniteFamily ==
    ASSUME NEW T, IsFiniteSet(T), NEW f, \A x \in T : IsFiniteSet(f[x])
    PROVE  IsFiniteSet(UNION {f[x] : x \in T})
<1> DEFINE R == {f[x] : x \in T}
<1>1. IsFiniteSet(R) BY FiniteImage
<1>2. \A y \in R : IsFiniteSet(y) OBVIOUS
<1> HIDE DEF R
<1>3. IsFiniteSet(UNION R) BY <1>1, <1>2, FS_UNION
<1> QED BY <1>3 DEF R

\* The first numbers are finite.
LEMMA IntervalFinite ==
    ASSUME NEW n \in Nat
    PROVE  IsFiniteSet(1 .. n)
BY FS_Interval

\* A sequence has finitely many elements.
LEMMA ElementsFinite ==
    ASSUME NEW S, NEW s \in Seq(S)
    PROVE  IsFiniteSet(ToSet(s)) /\ ToSet(s) \subseteq S
<1> QED BY FiniteImage, IntervalFinite DEF ToSet

\* Raw shards have finitely many rows.
LEMMA PlacesFinite ==
    ASSUME NEW s \in Seq(Seq(Nat))
    PROVE  IsFiniteSet(Places(s)) /\ Cardinality(Places(s)) \in Nat
<1>1. DOMAIN s = 1 .. Len(s) /\ Len(s) \in Nat OBVIOUS
<1>2. IsFiniteSet(DOMAIN s) BY <1>1, IntervalFinite
<1> DEFINE f == [i \in DOMAIN s |-> {i} \X DOMAIN s[i]]
<1>3. ASSUME NEW i \in DOMAIN s PROVE IsFiniteSet({i} \X DOMAIN s[i])
  <2>3. IsFiniteSet(DOMAIN s[i]) BY IntervalFinite, <1>1
  <2> QED BY <2>3, FS_Singleton, FS_Product
<1>4. \A i \in DOMAIN s : IsFiniteSet(f[i]) BY <1>3
<1>5. Places(s) = UNION {f[i] : i \in DOMAIN s} BY DEF Places
<1> HIDE DEF f
<1>6. IsFiniteSet(Places(s)) BY <1>2, <1>4, <1>5, FiniteFamily, SMTT(30), Z3T(30)
<1> QED BY <1>6, FS_CardinalityType

\* Raw shards hold finitely many documents.
LEMMA DocsFinite ==
    ASSUME NEW s \in Seq(Seq(Nat)), NEW n \in 0 .. Len(s)
    PROVE  IsFiniteSet(DocsIn(s, n)) /\ DocsIn(s, n) \subseteq Nat
<1>1. n \in Nat /\ \A i \in 1 .. n : s[i] \in Seq(Nat) OBVIOUS
<1> DEFINE f == [i \in 1 .. n |-> ToSet(s[i])]
<1>2. \A i \in 1 .. n : IsFiniteSet(f[i]) /\ f[i] \subseteq Nat BY <1>1, ElementsFinite
<1>3. IsFiniteSet(1 .. n) BY <1>1, IntervalFinite
<1>4. DocsIn(s, n) = UNION {f[i] : i \in 1 .. n} BY DEF DocsIn
<1> HIDE DEF f
<1>5. IsFiniteSet(DocsIn(s, n))
  <2>1. \A i \in 1 .. n : IsFiniteSet(f[i]) BY <1>2
  <2>2. IsFiniteSet(UNION {f[i] : i \in 1 .. n}) BY <1>3, <2>1, FiniteFamily
  <2> QED BY <1>4, <2>2
<1> QED BY <1>5, <1>2, <1>4

\* The documents of a prefix.
LEMMA DocsOfPrefix ==
    ASSUME NEW s \in Seq(Seq(Nat)), NEW t \in Seq(Seq(Nat)), IsPrefix(s, t), NEW n \in 0 .. Len(s)
    PROVE  DocsIn(s, n) = DocsIn(t, n)
<1>3. \A i \in 1 .. n : s[i] = t[i] BY PrefixIs
<1> QED BY <1>3 DEF DocsIn

\* No shard, no document.
LEMMA DocsOfNone ==
    ASSUME NEW s
    PROVE  DocsIn(s, 0) = {}
BY DEF DocsIn

\* The documents of one more shard.
LEMMA DocsOfNext ==
    ASSUME NEW s, NEW n \in Nat
    PROVE  DocsIn(s, n + 1) = DocsIn(s, n) \union ToSet(s[n + 1])
<1> QED BY DEF DocsIn

\* An empty manifest lists nothing.
LEMMA ContentOfNone == Content(<<>>) = {} /\ Apart(<<>>)
BY DEF Content, Apart

\* A shard behind the listed ones.
LEMMA ContentOfNext ==
    ASSUME NEW s \in Seq(SUBSET Nat), NEW d \in SUBSET Nat
    PROVE  /\ Content(Append(s, d)) = Content(s) \union d
           /\ Apart(s) /\ d \intersect Content(s) = {} => Apart(Append(s, d))
<1> DEFINE t == Append(s, d)
<1>1. t \in Seq(SUBSET Nat) /\ DOMAIN t = 1 .. Len(s) + 1 /\ t[Len(s) + 1] = d
      /\ \A i \in 1 .. Len(s) : t[i] = s[i]
  BY AppendLemma
<1>2. DOMAIN s = 1 .. Len(s) /\ Len(s) \in Nat OBVIOUS
<1>3. 1 .. Len(s) + 1 = (1 .. Len(s)) \union {Len(s) + 1} /\ Len(s) + 1 \notin 1 .. Len(s) BY <1>2
<1> HIDE DEF t
<1>5. ASSUME Apart(s), d \intersect Content(s) = {} PROVE Apart(t)
  BY <1>2, <1>5, <1>1, <1>3 DEF Content, Apart
<1> QED BY <1>5, <1>1, <1>2, <1>3 DEF t, Content

-----------------------------------------------------------------------------
(* The readable raw shards.                                                *)

\* There is a number of readable shards.
LEMMA GoodExists ==
    ASSUME NEW r \in RawFolder
    PROVE  \E g \in 0 .. Len(r.shards) : GoodTo(r, g)
<1> DEFINE n == Len(r.shards)
           T == {g \in 0 .. n : g = n \/ g + 1 \notin r.files}
<1>1. n \in Nat BY DEF RawFolder
<1>2. T \in SUBSET Nat /\ n \in T BY <1>1
<1>3. PICK g \in T : \A m \in T : g <= m BY <1>2, LeastElement
<1>4. g \in 0 .. n /\ (g = n \/ g + 1 \notin r.files) BY <1>3
<1>5. ASSUME NEW i \in 1 .. g PROVE i \in r.files
  <2>1. i - 1 \in 0 .. n /\ (i - 1) + 1 = i /\ i - 1 # n /\ ~(g <= i - 1) BY <1>1, <1>4
  <2>2. i - 1 \notin T BY <1>3, <2>1
  <2> QED BY <2>1, <2>2
<1> QED BY <1>4, <1>5 DEF GoodTo

\* There is only one.
LEMMA GoodUnique ==
    ASSUME NEW r \in RawFolder, NEW g, NEW h, GoodTo(r, g), GoodTo(r, h)
    PROVE  g = h
<1> DEFINE n == Len(r.shards)
<1>2. g \in 0 .. n /\ h \in 0 .. n BY DEF GoodTo
<1>3. (\A i \in 1 .. g : i \in r.files) /\ (\A i \in 1 .. h : i \in r.files) BY DEF GoodTo
<1>4. (g = n \/ g + 1 \notin r.files) /\ (h = n \/ h + 1 \notin r.files) BY DEF GoodTo
<1> HIDE DEF n
<1> QED BY <1>2, <1>3, <1>4 DEF RawFolder

\* GoodIn is that number.
LEMMA GoodLemma ==
    ASSUME NEW r \in RawFolder
    PROVE  /\ GoodTo(r, GoodIn(r))
           /\ GoodIn(r) \in 0 .. Len(r.shards)
           /\ \A g : GoodTo(r, g) => GoodIn(r) = g
<1> QED BY GoodUnique, GoodExists DEF GoodTo, GoodIn

\* All shards are readable.
LEMMA AllGood ==
    ASSUME NEW r \in RawFolder, \A i \in 1 .. Len(r.shards) : i \in r.files
    PROVE  GoodIn(r) = Len(r.shards)
<1> QED BY GoodLemma DEF GoodTo, RawFolder

-----------------------------------------------------------------------------
(* Folders and the raw folder they are derived from.                       *)

\* The constants of a config.
LEMMA ConfigLemma ==
    ASSUME NEW c \in Config
    PROVE  /\ c \in Nat \ {0}
           /\ Hash[c] \in Nat \ {0} /\ RawHash[c] \in Nat \ {0}
           /\ Needed[c] \in Nat \ {0} /\ Sufficient[c] \in Nat \ {0}
           /\ WholeSource[c] \in BOOLEAN
           /\ Keeps[c] \subseteq Nat
           /\ Upstream[RawHash[c]] \in Seq(Nat) \ {<<>>}
<1> QED BY SourceAssumption

\* The constants of the runner.
LEMMA SizesLemma == ShardSize \in Nat \ {0} /\ MaxRounds \in Nat \ {0}
BY SourceAssumption

\* The hash determines what rows are made from.
LEMMA SameHash ==
    ASSUME NEW c \in Config, NEW e \in Config, Hash[c] = Hash[e]
    PROVE  RawHash[c] = RawHash[e] /\ WholeSource[c] = WholeSource[e] /\ Keeps[c] = Keeps[e]
BY SourceAssumption

\* The fields of a manifest.
LEMMA ManifestFields ==
    ASSUME NEW m \in Manifest
    PROVE  /\ m.hash \in Nat /\ m.covered \in Seq(Nat) /\ m.shards \in Seq(SUBSET Nat)
           /\ m.gen \in Nat /\ m.complete \in BOOLEAN
           /\ DOMAIN m.shards = 1 .. Len(m.shards) /\ Len(m.shards) \in Nat /\ Len(m.covered) \in Nat
<1> QED BY DEF Manifest

\* The fields of a folder.
LEMMA FolderFields ==
    ASSUME NEW f \in Folder
    PROVE  /\ f.there \in BOOLEAN /\ f.manifest \in Manifest
           /\ f.owner \in [role : {"none", "temporary", "backup"}, build : Nat]
           /\ f.files \in SUBSET [i : Nat, docs : SUBSET Nat]
BY DEF Folder

\* The fields of the raw folder.
LEMMA RawFields ==
    ASSUME NEW r \in RawFolder
    PROVE  /\ r.hash \in Nat /\ r.shards \in Seq(Seq(Nat)) /\ r.exhausted \in BOOLEAN /\ r.files \in SUBSET Nat
           /\ DOMAIN r.shards = 1 .. Len(r.shards) /\ Len(r.shards) \in Nat
           /\ Rows(r.shards) \in Seq(Nat) /\ Len(Rows(r.shards)) = Len(r.shards)
<1> QED BY RowsLemma DEF RawFolder

\* A strict prefix is shorter.
LEMMA StrictIs ==
    ASSUME NEW S, NEW s \in Seq(S), NEW t \in Seq(S)
    PROVE  IsStrictPrefix(s, t) <=> IsPrefix(s, t) /\ Len(s) < Len(t)
<1>2. IsPrefix(s, t) => Len(s) <= Len(t) BY PrefixIs
<1> QED BY WholePrefix DEF IsStrictPrefix

\* What is in an empty slot.
LEMMA NothingFields ==
    /\ NoManifest \in Manifest /\ Absent \in Folder /\ NoRaw \in RawFolder
    /\ Absent.manifest = NoManifest /\ Absent.files = {} /\ ~Absent.there
    /\ NoManifest.hash = 0 /\ NoManifest.gen = 0 /\ NoManifest.shards = <<>> /\ NoManifest.covered = <<>>
<1>1. <<>> \in Seq(Nat) /\ <<>> \in Seq(SUBSET Nat) /\ <<>> \in Seq(Seq(Nat)) OBVIOUS
<1>4. NoRaw \in RawFolder BY <1>1 DEF NoRaw, RawFolder
<1> QED BY <1>4, <1>1 DEF Absent, NoManifest, Folder, NoOwner, Manifest

\* A manifest with a hash is one.
LEMMA Hashed ==
    ASSUME NEW m, NEW c \in Config, m.hash = Hash[c]
    PROVE  m # NoManifest
<1> QED BY NothingFields, ConfigLemma

\* Without a manifest nothing is claimed.
LEMMA NothingDerived ==
    ASSUME NEW f, f.manifest = NoManifest, NEW r
    PROVE  Derived(f, r) /\ Leftover(f, r)
BY DEF Derived, Leftover

\* An empty slot needs no repair.
LEMMA AbsentSound ==
    ASSUME NEW c, NEW kept
    PROVE  ~NeedsRebuild(Absent, c, kept)
BY NothingFields DEF NeedsRebuild

\* The raw folder a manifest was made from has an identity.
LEMMA DerivedHash ==
    ASSUME NEW f, NEW r, Derived(f, r), f.manifest # NoManifest
    PROVE  r.hash # 0 /\ \E c \in Config : f.manifest.hash = Hash[c] /\ r.hash = RawHash[c]
<1>1. PICK c \in Config : f.manifest.hash = Hash[c] /\ r.hash = RawHash[c] BY DEF Derived, Describes, Filtered
<1> QED BY <1>1, ConfigLemma

\* What a step of the download does to the raw folder.
Extends(r, s) == IsPrefix(r.shards, s.shards) /\ (r.hash = 0 \/ s.hash = r.hash)

\* What was derived stays derived when raw shards are added.
LEMMA DerivedExtended ==
    ASSUME NEW f \in Folder, NEW r \in RawFolder, NEW s \in RawFolder, Extends(r, s), Derived(f, r)
    PROVE  Derived(f, s)
<1> DEFINE m == f.manifest
<1> SUFFICES ASSUME m # NoManifest PROVE Describes(m, s) /\ Readable(f.files, m.shards) BY DEF Derived
<1>1. Describes(m, r) /\ Readable(f.files, m.shards) BY DEF Derived
<1>2. m \in Manifest /\ m.covered \in Seq(Nat) /\ Len(m.covered) \in Nat BY FolderFields, ManifestFields
<1>3. r.shards \in Seq(Seq(Nat)) /\ s.shards \in Seq(Seq(Nat)) /\ Len(r.shards) \in Nat
      /\ Rows(r.shards) \in Seq(Nat) /\ Rows(s.shards) \in Seq(Nat) /\ Len(Rows(r.shards)) = Len(r.shards)
  BY RawFields
<1>4. IsPrefix(r.shards, s.shards) BY DEF Extends
<1>5. IsPrefix(m.covered, Rows(r.shards)) BY <1>1 DEF Describes
<1>6. IsPrefix(m.covered, Rows(s.shards)) BY <1>2, <1>3, <1>4, <1>5, RowsOfPrefix, PrefixTransitive
<1>8. DocsIn(r.shards, Len(m.covered)) = DocsIn(s.shards, Len(m.covered))
  BY <1>3, <1>4, DocsOfPrefix, <1>2, <1>5, PrefixIs
<1>10. s.hash = r.hash BY DerivedHash DEF Extends
<1> HIDE DEF m
<1> QED BY <1>1, <1>6, <1>8, <1>10 DEF Describes, Filtered

\* So does the shard an interrupted build left.
LEMMA LeftoverExtended ==
    ASSUME NEW f \in Folder, NEW r \in RawFolder, NEW s \in RawFolder, Extends(r, s), Leftover(f, r)
    PROVE  Leftover(f, s)
<1> DEFINE m == f.manifest
           n == Len(m.covered)
<1>1. m \in Manifest /\ n \in Nat BY FolderFields, ManifestFields
<1>2. r.shards \in Seq(Seq(Nat)) /\ s.shards \in Seq(Seq(Nat)) /\ Len(r.shards) \in Nat /\ Len(s.shards) \in Nat
  BY RawFields
<1>4. Len(r.shards) <= Len(s.shards) /\ \A i \in 1 .. Len(r.shards) : r.shards[i] = s.shards[i]
  BY <1>2, PrefixIs, SMTT(30), Z3T(30) DEF Extends
<1> SUFFICES ASSUME m # NoManifest, NEW c \in Config, m.hash = Hash[c],
                    NEW g \in f.files, g.i \notin DOMAIN m.shards
             PROVE  /\ g.i = Len(m.shards) + 1 /\ n < Len(s.shards)
                    /\ g.docs = NextSurvivors(c, m.shards, m.covered, s) /\ g.docs # {}
  BY DEF Leftover, LeftBehind
<1>5. /\ g.i = Len(m.shards) + 1 /\ n < Len(r.shards)
      /\ g.docs = NextSurvivors(c, m.shards, m.covered, r) /\ g.docs # {}
  BY DEF Leftover, LeftBehind
<1>6. n < Len(s.shards) /\ r.shards[n + 1] = s.shards[n + 1]
  <2> HIDE DEF n
  <2> QED BY <1>4, <1>1, <1>2, <1>5
<1> QED BY <1>5, <1>6 DEF NextSurvivors

\* A folder that is in order stays so when raw shards are added.
LEMMA SoundExtended ==
    ASSUME NEW f \in Folder, NEW c \in Config, NEW r \in RawFolder, NEW s \in RawFolder, Extends(r, s),
           Sound(f, c, r)
    PROVE  Sound(f, c, s)
<1> DEFINE m == f.manifest
<1>1. m.covered \in Seq(Nat) /\ Len(m.covered) \in Nat BY FolderFields, ManifestFields
<1>2. Rows(r.shards) \in Seq(Nat) /\ Rows(s.shards) \in Seq(Nat) /\ IsPrefix(Rows(r.shards), Rows(s.shards))
  BY RawFields, RowsOfPrefix DEF Extends
<1>4. IsPrefix(m.covered, Rows(r.shards)) => IsPrefix(m.covered, Rows(s.shards))
  BY <1>1, <1>2, PrefixTransitive
<1>5. IsStrictPrefix(m.covered, Rows(r.shards)) => IsStrictPrefix(m.covered, Rows(s.shards))
  BY <1>1, <1>2, StrictIs, <1>4, PrefixIs
<1> HIDE DEF m
<1> QED BY <1>4, <1>5 DEF Sound, NeedsRebuild, AllOf, Kept, CrashLeftover, MoreRawFollows, m

\* A whole folder needs no repair.
LEMMA WholeIsSound ==
    ASSUME NEW f \in Folder, NEW c \in Config, NEW kept, IsWhole(f, c, kept)
    PROVE  ~NeedsRebuild(f, c, kept) /\ f.manifest # NoManifest /\ (~f.there => f # Absent)
<1>1. f.manifest.covered \in Seq(Nat) /\ f.manifest.hash = Hash[c] /\ f.manifest.covered = kept.rows
  BY FolderFields, ManifestFields DEF IsWhole
<1> QED BY NothingFields, <1>1, PrefixSelf, Hashed DEF IsWhole, NeedsRebuild

\* What is derived from the first raw shards stays so when the others are dropped.
LEMMA DerivedCut ==
    ASSUME NEW f \in Folder, NEW c, NEW r \in RawFolder, NEW s \in RawFolder,
           IsPrefix(s.shards, r.shards), s.hash = r.hash, NEW gone,
           ~NeedsRebuild(f, c, Kept(gone, Rows(s.shards))), Derived(f, r)
    PROVE  Derived(f, s)
<1> DEFINE m == f.manifest
<1> SUFFICES ASSUME m # NoManifest PROVE Describes(m, s) /\ Readable(f.files, m.shards) BY DEF Derived
<1>1. Describes(m, r) /\ Readable(f.files, m.shards) BY DEF Derived
<1>3. r.shards \in Seq(Seq(Nat)) /\ s.shards \in Seq(Seq(Nat)) /\ Len(s.shards) \in Nat
      /\ Rows(s.shards) \in Seq(Nat) /\ Len(Rows(s.shards)) = Len(s.shards)
  BY RawFields
<1>4. IsPrefix(m.covered, Rows(s.shards)) BY DEF NeedsRebuild, Kept
<1>5. Len(m.covered) \in 0 .. Len(s.shards) BY <1>3, <1>4, PrefixIs, FolderFields, ManifestFields
<1> HIDE DEF m
<1> QED BY <1>1, <1>4, <1>3, <1>5, DocsOfPrefix DEF Describes, Filtered

\* The same of the shard an interrupted build left.
LEMMA LeftoverCut ==
    ASSUME NEW f \in Folder, NEW c, NEW r \in RawFolder, NEW s \in RawFolder,
           IsPrefix(s.shards, r.shards), NEW gone,
           ~NeedsRebuild(f, c, Kept(gone, Rows(s.shards))), Leftover(f, r)
    PROVE  Leftover(f, s)
<1> DEFINE m == f.manifest
           n == Len(m.covered)
<1>1. m.covered \in Seq(Nat) /\ n \in Nat BY FolderFields, ManifestFields
<1>2. r.shards \in Seq(Seq(Nat)) /\ s.shards \in Seq(Seq(Nat)) /\ Len(r.shards) \in Nat /\ Len(s.shards) \in Nat
      /\ Rows(s.shards) \in Seq(Nat) /\ Len(Rows(s.shards)) = Len(s.shards)
  BY RawFields
<1>3. Len(s.shards) <= Len(r.shards) /\ \A i \in 1 .. Len(s.shards) : s.shards[i] = r.shards[i]
  BY <1>2, PrefixIs, SMTT(30)
<1> SUFFICES ASSUME m # NoManifest, NEW e \in Config, m.hash = Hash[e],
                    NEW g \in f.files, g.i \notin DOMAIN m.shards
             PROVE  /\ g.i = Len(m.shards) + 1 /\ n < Len(s.shards)
                    /\ g.docs = NextSurvivors(e, m.shards, m.covered, s) /\ g.docs # {}
  BY DEF Leftover, LeftBehind
<1>5. Unlisted(f) # {} BY DEF Unlisted, IsListed
<1>7. n < Len(s.shards) BY <1>1, <1>2, StrictIs, <1>5 DEF NeedsRebuild, CrashLeftover, MoreRawFollows, Kept
<1>8. s.shards[n + 1] = r.shards[n + 1]
  <2> HIDE DEF n
  <2> QED BY <1>3, <1>1, <1>2, <1>7
<1> QED BY <1>7, <1>8 DEF NextSurvivors, Leftover, LeftBehind

-----------------------------------------------------------------------------
(* Plans.                                                                  *)

\* Every action has a rank.
LEMMA RankLemma ==
    ASSUME NEW a
    PROVE  RankOf(a) \in {1, 2, 3, 4}
BY DEF RankOf

\* What a sequence holds.
LEMMA ToSetOfSequence ==
    ASSUME NEW S, NEW s \in Seq(S), NEW a
    PROVE  a \in ToSet(s) <=> \E i \in 1 .. Len(s) : s[i] = a
<1> QED BY DEF ToSet

\* What two sequences behind one another hold.
LEMMA ConcatLemma ==
    ASSUME NEW S, NEW s \in Seq(S), NEW t \in Seq(S)
    PROVE  s \o t \in Seq(S) /\ ToSet(s \o t) = ToSet(s) \union ToSet(t)
<1> DEFINE u == s \o t
           m == Len(s)
           n == Len(t)
<1>1. u \in Seq(S) /\ Len(u) = m + n /\ m \in Nat /\ n \in Nat OBVIOUS
<1>2. \A i \in 1 .. m : u[i] = s[i] OBVIOUS
<1>3. \A i \in 1 .. n : u[m + i] = t[i] OBVIOUS
<1>4. ASSUME NEW a PROVE a \in ToSet(u) <=> a \in ToSet(s) \/ a \in ToSet(t)
  <2> HIDE DEF u, m, n
  <2>1. ASSUME NEW i \in 1 .. Len(u), u[i] = a
        PROVE  (\E j \in 1 .. m : s[j] = a) \/ (\E j \in 1 .. n : t[j] = a)
    <3>1. CASE i <= m BY <1>1, <3>1, <1>2, <2>1
    <3>2. CASE ~(i <= m)
      <4>1. i - m \in 1 .. n /\ m + (i - m) = i BY <1>1, <3>2
      <4> QED BY <1>3, <2>1, <4>1
    <3> QED BY <3>1, <3>2
  <2>2. ASSUME NEW j \in 1 .. m, s[j] = a PROVE \E i \in 1 .. Len(u) : u[i] = a BY <1>1, <1>2, <2>2
  <2>3. ASSUME NEW j \in 1 .. n, t[j] = a PROVE \E i \in 1 .. Len(u) : u[i] = a BY <1>1, <1>3, <2>3
  <2>4. a \in ToSet(u) <=> \E i \in 1 .. Len(u) : u[i] = a BY <1>1, ToSetOfSequence
  <2> QED BY <2>1, <2>2, <2>3, <2>4, ToSetOfSequence DEF m, n
<1> HIDE DEF u
<1> QED BY <1>1, <1>4 DEF u

\* Every act of one set comes before every act of another.
Before(A, B) == \A a \in A, b \in B : RankOf(a) < RankOf(b)

\* Two plans behind one another.
LEMMA OrderedConcat ==
    ASSUME NEW s \in Seq(Acts), NEW t \in Seq(Acts), Ordered(s), Ordered(t), Before(ToSet(s), ToSet(t))
    PROVE  Ordered(s \o t)
<1> DEFINE u == s \o t
           m == Len(s)
           n == Len(t)
<1>1. u \in Seq(Acts) /\ Len(u) = m + n /\ m \in Nat /\ n \in Nat /\ DOMAIN u = 1 .. m + n OBVIOUS
<1>2. \A i \in 1 .. m : u[i] = s[i] OBVIOUS
<1>3. \A i \in 1 .. n : u[m + i] = t[i] OBVIOUS
<1>4. \A i, j \in 1 .. m : i < j => RankOf(s[i]) < RankOf(s[j]) BY DEF Ordered
<1>5. \A i, j \in 1 .. n : i < j => RankOf(t[i]) < RankOf(t[j]) BY DEF Ordered
<1>6. \A i \in 1 .. m, j \in 1 .. n : RankOf(s[i]) < RankOf(t[j]) BY ToSetOfSequence DEF Before
<1> HIDE DEF u, m, n
<1>7. ASSUME NEW i \in 1 .. m + n, NEW j \in 1 .. m + n, i < j PROVE RankOf(u[i]) < RankOf(u[j])
  <2>1. CASE j <= m BY <1>1, <1>7, <2>1, <1>2, <1>4
  <2>2. CASE i <= m /\ ~(j <= m)
    <3>1. i \in 1 .. m /\ j - m \in 1 .. n /\ m + (j - m) = j BY <1>1, <2>2
    <3>3. u[j] = t[j - m] BY <1>3, <3>1
    <3> QED BY <1>6, <3>1, <3>3, <1>2
  <2>3. CASE ~(i <= m)
    <3>1. i - m \in 1 .. n /\ m + (i - m) = i /\ j - m \in 1 .. n /\ m + (j - m) = j /\ i - m < j - m
      BY <1>1, <1>7, <2>3
    <3>3. u[j] = t[j - m] BY <1>3, <3>1
    <3> QED BY <1>5, <3>1, <3>3, <1>3
  <2> QED BY <1>1, <1>7, <2>1, <2>2, <2>3
<1> QED BY <1>1, <1>7 DEF Ordered, u

\* One part of a plan: at most one act, of one rank.
Part(s, k) == s \in Seq(Acts) /\ Ordered(s) /\ \A a \in ToSet(s) : RankOf(a) = k

\* A plan of one action at most.
LEMMA UnlessLemma ==
    ASSUME NEW skip \in BOOLEAN, NEW a \in Acts
    PROVE  Part(Unless(skip, a), RankOf(a)) /\ ToSet(Unless(skip, a)) = IF skip THEN {} ELSE {a}
<1>1. <<>> \in Seq(Acts) /\ DOMAIN <<>> = {} /\ ToSet(<<>>) = {} BY DEF ToSet
<1>2. <<a>> \in Seq(Acts) /\ DOMAIN <<a>> = {1} /\ ToSet(<<a>>) = {a} BY DEF ToSet
<1>3. Ordered(<<>>) BY <1>1 DEF Ordered
<1>4. Ordered(<<a>>) BY <1>2 DEF Ordered
<1> QED BY <1>1, <1>2, <1>3, <1>4 DEF Unless, Part

\* Five plans behind one another.
Joined(s1, s2, s3, s4, s5) == s1 \o s2 \o s3 \o s4 \o s5

\* They are one, if they are in order.
LEMMA PartsInOrder ==
    ASSUME NEW s1, NEW s2, NEW s3, NEW s4, NEW s5,
           Part(s1, 1), Part(s2, 2), Part(s3, 3), Part(s4, 4), Part(s5, 4),
           ToSet(s4) = {} \/ ToSet(s5) = {}
    PROVE  /\ Joined(s1, s2, s3, s4, s5) \in Seq(Acts)
           /\ Ordered(Joined(s1, s2, s3, s4, s5))
           /\ ToSet(Joined(s1, s2, s3, s4, s5)) =
                ToSet(s1) \union ToSet(s2) \union ToSet(s3) \union ToSet(s4) \union ToSet(s5)
<1> DEFINE t2 == s1 \o s2
           t3 == t2 \o s3
           t4 == t3 \o s4
           t5 == t4 \o s5
<1>1. t2 \in Seq(Acts) /\ ToSet(t2) = ToSet(s1) \union ToSet(s2) BY ConcatLemma DEF Part
<1>2. Ordered(t2) BY OrderedConcat DEF Part, Before
<1> HIDE DEF t2
<1>3. t3 \in Seq(Acts) /\ ToSet(t3) = ToSet(s1) \union ToSet(s2) \union ToSet(s3)
  BY <1>1, ConcatLemma DEF Part
<1>4. Ordered(t3)
  <2>1. Before(ToSet(t2), ToSet(s3)) BY <1>1 DEF Part, Before
  <2> QED BY <1>1, <1>2, <2>1, OrderedConcat DEF Part
<1> HIDE DEF t3
<1>5. t4 \in Seq(Acts) /\ ToSet(t4) = ToSet(s1) \union ToSet(s2) \union ToSet(s3) \union ToSet(s4)
  BY <1>3, ConcatLemma DEF Part
<1>6. Ordered(t4)
  <2>1. Before(ToSet(t3), ToSet(s4)) BY <1>3 DEF Part, Before
  <2> QED BY <1>3, <1>4, <2>1, OrderedConcat DEF Part
<1> HIDE DEF t4
<1>7. t5 \in Seq(Acts) /\ ToSet(t5) = ToSet(s1) \union ToSet(s2) \union ToSet(s3) \union ToSet(s4) \union ToSet(s5)
  BY <1>5, ConcatLemma DEF Part
<1>8. Ordered(t5)
  <2>1. Before(ToSet(t4), ToSet(s5)) BY <1>5 DEF Before, Part
  <2> QED BY <1>5, <1>6, <2>1, OrderedConcat DEF Part
<1> QED BY <1>7, <1>8 DEF t2, t3, t4, Joined

\* The acts that are left after the first one.
LEMMA TailLemma ==
    ASSUME NEW plan \in Seq(Acts), plan # <<>>, Ordered(plan)
    PROVE  /\ Head(plan) \in Acts /\ Head(plan) \in ToSet(plan)
           /\ Tail(plan) \in Seq(Acts) /\ Ordered(Tail(plan))
           /\ ToSet(Tail(plan)) = ToSet(plan) \ {Head(plan)}
           /\ \A a \in ToSet(Tail(plan)) : RankOf(Head(plan)) < RankOf(a)
<1> DEFINE t == Tail(plan)
           h == Head(plan)
           n == Len(plan)
<1>1. n \in Nat /\ n # 0 /\ DOMAIN plan = 1 .. n /\ 1 \in 1 .. n OBVIOUS
<1>2. h = plan[1] /\ h \in Acts BY <1>1
<1>3. t \in Seq(Acts) /\ Len(t) = n - 1 /\ DOMAIN t = 1 .. n - 1 OBVIOUS
<1>4. \A i \in 1 .. n - 1 : t[i] = plan[i + 1] OBVIOUS
<1>5. \A i, j \in 1 .. n : i < j => RankOf(plan[i]) < RankOf(plan[j]) BY <1>1 DEF Ordered
<1> HIDE DEF t, h, n
<1>6. h \in ToSet(plan) BY <1>1, <1>2 DEF ToSet
<1>7. ASSUME NEW i \in 1 .. n - 1, NEW j \in 1 .. n - 1, i < j PROVE RankOf(t[i]) < RankOf(t[j])
  BY <1>1, <1>7, <1>4, <1>5
<1>9. \A a \in ToSet(t) : RankOf(h) < RankOf(a)
  <2> TAKE a \in ToSet(t)
  <2>1. PICK i \in 1 .. n - 1 : t[i] = a BY <1>3 DEF ToSet
  <2> QED BY <1>1, <1>2, <1>4, <1>5, <2>1
<1>10. \A a \in ToSet(t) : a # h
  <2> TAKE a \in ToSet(t)
  <2> QED BY <1>9, RankLemma
<1>11. ASSUME NEW a PROVE a \in ToSet(t) <=> a \in ToSet(plan) /\ a # h
  <2>1. ASSUME a \in ToSet(t) PROVE a \in ToSet(plan) BY <1>3, <2>1, <1>1, <1>4 DEF ToSet
  <2>2. ASSUME a \in ToSet(plan), a # h PROVE a \in ToSet(t)
    <3>1. PICK i \in 1 .. n : plan[i] = a BY <1>1, <2>2 DEF ToSet
    <3>3. i - 1 \in 1 .. n - 1 /\ (i - 1) + 1 = i BY <1>1, <1>2, <2>2, <3>1
    <3> QED BY <1>3, <1>4, <3>1, <3>3 DEF ToSet
  <2> QED BY <1>10, <2>1, <2>2
<1>12. ToSet(t) = ToSet(plan) \ {h} BY <1>11
<1> QED BY <1>2, <1>3, <1>6, <1>9, <1>12, <1>7 DEF t, h, Ordered

-----------------------------------------------------------------------------
(* What the inspection finds.                                              *)

\* What the plan finds, in the state it looks at.
LEMMA Found ==
    ASSUME NEW c
    PROVE  /\ GoodPrefix = GoodIn(raw)
           /\ RawDeleted(c) = DeletedIn(raw, c) /\ RawTruncated(c) = TruncatedIn(raw, c)
           /\ KeptRaw(c) = KeptIn(raw, c)
           /\ FinalDeleted(c) = NeedsRebuild(disk["final"], c, KeptIn(raw, c))
           /\ FinalSurvives(c) = Survives(disk["final"], c, KeptIn(raw, c))
<1>1. GoodPrefix = GoodIn(raw) BY DEF GoodPrefix, GoodIn
<1>2. RawDeleted(c) = DeletedIn(raw, c) /\ RawTruncated(c) = TruncatedIn(raw, c)
  BY <1>1 DEF RawDeleted, RawIsStale, RawIsLost, DeletedIn, RawTruncated, TruncatedIn
<1> QED BY <1>1, <1>2 DEF FinalDeleted, FinalSurvives, Survives, KeptRaw, KeptIn

\* And in the next one.
LEMMA FoundNext ==
    ASSUME NEW c
    PROVE  /\ KeptRaw(c)' = KeptIn(raw', c)
           /\ FinalSurvives(c)' = Survives(disk'["final"], c, KeptIn(raw', c))
<1>1. GoodPrefix' = GoodIn(raw') BY DEF GoodPrefix, GoodIn
<1>2. RawDeleted(c)' = DeletedIn(raw', c) /\ RawTruncated(c)' = TruncatedIn(raw', c)
  BY <1>1 DEF RawDeleted, RawIsStale, RawIsLost, DeletedIn, RawTruncated, TruncatedIn
<1> QED BY <1>1, <1>2 DEF FinalDeleted, FinalSurvives, Survives, KeptRaw, KeptIn

\* A raw folder is deleted or cut, not both.
LEMMA Exclusive ==
    ASSUME NEW r, NEW c
    PROVE  ~(DeletedIn(r, c) /\ TruncatedIn(r, c))
BY DEF DeletedIn, TruncatedIn

\* The reasons to refuse a run.
Reasons == {"raw", "temporary", "backup", "replacement", "last backup"}

\* A reason that does not apply.
LEMMA NoReason ==
    ASSUME NEW skip \in BOOLEAN, NEW x \in Reasons
    PROVE  Unless(skip, x) \in Seq(Reasons) /\ (Unless(skip, x) = <<>> <=> skip)
<1> QED BY DEF Unless

\* No reason applies if none of the parts has one.
LEMMA NoReasons ==
    ASSUME NEW s \in Seq(Reasons), NEW t \in Seq(Reasons)
    PROVE  s \o t \in Seq(Reasons) /\ (s \o t = <<>> => s = <<>> /\ t = <<>>)
<1> QED OBVIOUS

\* A prepare that is not refused has a use for the backup.
LEMMA NotRefused ==
    ASSUME NEW c, NEW yes, Refusal(c, yes) = "no"
    PROVE  disk["backup"].there => BackupReplaced(c) \/ IsWhole(disk["backup"], c, KeptRaw(c))
<1> DEFINE b1 == raw.hash # 0 \/ raw.files = {}
           b2 == ~disk["temporary"].there \/ Owned("temporary")
           b3 == ~disk["backup"].there \/ Owned("backup")
           b4 == ~disk["backup"].there \/ VerifiedReplacement(c)
           b5 == ~disk["backup"].there \/ BackupReplaced(c) \/ IsWhole(disk["backup"], c, KeptRaw(c))
           u1 == Unless(b1, "raw")
           u2 == Unless(b2, "temporary")
           u3 == Unless(b3, "backup")
           u4 == Unless(b4, "replacement")
           u5 == Unless(b5, "last backup")
           all == u1 \o u2 \o u3 \o u4 \o u5
<1>1. Refusals(c) = all BY DEF Refusals
<1>2. b1 \in BOOLEAN /\ b2 \in BOOLEAN /\ b3 \in BOOLEAN /\ b4 \in BOOLEAN /\ b5 \in BOOLEAN OBVIOUS
<1> HIDE DEF b1, b2, b3, b4, b5
<1>3. /\ u1 \in Seq(Reasons) /\ u2 \in Seq(Reasons) /\ u3 \in Seq(Reasons) /\ u4 \in Seq(Reasons)
      /\ u5 \in Seq(Reasons) /\ (u5 = <<>> => b5)
  BY <1>2, NoReason DEF Reasons
<1> HIDE DEF u1, u2, u3, u4, u5
<1>7. all \in Seq(Reasons) /\ (all = <<>> => u5 = <<>>) BY <1>3, NoReasons
<1> HIDE DEF all
<1>8. all # <<>> => Head(all) # "no"
  <2>1. all # <<>> => Head(all) \in Reasons BY <1>7
  <2> QED BY <2>1 DEF Reasons
<1>11. b5 BY <1>3, <1>7, <1>8, <1>1 DEF Refusal
<1> QED BY <1>11 DEF b5

\* The plan of a run that is not refused.
LEMMA PlanLemma ==
    ASSUME NEW c \in Config, raw \in RawFolder, disk \in [Slots -> Folder],
           NEW yes, Refusal(c, yes) = "no"
    PROVE  Plan(c) \in Seq(Acts) /\ Ordered(Plan(c)) /\ PlanOk(ToSet(Plan(c)), disk, raw, c)
<1> DEFINE kept == KeptIn(raw, c)
           deleted == DeletedIn(raw, c)
           truncated == TruncatedIn(raw, c)
           rebuilt == NeedsRebuild(disk["final"], c, kept)
           adopted == TemporaryAdopted(c)
           replaced == BackupReplaced(c)
           there2 == disk["temporary"].there
           there3 == disk["backup"].there
           a1 == Act("delete", "final", 0)
           a2 == Act(IF adopted THEN "swap" ELSE "delete", "temporary", 0)
           a3 == Act(IF replaced THEN "delete" ELSE "swap", "backup", 0)
           a4 == Act("delete", "raw", 0)
           a5 == Act("truncate", "raw", GoodIn(raw))
           s1 == Unless(~rebuilt, a1)
           s2 == Unless(~there2, a2)
           s3 == Unless(~there3, a3)
           s4 == Unless(~deleted, a4)
           s5 == Unless(~truncated, a5)
           acts == ToSet(Plan(c))
<1>1. Plan(c) = Joined(s1, s2, s3, s4, s5) BY Found DEF Plan, Joined
<1>2. there2 \in BOOLEAN /\ there3 \in BOOLEAN BY FolderFields DEF Slots
<1>3. rebuilt \in BOOLEAN /\ deleted \in BOOLEAN /\ truncated \in BOOLEAN /\ adopted \in BOOLEAN /\ replaced \in BOOLEAN
  BY DEF NeedsRebuild, DeletedIn, TruncatedIn, TemporaryAdopted, BackupReplaced, FinalSurvives
<1>4. /\ a1 \in Acts /\ a2 \in Acts /\ a3 \in Acts /\ a4 \in Acts /\ a5 \in Acts
      /\ RankOf(a1) = 1 /\ RankOf(a2) = 2 /\ RankOf(a3) = 3 /\ RankOf(a4) = 4 /\ RankOf(a5) = 4
      /\ a1.verb = "delete" /\ a4.verb = "delete" /\ a5.verb = "truncate" /\ a5.keep = GoodIn(raw)
      /\ a2.verb = (IF adopted THEN "swap" ELSE "delete")
      /\ a3.verb = (IF replaced THEN "delete" ELSE "swap")
  BY GoodLemma, RawFields DEF Act, Acts, RankOf, Slots
<1> HIDE DEF a1, a2, a3, a4, a5
<1>5. /\ Part(s1, 1) /\ Part(s2, 2) /\ Part(s3, 3) /\ Part(s4, 4) /\ Part(s5, 4)
      /\ ToSet(s1) = (IF rebuilt THEN {a1} ELSE {}) /\ ToSet(s2) = (IF there2 THEN {a2} ELSE {})
      /\ ToSet(s3) = (IF there3 THEN {a3} ELSE {}) /\ ToSet(s4) = (IF deleted THEN {a4} ELSE {})
      /\ ToSet(s5) = (IF truncated THEN {a5} ELSE {})
  <2> HIDE DEF rebuilt, there2, there3, deleted, truncated
  <2>1. Part(s1, 1) /\ ToSet(s1) = (IF rebuilt THEN {a1} ELSE {}) BY <1>3, <1>4, UnlessLemma
  <2>2. Part(s2, 2) /\ ToSet(s2) = (IF there2 THEN {a2} ELSE {}) BY <1>2, <1>4, UnlessLemma
  <2>3. Part(s3, 3) /\ ToSet(s3) = (IF there3 THEN {a3} ELSE {}) BY <1>2, <1>4, UnlessLemma
  <2>4. Part(s4, 4) /\ ToSet(s4) = (IF deleted THEN {a4} ELSE {}) BY <1>3, <1>4, UnlessLemma
  <2>5. Part(s5, 4) /\ ToSet(s5) = (IF truncated THEN {a5} ELSE {}) BY <1>3, <1>4, UnlessLemma
  <2> QED BY <2>1, <2>2, <2>3, <2>4, <2>5
<1>6. ~(deleted /\ truncated) BY Exclusive
<1> HIDE DEF s1, s2, s3, s4, s5
<1>7. /\ Plan(c) \in Seq(Acts) /\ Ordered(Plan(c))
      /\ acts = ToSet(s1) \union ToSet(s2) \union ToSet(s3) \union ToSet(s4) \union ToSet(s5)
  BY <1>5, <1>6, <1>1, PartsInOrder
<1> HIDE DEF acts
<1>8. \A a : a \in acts <=> \/ a = a1 /\ rebuilt
                            \/ a = a2 /\ there2
                            \/ a = a3 /\ there3
                            \/ a = a4 /\ deleted
                            \/ a = a5 /\ truncated
  BY <1>5, <1>7
<1>9. adopted <=> there2 /\ ~Survives(disk["final"], c, kept) /\ IsWhole(disk["temporary"], c, kept)
  BY Found DEF TemporaryAdopted
<1>10. replaced <=> Survives(disk["final"], c, kept) \/ adopted BY Found DEF BackupReplaced
<1>11. Survives(disk["final"], c, kept) <=> disk["final"].there /\ ~rebuilt BY DEF Survives
<1>12. there3 => replaced \/ IsWhole(disk["backup"], c, kept) BY NotRefused, Found
<1> HIDE DEF adopted, replaced
<1>13. /\ Has(acts, 1) <=> rebuilt
       /\ Has(acts, 2) <=> there2
       /\ Has(acts, 3) <=> there3
       /\ Has(acts, 4) <=> deleted \/ truncated
  BY <1>4, <1>8 DEF Has
<1>14. Swaps(acts, 2) <=> there2 /\ adopted BY <1>4, <1>8 DEF Swaps
<1>15. ASSUME NEW a \in acts
       PROVE  /\ RankOf(a) = 1 => FinalAct(acts, a, disk, raw, c)
              /\ RankOf(a) = 2 => TemporaryAct(acts, a, disk, raw, c)
              /\ RankOf(a) = 3 => BackupAct(acts, a, disk, raw, c)
              /\ RankOf(a) = 4 => RawAct(acts, a, disk, raw, c)
  <2>1. CASE a = a1 /\ rebuilt BY <1>4, <2>1 DEF FinalAct
  <2>2. CASE a = a2 /\ there2 BY <1>4, <1>9, <1>11, <1>13, <2>2 DEF TemporaryAct
  <2>3. CASE a = a3 /\ there3
    <3>1. BackupAct(acts, a, disk, raw, c)
      BY <1>4, <1>9, <1>10, <1>11, <1>12, <1>13, <1>14, <2>3 DEF BackupAct
    <3> QED BY <1>4, <2>3, <3>1
  <2>4. CASE a = a4 /\ deleted BY <1>4, <2>4 DEF RawAct
  <2>5. CASE a = a5 /\ truncated BY <1>4, <1>6, <2>5 DEF RawAct
  <2> QED BY <1>8, <2>1, <2>2, <2>3, <2>4, <2>5
<1>16. PlanOk(acts, disk, raw, c) BY <1>13, <1>15 DEF PlanOk
<1> QED BY <1>7, <1>16 DEF acts

-----------------------------------------------------------------------------
(* The plan while it is carried out.                                       *)

\* What is left of a plan after its first act.
IsRest(T, h, U) == h \in T /\ U = T \ {h} /\ \A a \in U : RankOf(h) < RankOf(a)

\* What is left of a plan behind its first action.
LEMMA RestLemma ==
    ASSUME NEW T, NEW h, NEW U, IsRest(T, h, U), NEW k \in {1, 2, 3, 4}
    PROVE  /\ k <= RankOf(h) => ~Has(U, k) /\ ~Swaps(U, k)
           /\ k < RankOf(h) => ~Has(T, k) /\ ~Swaps(T, k)
           /\ k > RankOf(h) => (Has(U, k) <=> Has(T, k)) /\ (Swaps(U, k) <=> Swaps(T, k))
           /\ k = RankOf(h) => Has(T, k) /\ (Swaps(T, k) <=> h.verb = "swap")
<1>1. h \in T /\ U = T \ {h} /\ \A a \in U : RankOf(h) < RankOf(a) BY DEF IsRest
<1>2. RankOf(h) \in Nat /\ \A a : RankOf(a) \in Nat BY RankLemma
<1>3. \A a : a \in T <=> a = h \/ a \in U BY <1>1
<1>4. ASSUME k <= RankOf(h) PROVE ~Has(U, k) /\ ~Swaps(U, k) BY <1>1, <1>2, <1>4 DEF Has, Swaps
<1>5. ASSUME k < RankOf(h) PROVE ~Has(T, k) /\ ~Swaps(T, k) BY <1>1, <1>2, <1>5, <1>3 DEF Has, Swaps
<1>6. ASSUME k > RankOf(h) PROVE (Has(U, k) <=> Has(T, k)) /\ (Swaps(U, k) <=> Swaps(T, k))
  BY <1>2, <1>6, <1>3 DEF Has, Swaps
<1>7. ASSUME k = RankOf(h) PROVE Has(T, k) /\ (Swaps(T, k) <=> h.verb = "swap")
  BY <1>1, <1>2, <1>7, <1>3 DEF Has, Swaps
<1> QED BY <1>4, <1>5, <1>6, <1>7

\* The same, rank by rank.
LEMMA RestOfRanks ==
    ASSUME NEW T, NEW h, NEW U, IsRest(T, h, U)
    PROVE  /\ RankOf(h) = 1 =>
                /\ ~Has(U, 1) /\ Has(T, 1) /\ (Has(U, 2) <=> Has(T, 2)) /\ (Has(U, 3) <=> Has(T, 3))
                /\ (Has(U, 4) <=> Has(T, 4)) /\ (Swaps(U, 2) <=> Swaps(T, 2))
           /\ RankOf(h) = 2 =>
                /\ ~Has(U, 1) /\ ~Has(T, 1) /\ ~Has(U, 2) /\ Has(T, 2) /\ (Has(U, 3) <=> Has(T, 3))
                /\ (Has(U, 4) <=> Has(T, 4)) /\ ~Swaps(U, 2) /\ (Swaps(T, 2) <=> h.verb = "swap")
           /\ RankOf(h) = 3 =>
                /\ ~Has(U, 1) /\ ~Has(T, 1) /\ ~Has(U, 2) /\ ~Has(T, 2) /\ ~Has(U, 3) /\ Has(T, 3)
                /\ (Has(U, 4) <=> Has(T, 4)) /\ ~Swaps(U, 2) /\ ~Swaps(T, 2)
           /\ RankOf(h) = 4 =>
                /\ ~Has(U, 1) /\ ~Has(T, 1) /\ ~Has(U, 2) /\ ~Has(T, 2) /\ ~Has(U, 3) /\ ~Has(T, 3)
                /\ ~Has(U, 4) /\ Has(T, 4) /\ U = {}
<1>4. /\ RankOf(h) = 4 =>
           /\ ~Has(U, 1) /\ ~Has(T, 1) /\ ~Has(U, 2) /\ ~Has(T, 2) /\ ~Has(U, 3) /\ ~Has(T, 3)
           /\ ~Has(U, 4) /\ Has(T, 4)
  BY RestLemma
<1>5. RankOf(h) = 4 => U = {} BY RankLemma DEF IsRest
<1> QED BY <1>4, <1>5, RestLemma

\* What the act that is due was planned for.
LEMMA DueLemma ==
    ASSUME NEW T, NEW h, NEW U, IsRest(T, h, U), NEW d, NEW r, NEW c, PlanOk(T, d, r, c)
    PROVE  /\ RankOf(h) = 1 => h.verb = "delete" /\ NeedsRebuild(d["final"], c, KeptIn(r, c))
           /\ RankOf(h) # 1 => ~NeedsRebuild(d["final"], c, KeptIn(r, c))
           /\ RankOf(h) = 2 => d["temporary"].there /\ TemporaryAct(T, h, d, r, c)
           /\ RankOf(h) \in {3, 4} => ~d["temporary"].there
           /\ RankOf(h) = 3 => d["backup"].there /\ BackupAct(T, h, d, r, c)
           /\ RankOf(h) = 4 => ~d["backup"].there /\ RawAct(T, h, d, r, c)
<1>5. /\ (RankOf(h) = 1 => Has(T, 1)) /\ (RankOf(h) \in {2, 3, 4} => ~Has(T, 1))
      /\ (RankOf(h) = 2 => Has(T, 2)) /\ (RankOf(h) \in {3, 4} => ~Has(T, 2))
      /\ (RankOf(h) = 3 => Has(T, 3)) /\ (RankOf(h) = 4 => ~Has(T, 3))
  BY RestOfRanks
<1>6. FinalAct(T, h, d, r, c) => h.verb = "delete" BY DEF FinalAct
<1> QED BY <1>5, <1>6, RankLemma DEF PlanOk, IsRest

\* Every act of the rest is still right.
ActsOk(T, d, r, c) ==
    \A a \in T : /\ RankOf(a) = 1 => FinalAct(T, a, d, r, c)
                 /\ RankOf(a) = 2 => TemporaryAct(T, a, d, r, c)
                 /\ RankOf(a) = 3 => BackupAct(T, a, d, r, c)
                 /\ RankOf(a) = 4 => RawAct(T, a, d, r, c)

\* PlanOk, with what its actions rely on under one name.
LEMMA PlanParts ==
    ASSUME NEW T, NEW d, NEW r, NEW c
    PROVE  PlanOk(T, d, r, c) <=>
             /\ Has(T, 1) <=> NeedsRebuild(d["final"], c, KeptIn(r, c))
             /\ Has(T, 2) <=> d["temporary"].there
             /\ Has(T, 3) <=> d["backup"].there
             /\ Has(T, 4) <=> DeletedIn(r, c) \/ TruncatedIn(r, c)
             /\ ActsOk(T, d, r, c)
BY DEF PlanOk, ActsOk

\* The final folder was deleted.
LEMMA AfterFinal ==
    ASSUME NEW T, NEW h, NEW U, IsRest(T, h, U), NEW d, NEW r, NEW c, PlanOk(T, d, r, c), RankOf(h) = 1,
           NEW e, e["final"] = Absent, e["temporary"] = d["temporary"], e["backup"] = d["backup"]
    PROVE  PlanOk(U, e, r, c)
<1>1. /\ ~Has(U, 1) /\ Has(T, 1) /\ (Has(U, 2) <=> Has(T, 2)) /\ (Has(U, 3) <=> Has(T, 3))
      /\ (Has(U, 4) <=> Has(T, 4)) /\ (Swaps(U, 2) <=> Swaps(T, 2))
  BY RestOfRanks
<1>2. ~NeedsRebuild(e["final"], c, KeptIn(r, c)) /\ ~e["final"].there BY AbsentSound, NothingFields
<1>3. ~Survives(d["final"], c, KeptIn(r, c)) BY <1>1, PlanParts DEF Survives
<1>4. ASSUME NEW a \in U
      PROVE  /\ RankOf(a) # 1
             /\ RankOf(a) = 2 => TemporaryAct(U, a, e, r, c)
             /\ RankOf(a) = 3 => BackupAct(U, a, e, r, c)
             /\ RankOf(a) = 4 => RawAct(U, a, e, r, c)
  <2>4. BackupAct(T, a, d, r, c) => BackupAct(U, a, e, r, c) BY <1>1, <1>2, <1>3 DEF BackupAct
  <2>5. RawAct(T, a, d, r, c) => RawAct(U, a, e, r, c) BY DEF RawAct
  <2> QED BY <2>4, <2>5, PlanParts, <1>1, <1>2, <1>3 DEF ActsOk, IsRest, Has, TemporaryAct
<1> QED BY <1>1, <1>2, PlanParts, <1>4 DEF ActsOk

\* The temporary folder was deleted.
LEMMA AfterTemporaryDeleted ==
    ASSUME NEW T, NEW h, NEW U, IsRest(T, h, U), NEW d, NEW r, NEW c, PlanOk(T, d, r, c),
           RankOf(h) = 2, h.verb = "delete",
           NEW e, e["final"] = d["final"], e["temporary"] = Absent, e["backup"] = d["backup"]
    PROVE  PlanOk(U, e, r, c)
<1>1. /\ ~Has(U, 1) /\ ~Has(T, 1) /\ ~Has(U, 2) /\ Has(T, 2) /\ (Has(U, 3) <=> Has(T, 3))
      /\ (Has(U, 4) <=> Has(T, 4)) /\ ~Swaps(U, 2) /\ (Swaps(T, 2) <=> h.verb = "swap")
  BY RestOfRanks
<1>4. ASSUME NEW a \in U
      PROVE  /\ RankOf(a) # 1 /\ RankOf(a) # 2
             /\ RankOf(a) = 3 => BackupAct(U, a, e, r, c)
             /\ RankOf(a) = 4 => RawAct(U, a, e, r, c)
  BY <1>1, PlanParts DEF IsRest, Has, ActsOk, BackupAct, RawAct
<1> QED BY <1>1, PlanParts, NothingFields, <1>4 DEF ActsOk

\* The temporary folder was swapped in.
LEMMA AfterTemporarySwapped ==
    ASSUME NEW T, NEW h, NEW U, IsRest(T, h, U), NEW d \in [Slots -> Folder], NEW r, NEW c \in Config,
           PlanOk(T, d, r, c), RankOf(h) = 2, h.verb = "swap",
           NEW e, e["final"] = d["temporary"], e["temporary"] = Absent, e["backup"] = d["backup"]
    PROVE  PlanOk(U, e, r, c)
<1>1. /\ ~Has(U, 1) /\ ~Has(T, 1) /\ ~Has(U, 2) /\ Has(T, 2) /\ (Has(U, 3) <=> Has(T, 3))
      /\ (Has(U, 4) <=> Has(T, 4)) /\ ~Swaps(U, 2) /\ (Swaps(T, 2) <=> h.verb = "swap")
  BY RestOfRanks
<1>3. Swaps(T, 2) /\ d["temporary"].there BY <1>1, PlanParts
<1>5. ~NeedsRebuild(e["final"], c, KeptIn(r, c)) BY WholeIsSound, DueLemma DEF Slots, TemporaryAct
<1>6. Survives(e["final"], c, KeptIn(r, c)) BY <1>3, <1>5 DEF Survives
<1>7. ASSUME NEW a \in U
      PROVE  /\ RankOf(a) # 1 /\ RankOf(a) # 2
             /\ RankOf(a) = 3 => BackupAct(U, a, e, r, c)
             /\ RankOf(a) = 4 => RawAct(U, a, e, r, c)
  BY <1>1, PlanParts, <1>3, <1>6 DEF IsRest, Has, ActsOk, BackupAct, RawAct
<1> QED BY <1>1, <1>5, PlanParts, NothingFields, <1>7 DEF ActsOk

\* The backup was deleted or swapped in.
LEMMA AfterBackup ==
    ASSUME NEW T, NEW h, NEW U, IsRest(T, h, U), NEW d, NEW r, NEW c,
           PlanOk(T, d, r, c), RankOf(h) = 3,
           NEW e, ~NeedsRebuild(e["final"], c, KeptIn(r, c)), e["temporary"] = d["temporary"], e["backup"] = Absent
    PROVE  PlanOk(U, e, r, c)
<1>1. /\ ~Has(U, 1) /\ ~Has(T, 1) /\ ~Has(U, 2) /\ ~Has(T, 2) /\ ~Has(U, 3) /\ Has(T, 3)
      /\ (Has(U, 4) <=> Has(T, 4)) /\ ~Swaps(U, 2) /\ ~Swaps(T, 2)
  BY RestOfRanks
<1>3. ASSUME NEW a \in U
      PROVE  /\ RankOf(a) # 1 /\ RankOf(a) # 2 /\ RankOf(a) # 3
             /\ RankOf(a) = 4 => RawAct(U, a, e, r, c)
  BY <1>1, PlanParts DEF IsRest, Has, ActsOk, RawAct
<1> QED BY <1>1, PlanParts, NothingFields, <1>3 DEF ActsOk

\* The raw folder was deleted or cut.
LEMMA AfterRaw ==
    ASSUME NEW T, NEW h, NEW U, IsRest(T, h, U), NEW d, NEW r, NEW c,
           PlanOk(T, d, r, c), RankOf(h) = 4,
           NEW s, ~NeedsRebuild(d["final"], c, KeptIn(s, c)), ~DeletedIn(s, c), ~TruncatedIn(s, c)
    PROVE  PlanOk(U, d, s, c)
<1> QED BY PlanParts, RestOfRanks DEF ActsOk

\* Nothing is left to do.
LEMMA PlanDone ==
    ASSUME NEW d, NEW r, NEW c, PlanOk({}, d, r, c)
    PROVE  /\ ~NeedsRebuild(d["final"], c, KeptIn(r, c)) /\ ~d["temporary"].there /\ ~d["backup"].there
           /\ ~DeletedIn(r, c) /\ ~TruncatedIn(r, c)
BY PlanParts DEF Has

\* An empty raw folder needs no repair.
LEMMA NothingKept ==
    ASSUME NEW c \in Config
    PROVE  ~DeletedIn(NoRaw, c) /\ ~TruncatedIn(NoRaw, c)
<1> QED BY ConfigLemma DEF DeletedIn, TruncatedIn, NoRaw

\* A raw folder that was cut down to what is readable.
IsCut(r, s, c) ==
    /\ TruncatedIn(r, c)
    /\ s.hash = r.hash
    /\ s.shards = SubSeq(r.shards, 1, GoodIn(r))
    /\ 1 .. GoodIn(r) \subseteq s.files

\* A cut changes nothing the derived folders are judged by.
LEMMA CutLemma ==
    ASSUME NEW r \in RawFolder, NEW s \in RawFolder, NEW c \in Config, IsCut(r, s, c)
    PROVE  /\ GoodIn(s) = GoodIn(r) /\ s.shards # <<>> /\ IsPrefix(s.shards, r.shards)
           /\ ~DeletedIn(s, c) /\ ~TruncatedIn(s, c)
           /\ KeptIn(s, c) = KeptIn(r, c)
           /\ KeptIn(r, c) = Kept(FALSE, Rows(s.shards))
<1> DEFINE g == GoodIn(r)
<1>1. g \in 1 .. Len(r.shards) - 1 /\ r.hash = RawHash[c] /\ s.hash = r.hash
      /\ s.shards = SubSeq(r.shards, 1, g) /\ 1 .. g \subseteq s.files
  BY DEF IsCut, TruncatedIn
<1>2. r.shards \in Seq(Seq(Nat)) /\ Len(r.shards) \in Nat BY RawFields
<1>3. g \in 0 .. Len(r.shards) /\ g # 0 BY <1>1, <1>2
<1> HIDE DEF g
<1>4. Len(s.shards) = g /\ IsPrefix(s.shards, r.shards) BY <1>1, <1>2, <1>3, InitialLemma
<1>5. GoodIn(s) = g BY <1>1, <1>4, AllGood
<1>6. ~DeletedIn(s, c) BY <1>1, <1>3, <1>5 DEF DeletedIn
<1>7. ~TruncatedIn(s, c) BY <1>3, <1>4, <1>5 DEF TruncatedIn
<1>8. s.shards # <<>> BY <1>3, <1>4
<1>9. TruncatedIn(r, c) /\ ~DeletedIn(r, c) BY Exclusive DEF IsCut
<1>10. KeptIn(r, c) = Kept(FALSE, Rows(s.shards))
  <2>1. DeletedIn(r, c) = FALSE BY <1>9 DEF DeletedIn
  <2> QED BY <1>1, <1>9, <2>1 DEF KeptIn, g
<1>11. KeptIn(s, c) = Kept(FALSE, Rows(s.shards))
  <2>1. DeletedIn(s, c) = FALSE BY <1>6 DEF DeletedIn
  <2> QED BY <1>7, <2>1 DEF KeptIn
<1> QED BY <1>4, <1>5, <1>6, <1>7, <1>8, <1>10, <1>11 DEF g

-----------------------------------------------------------------------------
(* The parts of the invariant when something else changes.                 *)

\* The folders, one by one.
LEMMA DisksAre ==
    ASSUME NEW d, NEW r, NEW n, NEW snap, DisksOk(d, r, n, snap)
    PROVE  /\ d \in [Slots -> Folder]
           /\ \A s \in Slots : FolderOk(d[s], r, n, snap) /\ d[s] \in Folder
           /\ FolderOk(d["final"], r, n, snap) /\ FolderOk(d["temporary"], r, n, snap) /\ FolderOk(d["backup"], r, n, snap)
           /\ d["final"] \in Folder /\ d["temporary"] \in Folder /\ d["backup"] \in Folder
           /\ Leftover(d["final"], r)
<1>4. "final" \in Slots /\ "temporary" \in Slots /\ "backup" \in Slots BY DEF Slots
<1> QED BY <1>4 DEF DisksOk, FolderOk

\* What is known of a folder.
LEMMA FolderParts ==
    ASSUME NEW f, NEW r, NEW n, NEW snap, FolderOk(f, r, n, snap)
    PROVE  f \in Folder /\ (f.there \/ f = Absent) /\ Derived(f, r) /\ GenOk(f.manifest, n, snap)
BY DEF FolderOk

\* A folder was replaced, or two.
LEMMA DisksPut ==
    ASSUME NEW d, NEW r, NEW n, NEW snap, DisksOk(d, r, n, snap),
           NEW s \in Slots, NEW f, FolderOk(f, r, n, snap), s = "final" => Leftover(f, r)
    PROVE  DisksOk([d EXCEPT ![s] = f], r, n, snap)
<1> DEFINE e == [d EXCEPT ![s] = f]
<1>2. e = [t \in Slots |-> e[t]] /\ \A t \in Slots : e[t] = IF t = s THEN f ELSE d[t] BY DEF DisksOk
<1> HIDE DEF e
<1>5. DisksOk(e, r, n, snap) BY <1>2, DisksAre DEF DisksOk, Slots
<1> QED BY <1>5 DEF e

\* The folders after a step that replaces one of them.
LEMMA SlotsPut ==
    ASSUME NEW d \in [Slots -> Folder], NEW s \in Slots, NEW f
    PROVE  /\ [d EXCEPT ![s] = f][s] = f
           /\ \A t \in Slots : t # s => [d EXCEPT ![s] = f][t] = d[t]
OBVIOUS

\* An id that is given out later changes no generation.
LEMMA GenGrows ==
    ASSUME NEW m \in Manifest, NEW n \in Nat, NEW k \in Nat, n <= k, NEW snap, GenOk(m, n, snap)
    PROVE  GenOk(m, k, snap)
<1> QED BY ManifestFields DEF GenOk

\* Of all folders.
LEMMA DisksGrow ==
    ASSUME NEW d, NEW r, NEW n \in Nat, NEW k \in Nat, n <= k, NEW snap, DisksOk(d, r, n, snap)
    PROVE  DisksOk(d, r, k, snap)
<1>1. \A s \in Slots : FolderOk(d[s], r, k, snap)
  <2> TAKE s \in Slots
  <2> QED BY GenGrows, DisksAre, FolderFields DEF FolderOk
<1> QED BY <1>1 DEF DisksOk

\* The raw folder was extended.
LEMMA DisksExtended ==
    ASSUME NEW d, NEW r \in RawFolder, NEW s \in RawFolder, NEW n, NEW snap, DisksOk(d, r, n, snap), Extends(r, s)
    PROVE  DisksOk(d, s, n, snap)
<1>1. \A t \in Slots : FolderOk(d[t], s, n, snap)
  <2> TAKE t \in Slots
  <2> QED BY DerivedExtended, DisksAre DEF FolderOk
<1> QED BY <1>1, DisksAre, LeftoverExtended DEF DisksOk

\* A raw folder of the same shards and identity.
LEMMA SameShards ==
    ASSUME NEW r \in RawFolder, NEW s \in RawFolder, s.shards = r.shards, s.hash = r.hash
    PROVE  Extends(r, s) /\ (RawOk(r) => RawOk(s))
<1> QED BY RawFields, PrefixSelf DEF Extends, RawOk

\* A folder that is empty, or of which nothing is left.
LEMMA AbsentOk ==
    ASSUME NEW r, NEW n \in Nat, NEW snap
    PROVE  FolderOk(Absent, r, n, snap) /\ Leftover(Absent, r) /\ GenOk(NoManifest, n, snap)
<1> QED BY NothingDerived, NothingFields DEF FolderOk, GenOk

\* Fewer files.
LEMMA ReadableLess ==
    ASSUME NEW files, NEW fewer \in SUBSET files, NEW shards, Readable(files, shards)
    PROVE  Readable(fewer, shards)
BY DEF Readable

\* A folder of which files are lost.
LEMMA FewerFiles ==
    ASSUME NEW f, NEW r, NEW n, NEW snap, FolderOk(f, r, n, snap), NEW k \in SUBSET f.files
    PROVE  /\ FolderOk([f EXCEPT !.files = k], r, n, snap)
           /\ Leftover(f, r) => Leftover([f EXCEPT !.files = k], r)
<1> DEFINE g == [f EXCEPT !.files = k]
<1>2. g \in Folder /\ g.manifest = f.manifest /\ g.files = k /\ g.there = f.there BY DEF Folder, FolderOk
<1>3. f = Absent => g = Absent BY NothingFields DEF Absent
<1> HIDE DEF g
<1>5. FolderOk(g, r, n, snap) BY <1>2, <1>3, ReadableLess DEF FolderOk, Derived
<1> QED BY <1>5, <1>2 DEF g, Leftover, LeftBehind

\* A folder whose deletion was cut off.
LEMMA TornOk ==
    ASSUME NEW f, NEW r, NEW n \in Nat, NEW snap, FolderOk(f, r, n, snap), NEW g \in Torn(f)
    PROVE  FolderOk(g, r, n, snap) /\ (Leftover(f, r) => Leftover(g, r))
<1> DEFINE m == g.manifest
           k == g.files
<1>1. g = [there |-> g.there, owner |-> g.owner, manifest |-> m, files |-> k]
      /\ g.there = f.there /\ g.owner \in {f.owner, NoOwner} /\ m \in {f.manifest, NoManifest} /\ k \in SUBSET f.files
  BY DEF Torn
<1> HIDE DEF m, k
<1>4. g \in Folder /\ g.manifest = m /\ g.files = k /\ g.there = f.there
  BY <1>1, FolderFields, NothingFields DEF Folder, m, k, NoOwner, FolderOk
<1>5. f = Absent => g = Absent BY <1>1 DEF Absent
<1>6. m \in {f.manifest, NoManifest} /\ k \in SUBSET f.files BY <1>1
<1>7. CASE m = NoManifest BY <1>4, <1>7, NothingDerived, AbsentOk, <1>5 DEF FolderOk
<1>8. CASE m = f.manifest BY <1>4, <1>8, <1>6, ReadableLess, <1>5 DEF FolderOk, Derived, Leftover, LeftBehind
<1> QED BY <1>7, <1>8, <1>6

\* A run that ended or was cut off.
LEMMA StoppedOk ==
    ASSUME NEW n \in Nat, NEW snap, NEW d, NEW r
    PROVE  RunOk(NoRun, "idle", n, snap) /\ StageOk("idle", NoRun, d, r, NoRun.config)
<1>4. RunOk(NoRun, "idle", n, snap) BY NothingFields, SizesLemma, AbsentOk DEF RunOk, Pcs, NoRun
<1> QED BY <1>4 DEF StageOk

\* The fields of a run.
LEMMA RunFields ==
    ASSUME NEW q, NEW l, NEW n, NEW snap, RunOk(q, l, n, snap)
    PROVE  /\ q.config \in Config \union {0} /\ q.plan \in Seq(Acts) /\ q.out \in Manifest
           /\ q.rounds \in 0 .. MaxRounds /\ q.target \in Nat /\ GenOk(q.out, n, snap)
           /\ l # "idle" => q.config \in Config
BY DEF RunOk

\* Another place in the run.
LEMMA RunMoves ==
    ASSUME NEW q, NEW l, NEW k \in Pcs, NEW n, NEW snap, RunOk(q, l, n, snap), l # "idle", k # "idle",
           k \in {"repair", "round"} => q.rounds < MaxRounds,
           k \in {"fetch", "record"} => q.target # 0
    PROVE  RunOk(q, k, n, snap)
BY DEF RunOk

\* An id that is given out later does not change a run.
LEMMA RunGrows ==
    ASSUME NEW q, NEW l, NEW n \in Nat, NEW k \in Nat, n <= k, NEW snap, RunOk(q, l, n, snap)
    PROVE  RunOk(q, l, k, snap)
<1>1. GenOk(q.out, k, snap) BY GenGrows, RunFields
<1> QED BY <1>1 DEF RunOk

-----------------------------------------------------------------------------
(* The steps of the repair keep the invariant.                             *)

\* Where a run stands, stage by stage.
LEMMA StageIs ==
    ASSUME NEW q, NEW d, NEW r, NEW c
    PROVE  /\ StageOk("repair", q, d, r, c) <=> Ordered(q.plan) /\ PlanOk(ToSet(q.plan), d, r, c)
           /\ StageOk("round", q, d, r, c) <=> Settled(d, c, r)
           /\ StageOk("fetch", q, d, r, c) <=> Settled(d, c, r)
           /\ StageOk("record", q, d, r, c) <=> Settled(d, c, r)
           /\ StageOk("fetched", q, d, r, c) <=> Settled(d, c, r) /\ r.hash = RawHash[c]
           /\ StageOk("build", q, d, r, c) <=> ToBuild(d, c, r)
           /\ StageOk("mark", q, d, r, c) <=> Marking(d, c, r)
           /\ StageOk("write", q, d, r, c) <=> /\ WholeSource[c] => WritingWhole(d, q.out, c, r)
                                               /\ ~WholeSource[c] => WritingNext(d, q.out, c, r)
           /\ StageOk("cover", q, d, r, c) <=> Covering(d, q.out, c, r)
           /\ StageOk("complete", q, d, r, c) <=> Completing(d, c, r)
           /\ StageOk("step aside", q, d, r, c) <=> Parking(d, c, r)
           /\ StageOk("park", q, d, r, c) <=> Parking(d, c, r)
           /\ StageOk("place", q, d, r, c) <=> Placing(d, c, r)
           /\ StageOk("discard", q, d, r, c) <=> Discarding(d, c, r)
           /\ StageOk("review", q, d, r, c) <=> Reviewing(d, c, r)
           /\ StageOk("finish", q, d, r, c) <=> Finishing(d, c, r, q.rounds)
BY DEF StageOk

\* What the invariant says.
LEMMA InvParts ==
    ASSUME Inv
    PROVE  /\ RawOk(raw) /\ raw \in RawFolder
           /\ IdsOk(ids, snapshot) /\ ids \in Nat
           /\ DisksOk(disk, raw, ids, snapshot) /\ disk \in [Slots -> Folder]
           /\ RunOk(run, pc, ids, snapshot)
           /\ StageOk(pc, run, disk, raw, run.config)
           /\ pc # "idle" => run.config \in Config
           /\ pc \in Pcs
BY DisksAre, RunFields DEF Inv, RawOk, IdsOk, RunOk

\* Where a run is once it has fetched what this round fetches.
Onward == {"fetched", "build", "mark", "write", "cover", "complete", "step aside", "park", "place", "discard", "review",
           "finish"}

\* Nothing more is asked of a run there.
LEMMA RunGoesOn ==
    ASSUME Inv, pc # "idle", NEW k \in Onward
    PROVE  RunOk(run, k, ids, snapshot)
<1>1. k \in Pcs /\ k # "idle" /\ k \notin {"repair", "round"} /\ k \notin {"fetch", "record"}
  BY DEF Onward, Pcs
<1> QED BY <1>1, RunMoves, InvParts

\* The act that is due.
LEMMA DueParts ==
    ASSUME Inv, pc = "repair", run.plan # <<>>
    PROVE  /\ run.config \in Config
           /\ IsRest(ToSet(run.plan), Due, ToSet(Tail(run.plan)))
           /\ PlanOk(ToSet(run.plan), disk, raw, run.config)
           /\ Due \in Acts /\ Tail(run.plan) \in Seq(Acts) /\ Ordered(Tail(run.plan))
           /\ Due.verb \in {"delete", "swap", "truncate"}
           /\ Due.folder \in {"final", "temporary", "backup", "raw"}
           /\ Due.folder = "final" <=> RankOf(Due) = 1
           /\ Due.folder = "temporary" <=> RankOf(Due) = 2
           /\ Due.folder = "backup" <=> RankOf(Due) = 3
           /\ Due.folder = "raw" <=> RankOf(Due) = 4
<1>1. run.plan \in Seq(Acts) /\ run.config \in Config BY InvParts, RunFields
<1>2. Ordered(run.plan) /\ PlanOk(ToSet(run.plan), disk, raw, run.config) BY InvParts, StageIs
<1>3. /\ Head(run.plan) \in Acts /\ Head(run.plan) \in ToSet(run.plan)
      /\ Tail(run.plan) \in Seq(Acts) /\ Ordered(Tail(run.plan))
      /\ ToSet(Tail(run.plan)) = ToSet(run.plan) \ {Head(run.plan)}
      /\ \A a \in ToSet(Tail(run.plan)) : RankOf(Head(run.plan)) < RankOf(a)
  BY <1>1, <1>2, TailLemma
<1> QED BY <1>1, <1>2, <1>3 DEF RankOf, Acts, Slots, IsRest, Due

\* What the act that is due may be.
LEMMA DueIs ==
    ASSUME Inv, pc = "repair", run.plan # <<>>
    PROVE  /\ Due.folder = "final" =>
                Due.verb = "delete" /\ NeedsRebuild(disk["final"], run.config, KeptIn(raw, run.config))
           /\ Due.folder # "final" => ~NeedsRebuild(disk["final"], run.config, KeptIn(raw, run.config))
           /\ Due.folder = "temporary" =>
                \/ Due.verb = "swap" /\ IsWhole(disk["temporary"], run.config, KeptIn(raw, run.config))
                   /\ ~disk["final"].there
                \/ /\ Due.verb = "delete"
                   /\ \/ Survives(disk["final"], run.config, KeptIn(raw, run.config))
                      \/ ~IsWhole(disk["temporary"], run.config, KeptIn(raw, run.config))
           /\ Due.folder = "backup" =>
                \/ Due.verb = "swap" /\ IsWhole(disk["backup"], run.config, KeptIn(raw, run.config))
                   /\ ~disk["final"].there
                \/ Due.verb = "delete" /\ Survives(disk["final"], run.config, KeptIn(raw, run.config))
           /\ Due.folder \in {"backup", "raw"} => ~disk["temporary"].there
           /\ Due.folder = "raw" =>
                /\ ~disk["backup"].there
                /\ \/ Due.verb = "delete" /\ DeletedIn(raw, run.config)
                   \/ Due.verb = "truncate" /\ TruncatedIn(raw, run.config) /\ Due.keep = GoodIn(raw)
<1> DEFINE T == ToSet(run.plan)
           h == Due
           U == ToSet(Tail(run.plan))
           c == run.config
<1>1. IsRest(T, h, U) /\ PlanOk(T, disk, raw, c) BY DueParts
<1> HIDE DEF T, h, U, c
<1>2. /\ RankOf(h) = 1 => h.verb = "delete" /\ NeedsRebuild(disk["final"], c, KeptIn(raw, c))
      /\ RankOf(h) # 1 => ~NeedsRebuild(disk["final"], c, KeptIn(raw, c))
      /\ RankOf(h) = 2 => disk["temporary"].there /\ TemporaryAct(T, h, disk, raw, c)
      /\ RankOf(h) \in {3, 4} => ~disk["temporary"].there
      /\ RankOf(h) = 3 => disk["backup"].there /\ BackupAct(T, h, disk, raw, c)
      /\ RankOf(h) = 4 => ~disk["backup"].there /\ RawAct(T, h, disk, raw, c)
  BY <1>1, DueLemma
<1>6. RankOf(h) = 4 =>
        \/ h.verb = "delete" /\ DeletedIn(raw, c)
        \/ h.verb = "truncate" /\ TruncatedIn(raw, c) /\ h.keep = GoodIn(raw)
  BY <1>2 DEF RawAct
<1>7. /\ h.folder = "final" <=> RankOf(h) = 1
      /\ h.folder = "temporary" <=> RankOf(h) = 2
      /\ h.folder = "backup" <=> RankOf(h) = 3
      /\ h.folder = "raw" <=> RankOf(h) = 4
  BY DueParts DEF h
<1>8. RankOf(h) \in {1, 2, 3, 4} BY RankLemma
<1> QED BY <1>2, <1>6, <1>7, <1>8, <1>1, RestOfRanks DEF c, h, TemporaryAct, BackupAct

\* An act was carried out.
LEMMA PerformedOk ==
    ASSUME Inv, pc = "repair", run.plan # <<>>, Performed
    PROVE  /\ RunOk(run', pc', ids, snapshot) /\ pc' = "repair" /\ run'.config = run.config
           /\ run'.plan = Tail(run.plan) /\ Ordered(run'.plan)
<1>1. run' = [run EXCEPT !.plan = Tail(@)] /\ pc' = pc BY DEF Performed
<1>2. Tail(run.plan) \in Seq(Acts) /\ Ordered(Tail(run.plan)) BY DueParts
<1>3. run \in [config : Config \union {0}, plan : Seq(Acts), out : Manifest, rounds : 0 .. MaxRounds, target : Nat]
  BY InvParts DEF RunOk
<1>4. /\ run' \in [config : Config \union {0}, plan : Seq(Acts), out : Manifest, rounds : 0 .. MaxRounds, target : Nat]
      /\ run'.config = run.config /\ run'.plan = Tail(run.plan) /\ run'.out = run.out /\ run'.rounds = run.rounds
      /\ run'.target = run.target
  BY <1>1, <1>2, <1>3
<1> QED BY <1>1, <1>2, <1>4, InvParts DEF RunOk

\* A slot whose folder is not there.
LEMMA NotThere ==
    ASSUME NEW d, NEW r, NEW n, NEW snap, DisksOk(d, r, n, snap), NEW s \in Slots, ~d[s].there
    PROVE  d[s] = Absent
BY DisksAre, FolderParts

\* Without unlisted files there is no stray one.
LEMMA NoLeftover ==
    ASSUME NEW f, Unlisted(f) = {}, NEW r
    PROVE  Leftover(f, r)
BY DEF Unlisted, IsListed, Leftover, LeftBehind

\* The folders when nothing was derived.
LEMMA NothingLeft ==
    ASSUME NEW d, NEW r, NEW n, NEW snap, DisksOk(d, r, n, snap),
           \A s \in Slots : d[s].manifest = NoManifest, NEW t
    PROVE  DisksOk(d, t, n, snap)
<1> QED BY DisksAre, NothingDerived DEF DisksOk, FolderOk, Slots

\* The invariant from its parts.
LEMMA InvFrom ==
    ASSUME RawOk(raw'), IdsOk(ids', snapshot'), DisksOk(disk', raw', ids', snapshot'),
           RunOk(run', pc', ids', snapshot'), StageOk(pc', run', disk', raw', run'.config)
    PROVE  Inv'
BY DEF Inv

\* A folder is deleted.
LEMMA DeleteFolderKeeps == Inv /\ DeleteFolder => Inv'
<1> SUFFICES ASSUME Inv, DeleteFolder PROVE Inv' OBVIOUS
<1> DEFINE s == Due.folder
           c == run.config
<1>1. pc = "repair" /\ run.plan # <<>> /\ Due.verb = "delete" /\ s # "raw"
      /\ disk' = [disk EXCEPT ![s] = Absent] /\ Performed
      /\ UNCHANGED <<raw, snapshot, ids>>
  BY DEF DeleteFolder, Doing
<1>2. s \in Slots /\ s \in {"final", "temporary", "backup"} BY <1>1, DueParts DEF Slots
<1> HIDE DEF s
<1>3. DisksOk(disk', raw, ids, snapshot) BY <1>1, <1>2, InvParts, AbsentOk, DisksPut
<1>4. disk'[s] = Absent /\ \A t \in Slots : t # s => disk'[t] = disk[t] BY <1>1, <1>2, InvParts, SlotsPut
<1>5. IsRest(ToSet(run.plan), Due, ToSet(Tail(run.plan))) /\ PlanOk(ToSet(run.plan), disk, raw, c)
  BY <1>1, DueParts
<1>6. PlanOk(ToSet(Tail(run.plan)), disk', raw, c)
  <2>1. CASE s = "final"
    <3>2. RankOf(Due) = 1 BY <1>1, <2>1, DueParts DEF s
    <3> QED BY <1>5, <3>2, AfterFinal, <1>4, <2>1 DEF Slots
  <2>2. CASE s = "temporary"
    <3>1. disk'["temporary"] = Absent /\ disk'["final"] = disk["final"] /\ disk'["backup"] = disk["backup"]
      BY <1>4, <2>2 DEF Slots
    <3>2. RankOf(Due) = 2 BY <1>1, <2>2, DueParts DEF s
    <3> QED BY <1>1, <1>5, <3>1, <3>2, AfterTemporaryDeleted
  <2>3. CASE s = "backup"
    <3>2. RankOf(Due) = 3 /\ ~NeedsRebuild(disk["final"], c, KeptIn(raw, c))
      BY <1>1, <2>3, DueParts, DueIs DEF s
    <3> QED BY <1>5, <3>2, AfterBackup, <1>4, <2>3 DEF Slots
  <2> QED BY <1>2, <2>1, <2>2, <2>3
<1>7. /\ RunOk(run', pc', ids, snapshot) /\ pc' = "repair" /\ run'.config = c
      /\ run'.plan = Tail(run.plan) /\ Ordered(run'.plan)
  BY <1>1, PerformedOk
<1>8. StageOk(pc', run', disk', raw, run'.config) BY <1>6, <1>7, StageIs
<1> QED BY <1>1, <1>3, <1>7, <1>8, InvParts, InvFrom

\* Its deletion is cut off.
LEMMA DeleteInterruptedKeeps == Inv /\ DeleteInterrupted => Inv'
<1> SUFFICES ASSUME Inv, DeleteInterrupted PROVE Inv' OBVIOUS
<1> DEFINE s == Due.folder
<1>1. pc = "repair" /\ run.plan # <<>> /\ s # "raw" /\ UNCHANGED <<raw, snapshot, ids>>
      /\ pc' = "idle" /\ run' = NoRun
  BY DEF DeleteInterrupted, Doing, Stopped
<1>2. PICK f \in Torn(disk[s]) : disk' = [disk EXCEPT ![s] = f] BY DEF DeleteInterrupted
<1>3. s \in Slots BY <1>1, DueParts DEF Slots
<1> HIDE DEF s
<1>5. FolderOk(f, raw, ids, snapshot) /\ (s = "final" => Leftover(f, raw)) BY InvParts, TornOk, <1>3, DisksAre
<1>6. DisksOk(disk', raw, ids, snapshot) BY <1>2, <1>3, <1>5, InvParts, DisksPut
<1> QED BY <1>1, <1>6, InvParts, InvFrom, StoppedOk

\* Nothing is derived from a raw folder that is deleted.
LEMMA DeletedRaw ==
    ASSUME Inv, pc = "repair", run.plan # <<>>, Due.folder = "raw", Due.verb = "delete"
    PROVE  /\ \A s \in Slots : disk[s].manifest = NoManifest
           /\ disk["final"].files = {} /\ DeletedIn(raw, run.config)
<1> QED BY NothingFields, InvParts, NotThere, DueIs DEF Slots, NeedsRebuild, KeptIn, Kept

\* The raw folder is deleted.
LEMMA DeleteRawKeeps == Inv /\ DeleteRaw => Inv'
<1> SUFFICES ASSUME Inv, DeleteRaw PROVE Inv' OBVIOUS
<1> DEFINE c == run.config
<1>1. pc = "repair" /\ run.plan # <<>> /\ Due.verb = "delete" /\ Due.folder = "raw"
      /\ raw' = NoRaw /\ Performed /\ UNCHANGED <<disk, snapshot, ids>>
  BY DEF DeleteRaw, Doing
<1>2. \A s \in Slots : disk[s].manifest = NoManifest BY <1>1, DeletedRaw
<1>3. DisksOk(disk, NoRaw, ids, snapshot) BY <1>2, InvParts, NothingLeft
<1>4. RawOk(NoRaw) BY NothingFields DEF RawOk, NoRaw
<1>7. PlanOk(ToSet(Tail(run.plan)), disk, NoRaw, c)
  BY NothingKept, AfterRaw, <1>1, <1>2, DeletedRaw, DueParts DEF NeedsRebuild, Slots
<1>8. /\ RunOk(run', pc', ids, snapshot) /\ pc' = "repair" /\ run'.config = c
      /\ run'.plan = Tail(run.plan) /\ Ordered(run'.plan)
  BY <1>1, PerformedOk
<1>9. StageOk(pc', run', disk, NoRaw, run'.config) BY <1>7, <1>8, StageIs
<1> QED BY <1>1, <1>3, <1>4, <1>8, <1>9, InvParts, InvFrom

\* Its deletion is cut off.
LEMMA DeleteRawInterruptedKeeps == Inv /\ DeleteRawInterrupted => Inv'
<1> SUFFICES ASSUME Inv, DeleteRawInterrupted PROVE Inv' OBVIOUS
<1>1. pc = "repair" /\ run.plan # <<>> /\ Due.verb = "delete" /\ Due.folder = "raw"
      /\ UNCHANGED <<disk, snapshot, ids>> /\ pc' = "idle" /\ run' = NoRun
  BY DEF DeleteRawInterrupted, Doing, Stopped
<1>2. PICK k \in SUBSET raw.files : raw' \in {[raw EXCEPT !.files = k], [NoRaw EXCEPT !.files = k]}
  BY DEF DeleteRawInterrupted
<1>3. k \in SUBSET Nat BY InvParts, RawFields
<1>4. RawOk([raw EXCEPT !.files = k]) BY <1>3, InvParts DEF RawOk, RawFolder
<1>5. RawOk([NoRaw EXCEPT !.files = k]) BY <1>3, NothingFields DEF RawOk, RawFolder, NoRaw
<1>6. RawOk(raw') BY <1>2, <1>4, <1>5
<1>7. DisksOk(disk, raw', ids, snapshot) BY <1>1, DeletedRaw, InvParts, NothingLeft
<1> QED BY <1>1, <1>6, <1>7, InvParts, InvFrom, StoppedOk

\* A folder that is whole leaves nothing behind.
LEMMA WholeFolder ==
    ASSUME NEW f, NEW c, NEW kept, IsWhole(f, c, kept), NEW r
    PROVE  Leftover(f, r)
BY NoLeftover DEF IsWhole

\* A leftover takes the place of the final folder.
LEMMA SwapInKeeps == Inv /\ SwapIn => Inv'
<1> SUFFICES ASSUME Inv, SwapIn PROVE Inv' OBVIOUS
<1> DEFINE s == Due.folder
           c == run.config
           put == [disk EXCEPT !["final"] = disk[s]]
<1>1. pc = "repair" /\ run.plan # <<>> /\ Due.verb = "swap"
      /\ disk' = [disk EXCEPT !["final"] = disk[s], ![s] = Absent]
      /\ Performed /\ UNCHANGED <<raw, snapshot, ids>>
  BY DEF SwapIn, Doing
<1>2. s \in {"temporary", "backup"} /\ IsWhole(disk[s], c, KeptIn(raw, c)) BY <1>1, DueParts, DueIs
<1>3. s \in Slots /\ s # "final" /\ "final" \in Slots /\ c \in Config BY <1>1, <1>2, DueParts DEF Slots
<1> HIDE DEF s, c
<1>4. FolderOk(disk[s], raw, ids, snapshot) /\ Leftover(disk[s], raw) /\ disk[s] \in Folder
  BY <1>2, <1>3, InvParts, DisksAre, WholeFolder
<1>5. DisksOk(put, raw, ids, snapshot) BY <1>3, <1>4, InvParts, DisksPut
<1>6. put["final"] = disk[s] /\ \A t \in Slots : t # "final" => put[t] = disk[t] BY <1>3, InvParts, SlotsPut
<1>7. disk' = [put EXCEPT ![s] = Absent] BY <1>1
<1> HIDE DEF put
<1>8. DisksOk(disk', raw, ids, snapshot) BY <1>3, <1>5, <1>7, AbsentOk, InvParts, DisksPut
<1>10. disk'["final"] = disk[s] /\ disk'[s] = Absent /\ \A t \in Slots : t # s /\ t # "final" => disk'[t] = disk[t]
  BY <1>3, <1>6, <1>5, <1>7, DisksAre, SlotsPut
<1>11. IsRest(ToSet(run.plan), Due, ToSet(Tail(run.plan))) /\ PlanOk(ToSet(run.plan), disk, raw, c)
  BY <1>1, DueParts DEF c
<1>12. PlanOk(ToSet(Tail(run.plan)), disk', raw, c)
  <2>1. CASE s = "temporary"
    <3>1. disk'["final"] = disk["temporary"] /\ disk'["temporary"] = Absent /\ disk'["backup"] = disk["backup"]
      BY <1>10, <2>1 DEF Slots
    <3>2. RankOf(Due) = 2 BY <1>1, <2>1, DueParts DEF s
    <3>4. Due.verb = "swap" /\ c \in Config BY <1>1, <1>3
    <3> QED BY <1>11, <3>1, <3>2, <3>4, AfterTemporarySwapped, InvParts
  <2>2. CASE s = "backup"
    <3>2. RankOf(Due) = 3 BY <1>1, <2>2, DueParts DEF s
    <3>3. ~NeedsRebuild(disk["backup"], c, KeptIn(raw, c)) BY <1>2, <1>3, <1>4, <2>2, WholeIsSound
    <3> QED BY <1>11, <3>2, <3>3, AfterBackup, <1>10, <2>2 DEF Slots
  <2> QED BY <1>2, <2>1, <2>2
<1>13. /\ RunOk(run', pc', ids, snapshot) /\ pc' = "repair" /\ run'.config = c
       /\ run'.plan = Tail(run.plan) /\ Ordered(run'.plan)
  BY <1>1, PerformedOk DEF c
<1>14. StageOk(pc', run', disk', raw, run'.config) BY <1>12, <1>13, StageIs
<1> QED BY <1>1, <1>8, <1>13, <1>14, InvParts, InvFrom

\* What the folders hold is derived from the shards that are kept.
LEMMA DisksCut ==
    ASSUME NEW d, NEW r \in RawFolder, NEW s \in RawFolder, NEW n \in Nat, NEW snap, DisksOk(d, r, n, snap),
           NEW c, NEW gone, ~NeedsRebuild(d["final"], c, Kept(gone, Rows(s.shards))),
           IsPrefix(s.shards, r.shards), s.hash = r.hash, ~d["temporary"].there, ~d["backup"].there
    PROVE  DisksOk(d, s, n, snap)
<1>2. FolderOk(d["final"], r, n, snap) /\ d["final"] \in Folder /\ Leftover(d["final"], r) BY DisksAre
<1>4. Leftover(d["final"], s) BY <1>2, LeftoverCut
<1>5. FolderOk(d["final"], s, n, snap) BY <1>2, DerivedCut DEF FolderOk
<1> QED BY <1>4, <1>5, AbsentOk, NotThere DEF DisksOk, Slots

\* The raw folder after the step.
LEMMA TruncatedRaw ==
    ASSUME Inv, TruncateRaw
    PROVE  raw' \in RawFolder /\ IsCut(raw, raw', run.config)
<1>1. pc = "repair" /\ run.plan # <<>> /\ Due.verb = "truncate"
      /\ raw' = [raw EXCEPT !.shards = SubSeq(@, 1, Due.keep), !.exhausted = FALSE,
                            !.files = @ \intersect (1..Due.keep)]
  BY DEF TruncateRaw, Doing
<1>3. TruncatedIn(raw, run.config) /\ Due.keep = GoodIn(raw) BY <1>1, DueIs, DueParts
<1> DEFINE g == GoodIn(raw)
<1>4. raw \in RawFolder /\ g \in 0 .. Len(raw.shards) /\ (\A i \in 1 .. g : i \in raw.files)
  BY InvParts, GoodLemma DEF GoodTo
<1>5. raw.shards \in Seq(Seq(Nat)) /\ raw.files \in SUBSET Nat BY <1>4, RawFields
<1> HIDE DEF g
<1>6. SubSeq(raw.shards, 1, g) \in Seq(Seq(Nat)) BY <1>4, <1>5, InitialLemma
<1>7. raw' = [raw EXCEPT !.shards = SubSeq(raw.shards, 1, g), !.exhausted = FALSE, !.files = raw.files \intersect (1 .. g)]
  BY <1>1, <1>3 DEF g
<1>8. raw' \in RawFolder /\ raw'.hash = raw.hash /\ raw'.shards = SubSeq(raw.shards, 1, g)
      /\ raw'.files = raw.files \intersect (1 .. g)
  BY <1>4, <1>5, <1>6, <1>7 DEF RawFolder
<1> QED BY <1>3, <1>8, <1>4 DEF IsCut, g

\* The raw folder is cut.
LEMMA TruncateRawKeeps == Inv /\ TruncateRaw => Inv'
<1> SUFFICES ASSUME Inv, TruncateRaw PROVE Inv' OBVIOUS
<1> DEFINE c == run.config
<1>1. pc = "repair" /\ run.plan # <<>> /\ Due.verb = "truncate" /\ Performed /\ UNCHANGED <<disk, snapshot, ids>>
  BY DEF TruncateRaw, Doing
<1>2. Due.folder = "raw" BY <1>1, DueParts, DueIs
<1>3. raw' \in RawFolder /\ IsCut(raw, raw', c) BY TruncatedRaw
<1>4. c \in Config /\ IsRest(ToSet(run.plan), Due, ToSet(Tail(run.plan))) /\ PlanOk(ToSet(run.plan), disk, raw, c)
      /\ RankOf(Due) = 4
  BY <1>1, <1>2, DueParts
<1>5. ~NeedsRebuild(disk["final"], c, KeptIn(raw, c)) /\ ~disk["temporary"].there /\ ~disk["backup"].there
  BY <1>1, <1>2, DueIs
<1> HIDE DEF c
<1>6. /\ raw'.shards # <<>> /\ IsPrefix(raw'.shards, raw.shards)
      /\ ~DeletedIn(raw', c) /\ ~TruncatedIn(raw', c)
      /\ KeptIn(raw', c) = KeptIn(raw, c)
      /\ KeptIn(raw, c) = Kept(FALSE, Rows(raw'.shards))
  BY <1>3, <1>4, InvParts, CutLemma
<1>7. raw'.hash = raw.hash /\ raw.hash = RawHash[c] /\ RawHash[c] # 0
  BY <1>3, <1>4, ConfigLemma DEF IsCut, TruncatedIn
<1>8. RawOk(raw') BY <1>3, <1>6, <1>7 DEF RawOk
<1>9. ~NeedsRebuild(disk["final"], c, Kept(FALSE, Rows(raw'.shards))) BY <1>5, <1>6
<1>10. DisksOk(disk, raw', ids, snapshot) BY <1>3, <1>5, <1>6, <1>7, <1>9, InvParts, DisksCut
<1>11. PlanOk(ToSet(Tail(run.plan)), disk, raw', c) BY <1>4, <1>5, <1>6, AfterRaw
<1>12. /\ RunOk(run', pc', ids, snapshot) /\ pc' = "repair" /\ run'.config = c
       /\ run'.plan = Tail(run.plan) /\ Ordered(run'.plan)
  BY <1>1, PerformedOk DEF c
<1>13. StageOk(pc', run', disk, raw', run'.config) BY <1>11, <1>12, StageIs
<1> QED BY <1>1, <1>8, <1>10, <1>12, <1>13, InvParts, InvFrom

\* Raw shards are there as before, or no longer readable.
LEMMA RawFilesKeep ==
    ASSUME Inv, NEW k \in SUBSET Nat, raw' = [raw EXCEPT !.files = k]
    PROVE  /\ RawOk(raw') /\ Extends(raw, raw') /\ raw'.shards = raw.shards /\ raw'.hash = raw.hash /\ raw'.files = k
           /\ DisksOk(disk, raw', ids, snapshot)
<1>1. raw' \in RawFolder /\ raw'.shards = raw.shards /\ raw'.hash = raw.hash /\ raw'.files = k
  BY InvParts DEF RawFolder
<1>2. Extends(raw, raw') /\ RawOk(raw') BY <1>1, InvParts, SameShards
<1> QED BY <1>1, <1>2, InvParts, DisksExtended

\* The cut is cut off.
LEMMA TruncateInterruptedKeeps == Inv /\ TruncateInterrupted => Inv'
<1> SUFFICES ASSUME Inv, TruncateInterrupted PROVE Inv' OBVIOUS
<1>2. PICK k \in SUBSET raw.files : raw' = [raw EXCEPT !.files = k] BY DEF TruncateInterrupted
<1>3. k \in SUBSET Nat BY InvParts, RawFields
<1> QED BY InvParts, InvFrom, StoppedOk, <1>2, <1>3, RawFilesKeep DEF TruncateInterrupted, Stopped

\* A raw folder that needs no repair.
LEMMA AllKept ==
    ASSUME NEW r, NEW c, ~DeletedIn(r, c), ~TruncatedIn(r, c)
    PROVE  KeptIn(r, c) = AllOf(r) /\ r.hash \in {0, RawHash[c]}
<1>1. DeletedIn(r, c) = FALSE BY DEF DeletedIn
<1>2. KeptIn(r, c) = AllOf(r) BY <1>1 DEF KeptIn, AllOf
<1> QED BY <1>2 DEF DeletedIn

\* The plan is done.
LEMMA RepairedKeeps == Inv /\ Repaired => Inv'
<1> SUFFICES ASSUME Inv, Repaired PROVE Inv' OBVIOUS
<1> DEFINE c == run.config
<1>1. pc = "repair" /\ run.plan = <<>> /\ pc' = "round" /\ UNCHANGED <<disk, raw, snapshot, run, ids>>
  BY DEF Repaired, Goto
<1>2. PlanOk({}, disk, raw, c)
  <2>1. ToSet(run.plan) = {} BY <1>1 DEF ToSet
  <2> QED BY <1>1, <2>1, InvParts, StageIs
<1>4. Settled(disk, c, raw) BY AllKept, <1>2, PlanDone DEF Settled, Sound, Free
<1>6. StageOk("round", run, disk, raw, c) BY <1>4, StageIs
<1> QED BY <1>1, <1>6, InvParts, InvFrom DEF RunOk, Pcs

\* A crash.
LEMMA CrashKeeps == Inv /\ Crash => Inv'
<1> SUFFICES ASSUME Inv, Crash PROVE Inv' OBVIOUS
<1> QED BY InvParts, InvFrom, StoppedOk DEF Crash, Stopped

\* A run begins, or is refused.
LEMMA PrepareKeeps == ASSUME NEW c \in Config, NEW yes \in BOOLEAN PROVE Inv /\ Prepare(c, yes) => Inv'
<1> SUFFICES ASSUME Inv, Prepare(c, yes) PROVE Inv' OBVIOUS
<1>1. pc = "idle" /\ UNCHANGED <<disk, raw, snapshot, ids>> /\ refused' = Refusal(c, yes) BY DEF Prepare
<1>2. CASE refused' # "no" BY <1>2, <1>1, InvParts, InvFrom DEF Prepare
<1>3. CASE refused' = "no"
  <2>1. pc' = "repair" /\ run' = [NoRun EXCEPT !.config = c, !.plan = Plan(c)] BY <1>3 DEF Prepare, Goto
  <2>2. Plan(c) \in Seq(Acts) /\ Ordered(Plan(c)) /\ PlanOk(ToSet(Plan(c)), disk, raw, c)
    BY <1>1, <1>3, InvParts, PlanLemma
  <2>3. run' = [config |-> c, plan |-> Plan(c), out |-> NoManifest, rounds |-> 0, target |-> 0]
    BY <2>1 DEF NoRun
  <2>4. c # 0 /\ 0 \in 0 .. MaxRounds /\ 0 < MaxRounds BY ConfigLemma, SizesLemma
  <2>6. GenOk(NoManifest, ids, snapshot) BY InvParts, AbsentOk
  <2>7. run'.config = c /\ run'.plan = Plan(c) /\ run'.out = NoManifest /\ run'.rounds = 0 BY <2>3
  <2>8. RunOk(run', "repair", ids, snapshot) BY <2>4, <2>6, <2>7, <2>2, <2>3, NothingFields DEF RunOk, Pcs
  <2>9. StageOk("repair", run', disk, raw, c)
    <3>1. Ordered(run'.plan) /\ PlanOk(ToSet(run'.plan), disk, raw, c) BY <2>2, <2>7
    <3> QED BY <3>1, StageIs
  <2> QED BY <1>1, <2>1, <2>7, <2>8, <2>9, InvParts, InvFrom
<1> QED BY <1>2, <1>3

\* A raw file is lost.
LEMMA LoseRawFileKeeps == Inv /\ LoseRawFile => Inv'
<1> SUFFICES ASSUME Inv, LoseRawFile PROVE Inv' OBVIOUS
<1>1. pc = "idle" /\ UNCHANGED <<disk, snapshot, pc, run, ids>> BY DEF LoseRawFile
<1>2. PICK i \in raw.files : raw' = [raw EXCEPT !.files = @ \ {i}] BY DEF LoseRawFile
<1>3. raw.files \ {i} \in SUBSET Nat /\ raw' = [raw EXCEPT !.files = raw.files \ {i}]
  BY <1>2, InvParts, RawFields
<1>4. RawOk(raw') /\ DisksOk(disk, raw', ids, snapshot) BY <1>3, RawFilesKeep
<1> QED BY <1>1, <1>4, InvParts, InvFrom, StoppedOk DEF RunOk

\* A shard is lost.
LEMMA LoseFinalFileKeeps == Inv /\ LoseFinalFile => Inv'
<1> SUFFICES ASSUME Inv, LoseFinalFile PROVE Inv' OBVIOUS
<1>2. PICK g \in disk["final"].files : disk' = [disk EXCEPT !["final"].files = @ \ {g}] BY DEF LoseFinalFile
<1> DEFINE f == disk["final"]
           k == f.files \ {g}
           e == [f EXCEPT !.files = k]
<1>3. disk' = [disk EXCEPT !["final"] = e] BY <1>2
<1>4. FolderOk(f, raw, ids, snapshot) /\ Leftover(f, raw) BY InvParts, DisksAre
<1> HIDE DEF f
<1>5. FolderOk(e, raw, ids, snapshot) /\ Leftover(e, raw) BY <1>4, FewerFiles
<1> HIDE DEF e
<1>6. DisksOk(disk', raw, ids, snapshot) BY <1>3, <1>5, InvParts, DisksPut DEF Slots
<1> QED BY <1>6, InvParts, InvFrom, StoppedOk DEF RunOk, LoseFinalFile

\* A snapshot is published of the final folder while the other slots are free.
LEMMA FinishKeeps == Inv /\ Finish => Inv'
<1> SUFFICES ASSUME Inv, Finish PROVE Inv' OBVIOUS
<1> DEFINE m == disk["final"].manifest
           c == run.config
           attested == [gen |-> m.gen, shards |-> m.shards]
<1>1. pc = "finish" /\ pc' = "idle" /\ run' = NoRun /\ UNCHANGED <<disk, raw, ids>>
      /\ snapshot' = IF Satisfied(c) /\ m.complete THEN [snapshot EXCEPT ![c] = attested] ELSE snapshot
  BY DEF Finish, Stopped
<1>2. c \in Config /\ m \in Manifest BY <1>1, InvParts, DisksAre, FolderFields
<1>3. disk["temporary"] = Absent /\ disk["backup"] = Absent
  <2>1. Finishing(disk, c, raw, run.rounds) BY <1>1, InvParts, StageIs
  <2> QED BY InvParts, NotThere, <2>1 DEF Slots, Finishing, Reviewing, Settled, Free
<1>4. GenOk(m, ids, snapshot) /\ m.gen \in Nat /\ m.shards \in Seq(SUBSET Nat)
  BY <1>2, InvParts, DisksAre, FolderParts, ManifestFields
<1> HIDE DEF m
<1>6. IdsOk(ids, snapshot') /\ GenOk(m, ids, snapshot') BY <1>1, <1>4, <1>2, InvParts DEF IdsOk, GenOk
<1>9. DisksOk(disk, raw, ids, snapshot')
  BY InvParts, <1>3, AbsentOk, <1>6, DisksAre DEF DisksOk, Slots, FolderOk, m
<1> QED BY <1>1, <1>6, <1>9, InvParts, InvFrom, StoppedOk

-----------------------------------------------------------------------------
(* What the planner counts.                                                *)

\* The planner's verdicts, in the state it looks at.
LEMMA Counted ==
    ASSUME NEW c
    PROVE  /\ RawRows = RowsIn(raw)
           /\ Healthy(c) = HealthyIn(disk["final"], c, raw)
           /\ Built(c) = BuiltIn(disk["final"], c, raw)
           /\ HealthyRows(c) = KeptRows(disk["final"], c, raw)
           /\ Serves(c) = ServesIn(disk["final"], c, raw)
           /\ Satisfied(c) = SatisfiedIn(disk["final"], c, raw)
           /\ RowsToFetch(c) = ToFetch(disk["final"], c, raw)
<1>1. RawRows = RowsIn(raw) BY DEF RawRows, RowsIn, Places
<1>2. Healthy(c) = HealthyIn(disk["final"], c, raw) BY DEF Healthy, HealthyIn
<1>3. Built(c) = BuiltIn(disk["final"], c, raw) BY DEF Built, BuiltIn
<1>4. HealthyRows(c) = KeptRows(disk["final"], c, raw) BY <1>2 DEF HealthyRows, KeptRows
<1>5. Serves(c) = ServesIn(disk["final"], c, raw) BY <1>2, <1>4 DEF Serves, ServesIn
<1>8. RowsToFetch(c) = ToFetch(disk["final"], c, raw)
  BY <1>1, <1>3, <1>5, <1>4 DEF RowsToFetch, ToFetch, TopUp, TopUpFor
<1> QED BY <1>1, <1>2, <1>3, <1>4, <1>5, <1>8 DEF Satisfied, SatisfiedIn

\* The rows of the raw shards.
LEMMA RowsAreNumbers ==
    ASSUME NEW r \in RawFolder
    PROVE  RowsIn(r) \in Nat /\ (RowsIn(r) # 0 => r.shards # <<>>)
<1>2. r.shards = <<>> => RowsIn(r) = 0
  <2> SUFFICES ASSUME r.shards = <<>> PROVE RowsIn(r) = 0 OBVIOUS
  <2> QED BY FS_EmptySet DEF RowsIn, Places
<1> QED BY <1>2, RawFields, PlacesFinite DEF RowsIn

\* The rows of a folder are those of its documents, finitely many.
LEMMA ContentFinite ==
    ASSUME NEW f \in Folder, NEW r \in RawFolder, Derived(f, r), f.manifest # NoManifest
    PROVE  IsFiniteSet(Content(f.manifest.shards)) /\ ProcessedRows(f.manifest) \in Nat
<1> DEFINE m == f.manifest
           n == Len(m.covered)
<1>1. PICK c \in Config : Content(m.shards) = Keeps[c] \intersect DocsIn(r.shards, n)
  BY DEF Derived, Describes, Filtered
<1>3. r.shards \in Seq(Seq(Nat)) /\ Rows(r.shards) \in Seq(Nat) /\ Len(Rows(r.shards)) = Len(r.shards)
      /\ Len(r.shards) \in Nat
  BY RawFields
<1>4. n \in 0 .. Len(r.shards) BY <1>3, PrefixIs, FolderFields, ManifestFields DEF Derived, Describes
<1> HIDE DEF n, m
<1> QED BY FS_CardinalityType, <1>1, FS_Subset, <1>3, <1>4, DocsFinite DEF ProcessedRows, m

\* The rows the planner counts.
LEMMA KeptRowsNumber ==
    ASSUME NEW f \in Folder, NEW c \in Config, NEW r \in RawFolder, Derived(f, r)
    PROVE  KeptRows(f, c, r) \in Nat
<1> QED BY ContentFinite, Hashed DEF KeptRows, HealthyIn

\* The product of positive numbers.
LEMMA Positive ==
    ASSUME NEW x \in Nat \ {0}, NEW y \in Nat \ {0}
    PROVE  x * y \in Nat \ {0}
OBVIOUS

\* The product of numbers.
LEMMA Product ==
    ASSUME NEW x \in Nat, NEW y \in Nat
    PROVE  x * y \in Nat
OBVIOUS

\* The quotient of numbers.
LEMMA Quotient ==
    ASSUME NEW x \in Nat, NEW y \in Nat \ {0}
    PROVE  x \div y \in Nat /\ (x >= y => x \div y >= 1)
OBVIOUS

\* The top-up of a source that is short is positive.
LEMMA TopUpNumber ==
    ASSUME NEW c \in Config, NEW kept \in Nat, NEW rows \in Nat, kept = 0 \/ kept < Sufficient[c]
    PROVE  /\ TopUpFor(kept, c, rows) \in Nat
           /\ kept # 0 /\ rows # 0 => TopUpFor(kept, c, rows) # 0
<1> DEFINE short == Sufficient[c] - kept
           least == (6 * short) * rows
           num == least + 5 * kept - 1
           den == 5 * kept
           wanted == num \div den
<1>1. Sufficient[c] \in Nat \ {0} /\ Needed[c] \in Nat \ {0} BY ConfigLemma
<1>2. CASE kept = 0 BY <1>2 DEF TopUpFor
<1>3. CASE kept # 0
  <2>1. short \in Nat \ {0} /\ 6 * short \in Nat \ {0} /\ den \in Nat \ {0} BY <1>1, <1>3
  <2>2. wanted = (6 * (Sufficient[c] - kept) * rows + 5 * kept - 1) \div (5 * kept) OBVIOUS
  <2> HIDE DEF short
  <2>3. least \in Nat /\ (rows # 0 => least # 0) BY <2>1, Positive, Product
  <2> HIDE DEF least
  <2>4. num \in Nat /\ (least # 0 => num >= den) BY <1>3, <2>3
  <2> HIDE DEF num, den
  <2>5. wanted \in Nat /\ (rows # 0 => wanted >= 1) BY <2>1, <2>3, <2>4, Quotient
  <2> HIDE DEF wanted
  <2> QED BY <1>1, <2>5, <1>3, <2>2 DEF TopUpFor
<1> QED BY <1>2, <1>3

\* The rows to fetch, case by case.
LEMMA ToFetchCases ==
    ASSUME NEW f, NEW c, NEW r, RowsIn(r) \in Nat, Needed[c] \in Nat
    PROVE  /\ r.hash = 0 => ToFetch(f, c, r) = Needed[c]
           /\ r.hash # 0 /\ (r.exhausted \/ ServesIn(f, c, r)) => ToFetch(f, c, r) = 0
           /\ r.hash # 0 /\ ~r.exhausted /\ ~ServesIn(f, c, r) /\ RowsIn(r) < Needed[c]
                => ToFetch(f, c, r) = Needed[c] - RowsIn(r)
           /\ r.hash # 0 /\ ~r.exhausted /\ ~ServesIn(f, c, r) /\ ~(RowsIn(r) < Needed[c]) /\ RowsIn(r) >= Needed[c]
                => ToFetch(f, c, r) = IF BuiltIn(f, c, r) THEN TopUpFor(KeptRows(f, c, r), c, RowsIn(r)) ELSE 0
<1> DEFINE rows == RowsIn(r)
           need == Needed[c]
           serves == r.exhausted \/ ServesIn(f, c, r)
           again == IF BuiltIn(f, c, r) THEN TopUpFor(KeptRows(f, c, r), c, RowsIn(r)) ELSE 0
<1>1. ToFetch(f, c, r) = CASE r.hash = 0 -> need
      [] r.hash # 0 /\ (r.exhausted \/ ServesIn(f, c, r)) -> 0
      [] r.hash # 0 /\ ~r.exhausted /\ ~ServesIn(f, c, r) /\ rows < need -> need - rows
      [] r.hash # 0 /\ ~r.exhausted /\ ~ServesIn(f, c, r) /\ rows >= need -> again
  BY DEF ToFetch
<1>2. rows \in Nat /\ need \in Nat OBVIOUS
<1> HIDE DEF rows, need, again
<1>6. r.hash # 0 /\ ~r.exhausted /\ ~ServesIn(f, c, r) /\ ~(rows < need) /\ rows >= need => ToFetch(f, c, r) = again
  BY <1>1, <1>2
<1> QED BY <1>6, <1>1, <1>2 DEF rows, need, again

\* A source that is built is healthy.
LEMMA BuiltIsHealthy ==
    ASSUME NEW f \in Folder, NEW c, NEW r \in RawFolder, BuiltIn(f, c, r)
    PROVE  HealthyIn(f, c, r)
<1> QED BY PrefixSelf, FolderFields, ManifestFields DEF BuiltIn, HealthyIn

\* When nothing is to be fetched.
LEMMA ToFetchNumber ==
    ASSUME NEW f \in Folder, NEW c \in Config, NEW r \in RawFolder, Derived(f, r)
    PROVE  /\ ToFetch(f, c, r) \in Nat
           /\ ToFetch(f, c, r) = 0 =>
                /\ r.hash # 0
                /\ r.exhausted \/ ServesIn(f, c, r) \/ ~BuiltIn(f, c, r) \/ KeptRows(f, c, r) = 0
<1> DEFINE kept == KeptRows(f, c, r)
           rows == RowsIn(r)
           fetch == ToFetch(f, c, r)
<1>1. kept \in Nat /\ rows \in Nat /\ Needed[c] \in Nat \ {0} /\ Sufficient[c] \in Nat \ {0}
  BY KeptRowsNumber, RowsAreNumbers, ConfigLemma
<1>3. /\ r.hash = 0 => fetch = Needed[c]
      /\ r.hash # 0 /\ (r.exhausted \/ ServesIn(f, c, r)) => fetch = 0
      /\ r.hash # 0 /\ ~r.exhausted /\ ~ServesIn(f, c, r) /\ rows < Needed[c] => fetch = Needed[c] - rows
      /\ r.hash # 0 /\ ~r.exhausted /\ ~ServesIn(f, c, r) /\ ~(rows < Needed[c]) /\ rows >= Needed[c]
            => fetch = IF BuiltIn(f, c, r) THEN TopUpFor(kept, c, rows) ELSE 0
  BY <1>1, ToFetchCases
<1> HIDE DEF kept, rows, fetch
<1>5. CASE r.hash = 0 BY <1>1, <1>3, <1>5 DEF fetch
<1>6. CASE r.hash # 0 /\ (r.exhausted \/ ServesIn(f, c, r)) BY <1>3, <1>6 DEF fetch
<1>7. CASE r.hash # 0 /\ ~r.exhausted /\ ~ServesIn(f, c, r) /\ rows < Needed[c] BY <1>1, <1>3, <1>7 DEF fetch
<1>8. CASE r.hash # 0 /\ ~r.exhausted /\ ~ServesIn(f, c, r) /\ ~(rows < Needed[c])
  BY <1>1, <1>8, <1>3, BuiltIsHealthy, TopUpNumber DEF fetch, kept, ServesIn
<1> QED BY <1>5, <1>6, <1>7, <1>8

-----------------------------------------------------------------------------
(* The rounds and the download keep the invariant.                         *)

\* Raw shards are added to a source under way.
LEMMA SettledExtended ==
    ASSUME NEW d \in [Slots -> Folder], NEW c \in Config, NEW r \in RawFolder, NEW s \in RawFolder,
           Extends(r, s), s.hash \in {r.hash, RawHash[c]}, Settled(d, c, r)
    PROVE  Settled(d, c, s)
<1> QED BY SoundExtended DEF Settled, Slots

\* A build is pending or the round is over.
LEMMA PendingStage ==
    ASSUME NEW q, Settled(disk, run.config, raw), BuildIfPending
    PROVE  pc' \in {"build", "review"} /\ StageOk(pc', q, disk, raw, run.config)
<1> DEFINE c == run.config
           f == disk["final"]
<1>3. CASE BuildPending(c)
  <2>1. pc' = "build" BY <1>3 DEF BuildIfPending, Goto
  <2>3. ToBuild(disk, c, raw) BY <1>3 DEF ToBuild, Settled, BuildPending
  <2> QED BY <2>1, <2>3, StageIs
<1>4. CASE ~BuildPending(c)
  <2>1. pc' = "review" BY <1>4 DEF BuildIfPending, Goto
  <2>3. Reviewing(disk, c, raw) BY <1>4, Counted DEF Reviewing, BuildPending
  <2> QED BY <2>1, <2>3, StageIs
<1> QED BY <1>3, <1>4

\* How many rows a run will fetch, and how far it is.
LEMMA RowsNumbers ==
    ASSUME Inv, pc # "idle"
    PROVE  /\ RowsToFetch(run.config) \in Nat
           /\ RawRows \in Nat /\ (RawRows # 0 => raw.shards # <<>>)
<1>1. run.config \in Config /\ raw \in RawFolder BY InvParts
<1>4. ToFetch(disk["final"], run.config, raw) \in Nat BY <1>1, ToFetchNumber, InvParts, DisksAre, FolderParts
<1> QED BY <1>1, <1>4, RowsAreNumbers, Counted

\* The run of a round that begins.
LEMMA RoundStarted ==
    ASSUME Inv, pc = "round", NEW t \in Nat, run' = [run EXCEPT !.rounds = @ + 1, !.target = t],
           NEW l \in Pcs \ {"idle", "repair", "round"}, l \in {"fetch", "record"} => t # 0
    PROVE  RunOk(run', l, ids, snapshot) /\ run'.config = run.config
<1>1. run \in [config : Config \union {0}, plan : Seq(Acts), out : Manifest, rounds : 0 .. MaxRounds, target : Nat]
      /\ run.rounds < MaxRounds /\ run.config # 0
  BY InvParts DEF RunOk
<1>2. run.rounds + 1 \in 0 .. MaxRounds BY <1>1, SizesLemma
<1>3. /\ run' \in [config : Config \union {0}, plan : Seq(Acts), out : Manifest, rounds : 0 .. MaxRounds, target : Nat]
      /\ run'.config = run.config /\ run'.out = run.out /\ run'.target = t
  BY <1>1, <1>2
<1> QED BY <1>1, <1>3, InvParts, RunFields DEF RunOk

\* A round begins with a download.
LEMMA StartDownloadKeeps == Inv /\ StartDownload => Inv'
<1> SUFFICES ASSUME Inv, StartDownload PROVE Inv' OBVIOUS
<1> DEFINE c == run.config
           t == RawRows + RowsToFetch(run.config)
           k == raw.files \intersect DOMAIN raw.shards
<1>1. pc = "round" /\ RowsToFetch(run.config) > 0 /\ run' = [run EXCEPT !.rounds = @ + 1, !.target = t]
      /\ raw' = [raw EXCEPT !.files = k] /\ pc' = "fetch" /\ UNCHANGED <<disk, snapshot, ids>>
  BY DEF StartDownload, Goto
<1>2. t \in Nat /\ t # 0 BY <1>1, RowsNumbers
<1>3. k \in SUBSET Nat /\ c \in Config /\ raw \in RawFolder BY <1>1, InvParts, RawFields
<1> HIDE DEF t, k
<1>4. RawOk(raw') /\ Extends(raw, raw') /\ raw'.hash = raw.hash /\ DisksOk(disk, raw', ids, snapshot)
  BY <1>1, <1>3, RawFilesKeep
<1>5. RunOk(run', "fetch", ids, snapshot) /\ run'.config = c BY <1>1, <1>2, RoundStarted DEF Pcs
<1>6. Settled(disk, c, raw) BY <1>1, InvParts, StageIs
<1>7. Settled(disk, c, raw') BY <1>4, InvParts, <1>3, <1>6, SettledExtended DEF RawOk
<1>8. StageOk("fetch", run', disk, raw', c) BY <1>7, StageIs
<1> QED BY <1>1, <1>4, <1>5, <1>8, InvParts, InvFrom

\* A round begins without one.
LEMMA StartBuildKeeps == Inv /\ StartBuild => Inv'
<1> SUFFICES ASSUME Inv, StartBuild PROVE Inv' OBVIOUS
<1> DEFINE c == run.config
<1>1. pc = "round" /\ run' = [run EXCEPT !.rounds = @ + 1] /\ BuildIfPending /\ UNCHANGED <<disk, raw, snapshot, ids>>
  BY DEF StartBuild
<1>2. Settled(disk, c, raw) BY <1>1, InvParts, StageIs
<1>3. pc' \in {"build", "review"} /\ StageOk(pc', run', disk, raw, c) BY <1>1, <1>2, PendingStage
<1>4. run \in [config : Config \union {0}, plan : Seq(Acts), out : Manifest, rounds : 0 .. MaxRounds, target : Nat]
  BY InvParts DEF RunOk
<1>5. run.target \in Nat /\ run' = [run EXCEPT !.rounds = @ + 1, !.target = run.target] BY <1>1, <1>4
<1>6. pc' \in Pcs \ {"idle", "repair", "round"} /\ ~(pc' \in {"fetch", "record"}) BY <1>3 DEF Pcs
<1>7. RunOk(run', pc', ids, snapshot) /\ run'.config = c BY <1>1, <1>5, <1>6, RoundStarted
<1> QED BY <1>1, <1>3, <1>7, InvParts, InvFrom

\* A round ends.
LEMMA EndRoundKeeps == Inv /\ EndRound => Inv'
<1> SUFFICES ASSUME Inv, EndRound PROVE Inv' OBVIOUS
<1> DEFINE c == run.config
           over == Satisfied(c) \/ RowsToFetch(c) = 0 \/ run.rounds = MaxRounds
<1>1. pc = "review" /\ pc' = (IF over THEN "finish" ELSE "round") /\ UNCHANGED <<disk, raw, snapshot, run, ids>>
  BY DEF EndRound, Goto
<1>2. Reviewing(disk, c, raw) BY <1>1, InvParts, StageIs
<1>4. CASE over
  <2>1. Finishing(disk, c, raw, run.rounds) /\ pc' = "finish" BY <1>1, <1>2, <1>4, Counted DEF Finishing
  <2>2. StageOk(pc', run, disk, raw, c) BY <2>1, StageIs
  <2>3. RunOk(run, pc', ids, snapshot) BY <1>1, <2>1, RunGoesOn DEF Onward
  <2> QED BY <1>1, <2>2, <2>3, InvParts, InvFrom
<1>5. CASE ~over
  <2>1. Settled(disk, c, raw) /\ pc' = "round" BY <1>1, <1>2, <1>5 DEF Reviewing
  <2>2. StageOk(pc', run, disk, raw, c) BY <2>1, StageIs
  <2>3. run.rounds < MaxRounds BY InvParts, RunFields, SizesLemma, <1>5
  <2>4. "round" \in Pcs /\ RunOk(run, pc, ids, snapshot) BY InvParts DEF Pcs
  <2>6. RunOk(run, pc', ids, snapshot) BY <2>1, <1>1, <2>3, <2>4, RunMoves
  <2> QED BY <1>1, <2>2, <2>6, InvParts, InvFrom
<1> QED BY <1>4, <1>5

\* A raw file is written.
LEMMA WriteRawShardKeeps == Inv /\ WriteRawShard => Inv'
<1> SUFFICES ASSUME Inv, WriteRawShard PROVE Inv' OBVIOUS
<1> DEFINE c == run.config
           k == raw.files \union {NextRawShard}
<1>1. pc = "fetch" /\ raw' = [raw EXCEPT !.files = k] /\ pc' = "record" /\ UNCHANGED <<disk, snapshot, run, ids>>
  BY DEF WriteRawShard, Goto
<1>2. k \in SUBSET Nat /\ c \in Config /\ raw \in RawFolder BY InvParts, RawFields, <1>1 DEF NextRawShard
<1> HIDE DEF k
<1>3. RawOk(raw') /\ Extends(raw, raw') /\ raw'.hash = raw.hash /\ DisksOk(disk, raw', ids, snapshot)
  BY <1>1, <1>2, RawFilesKeep
<1>4. RunOk(run, "record", ids, snapshot)
  <2>1. run.target # 0 BY <1>1, InvParts DEF RunOk
  <2> QED BY <1>1, <2>1, InvParts, RunMoves DEF Pcs
<1>5. Settled(disk, c, raw) BY <1>1, InvParts, StageIs
<1>6. Settled(disk, c, raw') BY <1>3, InvParts, <1>2, <1>5, SettledExtended DEF RawOk
<1>7. StageOk("record", run, disk, raw', c) BY <1>6, StageIs
<1> QED BY <1>1, <1>3, <1>4, <1>7, InvParts, InvFrom

\* The smallest of three numbers.
LEMMA LeastOfThree ==
    ASSUME NEW x \in Int, NEW y \in Int, NEW z \in Int
    PROVE  /\ Least({x, y, z}) \in {x, y, z}
           /\ Least({x, y, z}) <= x /\ Least({x, y, z}) <= y /\ Least({x, y, z}) <= z
<1> DEFINE S == {x, y, z}
<1> HIDE DEF S
<1> QED BY DEF S, Least

\* A part of a sequence.
LEMMA MiddleLemma ==
    ASSUME NEW s \in Seq(Nat), NEW m \in Nat, NEW n \in Int, n <= Len(s)
    PROVE  SubSeq(s, m + 1, n) \in Seq(Nat)
<1>1. CASE m + 1 <= n BY <1>1
<1>2. CASE ~(m + 1 <= n) BY <1>2
<1> QED BY <1>1, <1>2

\* What a loader yields next.
LEMMA NextIs ==
    ASSUME Inv, pc = "record"
    PROVE  SubSeq(Source, RawRows + 1, RawRows + NextRows) \in Seq(Nat)
<1> DEFINE c == run.config
<1>1. c \in Config /\ run.target \in Nat /\ RawRows \in Nat BY InvParts, RunFields, RowsNumbers
<1>2. Source \in Seq(Nat) /\ Len(Source) \in Nat BY <1>1, ConfigLemma DEF Source
<1> DEFINE x == ShardSize
           y == run.target - RawRows
           z == Len(Source) - RawRows
           n == Least({x, y, z})
<1>3. x \in Int /\ y \in Int /\ z \in Int /\ RawRows + z = Len(Source) BY <1>1, <1>2, SizesLemma
<1>4. NextRows = n BY DEF NextRows
<1> HIDE DEF x, y, z
<1>5. n \in {x, y, z} /\ n <= z
  <2>1. x \in Int BY <1>3
  <2>2. y \in Int BY <1>3
  <2>3. z \in Int BY <1>3
  <2> QED BY <2>1, <2>2, <2>3, LeastOfThree, Zenon
<1> HIDE DEF n
<1> QED BY <1>4, <1>1, <1>2, MiddleLemma, <1>3, <1>5

\* The raw folder of a run whose download goes on.
LEMMA RawRecorded ==
    ASSUME Inv, pc \in {"fetch", "record"}, NEW s, NEW x \in BOOLEAN, s \in Seq(Seq(Nat)) \ {<<>>},
           IsPrefix(raw.shards, s),
           raw' = [raw EXCEPT !.hash = RawHash[run.config], !.shards = s, !.exhausted = x]
    PROVE  /\ RawOk(raw') /\ DisksOk(disk, raw', ids, snapshot)
           /\ Settled(disk, run.config, raw') /\ raw'.hash = RawHash[run.config]
<1> DEFINE c == run.config
<1>1. c \in Config /\ raw \in RawFolder /\ disk \in [Slots -> Folder] /\ RawHash[c] \in Nat \ {0}
  BY InvParts, ConfigLemma
<1>2. Settled(disk, c, raw)
  <2>1. CASE pc = "fetch" BY <2>1, InvParts, StageIs
  <2>2. CASE pc = "record" BY <2>2, InvParts, StageIs
  <2> QED BY <2>1, <2>2
<1>3. raw'.hash = RawHash[c] /\ raw'.shards = s /\ raw' \in RawFolder BY <1>1 DEF RawFolder
<1>5. Extends(raw, raw') BY <1>3, <1>2 DEF Extends, Settled
<1> HIDE DEF c
<1>8. Settled(disk, c, raw')
  <2>1. raw'.hash \in {raw.hash, RawHash[c]} /\ raw' \in RawFolder BY <1>3
  <2>2. raw \in RawFolder /\ disk \in [Slots -> Folder] /\ c \in Config BY <1>1
  <2> QED BY <1>2, <1>5, <2>1, <2>2, SettledExtended
<1> QED BY <1>3, <1>8, <1>1, <1>5, InvParts, DisksExtended DEF c, RawOk

\* It is recorded.
LEMMA RecordRawShardKeeps == Inv /\ RecordRawShard => Inv'
<1> SUFFICES ASSUME Inv, RecordRawShard PROVE Inv' OBVIOUS
<1> DEFINE e == SubSeq(Source, RawRows + 1, RawRows + NextRows)
           s == Append(raw.shards, e)
           c == run.config
<1>1. pc = "record" /\ raw' = [raw EXCEPT !.hash = RawHash[c], !.shards = s] /\ pc' = "fetch"
      /\ UNCHANGED <<disk, snapshot, run, ids>>
  BY DEF RecordRawShard, Goto
<1>2. e \in Seq(Nat) BY <1>1, NextIs
<1>3. raw \in RawFolder /\ raw.shards \in Seq(Seq(Nat)) /\ raw.exhausted \in BOOLEAN BY InvParts, RawFields
<1> HIDE DEF e
<1>4. /\ s \in Seq(Seq(Nat)) /\ Len(s) = Len(raw.shards) + 1
      /\ \A i \in 1 .. Len(raw.shards) : s[i] = raw.shards[i]
  BY <1>2, <1>3, AppendLemma
<1> HIDE DEF s
<1>6. Len(raw.shards) <= Len(s) /\ s # <<>> BY <1>4, <1>3
<1>7. IsPrefix(raw.shards, s) BY <1>3, <1>4, <1>6, PrefixIs
<1>8. raw' = [raw EXCEPT !.hash = RawHash[c], !.shards = s, !.exhausted = raw.exhausted]
  BY <1>1, <1>3 DEF RawFolder
<1>9. s \in Seq(Seq(Nat)) \ {<<>>} /\ raw.exhausted \in BOOLEAN /\ pc \in {"fetch", "record"}
  BY <1>1, <1>3, <1>4, <1>6
<1>10. /\ RawOk(raw') /\ DisksOk(disk, raw', ids, snapshot)
       /\ Settled(disk, c, raw') /\ raw'.hash = RawHash[c]
  BY <1>7, <1>8, <1>9, RawRecorded
<1>11. RunOk(run, "fetch", ids, snapshot)
  <2>1. run.target # 0 BY <1>1, InvParts DEF RunOk
  <2> QED BY <1>1, <2>1, InvParts, RunMoves DEF Pcs
<1>12. StageOk("fetch", run, disk, raw', c) BY <1>10, StageIs
<1> QED BY <1>1, <1>10, <1>11, <1>12, InvParts, InvFrom

\* The download ends.
LEMMA FinishDownloadKeeps == Inv /\ FinishDownload => Inv'
<1> SUFFICES ASSUME Inv, FinishDownload PROVE Inv' OBVIOUS
<1> DEFINE c == run.config
           x == RawRows < run.target
<1>1. pc = "fetch" /\ ~Fetching /\ raw' = [raw EXCEPT !.hash = RawHash[c], !.exhausted = x] /\ pc' = "fetched"
      /\ UNCHANGED <<disk, snapshot, run, ids>>
  BY DEF FinishDownload, Goto
<1>2. raw \in RawFolder /\ raw.shards \in Seq(Seq(Nat)) BY InvParts, RawFields
<1>7. x \in BOOLEAN /\ raw.shards \in Seq(Seq(Nat)) \ {<<>>} /\ pc \in {"fetch", "record"}
  BY <1>1, <1>2, ConfigLemma, RowsNumbers, InvParts, RunFields DEF Fetching, Source, RunOk
<1>8. IsPrefix(raw.shards, raw.shards) BY <1>2, PrefixSelf
<1> HIDE DEF x
<1>9. raw' = [raw EXCEPT !.hash = RawHash[c], !.shards = raw.shards, !.exhausted = x]
  BY <1>1, <1>2 DEF RawFolder
<1>10. /\ RawOk(raw') /\ DisksOk(disk, raw', ids, snapshot)
       /\ Settled(disk, c, raw') /\ raw'.hash = RawHash[c]
  BY <1>7, <1>8, <1>9, RawRecorded
<1>11. RunOk(run, "fetched", ids, snapshot) BY <1>1, RunGoesOn DEF Onward
<1>12. StageOk("fetched", run, disk, raw', c) BY <1>10, StageIs
<1> QED BY <1>1, <1>10, <1>11, <1>12, InvParts, InvFrom

\* The build follows.
LEMMA BuildWhenDownloadedKeeps == Inv /\ BuildWhenDownloaded => Inv'
<1> SUFFICES ASSUME Inv, BuildWhenDownloaded PROVE Inv' OBVIOUS
<1>1. pc = "fetched" /\ BuildIfPending /\ UNCHANGED <<disk, raw, snapshot, run, ids>>
  BY DEF BuildWhenDownloaded
<1>2. Settled(disk, run.config, raw) BY <1>1, InvParts, StageIs
<1>3. pc' \in {"build", "review"} /\ StageOk(pc', run, disk, raw, run.config) BY <1>1, <1>2, PendingStage
<1>4. RunOk(run, pc', ids, snapshot)
  <2>1. pc' \in Pcs /\ pc # "idle" /\ pc' # "idle" /\ ~(pc' \in {"repair", "round"}) /\ ~(pc' \in {"fetch", "record"})
    BY <1>1, <1>3 DEF Pcs
  <2> QED BY <2>1, InvParts, RunMoves
<1> QED BY <1>1, <1>3, <1>4, InvParts, InvFrom

-----------------------------------------------------------------------------
(* The build keeps the invariant.                                          *)

\* Two folders of the same shards and files, of whatever generation and owner.
Alike(f, g) ==
    /\ f \in Folder /\ g \in Folder
    /\ g.there = f.there /\ g.files = f.files
    /\ g.manifest.hash = f.manifest.hash
    /\ g.manifest.covered = f.manifest.covered
    /\ g.manifest.shards = f.manifest.shards
    /\ g.manifest = NoManifest <=> f.manifest = NoManifest

\* They are derived from the same and judged alike.
LEMMA AlikeLemma ==
    ASSUME NEW f, NEW g, Alike(f, g), NEW r
    PROVE  /\ Derived(f, r) => Derived(g, r)
           /\ Leftover(f, r) => Leftover(g, r)
           /\ \A c : Sound(f, c, r) => Sound(g, c, r)
           /\ \A c, kept : IsWhole(f, c, kept) => IsWhole(g, c, kept)
           /\ \A c : BuiltIn(f, c, r) => BuiltIn(g, c, r)
           /\ \A c : ServesIn(f, c, r) => ServesIn(g, c, r)
<1>1. ListedMissing(g) = ListedMissing(f) /\ Unlisted(g) = Unlisted(f)
  BY DEF Alike, ListedMissing, Unlisted, IsListed
<1>4. ASSUME NEW kept PROVE CrashLeftover(g, kept) = CrashLeftover(f, kept) BY <1>1 DEF Alike, CrashLeftover
<1>5. ASSUME NEW c, Sound(f, c, r) PROVE Sound(g, c, r) BY <1>1, <1>4, <1>5 DEF Alike, Sound, NeedsRebuild
<1>6. ASSUME NEW c, NEW kept, IsWhole(f, c, kept) PROVE IsWhole(g, c, kept) BY <1>1, <1>6 DEF Alike, IsWhole
<1>7. ASSUME NEW c PROVE BuiltIn(f, c, r) = BuiltIn(g, c, r) /\ HealthyIn(f, c, r) = HealthyIn(g, c, r)
  BY DEF Alike, BuiltIn, HealthyIn
<1>8. ASSUME NEW c PROVE KeptRows(f, c, r) = KeptRows(g, c, r) BY <1>7 DEF Alike, KeptRows, ProcessedRows
<1>9. ASSUME NEW c, ServesIn(f, c, r) PROVE ServesIn(g, c, r) BY <1>7, <1>8, <1>9 DEF ServesIn
<1> QED BY <1>5, <1>6, <1>7, <1>9 DEF Alike, Derived, Describes, Filtered, Leftover

\* An id is given out.
LEMMA IdsGrow ==
    ASSUME NEW n, NEW k \in Nat, NEW snap, IdsOk(n, snap), n <= k
    PROVE  IdsOk(k, snap)
<1> QED BY DEF IdsOk

\* A fresh id is in no snapshot.
LEMMA FreshId ==
    ASSUME NEW n, NEW snap, IdsOk(n, snap), NEW m, m.gen = n + 1
    PROVE  GenOk(m, n + 1, snap) /\ m.gen # 0 /\ IdsOk(n + 1, snap) /\ n + 1 \in Nat
<1>1. n \in Nat /\ \A c \in Config : snap[c].gen \in Nat /\ snap[c].gen <= n BY DEF IdsOk
<1>2. n + 1 \in Nat /\ n <= n + 1 /\ n + 1 <= n + 1 /\ n + 1 # 0 BY <1>1
<1>3. IdsOk(n + 1, snap) BY <1>2, IdsGrow
<1> QED BY <1>1, <1>2, <1>3 DEF GenOk

\* A manifest that is completed.
LEMMA CompletedLemma ==
    ASSUME NEW m \in Manifest, GenOk(m, ids, snapshot), IdsOk(ids, snapshot)
    PROVE  /\ Completed(m) \in Manifest
           /\ Completed(m).hash = m.hash /\ Completed(m).covered = m.covered /\ Completed(m).shards = m.shards
           /\ Completed(m).complete /\ Completed(m).gen # 0
           /\ IdsAfter(m) \in Nat /\ ids <= IdsAfter(m) /\ IdsOk(IdsAfter(m), snapshot)
           /\ GenOk(Completed(m), IdsAfter(m), snapshot)
<1> DEFINE k == Completed(m)
<1>1. ids \in Nat /\ m.gen \in Nat BY ManifestFields DEF IdsOk
<1>2. /\ k \in Manifest /\ k.hash = m.hash /\ k.covered = m.covered /\ k.shards = m.shards /\ k.complete = TRUE
      /\ k.gen = IF m.gen = 0 THEN ids + 1 ELSE m.gen
  <2> DEFINE x == IF m.gen = 0 THEN ids + 1 ELSE m.gen
  <2>1. x \in Nat BY <1>1
  <2>2. k = [m EXCEPT !.gen = x, !.complete = TRUE] BY DEF Completed
  <2> HIDE DEF x, k
  <2>3. /\ k \in Manifest /\ k.hash = m.hash /\ k.covered = m.covered /\ k.shards = m.shards /\ k.complete = TRUE
        /\ k.gen = x
    BY <2>1, <2>2 DEF Manifest
  <2> QED BY <2>3 DEF x
<1> HIDE DEF k
<1>3. CASE m.gen = 0 BY <1>2, <1>3, FreshId, <1>1 DEF IdsAfter, k
<1>4. CASE m.gen # 0 BY <1>1, <1>2, <1>4 DEF IdsAfter, GenOk, k
<1> QED BY <1>3, <1>4

\* A folder whose build is complete.
LEMMA FolderCompleted ==
    ASSUME NEW f, NEW r, FolderOk(f, r, ids, snapshot), IdsOk(ids, snapshot), f.manifest.hash # 0
    PROVE  /\ Alike(f, [f EXCEPT !.manifest = Completed(f.manifest)])
           /\ [f EXCEPT !.manifest = Completed(f.manifest)].manifest = Completed(f.manifest)
           /\ FolderOk([f EXCEPT !.manifest = Completed(f.manifest)], r, IdsAfter(f.manifest), snapshot)
           /\ f.there
<1> DEFINE m == f.manifest
           k == Completed(f.manifest)
           g == [f EXCEPT !.manifest = k]
<1>1. f \in Folder /\ m \in Manifest /\ Derived(f, r) /\ GenOk(m, ids, snapshot) /\ (f.there \/ f = Absent)
  BY FolderParts, FolderFields
<1>2. /\ k \in Manifest
      /\ k.hash = m.hash /\ k.covered = m.covered /\ k.shards = m.shards
      /\ GenOk(k, IdsAfter(m), snapshot)
  BY <1>1, CompletedLemma
<1> HIDE DEF k, m
<1>4. g \in Folder /\ g.there = f.there /\ g.files = f.files /\ g.manifest = k BY <1>1, <1>2 DEF Folder
<1> HIDE DEF g
<1>6. Alike(f, g) BY <1>1, <1>2, <1>4, NothingFields DEF Alike, m
<1> QED BY <1>4, <1>6, <1>2, <1>1, AlikeLemma, NothingFields DEF k, m, g, FolderOk

\* A built folder is completed.
LEMMA CompleteBuiltKeeps == Inv /\ CompleteBuilt => Inv'
<1> SUFFICES ASSUME Inv, CompleteBuilt PROVE Inv' OBVIOUS
<1> DEFINE c == run.config
           f == disk["final"]
           g == [f EXCEPT !.manifest = Completed(f.manifest)]
           k == IdsAfter(f.manifest)
<1>1. pc = "build" /\ Built(c) /\ disk' = [disk EXCEPT !["final"] = g] /\ ids' = k /\ pc' = "review"
      /\ UNCHANGED <<raw, snapshot, run>>
  BY DEF CompleteBuilt, Goto
<1>2. c \in Config /\ IdsOk(ids, snapshot) /\ ids \in Nat /\ DisksOk(disk, raw, ids, snapshot)
      /\ disk \in [Slots -> Folder]
  BY <1>1, InvParts
<1>3. FolderOk(f, raw, ids, snapshot) /\ Leftover(f, raw) /\ f.manifest \in Manifest /\ GenOk(f.manifest, ids, snapshot)
  BY <1>2, DisksAre, FolderParts, FolderFields
<1>4. BuiltIn(f, c, raw) BY <1>1, Counted
<1>5. f.manifest.hash # 0 BY <1>2, <1>4, ConfigLemma DEF BuiltIn
<1>6. ToBuild(disk, c, raw) BY <1>1, InvParts, StageIs
<1>7. k \in Nat /\ ids <= k /\ IdsOk(k, snapshot) /\ Completed(f.manifest).complete
  BY <1>2, <1>3, CompletedLemma
<1>8. Alike(f, g) /\ g.manifest = Completed(f.manifest) /\ FolderOk(g, raw, k, snapshot)
  BY <1>2, <1>3, <1>5, FolderCompleted
<1> HIDE DEF g, k, f
<1>9. Leftover(g, raw) /\ BuiltIn(g, c, raw) /\ (Sound(f, c, raw) => Sound(g, c, raw))
  BY <1>3, <1>4, <1>8, AlikeLemma
<1>10. DisksOk(disk, raw, k, snapshot) BY <1>2, <1>7, DisksGrow
<1>11. DisksOk(disk', raw, k, snapshot) BY <1>1, <1>8, <1>9, <1>10, DisksPut DEF Slots
<1>12. disk'["final"] = g /\ disk'["temporary"] = disk["temporary"] /\ disk'["backup"] = disk["backup"]
  BY <1>1, <1>2, SlotsPut DEF Slots
<1>13. Reviewing(disk', c, raw) BY <1>6, <1>7, <1>8, <1>9, <1>12 DEF Reviewing, ToBuild, Settled, f
<1>14. RunOk(run, "review", k, snapshot)
  <2>1. RunOk(run, "review", ids, snapshot) BY <1>1, RunGoesOn DEF Onward
  <2> QED BY <1>2, <1>7, <2>1, RunGrows
<1>15. StageOk("review", run, disk', raw, c) BY <1>13, StageIs
<1> QED BY <1>1, <1>7, <1>11, <1>14, <1>15, InvParts, InvFrom

\* The temporary is made.
LEMMA CreateTemporaryKeeps == Inv /\ CreateTemporary => Inv'
<1> SUFFICES ASSUME Inv, CreateTemporary PROVE Inv' OBVIOUS
<1> DEFINE c == run.config
           g == [Absent EXCEPT !.there = TRUE]
<1>1. pc = "build" /\ WholeSource[c] /\ disk' = [disk EXCEPT !["temporary"] = g] /\ pc' = "mark"
      /\ UNCHANGED <<raw, snapshot, run, ids>>
  BY DEF CreateTemporary, Goto, Whole
<1>2. g \in Folder /\ g.manifest = NoManifest /\ g.there = TRUE BY NothingFields DEF Folder, Absent
<1> HIDE DEF g
<1>3. FolderOk(g, raw, ids, snapshot) BY <1>2, NothingDerived, AbsentOk, InvParts DEF FolderOk
<1>4. DisksOk(disk', raw, ids, snapshot) BY <1>1, <1>3, InvParts, DisksPut DEF Slots
<1>5. disk'["temporary"] = g /\ disk'["final"] = disk["final"] /\ disk'["backup"] = disk["backup"]
  BY <1>1, InvParts, SlotsPut DEF Slots
<1>6. ToBuild(disk, c, raw) BY <1>1, InvParts, StageIs
<1>7. Marking(disk', c, raw) BY <1>1, <1>5, <1>6 DEF ToBuild, Settled, Marking, Aside, g
<1>8. RunOk(run, "mark", ids, snapshot) BY <1>1, RunGoesOn DEF Onward
<1>9. StageOk("mark", run, disk', raw, c) BY <1>7, StageIs
<1> QED BY <1>1, <1>4, <1>8, <1>9, InvParts, InvFrom

\* The output of a run that builds.
LEMMA RunBuilds ==
    ASSUME NEW l, l \notin {"idle", "repair", "round", "fetch", "record"}, NEW n, NEW k \in Nat, n <= k, n \in Nat,
           NEW snap, RunOk(run, l, n, snap), NEW m \in Manifest, GenOk(m, k, snap),
           run' = [run EXCEPT !.out = m],
           NEW h \in Pcs \ {"idle", "repair", "round", "fetch", "record"}
    PROVE  RunOk(run', h, k, snap) /\ run'.config = run.config /\ run'.out = m
<1> QED BY DEF RunOk

\* A build from nothing.
LEMMA FreshLemma ==
    ASSUME NEW c \in Config, NEW n \in Nat, NEW snap
    PROVE  /\ [NoManifest EXCEPT !.hash = Hash[c]] \in Manifest
           /\ [NoManifest EXCEPT !.hash = Hash[c]].hash = Hash[c]
           /\ [NoManifest EXCEPT !.hash = Hash[c]].covered = <<>>
           /\ [NoManifest EXCEPT !.hash = Hash[c]].shards = <<>>
           /\ [NoManifest EXCEPT !.hash = Hash[c]].gen = 0
           /\ GenOk([NoManifest EXCEPT !.hash = Hash[c]], n, snap)
<1> DEFINE m == [NoManifest EXCEPT !.hash = Hash[c]]
<1>1. Hash[c] \in Nat BY ConfigLemma
<1>2. m \in Manifest /\ m.hash = Hash[c] /\ m.covered = <<>> /\ m.shards = <<>> /\ m.gen = 0
  BY <1>1, NothingFields DEF Manifest, NoManifest
<1> HIDE DEF m
<1> QED BY <1>2 DEF m, GenOk

\* It is marked.
LEMMA MarkTemporaryKeeps == Inv /\ MarkTemporary => Inv'
<1> SUFFICES ASSUME Inv, MarkTemporary PROVE Inv' OBVIOUS
<1> DEFINE c == run.config
           f == disk["temporary"]
           g == [f EXCEPT !.owner = [role |-> "temporary", build |-> ids + 1]]
           m == [NoManifest EXCEPT !.hash = Hash[c]]
<1>1. pc = "mark" /\ disk' = [disk EXCEPT !["temporary"] = g] /\ ids' = ids + 1
      /\ run' = [run EXCEPT !.out = m] /\ pc' = "write" /\ UNCHANGED <<raw, snapshot>>
  BY DEF MarkTemporary, Goto, Fresh
<1>2. c \in Config /\ ids \in Nat /\ IdsOk(ids, snapshot) /\ raw \in RawFolder BY <1>1, InvParts
<1>3. ids + 1 \in Nat /\ ids <= ids + 1 BY <1>2
<1>4. Marking(disk, c, raw) BY <1>1, InvParts, StageIs
<1>6. f \in Folder BY InvParts, DisksAre
<1>7. g \in Folder /\ g.manifest = NoManifest /\ g.there = TRUE /\ g.files = {}
  <2>1. f.manifest = NoManifest /\ f.there = TRUE /\ f.files = {} BY <1>4 DEF Absent, Marking
  <2> HIDE DEF f
  <2> QED BY <1>3, <1>6, <2>1 DEF Folder
<1>8. m \in Manifest /\ m.hash = Hash[c] /\ m.covered = <<>> /\ m.shards = <<>> /\ m.gen = 0
      /\ GenOk(m, ids + 1, snapshot)
  BY <1>2, <1>3, FreshLemma
<1> HIDE DEF g, m, f
<1>9. FolderOk(g, raw, ids + 1, snapshot) BY <1>3, <1>7, NothingDerived, AbsentOk DEF FolderOk
<1>10. DisksOk(disk, raw, ids + 1, snapshot) BY <1>2, <1>3, InvParts, DisksGrow
<1>11. DisksOk(disk', raw, ids + 1, snapshot) BY <1>1, <1>9, <1>10, DisksPut DEF Slots
<1>12. disk'["temporary"] = g /\ disk'["final"] = disk["final"] /\ disk'["backup"] = disk["backup"]
  BY <1>1, InvParts, SlotsPut DEF Slots
<1>13. WholeOut(g, m, c, raw)
  BY ContentOfNone, <1>7, <1>8, NothingFields DEF Written, Readable, OnlyListed, WholeOut
<1>14. Aside(disk', c, raw) /\ WholeSource[c] BY <1>4, <1>12 DEF Marking, Aside
<1>15. RunOk(run', "write", ids + 1, snapshot) /\ run'.config = c /\ run'.out = m
  <2>1. "write" \in Pcs \ {"idle", "repair", "round", "fetch", "record"} /\ pc \notin {"idle", "repair", "round", "fetch", "record"}
    BY <1>1 DEF Pcs
  <2> QED BY <1>1, <1>2, <1>3, <1>8, <2>1, InvParts, RunBuilds
<1>16. WritingWhole(disk', run'.out, c, raw) BY <1>12, <1>13, <1>14, <1>15 DEF WritingWhole
<1>17. StageOk("write", run', disk', raw, c) BY <1>14, <1>16, StageIs
<1>18. IdsOk(ids + 1, snapshot) BY <1>2, <1>3, IdsGrow
<1> QED BY <1>1, <1>11, <1>15, <1>17, <1>18, InvParts, InvFrom

\* The filters of all configs of one identity keep the same documents.
LEMMA FilteredIs ==
    ASSUME NEW m, NEW r, NEW c \in Config, Filtered(m, r), m.hash = Hash[c]
    PROVE  Content(m.shards) = Keeps[c] \intersect DocsIn(r.shards, Len(m.covered)) /\ r.hash = RawHash[c]
<1>1. PICK e \in Config : /\ m.hash = Hash[e] /\ r.hash = RawHash[e]
                          /\ Content(m.shards) = Keeps[e] \intersect DocsIn(r.shards, Len(m.covered))
  BY DEF Filtered
<1>2. Keeps[e] = Keeps[c] /\ RawHash[e] = RawHash[c] BY <1>1, SameHash
<1> QED BY <1>1, <1>2

\* The next shard's survivors are those of every config of the identity.
LEMMA LeftoverFor ==
    ASSUME NEW f, NEW r, NEW c \in Config, f.manifest.hash = Hash[c],
           LeftBehind(f.files, f.manifest.shards, f.manifest.covered, c, r)
    PROVE  Leftover(f, r)
<1>1. ASSUME NEW e \in Config, f.manifest.hash = Hash[e]
      PROVE  LeftBehind(f.files, f.manifest.shards, f.manifest.covered, e, r)
  <2>1. Keeps[e] = Keeps[c] BY <1>1, SameHash
  <2> QED BY <2>1 DEF LeftBehind, NextSurvivors
<1> QED BY <1>1 DEF Leftover

\* What a build of one raw shard after another leaves is derived, with a leftover at most.
LEMMA NextFolder ==
    ASSUME NEW f, NEW r, NEW c \in Config, NEW out, NextOut(f, out, c, r), f.manifest = out, r.hash = RawHash[c]
    PROVE  Derived(f, r) /\ Leftover(f, r)
<1> QED BY LeftoverFor DEF Derived, Describes, Filtered, NextOut, Written

\* ... and needs no rebuild.
LEMMA NextSound ==
    ASSUME NEW f, NEW r \in RawFolder, NEW c \in Config, NEW out \in Manifest, NextOut(f, out, c, r), f.manifest = out
    PROVE  Sound(f, c, r) /\ HealthyIn(f, c, r)
<1>1. /\ out.hash = Hash[c] /\ IsPrefix(out.covered, Rows(r.shards))
      /\ Written(f.files, out.shards)
      /\ LeftBehind(f.files, out.shards, out.covered, c, r)
  BY DEF NextOut
<1>4. ASSUME Unlisted(f) # {} PROVE CrashLeftover(f, AllOf(r))
  <2>1. PICK g \in f.files : g.i \notin DOMAIN out.shards BY <1>4 DEF Unlisted, IsListed
  <2>4. Unlisted(f) = {Len(out.shards) + 1} BY <2>1, <1>1 DEF Unlisted, IsListed, LeftBehind
  <2> QED BY <2>4, <1>1, StrictIs, ManifestFields, RawFields, <2>1 DEF CrashLeftover, MoreRawFollows, AllOf, Kept, LeftBehind
<1>7. ~NeedsRebuild(f, c, AllOf(r))
  BY <1>1, <1>4, Hashed DEF NeedsRebuild, ListedMissing, Written, AllOf, Kept
<1> QED BY <1>1, <1>7 DEF Sound, HealthyIn

\* The final folder is resumed, or emptied.
LEMMA ResumeBuildKeeps == Inv /\ ResumeBuild => Inv'
<1> SUFFICES ASSUME Inv, ResumeBuild PROVE Inv' OBVIOUS
<1> DEFINE c == run.config
           f == disk["final"]
           fresh == [NoManifest EXCEPT !.hash = Hash[c]]
<1>1. pc = "build" /\ ~WholeSource[c] /\ pc' = "write" /\ UNCHANGED <<raw, snapshot, ids>>
      /\ run' = [run EXCEPT !.out = IF Healthy(c) THEN f.manifest ELSE fresh]
      /\ disk' = IF Healthy(c) THEN disk ELSE [disk EXCEPT !["final"] = Absent]
  BY DEF ResumeBuild, Goto, Whole, Fresh
<1>2. c \in Config /\ ids \in Nat /\ IdsOk(ids, snapshot) /\ raw \in RawFolder /\ DisksOk(disk, raw, ids, snapshot)
  BY <1>1, InvParts
<1>3. ToBuild(disk, c, raw) BY <1>1, InvParts, StageIs
<1>4. Settled(disk, c, raw) /\ raw.hash = RawHash[c] /\ ~disk["temporary"].there /\ ~disk["backup"].there
      /\ Sound(f, c, raw)
  BY <1>3 DEF ToBuild, Settled, Free
<1>5. FolderOk(f, raw, ids, snapshot) /\ Leftover(f, raw) /\ f.manifest \in Manifest /\ GenOk(f.manifest, ids, snapshot)
      /\ Derived(f, raw)
  BY <1>2, DisksAre, FolderParts, FolderFields
<1>6. "write" \in Pcs \ {"idle", "repair", "round", "fetch", "record"} /\ pc \notin {"idle", "repair", "round", "fetch", "record"}
  BY <1>1 DEF Pcs
<1>7. ids <= ids BY <1>2
<1>8. CASE Healthy(c)
  <2>1. run' = [run EXCEPT !.out = f.manifest] /\ disk' = disk BY <1>1, <1>8
  <2>2. f.manifest.hash = Hash[c] /\ IsPrefix(f.manifest.covered, Rows(raw.shards)) BY <1>8 DEF Healthy
  <2>3. f.manifest # NoManifest BY <1>2, <2>2, Hashed
  <2>4. Describes(f.manifest, raw) /\ Readable(f.files, f.manifest.shards) BY <1>5, <2>3 DEF Derived
  <2>5. Content(f.manifest.shards) = Keeps[c] \intersect DocsIn(raw.shards, Len(f.manifest.covered))
    BY <1>2, <2>2, <2>4, FilteredIs DEF Describes
  <2>7. Written(f.files, f.manifest.shards)
    BY <2>4, <1>4, <2>3 DEF Written, ListedMissing, Sound, NeedsRebuild
  <2>8. LeftBehind(f.files, f.manifest.shards, f.manifest.covered, c, raw)
    BY <1>2, <1>5, <2>2, <2>3 DEF Leftover
  <2>9. NextOut(f, f.manifest, c, raw) BY <2>2, <2>4, <2>5, <2>7, <2>8 DEF NextOut, Describes
  <2>10. RunOk(run', "write", ids, snapshot) /\ run'.config = c /\ run'.out = f.manifest
    BY <1>2, <1>5, <1>6, <1>7, <2>1, InvParts, RunBuilds
  <2>11. WritingNext(disk', run'.out, c, raw) BY <1>1, <1>4, <2>1, <2>9, <2>10 DEF WritingNext, Free
  <2>12. StageOk("write", run', disk', raw, c) BY <1>1, <2>11, StageIs
  <2> QED BY <1>1, <2>1, <2>10, <2>12, InvParts, InvFrom
<1>9. CASE ~Healthy(c)
  <2>1. run' = [run EXCEPT !.out = fresh] /\ disk' = [disk EXCEPT !["final"] = Absent] BY <1>1, <1>9
  <2>2. fresh \in Manifest /\ fresh.hash = Hash[c] /\ fresh.covered = <<>> /\ fresh.shards = <<>>
        /\ GenOk(fresh, ids, snapshot)
    BY <1>2, FreshLemma
  <2>3. NextOut(Absent, fresh, c, raw)
    <3>3. IsPrefix(<<>>, Rows(raw.shards))
      <4> DEFINE none == <<>>
      <4>1. Rows(raw.shards) \in Seq(Nat) BY <1>2, RawFields
      <4>2. none \in Seq(Nat) /\ Len(none) <= Len(Rows(raw.shards))
            /\ \A i \in 1 .. Len(none) : none[i] = Rows(raw.shards)[i]
        BY <4>1
      <4> HIDE DEF none
      <4>3. IsPrefix(none, Rows(raw.shards)) BY <4>1, <4>2, PrefixIs
      <4> QED BY <4>3 DEF none
    <3>5. fresh = [NoManifest EXCEPT !.hash = Hash[c]] OBVIOUS
    <3> HIDE DEF fresh
    <3> QED BY <2>2, <3>3, <3>5, NothingFields, ContentOfNone, DocsOfNone DEF NextOut, Written, Readable, LeftBehind
  <2> HIDE DEF fresh
  <2>4. RunOk(run', "write", ids, snapshot) /\ run'.config = c /\ run'.out = fresh
    BY <1>2, <1>6, <1>7, <2>1, <2>2, InvParts, RunBuilds
  <2>5. DisksOk(disk', raw, ids, snapshot) BY <1>2, <2>1, AbsentOk, DisksPut DEF Slots
  <2>6. disk'["final"] = Absent /\ disk'["temporary"] = disk["temporary"] /\ disk'["backup"] = disk["backup"]
    BY <2>1, InvParts, SlotsPut DEF Slots
  <2>7. WritingNext(disk', run'.out, c, raw) BY <1>1, <1>4, <2>3, <2>4, <2>6 DEF WritingNext, Free
  <2>8. StageOk("write", run', disk', raw, c) BY <1>1, <2>7, StageIs
  <2> QED BY <1>1, <2>4, <2>5, <2>8, InvParts, InvFrom
<1> QED BY <1>8, <1>9

\* The folder of a generation that begins.
LEMMA BegunLemma ==
    ASSUME NEW f \in Folder, NEW m \in Manifest, IdsOk(ids, snapshot)
    PROVE  /\ Begun(m) \in Manifest
           /\ Begun(m).hash = m.hash /\ Begun(m).covered = m.covered /\ Begun(m).shards = m.shards
           /\ ~Begun(m).complete /\ Begun(m).gen # 0 /\ Begun(m) # NoManifest
           /\ GenOk(Begun(m), ids + 1, snapshot) /\ IdsOk(ids + 1, snapshot) /\ ids + 1 \in Nat /\ ids <= ids + 1
           /\ [f EXCEPT !.there = TRUE, !.manifest = Begun(m)] \in Folder
           /\ [f EXCEPT !.there = TRUE, !.manifest = Begun(m)].manifest = Begun(m)
           /\ [f EXCEPT !.there = TRUE, !.manifest = Begun(m)].there
           /\ [f EXCEPT !.there = TRUE, !.manifest = Begun(m)].files = f.files
<1> DEFINE k == Begun(m)
           g == [f EXCEPT !.there = TRUE, !.manifest = k]
<1>1. ids \in Nat /\ ids + 1 \in Nat /\ ids <= ids + 1 BY DEF IdsOk
<1>2. /\ k \in Manifest /\ k.hash = m.hash /\ k.covered = m.covered /\ k.shards = m.shards /\ k.complete = FALSE
      /\ k.gen = ids + 1
  BY <1>1 DEF Manifest, Begun
<1> HIDE DEF k
<1>5. g \in Folder /\ g.manifest = k /\ g.there = TRUE /\ g.files = f.files BY <1>2 DEF Folder
<1> QED BY <1>1, <1>2, <1>5, NothingFields, FreshId DEF k, g

\* A folder that holds no listed shard of the new generation yet.
LEMMA NothingWritten ==
    ASSUME NEW m, NEW files, NEW r \in RawFolder, NEW c \in Config, m.hash = Hash[c], r.hash = RawHash[c],
           m.covered = <<>>, m.shards = <<>>
    PROVE  Describes(m, r) /\ Readable(files, m.shards)
<1>1. IsPrefix(<<>>, Rows(r.shards))
  <2> DEFINE none == <<>>
  <2>1. Rows(r.shards) \in Seq(Nat) BY RawFields
  <2>2. none \in Seq(Nat) /\ Len(none) <= Len(Rows(r.shards))
        /\ \A i \in 1 .. Len(none) : none[i] = Rows(r.shards)[i]
    BY <2>1
  <2> HIDE DEF none
  <2>3. IsPrefix(none, Rows(r.shards)) BY <2>1, <2>2, PrefixIs
  <2> QED BY <2>3 DEF none
<1> QED BY <1>1, ContentOfNone, DocsOfNone DEF Describes, Readable, Filtered

\* The step of a generation that begins, in the folder that is written.
LEMMA BeginStep ==
    ASSUME Inv, BeginGeneration, NEW s \in Slots, Dir = s,
           FolderOk([disk[s] EXCEPT !.there = TRUE, !.manifest = Begun(run.out)], raw, ids + 1, snapshot),
           s = "final" => Leftover([disk[s] EXCEPT !.there = TRUE, !.manifest = Begun(run.out)], raw)
    PROVE  /\ DisksOk(disk', raw, ids + 1, snapshot)
           /\ disk'[s] = [disk[s] EXCEPT !.there = TRUE, !.manifest = Begun(run.out)]
           /\ \A t \in Slots : t # s => disk'[t] = disk[t]
           /\ RunOk(run', pc', ids', snapshot) /\ run'.config = run.config /\ run'.out = Begun(run.out)
           /\ IdsOk(ids', snapshot)
<1> DEFINE m == run.out
           g == [disk[s] EXCEPT !.there = TRUE, !.manifest = Begun(m)]
<1>1. pc = "write" /\ run' = [run EXCEPT !.out = Begun(m)] /\ ids' = ids + 1 /\ pc' = pc
      /\ disk' = [disk EXCEPT ![s].there = TRUE, ![s].manifest = run'.out]
  BY DEF BeginGeneration
<1>2. m \in Manifest /\ ids \in Nat /\ IdsOk(ids, snapshot) /\ disk[s] \in Folder /\ disk \in [Slots -> Folder]
  BY InvParts, RunFields, DisksAre
<1>3. Begun(m) \in Manifest /\ GenOk(Begun(m), ids + 1, snapshot) /\ IdsOk(ids + 1, snapshot) /\ ids + 1 \in Nat
      /\ ids <= ids + 1
  BY <1>2, BegunLemma
<1>4. RunOk(run', pc', ids', snapshot) /\ run'.config = run.config /\ run'.out = Begun(m)
  <2>1. "write" \in Pcs \ {"idle", "repair", "round", "fetch", "record"} /\ pc \notin {"idle", "repair", "round", "fetch", "record"}
    BY <1>1 DEF Pcs
  <2> QED BY <1>1, <1>2, <1>3, <2>1, InvParts, RunBuilds
<1>5. disk' = [disk EXCEPT ![s] = g] BY <1>1, <1>2, <1>4
<1>6. FolderOk(g, raw, ids + 1, snapshot) /\ (s = "final" => Leftover(g, raw)) OBVIOUS
<1> HIDE DEF g
<1>7. DisksOk(disk, raw, ids + 1, snapshot) BY <1>2, <1>3, InvParts, DisksGrow
<1>8. DisksOk(disk', raw, ids + 1, snapshot) BY <1>5, <1>6, <1>7, DisksPut
<1>9. disk'[s] = g /\ \A t \in Slots : t # s => disk'[t] = disk[t] BY <1>2, <1>5, SlotsPut
<1> QED BY <1>1, <1>3, <1>4, <1>8, <1>9 DEF g

\* A generation of a whole-source build begins.
LEMMA BeginWholeKeeps == Inv /\ BeginGeneration /\ Whole => Inv'
<1> SUFFICES ASSUME Inv, BeginGeneration, Whole PROVE Inv' OBVIOUS
<1> DEFINE c == run.config
           m == run.out
           f == disk["temporary"]
           k == Begun(m)
           g == [f EXCEPT !.there = TRUE, !.manifest = k]
<1>1. pc = "write" /\ NeedsGeneration(m) /\ UNCHANGED <<raw, snapshot, pc>> /\ ids' = ids + 1 /\ WholeSource[c]
  BY DEF BeginGeneration, Whole
<1>2. c \in Config /\ IdsOk(ids, snapshot) /\ raw \in RawFolder /\ f \in Folder /\ m \in Manifest /\ GenOk(m, ids, snapshot)
  BY <1>1, InvParts, RunFields, DisksAre
<1>3. WritingWhole(disk, m, c, raw) BY <1>1, InvParts, StageIs
<1>4. Aside(disk, c, raw) /\ WholeOut(f, m, c, raw) /\ raw.hash = RawHash[c] BY <1>3 DEF WritingWhole, Aside
<1>5. m.gen = 0 /\ m.shards = <<>> /\ m.covered = <<>> /\ m.hash = Hash[c]
  BY <1>4, <1>1, <1>2 DEF WholeOut, NeedsGeneration, GenOk
<1>6. /\ k.hash = m.hash /\ k.covered = m.covered /\ k.shards = m.shards
      /\ ~k.complete /\ k # NoManifest /\ GenOk(k, ids + 1, snapshot)
      /\ g \in Folder /\ g.manifest = k /\ g.there /\ g.files = f.files
  BY <1>2, BegunLemma
<1> HIDE DEF k, m, c
<1>8. Describes(k, raw) /\ Readable(f.files, k.shards) BY <1>2, <1>4, <1>5, <1>6, NothingWritten
<1> HIDE DEF g
<1>9. FolderOk(g, raw, ids + 1, snapshot) BY <1>6, <1>8 DEF FolderOk, Derived
<1>10. /\ DisksOk(disk', raw, ids + 1, snapshot)
       /\ disk'["temporary"] = g
       /\ \A t \in Slots : t # "temporary" => disk'[t] = disk[t]
       /\ RunOk(run', pc', ids', snapshot) /\ run'.config = run.config /\ run'.out = k
       /\ IdsOk(ids', snapshot)
  BY <1>9, BeginStep DEF g, k, m, Slots, Dir
<1>13. WritingWhole(disk', run'.out, c, raw)
  BY <1>4, <1>10, <1>5, <1>6 DEF WritingWhole, Aside, WholeOut, Slots
<1>14. StageOk(pc', run', disk', raw, run'.config) BY <1>1, <1>10, <1>13, StageIs DEF c
<1> QED BY <1>1, <1>10, <1>14, InvParts, InvFrom

\* A generation of an extended folder begins.
LEMMA BeginNextKeeps == Inv /\ BeginGeneration /\ ~Whole => Inv'
<1> SUFFICES ASSUME Inv, BeginGeneration, ~Whole PROVE Inv' OBVIOUS
<1> DEFINE c == run.config
           m == run.out
           f == disk["final"]
           k == Begun(m)
           g == [f EXCEPT !.there = TRUE, !.manifest = k]
<1>1. pc = "write" /\ UNCHANGED <<raw, snapshot, pc>> /\ ids' = ids + 1 /\ ~WholeSource[c]
  BY DEF BeginGeneration, Whole
<1>2. c \in Config /\ IdsOk(ids, snapshot) /\ raw \in RawFolder /\ f \in Folder /\ m \in Manifest
  BY <1>1, InvParts, RunFields, DisksAre
<1>3. WritingNext(disk, m, c, raw) BY <1>1, InvParts, StageIs
<1>4. NextOut(f, m, c, raw) /\ raw.hash = RawHash[c] /\ Free(disk["temporary"]) /\ Free(disk["backup"])
  BY <1>3 DEF WritingNext
<1>5. /\ k.hash = m.hash /\ k.covered = m.covered /\ k.shards = m.shards
      /\ GenOk(k, ids + 1, snapshot)
      /\ g \in Folder /\ g.manifest = k /\ g.there /\ g.files = f.files
  BY <1>2, BegunLemma
<1> HIDE DEF k, m, c, g
<1>7. NextOut(g, k, c, raw) BY <1>4, <1>5 DEF NextOut
<1>8. Derived(g, raw) /\ Leftover(g, raw) BY <1>2, <1>4, <1>5, <1>7, NextFolder
<1>9. FolderOk(g, raw, ids + 1, snapshot) BY <1>5, <1>8 DEF FolderOk
<1>10. /\ DisksOk(disk', raw, ids + 1, snapshot)
       /\ disk'["final"] = g
       /\ \A t \in Slots : t # "final" => disk'[t] = disk[t]
       /\ RunOk(run', pc', ids', snapshot) /\ run'.config = run.config /\ run'.out = k
       /\ IdsOk(ids', snapshot)
  BY <1>8, <1>9, BeginStep DEF g, k, m, Slots, Dir
<1>12. WritingNext(disk', run'.out, c, raw) BY <1>1, <1>4, <1>7, <1>10 DEF WritingNext, Slots
<1>13. StageOk(pc', run', disk', raw, run'.config) BY <1>1, <1>10, <1>12, StageIs DEF c
<1> QED BY <1>1, <1>10, <1>13, InvParts, InvFrom

-----------------------------------------------------------------------------
(* A shard is published.                                                   *)

\* The files after the shard, of the number after the listed ones.
Put(files, i, docs) == {g \in files : g.i # i} \union {FileOf(i, docs)}

\* It is read back, next to the others.
LEMMA PutLemma ==
    ASSUME NEW files \in SUBSET [i : Nat, docs : SUBSET Nat], NEW shards \in Seq(SUBSET Nat), NEW docs \in SUBSET Nat,
           Written(files, shards)
    PROVE  /\ Put(files, Len(shards) + 1, docs) \in SUBSET [i : Nat, docs : SUBSET Nat]
           /\ Written(Put(files, Len(shards) + 1, docs), Append(shards, docs))
           /\ Readable(Put(files, Len(shards) + 1, docs), shards)
<1> DEFINE n == Len(shards)
           t == Append(shards, docs)
           new == FileOf(n + 1, docs)
           P == Put(files, n + 1, docs)
<1>1. n \in Nat /\ DOMAIN shards = 1 .. n OBVIOUS
<1>2. DOMAIN t = 1 .. n + 1 /\ (\A i \in 1 .. n : t[i] = shards[i]) /\ t[n + 1] = docs BY AppendLemma
<1>3. new \in [i : Nat, docs : SUBSET Nat] /\ new.i = n + 1 /\ new.docs = docs BY <1>1 DEF FileOf
<1>4. P = {g \in files : g.i # n + 1} \union {new} BY DEF Put
<1>5. 1 .. n + 1 = (1 .. n) \union {n + 1} /\ n + 1 \notin 1 .. n BY <1>1
<1>6. \A g \in files : g.i \in 1 .. n => g.docs = shards[g.i] BY <1>1 DEF Written, Readable
<1>7. \A i \in 1 .. n : \E g \in files : g.i = i BY <1>1 DEF Written
<1> HIDE DEF n, t, new, P
<1>9. \A g \in P : (g.i \in 1 .. n => g \in files) /\ (g.i = n + 1 => g = new) BY <1>3, <1>4, <1>5
<1>10. Readable(P, t) BY <1>2, <1>9, <1>6, <1>3, <1>5 DEF Readable
<1>11. \A i \in 1 .. n + 1 : \E g \in P : g.i = i BY <1>3, <1>4, <1>5, <1>7
<1>12. Readable(P, shards) BY <1>1, <1>9, <1>6 DEF Readable
<1> QED BY <1>2, <1>10, <1>11, <1>12, <1>3, <1>4 DEF Written, P, t, n

\* A finite set has subsets of every smaller size.
LEMMA SubsetOfSize ==
    ASSUME NEW S, IsFiniteSet(S), NEW k \in Nat, k <= Cardinality(S)
    PROVE  \E T \in SUBSET S : Cardinality(T) = k
<1> DEFINE n == Cardinality(S)
<1>1. n \in Nat /\ ExistsBijection(1 .. n, S) BY FS_CardinalityType
<1>2. PICK f \in Bijection(1 .. n, S) : TRUE BY <1>1 DEF ExistsBijection
<1>3. 1 .. k \subseteq 1 .. n BY <1>1
<1> HIDE DEF n
<1>4. f \in [1 .. n -> S] /\ \A a, b \in 1 .. n : f[a] = f[b] => a = b
  BY <1>2 DEF Bijection, Injection, IsInjective
<1> DEFINE T == {f[i] : i \in 1 .. k}
           g == [i \in 1 .. k |-> f[i]]
<1>5. T \in SUBSET S BY <1>3, <1>4
<1>6. g \in Surjection(1 .. k, T) BY DEF Surjection
<1>7. g \in Injection(1 .. k, T) BY <1>3, <1>4 DEF Injection, IsInjective
<1>8. IsFiniteSet(1 .. k) /\ Cardinality(1 .. k) = k BY FS_Interval
<1> HIDE DEF g, T
<1> QED BY <1>5, <1>8, <1>6, <1>7, FS_Surjection

\* A chunk is a part of the documents, and empty only if they are.
LEMMA ChunkLemma ==
    ASSUME NEW S \in SUBSET Nat, IsFiniteSet(S)
    PROVE  Chunk(S) \in SUBSET S /\ (Chunk(S) = {} => S = {})
<1> DEFINE n == Cardinality(S)
           k == Least({ShardSize, n})
<1>1. n \in Nat /\ ShardSize \in Nat \ {0} /\ (n = 0 => S = {}) BY FS_CardinalityType, FS_EmptySet, SizesLemma
<1> HIDE DEF n
<1>2. k \in {ShardSize, n} /\ k <= n BY <1>1, LeastOfThree
<1> HIDE DEF k
<1>3. k \in Nat /\ (k = 0 => n = 0) BY <1>1, <1>2
<1> QED BY <1>1, <1>3, FS_EmptySet, <1>2, SubsetOfSize DEF n, Chunk, k

\* What a whole-source build has still to write.
Unwritten(c, shards, r) == (DocsIn(r.shards, Len(r.shards)) \intersect Keeps[c]) \ Content(shards)

\* What a whole-source build writes next.
LEMMA ToWriteWhole ==
    ASSUME raw \in RawFolder, Whole
    PROVE  /\ Unwritten(run.config, run.out.shards, raw) \in SUBSET Nat
           /\ ToWrite \in SUBSET Unwritten(run.config, run.out.shards, raw)
           /\ ToWrite = {} => Unwritten(run.config, run.out.shards, raw) = {}
<1> DEFINE S == Unwritten(run.config, run.out.shards, raw)
           n == Len(raw.shards)
<1>1. raw.shards \in Seq(Seq(Nat)) /\ n \in 0 .. n BY RawFields
<1>4. S \in SUBSET Nat /\ IsFiniteSet(S) BY FS_Subset, <1>1, DocsFinite DEF Unwritten
<1>6. ToWrite = Chunk(S) BY DEF ToWrite, Survivors, Unwritten, DocsOf, DocsIn
<1> HIDE DEF S
<1> QED BY <1>4, <1>6, ChunkLemma DEF S

\* What a build of one raw shard after another writes next.
LEMMA ToWriteNext ==
    ASSUME raw \in RawFolder, ~Whole
    PROVE  /\ ToWrite = NextSurvivors(run.config, run.out.shards, run.out.covered, raw)
           /\ Len(run.out.covered) \in Nat /\ Len(run.out.covered) < Len(raw.shards) => ToWrite \in SUBSET Nat
<1> DEFINE n == Len(run.out.covered)
<1>1. ToWrite = NextSurvivors(run.config, run.out.shards, run.out.covered, raw)
  BY DEF ToWrite, Survivors, NextSurvivors
<1>2. ASSUME n \in Nat, n < Len(raw.shards) PROVE ToWrite \in SUBSET Nat
  <2> HIDE DEF n
  <2>3. raw.shards[n + 1] \in Seq(Nat) BY <1>2, RawFields
  <2> QED BY <1>1, <2>3, ElementsFinite DEF NextSurvivors, n
<1> QED BY <1>1, <1>2

\* The folder that is written, and the output that lists the shard.
PutIn(f, out, docs) == [f EXCEPT !.files = Put(f.files, Len(out.shards) + 1, docs)]

\* The manifest with it.
Listing(out, docs) == [out EXCEPT !.shards = Append(out.shards, docs)]

\* The folder and the manifest with the shard.
LEMMA ListingLemma ==
    ASSUME NEW f \in Folder, NEW out \in Manifest, NEW docs \in SUBSET Nat, Written(f.files, out.shards)
    PROVE  /\ PutIn(f, out, docs) \in Folder
           /\ PutIn(f, out, docs).manifest = f.manifest /\ PutIn(f, out, docs).there = f.there
           /\ PutIn(f, out, docs).files = Put(f.files, Len(out.shards) + 1, docs)
           /\ Written(PutIn(f, out, docs).files, Append(out.shards, docs))
           /\ Readable(PutIn(f, out, docs).files, out.shards)
           /\ Listing(out, docs) \in Manifest
           /\ Listing(out, docs).hash = out.hash /\ Listing(out, docs).covered = out.covered
           /\ Listing(out, docs).shards = Append(out.shards, docs)
           /\ Listing(out, docs).gen = out.gen /\ Listing(out, docs).complete = out.complete
<1> DEFINE P == Put(f.files, Len(out.shards) + 1, docs)
           t == Append(out.shards, docs)
<1>1. f.files \in SUBSET [i : Nat, docs : SUBSET Nat] /\ out.shards \in Seq(SUBSET Nat)
  BY FolderFields, ManifestFields
<1>2. P \in SUBSET [i : Nat, docs : SUBSET Nat] /\ Written(P, t) /\ Readable(P, out.shards) BY <1>1, PutLemma
<1>3. t \in Seq(SUBSET Nat) BY <1>1, AppendLemma
<1> HIDE DEF P, t
<1>5. /\ [out EXCEPT !.shards = t] \in Manifest
      /\ [out EXCEPT !.shards = t].hash = out.hash /\ [out EXCEPT !.shards = t].covered = out.covered
      /\ [out EXCEPT !.shards = t].shards = t
      /\ [out EXCEPT !.shards = t].gen = out.gen /\ [out EXCEPT !.shards = t].complete = out.complete
  BY <1>3 DEF Manifest
<1> QED BY <1>2, <1>5 DEF PutIn, Listing, P, t, Folder

\* A shard is published in a slot.
LEMMA PublishStep ==
    ASSUME Inv, PublishShard, NEW s \in Slots, Dir = s, ToWrite \in SUBSET Nat,
           Written(disk[s].files, run.out.shards),
           FolderOk(PutIn(disk[s], run.out, ToWrite), raw, ids, snapshot),
           s = "final" => Leftover(PutIn(disk[s], run.out, ToWrite), raw)
    PROVE  /\ DisksOk(disk', raw, ids, snapshot)
           /\ disk'[s] = PutIn(disk[s], run.out, ToWrite)
           /\ \A t \in Slots : t # s => disk'[t] = disk[t]
           /\ RunOk(run', pc', ids, snapshot) /\ run'.config = run.config /\ run'.out = Listing(run.out, ToWrite)
<1> DEFINE m == run.out
           w == ToWrite
           g == PutIn(disk[s], m, w)
           k == Listing(m, w)
<1>1. pc = "write" /\ ~NeedsGeneration(m) /\ run' = [run EXCEPT !.out = k]
      /\ disk' = [disk EXCEPT ![s] = g] /\ pc' \in {"write", "cover"} /\ pc' # "idle"
  BY DEF PublishShard, Goto, Put, PutIn, Listing
<1>2. m \in Manifest /\ ids \in Nat /\ disk[s] \in Folder /\ disk \in [Slots -> Folder] /\ ids <= ids
      /\ GenOk(m, ids, snapshot)
  BY InvParts, RunFields, DisksAre
<1> HIDE DEF m, w
<1>3. k \in Manifest /\ k.gen = m.gen /\ k.complete = m.complete BY <1>2, ListingLemma DEF m, w
<1>4. GenOk(k, ids, snapshot) BY <1>1, <1>2, <1>3 DEF NeedsGeneration, GenOk
<1>5. RunOk(run', pc', ids, snapshot) /\ run'.config = run.config /\ run'.out = k
  <2>1. pc' \in Pcs \ {"idle", "repair", "round", "fetch", "record"} /\ pc \notin {"idle", "repair", "round", "fetch", "record"}
    BY <1>1 DEF Pcs
  <2> HIDE DEF k
  <2> QED BY <1>1, <1>2, <1>3, <1>4, <2>1, InvParts, RunBuilds
<1>6. FolderOk(g, raw, ids, snapshot) /\ (s = "final" => Leftover(g, raw)) BY DEF m, w
<1> HIDE DEF g, k
<1>7. DisksOk(disk', raw, ids, snapshot) BY <1>1, <1>6, InvParts, DisksPut
<1> QED BY <1>5, <1>7, <1>1, <1>2, SlotsPut DEF g, k, m, w

\* The files of an output that lists one more shard.
LEMMA PutListed ==
    ASSUME NEW files, NEW shards \in Seq(SUBSET Nat), NEW docs \in SUBSET Nat,
           \A g \in files : g.i \in DOMAIN shards \/ g.i = Len(shards) + 1
    PROVE  /\ OnlyListed(Put(files, Len(shards) + 1, docs), Append(shards, docs))
           /\ \A g \in Put(files, Len(shards) + 1, docs) :
                g.i \notin DOMAIN shards => g = FileOf(Len(shards) + 1, docs)
<1> DEFINE n == Len(shards)
           t == Append(shards, docs)
<1>1. DOMAIN shards = 1 .. n /\ DOMAIN t = 1 .. n + 1 /\ n \in Nat BY AppendLemma
<1> HIDE DEF n, t
<1> QED BY <1>1 DEF OnlyListed, n, t, FileOf, Put

\* By a whole-source build.
LEMMA PublishWholeKeeps == Inv /\ PublishShard /\ Whole => Inv'
<1> SUFFICES ASSUME Inv, PublishShard, Whole PROVE Inv' OBVIOUS
<1> DEFINE c == run.config
           m == run.out
           f == disk["temporary"]
           w == ToWrite
           g == PutIn(f, m, w)
           k == Listing(m, w)
<1>1. pc = "write" /\ UNCHANGED <<raw, snapshot, ids>> /\ pc' = "write" /\ WholeSource[c]
  BY DEF PublishShard, Whole, Goto
<1>2. c \in Config /\ raw \in RawFolder /\ f \in Folder /\ m \in Manifest /\ FolderOk(f, raw, ids, snapshot)
  BY <1>1, InvParts, RunFields, DisksAre
<1>3. WritingWhole(disk, m, c, raw) BY <1>1, InvParts, StageIs
<1>4. Aside(disk, c, raw) /\ WholeOut(f, m, c, raw) BY <1>3 DEF WritingWhole
<1>5. Unwritten(c, m.shards, raw) \in SUBSET Nat /\ w \in SUBSET Unwritten(c, m.shards, raw)
  BY <1>2, ToWriteWhole
<1>6. "temporary" \in Slots /\ Dir = "temporary" /\ w \in SUBSET Nat BY <1>5 DEF Slots, Dir
<1> HIDE DEF c, w
<1>7. Written(f.files, m.shards) /\ Apart(m.shards) /\ OnlyListed(f.files, m.shards)
      /\ Content(m.shards) \subseteq Keeps[c] \intersect DocsIn(raw.shards, Len(raw.shards))
      /\ f.manifest.shards = <<>>
  BY <1>4 DEF WholeOut
<1>8. /\ g \in Folder /\ g.manifest = f.manifest /\ g.there = f.there
      /\ g.files = Put(f.files, Len(m.shards) + 1, w)
      /\ Written(g.files, Append(m.shards, w))
      /\ k \in Manifest /\ k.hash = m.hash /\ k.covered = m.covered /\ k.shards = Append(m.shards, w)
      /\ k.gen = m.gen /\ k.complete = m.complete
  BY <1>2, <1>6, <1>7, ListingLemma
<1>9. m.shards \in Seq(SUBSET Nat) BY <1>2, ManifestFields
<1> HIDE DEF g, k, m, f
<1>10. /\ Content(k.shards) = Content(m.shards) \union w
       /\ Apart(k.shards)
  BY <1>5, <1>6, <1>7, <1>8, <1>9, ContentOfNext DEF Unwritten
<1>12. OnlyListed(g.files, k.shards) BY <1>7, <1>6, <1>8, <1>9, PutListed DEF OnlyListed
<1>13. WholeOut(g, k, c, raw) BY <1>4, <1>8, <1>10, <1>12, <1>5, <1>7 DEF WholeOut, Unwritten
<1>14. FolderOk(g, raw, ids, snapshot) BY <1>7, <1>2, <1>8, <1>4 DEF Readable, FolderOk, Derived, WholeOut
<1>15. /\ DisksOk(disk', raw, ids, snapshot)
       /\ disk'["temporary"] = g
       /\ \A t \in Slots : t # "temporary" => disk'[t] = disk[t]
       /\ RunOk(run', pc', ids, snapshot) /\ run'.config = run.config /\ run'.out = k
  BY <1>6, <1>7, <1>14, PublishStep DEF g, k, m, f, w
<1>17. WritingWhole(disk', run'.out, c, raw) BY <1>4, <1>13, <1>15 DEF WritingWhole, Aside, Slots
<1>18. StageOk(pc', run', disk', raw, run'.config) BY <1>1, <1>15, <1>17, StageIs DEF c
<1> QED BY <1>1, <1>15, <1>18, InvParts, InvFrom

\* The folder of an output that is built on is there.
LEMMA NextThere ==
    ASSUME NEW f, NEW r, NEW n, NEW snap, FolderOk(f, r, n, snap), NEW c \in Config, NEW out, NextOut(f, out, c, r),
           out.gen # 0 \/ f.manifest = out
    PROVE  f.there /\ f.manifest = out
<1> QED BY NothingFields, ConfigLemma DEF FolderOk, NextOut, NoManifest

\* What the next raw shard adds.
LEMMA NextContent ==
    ASSUME NEW r, NEW c, NEW shards, NEW covered, Len(covered) \in Nat,
           Content(shards) = Keeps[c] \intersect DocsIn(r.shards, Len(covered))
    PROVE  Content(shards) \union NextSurvivors(c, shards, covered, r)
                = Keeps[c] \intersect DocsIn(r.shards, Len(covered) + 1)
<1> DEFINE n == Len(covered)
<1> HIDE DEF n
<1>3. Content(shards) = Keeps[c] \intersect DocsIn(r.shards, n) BY DEF n
<1>4. Content(shards) \union NextSurvivors(c, shards, covered, r) = Keeps[c] \intersect DocsIn(r.shards, n + 1)
  BY <1>3, DocsOfNext DEF NextSurvivors, n
<1> QED BY <1>4 DEF n

\* Where a build of one raw shard after another is.
LEMMA WritingNextParts ==
    ASSUME Inv, pc = "write", ~Whole
    PROVE  /\ run.config \in Config /\ ~WholeSource[run.config] /\ raw \in RawFolder /\ raw.hash = RawHash[run.config]
           /\ raw.shards # <<>>
           /\ disk["final"] \in Folder /\ FolderOk(disk["final"], raw, ids, snapshot)
           /\ run.out \in Manifest /\ GenOk(run.out, ids, snapshot)
           /\ NextOut(disk["final"], run.out, run.config, raw)
           /\ Free(disk["temporary"]) /\ Free(disk["backup"])
<1>2. ~WholeSource[run.config] BY DEF Whole
<1>3. WritingNext(disk, run.out, run.config, raw) BY <1>2, InvParts, StageIs
<1> QED BY <1>2, <1>3, ConfigLemma, InvParts, RunFields, DisksAre DEF WritingNext, RawOk

\* By a build of one raw shard after another.
LEMMA PublishNextKeeps == Inv /\ PublishShard /\ ~Whole => Inv'
<1> SUFFICES ASSUME Inv, PublishShard, ~Whole PROVE Inv' OBVIOUS
<1> DEFINE c == run.config
           m == run.out
           f == disk["final"]
           w == ToWrite
           g == PutIn(f, m, w)
           k == Listing(m, w)
<1>1. pc = "write" /\ UNCHANGED <<raw, snapshot, ids>> /\ pc' = "cover" /\ w # {}
      /\ m.gen # 0 /\ Len(m.covered) < Len(raw.shards)
  BY DEF PublishShard, Goto, MoreToWrite, ShardPending, NeedsGeneration
<1>2. /\ c \in Config /\ ~WholeSource[c] /\ raw \in RawFolder /\ raw.hash = RawHash[c]
      /\ f \in Folder /\ FolderOk(f, raw, ids, snapshot) /\ m \in Manifest
      /\ NextOut(f, m, c, raw) /\ Free(disk["temporary"]) /\ Free(disk["backup"])
  BY <1>1, WritingNextParts
<1>3. f.there /\ f.manifest = m BY <1>1, <1>2, NextThere
<1>4. Len(m.covered) \in Nat /\ m.shards \in Seq(SUBSET Nat) BY <1>2, ManifestFields
<1>5. w = NextSurvivors(c, m.shards, m.covered, raw) /\ w \in SUBSET Nat BY <1>1, <1>2, <1>4, ToWriteNext
<1>6. "final" \in Slots /\ Dir = "final" BY DEF Slots, Dir
<1> HIDE DEF c, w
<1>7. /\ m.hash = Hash[c] /\ Apart(m.shards) /\ IsPrefix(m.covered, Rows(raw.shards))
      /\ Written(f.files, m.shards)
      /\ Content(m.shards) = Keeps[c] \intersect DocsIn(raw.shards, Len(m.covered))
      /\ LeftBehind(f.files, m.shards, m.covered, c, raw)
  BY <1>2 DEF NextOut
<1>8. /\ g \in Folder /\ g.manifest = f.manifest /\ g.there = f.there
      /\ g.files = Put(f.files, Len(m.shards) + 1, w)
      /\ Written(g.files, Append(m.shards, w))
      /\ Readable(g.files, m.shards)
      /\ k \in Manifest /\ k.hash = m.hash /\ k.covered = m.covered /\ k.shards = Append(m.shards, w)
      /\ k.gen = m.gen /\ k.complete = m.complete
  BY <1>2, <1>5, <1>7, ListingLemma
<1> HIDE DEF g, k, m, f
<1>9. /\ Content(k.shards) = Content(m.shards) \union w
      /\ Apart(k.shards)
  BY <1>5, <1>4, <1>7, <1>8, ContentOfNext DEF NextSurvivors
<1>10. Content(k.shards) = Keeps[c] \intersect DocsIn(raw.shards, Len(k.covered) + 1)
  BY <1>4, <1>5, <1>7, NextContent, <1>8, <1>9
<1>11. \A h \in f.files : h.i \in DOMAIN m.shards \/ h.i = Len(m.shards) + 1 BY <1>7 DEF LeftBehind
<1>12. /\ OnlyListed(g.files, k.shards)
       /\ \A h \in g.files : h.i \notin DOMAIN m.shards => h = FileOf(Len(m.shards) + 1, w)
  <2>1. m.shards \in Seq(SUBSET Nat) /\ w \in SUBSET Nat BY <1>4, <1>5
  <2>2. g.files = Put(f.files, Len(m.shards) + 1, w) /\ k.shards = Append(m.shards, w) BY <1>8
  <2>3. /\ OnlyListed(Put(f.files, Len(m.shards) + 1, w), Append(m.shards, w))
        /\ \A h \in Put(f.files, Len(m.shards) + 1, w) :
             h.i \notin DOMAIN m.shards => h = FileOf(Len(m.shards) + 1, w)
    BY <1>11, <2>1, PutListed
  <2> QED BY <2>2, <2>3, Zenon
<1>13. CoveredOut(g, k, c, raw) BY <1>1, <1>3, <1>7, <1>8, <1>9, <1>10, <1>12 DEF CoveredOut, m
<1>14. LeftBehind(g.files, m.shards, m.covered, c, raw) BY <1>1, <1>5, <1>12 DEF FileOf, m, w, LeftBehind
<1>16. Derived(g, raw) /\ Leftover(g, raw)
  <2> QED BY <1>3, <1>8, <1>2, <1>7, <1>14, LeftoverFor DEF Derived, Describes, Filtered
<1>17. FolderOk(g, raw, ids, snapshot) BY <1>2, <1>3, <1>8, <1>16 DEF FolderOk
<1>18. /\ DisksOk(disk', raw, ids, snapshot)
       /\ disk'["final"] = g
       /\ \A t \in Slots : t # "final" => disk'[t] = disk[t]
       /\ RunOk(run', pc', ids, snapshot) /\ run'.config = run.config /\ run'.out = k
  BY <1>5, <1>6, <1>7, <1>16, <1>17, PublishStep DEF g, k, m, f, w
<1>20. Covering(disk', run'.out, c, raw) BY <1>2, <1>13, <1>18 DEF Covering, Slots
<1>21. StageOk(pc', run', disk', raw, run'.config) BY <1>1, <1>18, <1>20, StageIs DEF c
<1> QED BY <1>1, <1>18, <1>21, InvParts, InvFrom

\* No row of a raw shard survives.
LEMMA SkipEmptyShardKeeps == Inv /\ SkipEmptyShard => Inv'
<1> SUFFICES ASSUME Inv, SkipEmptyShard PROVE Inv' OBVIOUS
<1> DEFINE c == run.config
           m == run.out
           f == disk["final"]
<1>1. pc = "write" /\ UNCHANGED <<disk, raw, snapshot, run, ids>> /\ pc' = "cover" /\ ToWrite = {} /\ ~Whole
      /\ m.gen # 0 /\ Len(m.covered) < Len(raw.shards)
  BY DEF SkipEmptyShard, Goto, MoreToWrite, ShardPending, NeedsGeneration
<1>2. /\ c \in Config /\ ~WholeSource[c] /\ raw \in RawFolder /\ raw.hash = RawHash[c]
      /\ f \in Folder /\ FolderOk(f, raw, ids, snapshot) /\ m \in Manifest
      /\ NextOut(f, m, c, raw) /\ Free(disk["temporary"]) /\ Free(disk["backup"])
  BY <1>1, WritingNextParts
<1>4. Len(m.covered) \in Nat BY <1>2, ManifestFields
<1>5. NextSurvivors(c, m.shards, m.covered, raw) = {} BY <1>1, <1>2, ToWriteNext
<1> HIDE DEF c, m, f
<1>6. /\ m.hash = Hash[c] /\ Apart(m.shards) /\ IsPrefix(m.covered, Rows(raw.shards))
      /\ Written(f.files, m.shards)
      /\ Content(m.shards) = Keeps[c] \intersect DocsIn(raw.shards, Len(m.covered))
      /\ LeftBehind(f.files, m.shards, m.covered, c, raw)
  BY <1>2 DEF NextOut
<1>8. Content(m.shards) = Keeps[c] \intersect DocsIn(raw.shards, Len(m.covered) + 1)
  BY <1>4, <1>5, <1>6, NextContent, SMTT(30)
<1>9. CoveredOut(f, m, c, raw)
  BY <1>1, <1>6, <1>8, <1>2, NextThere, <1>5 DEF CoveredOut, m, OnlyListed, LeftBehind
<1>10. Covering(disk, run.out, c, raw) BY <1>2, <1>9 DEF Covering, f, m
<1>11. StageOk("cover", run, disk, raw, run.config) BY <1>10, StageIs DEF c
<1>12. RunOk(run, "cover", ids, snapshot) BY <1>1, RunGoesOn DEF Onward
<1> QED BY <1>1, <1>11, <1>12, InvParts, InvFrom

\* A folder with another manifest.
LEMMA FolderWith ==
    ASSUME NEW f \in Folder, NEW m \in Manifest
    PROVE  /\ [f EXCEPT !.manifest = m] \in Folder
           /\ [f EXCEPT !.manifest = m].manifest = m
           /\ [f EXCEPT !.manifest = m].there = f.there
           /\ [f EXCEPT !.manifest = m].files = f.files
BY DEF Folder

\* A manifest that covers other raw shards.
LEMMA ManifestWith ==
    ASSUME NEW m \in Manifest, NEW covered \in Seq(Nat), NEW n, NEW snap, GenOk(m, n, snap)
    PROVE  /\ [m EXCEPT !.covered = covered] \in Manifest
           /\ [m EXCEPT !.covered = covered].covered = covered
           /\ [m EXCEPT !.covered = covered].hash = m.hash
           /\ [m EXCEPT !.covered = covered].shards = m.shards
           /\ [m EXCEPT !.covered = covered].gen = m.gen
           /\ [m EXCEPT !.covered = covered].complete = m.complete
           /\ GenOk([m EXCEPT !.covered = covered], n, snap)
<1> DEFINE k == [m EXCEPT !.covered = covered]
<1>1. k \in Manifest /\ k.covered = covered /\ k.hash = m.hash /\ k.shards = m.shards /\ k.gen = m.gen
      /\ k.complete = m.complete
  BY DEF Manifest
<1> HIDE DEF k
<1> QED BY <1>1 DEF k, GenOk

\* A raw shard is covered.
LEMMA CoverShardKeeps == Inv /\ CoverShard => Inv'
<1> SUFFICES ASSUME Inv, CoverShard PROVE Inv' OBVIOUS
<1> DEFINE c == run.config
           m == run.out
           f == disk["final"]
           rows == Rows(raw.shards)
           n == Len(m.covered)
           k == [m EXCEPT !.covered = SubSeq(rows, 1, n + 1)]
           g == [f EXCEPT !.manifest = k]
<1>1. pc = "cover" /\ UNCHANGED <<raw, snapshot, ids>> /\ pc' = "write"
      /\ run' = [run EXCEPT !.out = k] /\ disk' = [disk EXCEPT !["final"].manifest = run'.out]
  BY DEF CoverShard, Goto
<1>2. c \in Config /\ raw \in RawFolder /\ ids \in Nat /\ ids <= ids /\ f \in Folder /\ FolderOk(f, raw, ids, snapshot)
      /\ m \in Manifest /\ GenOk(m, ids, snapshot) /\ disk \in [Slots -> Folder] /\ DisksOk(disk, raw, ids, snapshot)
  BY <1>1, InvParts, RunFields, DisksAre
<1>3. Covering(disk, m, c, raw) BY <1>1, InvParts, StageIs
<1>4. raw.hash = RawHash[c] /\ ~WholeSource[c] /\ CoveredOut(f, m, c, raw)
      /\ Free(disk["temporary"]) /\ Free(disk["backup"])
  BY <1>3 DEF Covering
<1>5. rows \in Seq(Nat) /\ Len(rows) = Len(raw.shards) /\ n \in Nat /\ Len(raw.shards) \in Nat
  BY <1>2, RawFields, ManifestFields
<1>6. n < Len(raw.shards) BY <1>4 DEF CoveredOut
<1> HIDE DEF n, rows
<1>8. SubSeq(rows, 1, n + 1) \in Seq(Nat) /\ Len(SubSeq(rows, 1, n + 1)) = n + 1
      /\ IsPrefix(SubSeq(rows, 1, n + 1), rows)
  <2>1. n + 1 \in 0 .. Len(rows) BY <1>5, <1>6
  <2> QED BY <1>5, <2>1, InitialLemma
<1>9. /\ k \in Manifest /\ k.covered = SubSeq(rows, 1, n + 1) /\ k.hash = m.hash /\ k.shards = m.shards
      /\ k.gen = m.gen /\ GenOk(k, ids, snapshot)
  BY <1>2, <1>8, ManifestWith
<1> HIDE DEF k
<1>10. g \in Folder /\ g.manifest = k /\ g.there = f.there /\ g.files = f.files BY <1>2, <1>9, FolderWith
<1> HIDE DEF c, m
<1>11. /\ m.hash = Hash[c] /\ Apart(m.shards)
       /\ Written(f.files, m.shards)
       /\ Content(m.shards) = Keeps[c] \intersect DocsIn(raw.shards, n + 1)
       /\ OnlyListed(f.files, m.shards) /\ f.there
  BY <1>4 DEF CoveredOut, n
<1> HIDE DEF g
<1>12. NextOut(g, k, c, raw) BY <1>9, <1>10, <1>11, <1>8 DEF OnlyListed, LeftBehind, rows, NextOut
<1>13. Derived(g, raw) /\ Leftover(g, raw) BY <1>2, <1>4, <1>10, <1>12, NextFolder
<1>14. FolderOk(g, raw, ids, snapshot) BY <1>9, <1>10, <1>11, <1>13 DEF FolderOk
<1>15. RunOk(run', "write", ids, snapshot) /\ run'.config = c /\ run'.out = k
  <2>1. "write" \in Pcs \ {"idle", "repair", "round", "fetch", "record"} /\ pc \notin {"idle", "repair", "round", "fetch", "record"}
    BY <1>1 DEF Pcs
  <2> QED BY <1>1, <1>2, <1>9, <2>1, InvParts, RunBuilds DEF c
<1>16. disk' = [disk EXCEPT !["final"] = g] BY <1>1, <1>15 DEF g, f
<1>17. DisksOk(disk', raw, ids, snapshot) BY <1>2, <1>13, <1>14, <1>16, DisksPut DEF Slots
<1>19. WritingNext(disk', run'.out, c, raw)
  BY <1>4, <1>12, <1>15, <1>2, <1>16, SlotsPut DEF WritingNext, Slots
<1>20. StageOk(pc', run', disk', raw, run'.config) BY <1>1, <1>4, <1>15, <1>19, StageIs, ZenonT(60)
<1> QED BY <1>1, <1>15, <1>17, <1>20, InvParts, InvFrom

\* A build of one raw shard after another that stops serves the budget or has seen them all.
LEMMA ClosedLemma ==
    ASSUME Inv, pc = "write", ~Whole, ~MoreToWrite
    PROVE  /\ disk["final"].manifest = run.out /\ disk["final"].there
           /\ BuiltIn(disk["final"], run.config, raw) \/ ServesIn(disk["final"], run.config, raw)
           /\ Sound(disk["final"], run.config, raw)
<1> DEFINE c == run.config
           m == run.out
           f == disk["final"]
           n == Len(m.covered)
<1>1. /\ c \in Config /\ ~WholeSource[c] /\ raw \in RawFolder /\ raw.hash = RawHash[c] /\ raw.shards # <<>>
      /\ f \in Folder /\ FolderOk(f, raw, ids, snapshot) /\ m \in Manifest
      /\ NextOut(f, m, c, raw)
  BY WritingNextParts
<1>2. ~(n < Len(raw.shards) /\ ProcessedRows(m) < Sufficient[c]) BY DEF MoreToWrite, ShardPending
<1>3. n \in Nat /\ Len(raw.shards) \in Nat /\ Len(raw.shards) # 0 /\ Rows(raw.shards) \in Seq(Nat)
      /\ Len(Rows(raw.shards)) = Len(raw.shards) /\ m.covered \in Seq(Nat)
  BY <1>1, RawFields, ManifestFields
<1>4. m.hash = Hash[c] /\ IsPrefix(m.covered, Rows(raw.shards)) BY <1>1 DEF NextOut
<1>5. Sufficient[c] \in Nat \ {0} BY <1>1, ConfigLemma
<1> HIDE DEF c
<1>6. f.manifest = m
  <2> SUFFICES ASSUME f.manifest # m PROVE FALSE OBVIOUS
  <2>2. m.covered = <<>> /\ m.shards = <<>> BY <1>1 DEF NoManifest, NextOut
  <2> HIDE DEF m
  <2>3. n = 0 BY <2>2
  <2> HIDE DEF n
  <2>6. ProcessedRows(m) < Sufficient[c] BY <1>5, <2>2, ContentOfNone, FS_EmptySet, SMTT(30), Z3T(30) DEF ProcessedRows
  <2> QED BY <1>2, <2>6, <1>3, <2>3
<1>8. Sound(f, c, raw) /\ HealthyIn(f, c, raw) BY <1>1, <1>6, NextSound
<1> HIDE DEF m, f
<1>9. BuiltIn(f, c, raw) \/ ServesIn(f, c, raw)
  <2>1. CASE ~(n < Len(raw.shards)) BY <1>3, <2>1, <1>4, WholePrefix, <1>6 DEF n, BuiltIn
  <2>2. CASE n < Len(raw.shards)
    <3>4. ProcessedRows(m) \in Nat BY <1>1, <1>6, ContentFinite, <1>4, Hashed DEF FolderOk
    <3> DEFINE p == ProcessedRows(m)
    <3> HIDE DEF p
    <3> QED BY <1>8, <1>6, <3>4, <1>5, <1>2, <2>2 DEF ServesIn, p, KeptRows
  <2> QED BY <2>1, <2>2
<1> QED BY <1>6, <1>8, <1>9, <1>1, NextThere DEF c, m, f

\* A build of one raw shard after another ends.
LEMMA CloseBuildKeeps == Inv /\ CloseBuild => Inv'
<1> SUFFICES ASSUME Inv, CloseBuild PROVE Inv' OBVIOUS
<1> DEFINE c == run.config
           f == disk["final"]
           m == run.out
           g == [f EXCEPT !.manifest = Completed(f.manifest)]
           k == IdsAfter(f.manifest)
<1>1. pc = "write" /\ ~Whole /\ ~MoreToWrite /\ pc' = "review" /\ UNCHANGED <<raw, snapshot, run>>
      /\ disk' = [disk EXCEPT !["final"].manifest = Completed(m)] /\ ids' = IdsAfter(m)
  BY DEF CloseBuild, Goto
<1>2. /\ c \in Config /\ raw \in RawFolder /\ raw.hash = RawHash[c]
      /\ FolderOk(f, raw, ids, snapshot) /\ NextOut(f, m, c, raw) /\ m \in Manifest /\ GenOk(m, ids, snapshot)
      /\ Free(disk["temporary"]) /\ Free(disk["backup"])
  BY <1>1, WritingNextParts
<1>3. f.manifest = m /\ Sound(f, c, raw) /\ (BuiltIn(f, c, raw) \/ ServesIn(f, c, raw)) BY <1>1, ClosedLemma
<1>4. IdsOk(ids, snapshot) /\ ids \in Nat /\ DisksOk(disk, raw, ids, snapshot) /\ disk \in [Slots -> Folder]
      /\ Leftover(f, raw)
  BY InvParts, DisksAre
<1>5. disk' = [disk EXCEPT !["final"] = g] /\ ids' = k BY <1>1, <1>3
<1>6. f.manifest.hash # 0 /\ f.manifest \in Manifest /\ GenOk(f.manifest, ids, snapshot)
  BY <1>2, ConfigLemma, <1>3 DEF NextOut
<1>7. k \in Nat /\ ids <= k /\ IdsOk(k, snapshot) /\ Completed(f.manifest).complete
  BY <1>4, <1>6, CompletedLemma
<1>8. Alike(f, g) /\ g.manifest = Completed(f.manifest) /\ FolderOk(g, raw, k, snapshot)
  BY <1>2, <1>4, <1>6, FolderCompleted
<1> HIDE DEF g, k, f
<1>9. Leftover(g, raw) /\ Sound(g, c, raw) /\ (BuiltIn(g, c, raw) \/ ServesIn(g, c, raw))
  BY <1>3, <1>4, <1>8, AlikeLemma
<1>10. DisksOk(disk, raw, k, snapshot) BY <1>4, <1>7, DisksGrow
<1>11. DisksOk(disk', raw, k, snapshot) BY <1>5, <1>8, <1>9, <1>10, DisksPut DEF Slots
<1>12. disk'["final"] = g /\ disk'["temporary"] = disk["temporary"] /\ disk'["backup"] = disk["backup"]
  BY <1>4, <1>5, SlotsPut DEF Slots
<1>13. Reviewing(disk', c, raw) BY <1>2, <1>7, <1>8, <1>9, <1>12 DEF Reviewing, Settled
<1>14. RunOk(run, "review", k, snapshot)
  <2>1. RunOk(run, "review", ids, snapshot) BY <1>1, RunGoesOn DEF Onward
  <2> QED BY <1>4, <1>7, <2>1, RunGrows
<1>15. StageOk("review", run, disk', raw, c) BY <1>13, StageIs
<1> QED BY <1>1, <1>5, <1>7, <1>11, <1>14, <1>15, InvParts, InvFrom

\* A whole-source build that has nothing left to write is whole.
LEMMA SaveTemporaryKeeps == Inv /\ SaveTemporary => Inv'
<1> SUFFICES ASSUME Inv, SaveTemporary PROVE Inv' OBVIOUS
<1> DEFINE c == run.config
           m == run.out
           f == disk["temporary"]
           rows == Rows(raw.shards)
           k == [m EXCEPT !.covered = rows]
           g == [f EXCEPT !.manifest = k]
<1>1. pc = "write" /\ Whole /\ ToWrite = {} /\ UNCHANGED <<raw, snapshot, ids>> /\ pc' = "complete"
      /\ run' = [run EXCEPT !.out = k] /\ disk' = [disk EXCEPT !["temporary"].manifest = run'.out] /\ WholeSource[c]
  BY DEF SaveTemporary, Goto, MoreToWrite, Whole
<1>2. c \in Config /\ raw \in RawFolder /\ ids \in Nat /\ ids <= ids /\ f \in Folder /\ FolderOk(f, raw, ids, snapshot)
      /\ m \in Manifest /\ GenOk(m, ids, snapshot) /\ disk \in [Slots -> Folder] /\ DisksOk(disk, raw, ids, snapshot)
  BY <1>1, InvParts, RunFields, DisksAre
<1>3. WritingWhole(disk, m, c, raw) BY <1>1, InvParts, StageIs
<1>4. Aside(disk, c, raw) /\ WholeOut(f, m, c, raw) /\ raw.hash = RawHash[c] BY <1>3 DEF WritingWhole, Aside
<1>5. Unwritten(c, m.shards, raw) = {} BY <1>1, <1>2, ToWriteWhole
<1>6. rows \in Seq(Nat) /\ Len(rows) = Len(raw.shards) BY <1>2, RawFields
<1> HIDE DEF rows
<1>7. /\ k \in Manifest /\ k.covered = rows /\ k.hash = m.hash /\ k.shards = m.shards
      /\ k.gen = m.gen /\ GenOk(k, ids, snapshot)
  BY <1>2, <1>6, ManifestWith
<1> HIDE DEF k
<1>8. g \in Folder /\ g.manifest = k /\ g.there = f.there /\ g.files = f.files BY <1>2, <1>7, FolderWith
<1> HIDE DEF c, m
<1>9. /\ m.hash = Hash[c] /\ Apart(m.shards)
      /\ Written(f.files, m.shards)
      /\ Content(m.shards) \subseteq Keeps[c] \intersect DocsIn(raw.shards, Len(raw.shards))
      /\ OnlyListed(f.files, m.shards) /\ f.there
  BY <1>4 DEF WholeOut
<1> HIDE DEF g
<1>11. Derived(g, raw)
  <2>2. IsPrefix(k.covered, Rows(raw.shards)) /\ Len(k.covered) = Len(raw.shards)
    BY <1>6, <1>7, PrefixSelf DEF rows
  <2>4. Describes(k, raw) BY <1>7, <1>9, <2>2, <1>2, <1>4, <1>5 DEF Describes, Filtered, c, Unwritten
  <2> QED BY <1>8, <2>4, <1>7, <1>9 DEF Derived, Written
<1>12. FolderOk(g, raw, ids, snapshot) BY <1>7, <1>8, <1>9, <1>11 DEF FolderOk
<1>13. WholeFor(g, c, raw)
  <2>2. Unlisted(g) = {} BY <1>7, <1>8, <1>9 DEF Unlisted, IsListed, OnlyListed
  <2>3. AllOf(raw).gone = FALSE /\ AllOf(raw).rows = rows BY DEF AllOf, Kept, rows
  <2> QED BY <1>8, <1>9, <1>7, <2>2, <2>3 DEF WholeFor, IsWhole, ListedMissing, Written
<1>14. RunOk(run', "complete", ids, snapshot) /\ run'.config = c /\ run'.out = k
  <2>1. "complete" \in Pcs \ {"idle", "repair", "round", "fetch", "record"} /\ pc \notin {"idle", "repair", "round", "fetch", "record"}
    BY <1>1 DEF Pcs
  <2> QED BY <1>1, <1>2, <1>7, <2>1, InvParts, RunBuilds DEF c
<1>15. disk' = [disk EXCEPT !["temporary"] = g] BY <1>1, <1>14 DEF g
<1>16. DisksOk(disk', raw, ids, snapshot) BY <1>2, <1>12, <1>15, DisksPut DEF Slots
<1>18. Completing(disk', c, raw) BY <1>4, <1>13, <1>2, <1>15, SlotsPut DEF Completing, Aside, Slots
<1>19. StageOk("complete", run', disk', raw, c) BY <1>18, StageIs
<1> QED BY <1>1, <1>14, <1>16, <1>19, InvParts, InvFrom

\* The temporary is completed.
LEMMA CompleteTemporaryKeeps == Inv /\ CompleteTemporary => Inv'
<1> SUFFICES ASSUME Inv, CompleteTemporary PROVE Inv' OBVIOUS
<1> DEFINE c == run.config
           f == disk["temporary"]
           g == [f EXCEPT !.manifest = Completed(f.manifest)]
           k == IdsAfter(f.manifest)
<1>1. pc = "complete" /\ UNCHANGED <<raw, snapshot, run>>
      /\ pc' = (IF disk["final"].there THEN "step aside" ELSE "place")
      /\ disk' = [disk EXCEPT !["temporary"] = g] /\ ids' = k
  BY DEF CompleteTemporary, Goto
<1>2. c \in Config /\ FolderOk(f, raw, ids, snapshot) /\ IdsOk(ids, snapshot) /\ ids \in Nat
      /\ DisksOk(disk, raw, ids, snapshot) /\ disk \in [Slots -> Folder] /\ f.manifest \in Manifest
      /\ GenOk(f.manifest, ids, snapshot)
  BY <1>1, InvParts, DisksAre, FolderParts, FolderFields
<1>3. Completing(disk, c, raw) BY <1>1, InvParts, StageIs
<1>4. raw.hash = RawHash[c] /\ WholeSource[c] /\ WholeFor(f, c, raw) /\ Free(disk["backup"])
  BY <1>3 DEF Completing, Aside
<1>5. f.manifest.hash # 0 BY <1>2, <1>4, ConfigLemma DEF WholeFor, IsWhole
<1>6. k \in Nat /\ ids <= k /\ IdsOk(k, snapshot) /\ Completed(f.manifest).complete BY <1>2, CompletedLemma
<1>7. Alike(f, g) /\ g.manifest = Completed(f.manifest) /\ FolderOk(g, raw, k, snapshot)
  BY <1>2, <1>5, FolderCompleted
<1> HIDE DEF g, k, f
<1>8. WholeFor(g, c, raw) /\ g.manifest.complete
  <2>2. g.there = f.there BY <1>7 DEF Alike
  <2> QED BY <1>4, <1>6, <1>7, <2>2, AlikeLemma DEF WholeFor
<1>9. DisksOk(disk, raw, k, snapshot) BY <1>2, <1>6, DisksGrow
<1>10. DisksOk(disk', raw, k, snapshot) BY <1>1, <1>7, <1>9, DisksPut DEF Slots
<1>11. disk'["temporary"] = g /\ disk'["final"] = disk["final"] /\ disk'["backup"] = disk["backup"]
  BY <1>1, <1>2, SlotsPut DEF Slots
<1>12. Swapping(disk', c, raw) BY <1>4, <1>8, <1>11 DEF Swapping
<1>13. ASSUME NEW l \in {"step aside", "place"} PROVE RunOk(run, l, k, snapshot)
  <2>1. l \in Pcs /\ l # "idle" /\ ~(l \in {"repair", "round"}) /\ ~(l \in {"fetch", "record"}) /\ pc # "idle"
    BY <1>1 DEF Pcs
  <2>2. RunOk(run, l, ids, snapshot) BY <2>1, InvParts, RunMoves
  <2> QED BY <1>2, <1>6, <2>2, RunGrows
<1>14. CASE disk["final"].there
  <2>1. Parking(disk', c, raw) /\ pc' = "step aside" BY <1>1, <1>4, <1>11, <1>12, <1>14 DEF Parking
  <2>2. StageOk(pc', run, disk', raw, c) BY <2>1, StageIs
  <2> QED BY <1>1, <1>6, <1>10, <1>13, <2>1, <2>2, InvParts, InvFrom
<1>15. CASE ~disk["final"].there
  <2>1. Placing(disk', c, raw) /\ pc' = "place" BY <1>1, <1>11, <1>12, <1>15 DEF Placing, Free
  <2>2. StageOk(pc', run, disk', raw, c) BY <2>1, StageIs
  <2> QED BY <1>1, <1>6, <1>10, <1>13, <2>1, <2>2, InvParts, InvFrom
<1> QED BY <1>14, <1>15

-----------------------------------------------------------------------------
(* The swap keeps the invariant.                                           *)

\* The final folder is marked.
LEMMA MarkFinalKeeps == Inv /\ MarkFinal => Inv'
<1> SUFFICES ASSUME Inv, MarkFinal PROVE Inv' OBVIOUS
<1> DEFINE c == run.config
           f == disk["final"]
           b == disk["temporary"].owner.build
           g == [f EXCEPT !.owner = [role |-> "backup", build |-> b]]
<1>1. pc = "step aside" /\ UNCHANGED <<raw, snapshot, run, ids>> /\ pc' = "park" /\ disk' = [disk EXCEPT !["final"] = g]
  BY DEF MarkFinal, Goto
<1>2. f \in Folder /\ FolderOk(f, raw, ids, snapshot) /\ Leftover(f, raw) /\ disk["temporary"] \in Folder
      /\ DisksOk(disk, raw, ids, snapshot) /\ disk \in [Slots -> Folder]
  BY InvParts, DisksAre
<1>3. Parking(disk, c, raw) BY <1>1, InvParts, StageIs
<1>4. b \in Nat BY <1>2, FolderFields
<1> HIDE DEF b
<1>5. g \in Folder /\ g.there = f.there /\ g.manifest = f.manifest /\ g.files = f.files
  BY <1>2, <1>4 DEF Folder
<1> HIDE DEF g
<1> HIDE DEF f
<1>7. Derived(g, raw) /\ Leftover(g, raw) BY <1>2, AlikeLemma, <1>5 DEF FolderOk, Alike
<1>8. f.there BY <1>3 DEF Parking, f
<1>9. FolderOk(g, raw, ids, snapshot) BY <1>2, <1>5, <1>7, <1>8 DEF FolderOk
<1>10. DisksOk(disk', raw, ids, snapshot) BY <1>1, <1>2, <1>7, <1>9, DisksPut DEF Slots
<1>11. disk'["final"] = g /\ disk'["temporary"] = disk["temporary"] /\ disk'["backup"] = disk["backup"]
  BY <1>1, <1>2, SlotsPut DEF Slots
<1>12. Parking(disk', c, raw) BY <1>3, <1>5, <1>8, <1>11 DEF Parking, Swapping
<1>13. RunOk(run, "park", ids, snapshot) BY <1>1, RunGoesOn DEF Onward
<1>14. StageOk("park", run, disk', raw, c) BY <1>12, StageIs
<1> QED BY <1>1, <1>10, <1>13, <1>14, InvParts, InvFrom

\* One folder takes the place of another.
Moved(d, s, t) == [d EXCEPT ![t] = d[s], ![s] = Absent]

\* A folder is moved.
LEMMA MovedOk ==
    ASSUME NEW d, NEW r, NEW n \in Nat, NEW snap, DisksOk(d, r, n, snap), NEW s \in Slots, NEW t \in Slots, s # t,
           t = "final" => Leftover(d[s], r)
    PROVE  /\ DisksOk(Moved(d, s, t), r, n, snap)
           /\ Moved(d, s, t)[t] = d[s]
           /\ Moved(d, s, t)[s] = Absent
           /\ \A u \in Slots : u \notin {s, t} => Moved(d, s, t)[u] = d[u]
<1> DEFINE put == [d EXCEPT ![t] = d[s]]
           e == Moved(d, s, t)
<1>1. FolderOk(d[s], r, n, snap) /\ d \in [Slots -> Folder] BY DisksAre
<1>2. DisksOk(put, r, n, snap) BY <1>1, DisksPut
<1>3. put[t] = d[s] /\ \A u \in Slots : u # t => put[u] = d[u] BY <1>1, SlotsPut
<1>4. e = [put EXCEPT ![s] = Absent] BY DEF Moved
<1> HIDE DEF put, e
<1>5. DisksOk(e, r, n, snap) /\ put \in [Slots -> Folder] BY <1>2, <1>4, AbsentOk, DisksPut, DisksAre
<1>7. e[t] = d[s] /\ e[s] = Absent /\ \A u \in Slots : u \notin {s, t} => e[u] = d[u]
  BY <1>3, <1>4, <1>5, SlotsPut
<1> QED BY <1>5, <1>7 DEF e

\* The same of the disk.
LEMMA DiskMoved ==
    ASSUME DisksOk(disk, raw, ids, snapshot), ids \in Nat, NEW s \in Slots, NEW t \in Slots, s # t,
           t = "final" => Leftover(disk[s], raw)
    PROVE  /\ DisksOk(Moved(disk, s, t), raw, ids, snapshot)
           /\ Moved(disk, s, t)[t] = disk[s]
           /\ Moved(disk, s, t)[s] = Absent
           /\ \A u \in Slots : u \notin {s, t} => Moved(disk, s, t)[u] = disk[u]
<1>3. ASSUME NEW u \in Slots, u \notin {s, t} PROVE Moved(disk, s, t)[u] = disk[u] BY <1>3, MovedOk
<1> QED BY <1>3, MovedOk

\* The final folder is moved to the backup.
LEMMA ParkedOk ==
    ASSUME DisksOk(disk, raw, ids, snapshot), ids \in Nat
    PROVE  LET e == Moved(disk, "final", "backup") IN
           DisksOk(e, raw, ids, snapshot) /\ e["final"] = Absent /\ e["temporary"] = disk["temporary"]
<1> HIDE DEF Slots
<1> QED BY DiskMoved DEF Slots

\* The temporary is moved to the final folder.
LEMMA PlacedOk ==
    ASSUME DisksOk(disk, raw, ids, snapshot), ids \in Nat, Leftover(disk["temporary"], raw)
    PROVE  LET e == Moved(disk, "temporary", "final") IN
           /\ DisksOk(e, raw, ids, snapshot) /\ e["temporary"] = Absent
           /\ e["final"] = disk["temporary"] /\ e["backup"] = disk["backup"]
<1> QED BY DiskMoved DEF Slots

\* The final folder steps aside.
LEMMA ParkFinalKeeps == Inv /\ ParkFinal => Inv'
<1> SUFFICES ASSUME Inv, ParkFinal PROVE Inv' OBVIOUS
<1> DEFINE c == run.config
           e == Moved(disk, "final", "backup")
<1>1. pc = "park" /\ UNCHANGED <<raw, snapshot, run, ids>> /\ pc' = "place" /\ disk' = e
  BY DEF ParkFinal, Goto, Moved
<1>3. Parking(disk, c, raw) BY <1>1, InvParts, StageIs
<1>4. "backup" \in Slots /\ "final" \in Slots /\ "temporary" \in Slots /\ "backup" # "final"
      /\ "temporary" \notin {"final", "backup"}
  BY DEF Slots
<1>5. DisksOk(e, raw, ids, snapshot) /\ e["final"] = Absent /\ e["temporary"] = disk["temporary"]
  BY ParkedOk, InvParts
<1> HIDE DEF e
<1>6. Placing(disk', c, raw) BY <1>1, <1>3, <1>5, NothingFields DEF Parking, Placing, Swapping, Free
<1>7. RunOk(run, "place", ids, snapshot) BY <1>1, RunGoesOn DEF Onward
<1>8. StageOk("place", run, disk', raw, c) BY <1>6, StageIs
<1> QED BY <1>1, <1>5, <1>7, <1>8, InvParts, InvFrom

\* A folder that was just built is reviewed.
LEMMA BuiltReview ==
    ASSUME NEW d \in [Slots -> Folder], NEW c \in Config, NEW r, r.hash = RawHash[c], Free(d["temporary"]), Free(d["backup"]),
           WholeFor(d["final"], c, r), d["final"].manifest.complete
    PROVE  Reviewing(d, c, r)
<1>2. IsWhole(d["final"], c, AllOf(r)) BY DEF WholeFor
<1>4. BuiltIn(d["final"], c, r) BY <1>2 DEF IsWhole, BuiltIn, AllOf, Kept
<1> QED BY <1>4, <1>2, WholeIsSound DEF Reviewing, Settled, Sound, Slots

\* The temporary takes its place.
LEMMA PlaceTemporaryKeeps == Inv /\ PlaceTemporary => Inv'
<1> SUFFICES ASSUME Inv, PlaceTemporary PROVE Inv' OBVIOUS
<1> DEFINE c == run.config
           e == Moved(disk, "temporary", "final")
<1>1. pc = "place" /\ UNCHANGED <<raw, snapshot, run, ids>> /\ disk' = e
      /\ pc' = (IF disk["backup"].there THEN "discard" ELSE "review")
  BY DEF PlaceTemporary, Goto, Moved
<1>2. DisksOk(disk, raw, ids, snapshot) /\ ids \in Nat /\ c \in Config BY <1>1, InvParts
<1>3. Placing(disk, c, raw) BY <1>1, InvParts, StageIs
<1>4. raw.hash = RawHash[c] /\ WholeSource[c] /\ WholeFor(disk["temporary"], c, raw) /\ disk["temporary"].manifest.complete
  BY <1>3 DEF Placing, Swapping
<1>7. /\ DisksOk(e, raw, ids, snapshot) /\ e["temporary"] = Absent
      /\ e["final"] = disk["temporary"] /\ e["backup"] = disk["backup"]
  BY <1>2, PlacedOk, <1>4, WholeFolder DEF WholeFor
<1> HIDE DEF e
<1>8. e["backup"] = disk["backup"] /\ e \in [Slots -> Folder] /\ Free(e["temporary"])
  BY <1>7, DisksAre, NothingFields DEF Free, Slots
<1>9. WholeFor(e["final"], c, raw) /\ e["final"].manifest.complete BY <1>4, <1>7
<1>10. CASE disk["backup"].there
  <2>1. Discarding(disk', c, raw) /\ pc' = "discard" BY <1>1, <1>4, <1>8, <1>9, <1>10 DEF Discarding
  <2>2. RunOk(run, "discard", ids, snapshot) BY <1>1, RunGoesOn DEF Onward
  <2>3. StageOk("discard", run, disk', raw, c) BY <2>1, StageIs
  <2> QED BY <1>1, <1>7, <2>1, <2>2, <2>3, InvParts, InvFrom
<1>11. CASE ~disk["backup"].there
  <2>1. Reviewing(e, c, raw) BY <1>2, <1>4, <1>8, <1>9, <1>11, BuiltReview DEF Free
  <2>2. RunOk(run, "review", ids, snapshot) /\ pc' = "review" BY <1>1, <1>11, RunGoesOn DEF Onward
  <2>3. StageOk("review", run, disk', raw, c) BY <1>1, <2>1, StageIs
  <2> QED BY <1>1, <1>7, <2>2, <2>3, InvParts, InvFrom
<1> QED BY <1>10, <1>11

\* The backup is deleted.
LEMMA DiscardBackupKeeps == Inv /\ DiscardBackup => Inv'
<1> SUFFICES ASSUME Inv, DiscardBackup PROVE Inv' OBVIOUS
<1> DEFINE c == run.config
           e == [disk EXCEPT !["backup"] = Absent]
<1>1. pc = "discard" /\ UNCHANGED <<raw, snapshot, run, ids>> /\ disk' = e /\ pc' = "review"
  BY DEF DiscardBackup, Goto
<1>2. DisksOk(disk, raw, ids, snapshot) /\ ids \in Nat /\ c \in Config /\ disk \in [Slots -> Folder]
  BY <1>1, InvParts
<1>3. Discarding(disk, c, raw) BY <1>1, InvParts, StageIs
<1>4. DisksOk(e, raw, ids, snapshot) BY <1>2, AbsentOk, DisksPut DEF Slots
<1>5. e["backup"] = Absent /\ e["final"] = disk["final"] /\ e["temporary"] = disk["temporary"]
  BY <1>2, SlotsPut DEF Slots
<1> HIDE DEF e
<1>6. e \in [Slots -> Folder] /\ Free(e["temporary"]) /\ Free(e["backup"]) /\ raw.hash = RawHash[c]
      /\ WholeFor(e["final"], c, raw) /\ e["final"].manifest.complete
  BY <1>3, <1>4, <1>5, DisksAre, NothingFields DEF Discarding, Free
<1>7. Reviewing(e, c, raw) BY <1>2, <1>6, BuiltReview
<1>8. RunOk(run, "review", ids, snapshot) BY <1>1, RunGoesOn DEF Onward
<1>9. StageOk("review", run, disk', raw, c) BY <1>1, <1>7, StageIs
<1> QED BY <1>1, <1>4, <1>8, <1>9, InvParts, InvFrom

\* Its deletion is cut off.
LEMMA DiscardInterruptedKeeps == Inv /\ DiscardInterrupted => Inv'
<1> SUFFICES ASSUME Inv, DiscardInterrupted PROVE Inv' OBVIOUS
<1>2. PICK f \in Torn(disk["backup"]) : disk' = [disk EXCEPT !["backup"] = f] BY DEF DiscardInterrupted
<1>4. FolderOk(f, raw, ids, snapshot) BY InvParts, TornOk, DisksAre
<1>5. DisksOk(disk', raw, ids, snapshot) BY <1>2, <1>4, InvParts, DisksPut DEF Slots
<1> QED BY <1>5, InvParts, InvFrom, StoppedOk DEF DiscardInterrupted, Stopped

-----------------------------------------------------------------------------
(* The invariant is inductive.                                             *)

\* The invariant holds initially.
LEMMA InitHolds == Init => Inv
<1> SUFFICES ASSUME Init PROVE Inv OBVIOUS
<1>1. disk = [f \in Slots |-> Absent] /\ raw = NoRaw /\ snapshot = [c \in Config |-> [gen |-> 0, shards |-> <<>>]]
      /\ pc = "idle" /\ run = NoRun /\ ids = 0
  BY DEF Init, Slots
<1>4. ids \in Nat BY <1>1
<1>6. DisksOk(disk, raw, ids, snapshot) BY <1>1, <1>4, AbsentOk DEF Slots, DisksOk
<1> QED BY <1>6, <1>1, NothingFields, <1>4, StoppedOk DEF Inv, RawOk, NoRaw, IdsOk

\* Every step keeps it.
LEMMA StepKeeps == Inv /\ [Next]_vars => Inv'
<1> SUFFICES ASSUME Inv, [Next]_vars PROVE Inv' OBVIOUS
<1>1. CASE \E c \in Config, yes \in BOOLEAN : Prepare(c, yes) BY <1>1, PrepareKeeps
<1>2. CASE DeleteFolder \/ DeleteRaw \/ SwapIn \/ TruncateRaw \/ Repaired
  BY <1>2, DeleteFolderKeeps, DeleteRawKeeps, SwapInKeeps, TruncateRawKeeps, RepairedKeeps
<1>3. CASE StartDownload \/ StartBuild \/ EndRound BY <1>3, StartDownloadKeeps, StartBuildKeeps, EndRoundKeeps
<1>4. CASE WriteRawShard \/ RecordRawShard \/ FinishDownload \/ BuildWhenDownloaded
  BY <1>4, WriteRawShardKeeps, RecordRawShardKeeps, FinishDownloadKeeps, BuildWhenDownloadedKeeps
<1>5. CASE CompleteBuilt \/ CreateTemporary \/ MarkTemporary \/ ResumeBuild
  BY <1>5, CompleteBuiltKeeps, CreateTemporaryKeeps, MarkTemporaryKeeps, ResumeBuildKeeps
<1>6. CASE BeginGeneration \/ PublishShard \/ SkipEmptyShard
  BY <1>6, BeginWholeKeeps, BeginNextKeeps, PublishWholeKeeps, PublishNextKeeps, SkipEmptyShardKeeps
<1>7. CASE CoverShard \/ CloseBuild \/ SaveTemporary \/ CompleteTemporary
  BY <1>7, CoverShardKeeps, CloseBuildKeeps, SaveTemporaryKeeps, CompleteTemporaryKeeps
<1>8. CASE MarkFinal \/ ParkFinal \/ PlaceTemporary \/ DiscardBackup \/ Finish
  BY <1>8, MarkFinalKeeps, ParkFinalKeeps, PlaceTemporaryKeeps, DiscardBackupKeeps, FinishKeeps
<1>9. CASE Interruption
  BY <1>9, DeleteInterruptedKeeps, DeleteRawInterruptedKeeps, TruncateInterruptedKeeps, DiscardInterruptedKeeps,
     CrashKeeps DEF Interruption
<1>10. CASE Fault BY <1>10, LoseRawFileKeeps, LoseFinalFileKeeps DEF Fault
<1>11. CASE UNCHANGED vars BY <1>11, InvParts, InvFrom DEF vars
<1>12. NoMoreRuns => UNCHANGED vars BY DEF NoMoreRuns
<1> QED BY <1>1, <1>2, <1>3, <1>4, <1>5, <1>6, <1>7, <1>8, <1>9, <1>10, <1>11, <1>12 DEF Next, PrepareStep

\* The inductive invariant of a source's folders, over any number of runs,
\* crashes and lost files: where a run is decides what its folders are good for.
THEOREM Invariance == Spec => []Inv
BY InitHolds, StepKeeps, PTL DEF Spec

-----------------------------------------------------------------------------
(* What follows from it.                                                   *)

\* It says what the folders hold.
LEMMA DerivedHolds == Inv => DerivedMatchesRaw
<1> SUFFICES ASSUME Inv, disk["final"].manifest # NoManifest
             PROVE  LET f == disk["final"]
                        m == f.manifest
                    IN /\ IsPrefix(m.covered, Rows(raw.shards))
                       /\ \E c \in Config :
                            /\ m.hash = Hash[c] /\ raw.hash = RawHash[c]
                            /\ Content(m.shards) = Keeps[c] \intersect DocsOf(Len(m.covered))
                       /\ \A i, j \in DOMAIN m.shards : i # j => m.shards[i] \intersect m.shards[j] = {}
                       /\ \A g \in f.files : IsListed(f, g.i) => g.docs = m.shards[g.i]
  BY DEF DerivedMatchesRaw
<1> DEFINE f == disk["final"]
           m == f.manifest
<1>2. Describes(m, raw) /\ Readable(f.files, m.shards) BY InvParts, DisksAre DEF Derived, FolderOk
<1>4. \A g \in f.files : IsListed(f, g.i) => g.docs = m.shards[g.i] BY <1>2 DEF Readable, IsListed
<1> QED BY <1>2, <1>4 DEF Describes, Filtered, DocsOf, DocsIn, Apart

\* Derived data never outlives the raw data it was made from (repair.py,
\* perform_repairs).
THEOREM Derivation == Spec => []DerivedMatchesRaw
BY Invariance, DerivedHolds, PTL

\* It says what generations stand for.
LEMMA AttestsHolds == Inv => SnapshotAttests
<1> SUFFICES ASSUME Inv PROVE SnapshotAttests OBVIOUS
<1> QED BY InvParts, DisksAre DEF GenOk, SnapshotAttests, FolderOk

\* A snapshot attests one output (Manifest.begin_generation).
THEOREM Attestation == Spec => []SnapshotAttests
BY Invariance, AttestsHolds, PTL

\* What is known when the rounds are over.
LEMMA FinishParts ==
    ASSUME Inv, pc = "finish"
    PROVE  /\ run.config \in Config /\ raw \in RawFolder
           /\ FolderOk(disk["final"], raw, ids, snapshot)
           /\ Sound(disk["final"], run.config, raw)
           /\ raw.hash \in {0, RawHash[run.config]}
           /\ raw.hash # 0 =>
                /\ BuiltIn(disk["final"], run.config, raw) \/ ServesIn(disk["final"], run.config, raw)
                /\ disk["final"].manifest.complete
           /\ \/ SatisfiedIn(disk["final"], run.config, raw)
              \/ ToFetch(disk["final"], run.config, raw) = 0
              \/ run.rounds = MaxRounds
<1>1. Finishing(disk, run.config, raw, run.rounds) BY InvParts, StageIs
<1> QED BY <1>1, InvParts, DisksAre DEF Finishing, Reviewing, Settled

\* A source that satisfies its config lists some shard.
LEMMA SatisfiedRows ==
    ASSUME NEW f, NEW c \in Config, NEW r, SatisfiedIn(f, c, r), f \in Folder, r \in RawFolder, Derived(f, r)
    PROVE  f.manifest.hash = Hash[c] /\ f.manifest.shards # <<>> /\ r.hash # 0
<1>1. Sufficient[c] \in Nat \ {0} /\ KeptRows(f, c, r) \in Nat /\ RawHash[c] # 0
  BY ConfigLemma, KeptRowsNumber
<1>2. HealthyIn(f, c, r) /\ KeptRows(f, c, r) # 0 BY <1>1, BuiltIsHealthy DEF ServesIn, SatisfiedIn
<1>3. f.manifest.shards # <<>>
  <2> SUFFICES ASSUME f.manifest.shards = <<>> PROVE FALSE OBVIOUS
  <2> QED BY <1>2, FS_EmptySet, ContentOfNone DEF KeptRows, ProcessedRows
<1> QED BY <1>1, <1>3, <1>2 DEF SatisfiedIn, HealthyIn

\* A source that satisfies its config can be published.
LEMMA PublishableHolds == Inv => SatisfiedIsPublishable
<1> SUFFICES ASSUME Inv, pc = "finish", Satisfied(run.config)
             PROVE  LET f == disk["final"] IN
                    /\ f.manifest.complete /\ f.manifest.gen # 0
                    /\ ListedMissing(f) = {}
                    /\ Unlisted(f) = {} \/ CrashLeftover(f, Kept(FALSE, Rows(raw.shards)))
  BY DEF SatisfiedIsPublishable
<1> DEFINE f == disk["final"]
           c == run.config
<1>1. c \in Config /\ raw \in RawFolder /\ FolderOk(f, raw, ids, snapshot) /\ Sound(f, c, raw) BY FinishParts
<1>2. f \in Folder /\ Derived(f, raw) /\ GenOk(f.manifest, ids, snapshot) BY <1>1, FolderParts
<1>4. f.manifest.hash = Hash[c] /\ f.manifest.shards # <<>> /\ raw.hash # 0
  BY <1>1, <1>2, SatisfiedRows, Counted
<1>5. f.manifest.complete BY <1>4, FinishParts
<1>6. f.manifest.gen # 0 BY <1>2, <1>4 DEF GenOk
<1>7. f.manifest # NoManifest BY <1>1, <1>4, Hashed
<1>8. ~NeedsRebuild(f, c, Kept(FALSE, Rows(raw.shards))) BY <1>1 DEF Sound, AllOf
<1>9. /\ ListedMissing(f) = {}
      /\ Unlisted(f) = {} \/ CrashLeftover(f, Kept(FALSE, Rows(raw.shards)))
  BY <1>7, <1>8 DEF NeedsRebuild
<1> QED BY <1>5, <1>6, <1>9

\* A run that ends satisfied publishes a complete generation, of which no file
\* is missing (snapshot.py, _constituents).
THEOREM Publication == Spec => []SatisfiedIsPublishable
BY Invariance, PublishableHolds, PTL

\* When nothing is to be fetched the source is served.
LEMMA ServedHolds == Inv => FinishedIsServed
<1> SUFFICES ASSUME Inv, pc = "finish"
             PROVE  Satisfied(run.config) \/ HealthyRows(run.config) = 0 \/ run.rounds = MaxRounds
  BY DEF FinishedIsServed
<1> DEFINE f == disk["final"]
           c == run.config
<1>5. ASSUME ToFetch(f, c, raw) = 0, KeptRows(f, c, raw) # 0 PROVE SatisfiedIn(f, c, raw)
  BY <1>5, ToFetchNumber, FinishParts, KeptRowsNumber, FolderParts DEF SatisfiedIn
<1> QED BY <1>5, Counted, FinishParts

\* A run that was not cut off ends with a source that serves its budget or ran
\* dry, whatever the damage it found (planner.py).
THEOREM Service == Spec => []FinishedIsServed
BY Invariance, ServedHolds, PTL

\* It says which slots are free.
LEMMA UnblockedHolds == Inv => BuildNeverBlocked
<1> SUFFICES ASSUME Inv PROVE BuildNeverBlocked OBVIOUS
<1>1. StageOk(pc, run, disk, raw, run.config) BY InvParts
<1>2. ASSUME pc \in {"round", "fetch", "record", "fetched", "build"}
      PROVE  ~disk["temporary"].there /\ ~disk["backup"].there
  <2>1. Settled(disk, run.config, raw)
    <3>1. CASE pc = "round" BY <1>1, <3>1, StageIs
    <3>2. CASE pc = "fetch" BY <1>1, <3>2, StageIs
    <3>3. CASE pc = "record" BY <1>1, <3>3, StageIs
    <3>4. CASE pc = "fetched" BY <1>1, <3>4, StageIs
    <3>5. CASE pc = "build" BY <1>1, <3>5, StageIs DEF ToBuild
    <3> QED BY <1>2, <3>1, <3>2, <3>3, <3>4, <3>5
  <2> QED BY <2>1 DEF Settled, Free
<1>3. ASSUME pc \in {"step aside", "park"} PROVE ~disk["backup"].there
  <2>1. Parking(disk, run.config, raw)
    <3>1. CASE pc = "step aside" BY <1>1, <3>1, StageIs
    <3>2. CASE pc = "park" BY <1>1, <3>2, StageIs
    <3> QED BY <1>3, <3>1, <3>2
  <2> QED BY <2>1 DEF Parking, Free
<1>4. ASSUME pc = "place" PROVE ~disk["final"].there BY <1>1, <1>4, StageIs DEF Placing, Free
<1> QED BY <1>2, <1>3, <1>4 DEF BuildNeverBlocked

\* A build never finds its slots taken (BuildWorkspace.check_start).
THEOREM FreeSlots == Spec => []BuildNeverBlocked
BY Invariance, UnblockedHolds, PTL

-----------------------------------------------------------------------------
(* No step loses work.                                                     *)

\* A run is under way exactly when it has a config.
LEMMA UnderWay == ASSUME Inv PROVE run.config # 0 <=> pc # "idle"
BY InvParts DEF RunOk

\* Raw shards are added.
LEMMA RowsStay ==
    ASSUME Inv, NEW s, IsPrefix(raw.shards, s), s \in Seq(Seq(Nat)), raw'.shards = s,
           raw.files \intersect (1 .. GoodIn(raw)) \subseteq raw'.files
    PROVE  FetchedRowsStay
<1>1. raw \in RawFolder /\ raw.shards \in Seq(Seq(Nat)) /\ Len(raw.shards) \in Nat BY InvParts, RawFields
<1>2. GoodIn(raw) \in 0 .. Len(raw.shards) /\ \A i \in 1 .. GoodIn(raw) : i \in raw.files
  BY <1>1, GoodLemma DEF GoodTo
<1>3. GoodPrefix = GoodIn(raw) BY Found
<1> DEFINE t == SubSeq(raw.shards, 1, GoodIn(raw))
<1>4. t \in Seq(Seq(Nat)) /\ IsPrefix(t, raw.shards) BY <1>1, <1>2, InitialLemma
<1> HIDE DEF t
<1>5. IsPrefix(t, s) BY <1>1, <1>4, PrefixTransitive
<1> QED BY <1>2, <1>3, <1>5 DEF FetchedRowsStay, t

\* Only files change.
LEMMA SameRowsStay ==
    ASSUME Inv, raw'.shards = raw.shards, raw.files \intersect (1 .. GoodIn(raw)) \subseteq raw'.files
    PROVE  FetchedRowsStay
<1> QED BY RowsStay, PrefixSelf, InvParts, RawFields

\* A raw folder of this config is deleted only when its first shard is lost.
LEMMA DeletedRowsStay ==
    ASSUME Inv, pc = "repair", run.plan # <<>>, Due.folder = "raw", Due.verb = "delete", raw'.shards \in Seq(Seq(Nat))
    PROVE  FetchedRowsStay
<1> SUFFICES ASSUME run.config # 0, raw.hash = RawHash[run.config]
             PROVE  /\ IsPrefix(SubSeq(raw.shards, 1, GoodPrefix), raw'.shards)
                    /\ 1 .. GoodPrefix \subseteq raw'.files
  BY DEF FetchedRowsStay
<1>2. GoodPrefix = 0 BY DeletedRaw, Found DEF DeletedIn
<1> DEFINE t == SubSeq(raw.shards, 1, 0)
<1>4. t \in Seq(Seq(Nat)) /\ Len(t) = 0 BY InitialLemma, InvParts, RawFields
<1> HIDE DEF t
<1>5. Len(t) <= Len(raw'.shards) /\ \A i \in 1 .. Len(t) : t[i] = raw'.shards[i] BY <1>4
<1>6. IsPrefix(t, raw'.shards) BY <1>4, <1>5, PrefixIs
<1> QED BY <1>2, <1>6 DEF t

\* A cut leaves the shards before the first unreadable one.
LEMMA TruncatedRowsStay == Inv /\ TruncateRaw => FetchedRowsStay
<1> SUFFICES ASSUME Inv, TruncateRaw PROVE FetchedRowsStay OBVIOUS
<1>2. raw'.shards = SubSeq(raw.shards, 1, GoodIn(raw)) /\ 1 .. GoodIn(raw) \subseteq raw'.files
  BY TruncatedRaw DEF IsCut
<1> DEFINE t == SubSeq(raw.shards, 1, GoodIn(raw))
<1>4. t \in Seq(Seq(Nat)) BY InitialLemma, InvParts, RawFields, GoodLemma
<1> HIDE DEF t
<1>5. IsPrefix(t, t) BY <1>4, PrefixSelf
<1> QED BY <1>2, <1>5, Found DEF FetchedRowsStay, t

\* Only the raw folder is cut, behind them.
LEMMA DueRaw ==
    ASSUME Inv, pc = "repair", run.plan # <<>>, Due.verb = "truncate"
    PROVE  Due.folder = "raw" /\ TruncatedIn(raw, run.config) /\ Due.keep = GoodIn(raw)
<1> QED BY DueIs, DueParts

\* The files of those shards stay.
LEMMA FilesStay ==
    ASSUME Inv, NEW k, raw' = [raw EXCEPT !.files = k], raw.files \intersect (1 .. GoodIn(raw)) \subseteq k
    PROVE  FetchedRowsStay
<1> QED BY SameRowsStay, InvParts DEF RawFolder

\* No step loses rows that were fetched.
LEMMA FetchedRowsAreKept == Inv /\ [Next]_vars => FetchedRowsStay
<1> SUFFICES ASSUME Inv, [Next]_vars, pc # "idle" PROVE FetchedRowsStay BY UnderWay DEF FetchedRowsStay
<1>1. raw \in RawFolder /\ raw.shards \in Seq(Seq(Nat)) /\ raw.files \in SUBSET Nat BY InvParts, RawFields
<1>2. ASSUME UNCHANGED raw PROVE FetchedRowsStay BY <1>2, SameRowsStay
<1>3. CASE DeleteRaw BY <1>3, DeletedRowsStay DEF DeleteRaw, Doing, NoRaw
<1>4. CASE DeleteRawInterrupted
  <2>2. PICK k \in SUBSET raw.files : raw' \in {[raw EXCEPT !.files = k], [NoRaw EXCEPT !.files = k]}
    BY <1>4 DEF DeleteRawInterrupted
  <2>3. raw'.shards \in Seq(Seq(Nat))
    <3>1. CASE raw' = [raw EXCEPT !.files = k] BY <1>1, <3>1 DEF RawFolder
    <3>2. CASE raw' = [NoRaw EXCEPT !.files = k] BY <3>2 DEF NoRaw
    <3> QED BY <2>2, <3>1, <3>2
  <2> QED BY <2>3, DeletedRowsStay, <1>4 DEF DeleteRawInterrupted, Doing
<1>5. CASE TruncateRaw BY <1>5, TruncatedRowsStay
<1>6. CASE TruncateInterrupted
  <2>2. PICK k \in SUBSET raw.files : raw.files \intersect (1 .. Due.keep) \subseteq k /\ raw' = [raw EXCEPT !.files = k]
    BY <1>6 DEF TruncateInterrupted
  <2> QED BY <2>2, FilesStay, DueRaw, <1>6 DEF TruncateInterrupted, Doing
<1>7. CASE StartDownload
  <2>3. 1 .. GoodIn(raw) \subseteq DOMAIN raw.shards BY <1>1, GoodLemma, RawFields
  <2> QED BY <2>3, FilesStay, <1>7 DEF StartDownload
<1>8. CASE WriteRawShard BY <1>8, FilesStay DEF WriteRawShard
<1>9. CASE RecordRawShard
  <2> DEFINE e == SubSeq(Source, RawRows + 1, RawRows + NextRows)
             s == Append(raw.shards, e)
  <2>1. pc = "record" /\ raw' = [raw EXCEPT !.hash = RawHash[run.config], !.shards = s]
    BY <1>9 DEF RecordRawShard
  <2>2. e \in Seq(Nat) BY <2>1, NextIs
  <2> HIDE DEF e
  <2>3. s \in Seq(Seq(Nat)) /\ IsPrefix(raw.shards, s) BY <1>1, <2>2, AppendLemma
  <2> HIDE DEF s
  <2> QED BY <2>3, RowsStay, <1>1, <2>1 DEF RawFolder
<1>10. CASE FinishDownload BY <1>10, <1>1, SameRowsStay DEF FinishDownload, RawFolder
<1>11. CASE DeleteFolder \/ SwapIn \/ Repaired \/ StartBuild \/ EndRound \/ BuildWhenDownloaded \/ CompleteBuilt
            \/ CreateTemporary \/ MarkTemporary \/ ResumeBuild \/ BeginGeneration \/ PublishShard \/ SkipEmptyShard
  BY <1>2, <1>11 DEF DeleteFolder, SwapIn, Repaired, StartBuild, EndRound, BuildWhenDownloaded, CompleteBuilt,
     CreateTemporary, MarkTemporary, ResumeBuild, BeginGeneration, PublishShard, SkipEmptyShard
<1>12. CASE CoverShard \/ CloseBuild \/ SaveTemporary \/ CompleteTemporary \/ MarkFinal \/ ParkFinal \/ PlaceTemporary
            \/ DiscardBackup \/ Finish \/ DeleteInterrupted \/ DiscardInterrupted \/ Crash
  BY <1>2, <1>12 DEF CoverShard, CloseBuild, SaveTemporary, CompleteTemporary, MarkFinal, ParkFinal, PlaceTemporary,
     DiscardBackup, Finish, DeleteInterrupted, DiscardInterrupted, Crash
<1>13. CASE UNCHANGED vars BY <1>2, <1>13 DEF vars
<1>14. pc = "idle" \/ ~(Fault \/ NoMoreRuns \/ \E c \in Config, yes \in BOOLEAN : Prepare(c, yes))
  BY DEF Fault, LoseRawFile, LoseFinalFile, NoMoreRuns, Prepare
<1> QED BY <1>3, <1>4, <1>5, <1>6, <1>7, <1>8, <1>9, <1>10, <1>11, <1>12, <1>13, <1>14 DEF Next, PrepareStep, Interruption

\* What an output that was built for a config goes on from.
Extended(m) ==
    LET was == disk["final"].manifest IN was.hash = m.hash /\ IsPrefix(was.covered, m.covered)

\* Such a step loses no shard.
LEMMA StayFrom == ASSUME Extended(disk'["final"].manifest) PROVE BuiltShardsStay
BY DEF Extended, BuiltShardsStay

\* A folder for the raw shards that are there, of which no shard is missing, is left alone.
LEMMA ListedIsSound ==
    ASSUME NEW f \in Folder, NEW c \in Config, NEW r \in RawFolder, Derived(f, r), Leftover(f, r),
           f.manifest.hash = Hash[c], ListedMissing(f) = {}
    PROVE  Sound(f, c, r)
<1> DEFINE m == f.manifest
<1>1. m # NoManifest /\ m \in Manifest BY Hashed, FolderFields
<1>2. Describes(m, r) /\ LeftBehind(f.files, m.shards, m.covered, c, r) BY <1>1 DEF Derived, Leftover
<1>3. IsPrefix(m.covered, Rows(r.shards)) BY <1>2 DEF Describes
<1>4. Unlisted(f) = {} \/ CrashLeftover(f, AllOf(r))
  <2> SUFFICES ASSUME Unlisted(f) # {} PROVE CrashLeftover(f, AllOf(r)) OBVIOUS
  <2>1. \A g \in f.files : ~IsListed(f, g.i) => g.i = Len(m.shards) + 1 /\ Len(m.covered) < Len(r.shards)
    BY <1>2 DEF LeftBehind, IsListed
  <2>2. Unlisted(f) = {Len(m.shards) + 1} BY <2>1 DEF Unlisted
  <2> HIDE DEF m
  <2>5. IsStrictPrefix(m.covered, Rows(r.shards))
    BY <1>3, StrictIs, <2>1, <1>1, ManifestFields, RawFields DEF Unlisted
  <2> QED BY <2>2, <2>5 DEF CrashLeftover, MoreRawFollows, AllOf, Kept, m
<1> QED BY <1>1, <1>3, <1>4 DEF Sound, NeedsRebuild, AllOf, Kept

\* When it matters: the config's folder, built one shard at a time.
Mattering ==
    LET m == disk["final"].manifest
        c == run.config
    IN /\ c # 0 /\ ~WholeSource[c] /\ m.hash = Hash[c] /\ raw.hash = RawHash[c]
       /\ ListedMissing(disk["final"]) = {} /\ GoodPrefix = Len(raw.shards)

\* Then the folder needs no repair and is healthy.
LEMMA MatteringParts ==
    ASSUME Inv, Mattering
    PROVE  LET f == disk["final"]
               c == run.config
           IN /\ pc # "idle" /\ c \in Config /\ ~WholeSource[c] /\ f.manifest.hash = Hash[c] /\ raw.hash = RawHash[c]
              /\ f \in Folder /\ f.there /\ raw \in RawFolder /\ f.manifest \in Manifest
              /\ ~NeedsRebuild(f, c, KeptIn(raw, c)) /\ HealthyIn(f, c, raw)
              /\ Extended(f.manifest)
<1> DEFINE f == disk["final"]
           c == run.config
<1>1. pc # "idle" /\ c \in Config /\ ~WholeSource[c] /\ f.manifest.hash = Hash[c] /\ raw.hash = RawHash[c]
      /\ ListedMissing(f) = {} /\ GoodIn(raw) = Len(raw.shards)
  BY UnderWay, InvParts, Found DEF Mattering
<1>2. f \in Folder /\ raw \in RawFolder /\ FolderOk(f, raw, ids, snapshot) /\ Leftover(f, raw)
  BY InvParts, DisksAre
<1>3. Derived(f, raw) /\ (f.there \/ f = Absent) /\ f.manifest # NoManifest BY <1>1, <1>2, FolderParts, Hashed
<1>4. f.there BY <1>3, NothingFields
<1>5. Sound(f, c, raw) BY <1>1, <1>2, <1>3, ListedIsSound
<1>6. Len(raw.shards) \in Nat /\ raw.shards \in Seq(Seq(Nat)) /\ f.manifest \in Manifest
  BY <1>2, RawFields, FolderFields
<1>7. ~DeletedIn(raw, c) BY <1>1, ConfigLemma, InvParts, <1>6 DEF RawOk, DeletedIn
<1>9. ~NeedsRebuild(f, c, KeptIn(raw, c)) BY <1>5, <1>7, AllKept, <1>6, <1>1 DEF Sound, TruncatedIn
<1>10. HealthyIn(f, c, raw) BY <1>1, <1>3 DEF HealthyIn, Derived, Describes
<1>11. Extended(f.manifest) BY <1>6, ManifestFields, PrefixSelf DEF Extended
<1> QED BY <1>1, <1>2, <1>4, <1>6, <1>9, <1>10, <1>11

\* The final manifest does not change.
LEMMA SameManifestStays ==
    ASSUME Inv, disk'["final"].manifest = disk["final"].manifest
    PROVE  BuiltShardsStay
BY MatteringParts, StayFrom DEF Mattering, BuiltShardsStay

\* Another slot changes.
LEMMA OtherSlotStays ==
    ASSUME Inv, NEW s \in Slots \ {"final"}, NEW f, disk' = [disk EXCEPT ![s] = f]
    PROVE  BuiltShardsStay
<1> QED BY SameManifestStays, InvParts, SlotsPut DEF Slots

\* The manifest of the final folder is replaced by one of the same hash that covers as much.
LEMMA ReplacedStays ==
    ASSUME Inv, disk'["final"].manifest.hash = disk["final"].manifest.hash,
           disk'["final"].manifest.covered = disk["final"].manifest.covered
    PROVE  BuiltShardsStay
BY MatteringParts, StayFrom DEF Mattering, BuiltShardsStay, Extended

\* A folder is deleted.
LEMMA FolderDeletedStays ==
    ASSUME Inv, pc = "repair", run.plan # <<>>, Due.verb = "delete", Due.folder # "raw", NEW f,
           disk' = [disk EXCEPT ![Due.folder] = f]
    PROVE  BuiltShardsStay
<1>1. Due.folder \in Slots BY DueParts DEF Slots
<1>2. CASE Due.folder = "final" BY <1>2, DueIs, MatteringParts DEF Mattering, BuiltShardsStay
<1>3. CASE Due.folder # "final" BY <1>1, <1>3, OtherSlotStays
<1> QED BY <1>2, <1>3

\* A leftover takes the place of a final folder that is not there.
LEMMA SwappedStays == Inv /\ SwapIn => BuiltShardsStay
<1> SUFFICES ASSUME Inv, SwapIn PROVE BuiltShardsStay OBVIOUS
<1> QED BY MatteringParts, DueIs, DueParts DEF Mattering, BuiltShardsStay, SwapIn, Doing

\* Steps of a whole-source build.
LEMMA WholeStays ==
    ASSUME Inv, WholeSource[run.config]
    PROVE  BuiltShardsStay
BY DEF BuiltShardsStay

\* A healthy folder is resumed.
LEMMA ResumedStays == Inv /\ ResumeBuild => BuiltShardsStay
<1> SUFFICES ASSUME Inv, ResumeBuild, Mattering PROVE BuiltShardsStay BY DEF Mattering, BuiltShardsStay
<1> QED BY SameManifestStays, MatteringParts, Counted DEF ResumeBuild

\* The folder a build of one raw shard after another goes on with.
LEMMA WritingMattering ==
    ASSUME Inv, Mattering, pc = "write"
    PROVE  disk["final"].manifest = run.out
<1> QED BY MatteringParts, NothingFields, WritingNextParts DEF NextOut, Whole

\* A new generation covers as much.
LEMMA BegunStays == Inv /\ BeginGeneration => BuiltShardsStay
<1> SUFFICES ASSUME Inv, BeginGeneration, Mattering PROVE BuiltShardsStay BY DEF Mattering, BuiltShardsStay
<1>1. pc = "write" /\ Dir = "final" /\ run' = [run EXCEPT !.out = Begun(run.out)]
      /\ disk' = [disk EXCEPT ![Dir].there = TRUE, ![Dir].manifest = run'.out]
  BY MatteringParts DEF BeginGeneration, Dir, Whole
<1>2. disk["final"].manifest = run.out /\ disk \in [Slots -> Folder] /\ run.out \in Manifest /\ IdsOk(ids, snapshot)
  BY <1>1, WritingMattering, InvParts, RunFields
<1> DEFINE k == Begun(run.out)
<1>4. k.hash = run.out.hash /\ k.covered = run.out.covered BY <1>2, BegunLemma, MatteringParts
<1> HIDE DEF k
<1> QED BY <1>2, <1>4, ReplacedStays, <1>1, SlotsPut, InvParts DEF k, Slots, Folder, RunOk

\* A shard is published.
LEMMA PublishedStays == Inv /\ PublishShard => BuiltShardsStay
<1> SUFFICES ASSUME Inv, PublishShard PROVE BuiltShardsStay OBVIOUS
<1> DEFINE i == Len(run.out.shards) + 1
           k == {g \in disk[Dir].files : g.i # i} \union {FileOf(i, ToWrite)}
<1>2. disk \in [Slots -> Folder] /\ Dir \in Slots /\ "final" \in Slots BY InvParts DEF Dir, Slots
<1> HIDE DEF k
<1> DEFINE h == [disk[Dir] EXCEPT !.files = k]
<1> HIDE DEF h
<1>5. disk'["final"].manifest = disk["final"].manifest BY <1>2, SlotsPut DEF Folder, PublishShard
<1> QED BY <1>5, SameManifestStays

\* One more raw shard is covered.
LEMMA CoveredStays == Inv /\ CoverShard => BuiltShardsStay
<1> SUFFICES ASSUME Inv, CoverShard, Mattering PROVE BuiltShardsStay BY DEF Mattering, BuiltShardsStay
<1> DEFINE m == run.out
           f == disk["final"]
           rows == Rows(raw.shards)
           n == Len(m.covered)
           t == SubSeq(rows, 1, n + 1)
           k == [m EXCEPT !.covered = t]
<1>1. pc = "cover" /\ run' = [run EXCEPT !.out = k] /\ disk' = [disk EXCEPT !["final"].manifest = run'.out]
  BY DEF CoverShard
<1>2. raw \in RawFolder /\ m \in Manifest /\ f \in Folder /\ disk \in [Slots -> Folder] /\ GenOk(m, ids, snapshot)
  BY <1>1, InvParts, RunFields, DisksAre
<1>3. Covering(disk, m, run.config, raw) BY <1>1, InvParts, StageIs
<1>5. n < Len(raw.shards) /\ f.manifest.hash = m.hash /\ f.manifest.covered = m.covered /\ IsPrefix(m.covered, rows)
  BY <1>3 DEF CoveredOut, Covering
<1>6. rows \in Seq(Nat) /\ Len(rows) = Len(raw.shards) /\ n \in Nat /\ Len(raw.shards) \in Nat /\ m.covered \in Seq(Nat)
  BY <1>2, RawFields, ManifestFields
<1>7. n + 1 \in 0 .. Len(rows) /\ n <= n + 1
  <2> HIDE DEF n, rows
  <2> QED BY <1>5, <1>6
<1>8. t \in Seq(Nat) /\ Len(t) = n + 1 /\ IsPrefix(t, rows)
  <2> HIDE DEF n, rows
  <2> QED BY <1>6, <1>7, InitialLemma
<1>9. IsPrefix(m.covered, t)
  <2> HIDE DEF t, rows
  <2> QED BY <1>5, <1>6, <1>7, <1>8, PrefixesNest
<1> HIDE DEF t
<1>10. k \in Manifest /\ k.covered = t /\ k.hash = m.hash BY <1>2, <1>8, ManifestWith
<1> HIDE DEF k
<1>13. Extended(k) BY <1>5, <1>9, <1>10 DEF Extended
<1> QED BY <1>13, StayFrom, <1>1, <1>2, SlotsPut, InvParts DEF Slots, Folder, RunOk

\* A build ends.
LEMMA ClosedStays == Inv /\ CloseBuild => BuiltShardsStay
<1> SUFFICES ASSUME Inv, CloseBuild PROVE BuiltShardsStay OBVIOUS
<1> DEFINE k == Completed(run.out)
<1>1. pc = "write" /\ ~Whole /\ ~MoreToWrite /\ disk' = [disk EXCEPT !["final"].manifest = k]
  BY DEF CloseBuild
<1>2. disk["final"].manifest = run.out /\ run.out \in Manifest /\ GenOk(run.out, ids, snapshot) /\ IdsOk(ids, snapshot)
      /\ disk \in [Slots -> Folder]
  BY <1>1, ClosedLemma, InvParts, RunFields
<1>3. k.hash = run.out.hash /\ k.covered = run.out.covered BY <1>2, CompletedLemma
<1> HIDE DEF k
<1> QED BY <1>2, <1>3, ReplacedStays, <1>1, SlotsPut DEF Slots, Folder

\* A step that only a whole-source build takes.
LEMMA OnlyWhole ==
    ASSUME Inv, CompleteBuilt \/ MarkFinal \/ ParkFinal \/ PlaceTemporary
    PROVE  WholeSource[run.config]
<1>1. StageOk(pc, run, disk, raw, run.config) BY InvParts
<1>2. CASE CompleteBuilt BY <1>2 DEF CompleteBuilt, Whole
<1>3. CASE MarkFinal BY <1>1, <1>3, StageIs DEF MarkFinal, Parking, Swapping
<1>4. CASE ParkFinal BY <1>1, <1>4, StageIs DEF ParkFinal, Parking, Swapping
<1>5. CASE PlaceTemporary BY <1>1, <1>5, StageIs DEF PlaceTemporary, Placing, Swapping
<1> QED BY <1>2, <1>3, <1>4, <1>5

\* No step loses shards that were built.
LEMMA BuiltShardsAreKept == Inv /\ [Next]_vars => BuiltShardsStay
<1> SUFFICES ASSUME Inv, [Next]_vars, pc # "idle" PROVE BuiltShardsStay BY UnderWay DEF BuiltShardsStay
<1>1. ASSUME UNCHANGED disk PROVE BuiltShardsStay BY <1>1, SameManifestStays
<1>2. ASSUME NEW s \in {"temporary", "backup"}, NEW f, disk' = [disk EXCEPT ![s] = f] PROVE BuiltShardsStay
  BY <1>2, OtherSlotStays DEF Slots
<1>3. CASE DeleteFolder \/ DeleteInterrupted
  BY <1>3, FolderDeletedStays DEF DeleteFolder, DeleteInterrupted, Doing
<1>4. CASE SwapIn \/ ResumeBuild \/ BeginGeneration \/ PublishShard \/ CoverShard \/ CloseBuild
  BY <1>4, SwappedStays, ResumedStays, BegunStays, PublishedStays, CoveredStays, ClosedStays
<1>5. CASE CompleteBuilt \/ MarkFinal \/ ParkFinal \/ PlaceTemporary BY <1>5, OnlyWhole, WholeStays
<1>6. CASE CreateTemporary \/ MarkTemporary \/ SaveTemporary \/ CompleteTemporary \/ DiscardBackup \/ DiscardInterrupted
  BY <1>2, <1>6 DEF CreateTemporary, MarkTemporary, SaveTemporary, CompleteTemporary, DiscardBackup, DiscardInterrupted
<1>7. CASE DeleteRaw \/ TruncateRaw \/ Repaired \/ StartDownload \/ StartBuild \/ EndRound \/ WriteRawShard
           \/ RecordRawShard \/ FinishDownload \/ BuildWhenDownloaded \/ SkipEmptyShard \/ Finish
           \/ DeleteRawInterrupted \/ TruncateInterrupted \/ Crash
  BY <1>1, <1>7 DEF DeleteRaw, TruncateRaw, Repaired, StartDownload, StartBuild, EndRound, WriteRawShard,
     RecordRawShard, FinishDownload, BuildWhenDownloaded, SkipEmptyShard, Finish,
     DeleteRawInterrupted, TruncateInterrupted, Crash
<1>8. CASE UNCHANGED vars BY <1>1, <1>8 DEF vars
<1>9. ~(Fault \/ NoMoreRuns \/ \E c \in Config, yes \in BOOLEAN : Prepare(c, yes))
  BY DEF Fault, LoseRawFile, LoseFinalFile, NoMoreRuns, Prepare
<1> QED BY <1>3, <1>4, <1>5, <1>6, <1>7, <1>8, <1>9 DEF Next, PrepareStep, Interruption

\* Both.
LEMMA WorkStays == Inv /\ [Next]_vars => FetchedRowsStay /\ BuiltShardsStay
BY FetchedRowsAreKept, BuiltShardsAreKept

\* No step of any run, crash or lost file included, loses work the next run
\* could go on from (assessment.py, crash_leftover; docs of data_preparation).
THEOREM WorkPreservation == Spec => WorkKept
<1>1. Inv /\ [Next]_vars => [FetchedRowsStay /\ BuiltShardsStay]_vars BY WorkStays
<1> QED BY <1>1, Invariance, PTL DEF Spec, WorkKept

-----------------------------------------------------------------------------
(* No step of a build takes the last generation.                           *)

\* Some folder is usable.
SomeUsable(d) == \E s \in Slots : Usable(d[s])

\* The folders are those of the slots.
LEMMA UsableSlots ==
    ASSUME Inv
    PROVE  /\ (\E s \in DOMAIN disk : Usable(disk[s])) <=> SomeUsable(disk)
           /\ (\E s \in DOMAIN disk : Usable(disk'[s])) <=> SomeUsable(disk')
<1> QED BY InvParts DEF SomeUsable

\* A step that leaves one keeps a generation.
LEMMA KeptFrom ==
    ASSUME Inv, SomeUsable(disk) => SomeUsable(disk')
    PROVE  SwapKeepsAGeneration
<1> USE UsableSlots
<1> HIDE DEF SomeUsable
<1> QED BY DEF SwapKeepsAGeneration

\* A folder that is there afterwards is usable.
LEMMA OneUsable ==
    ASSUME Inv, NEW s \in Slots, Usable(disk'[s])
    PROVE  SwapKeepsAGeneration
BY KeptFrom DEF SomeUsable

\* The folders do not change.
LEMMA SameDiskKept ==
    ASSUME Inv, disk' = disk
    PROVE  SwapKeepsAGeneration
BY KeptFrom

\* Only one slot changes, and the folder there stays usable if it was.
LEMMA SlotKept ==
    ASSUME Inv, NEW s \in Slots, NEW f, disk' = [disk EXCEPT ![s] = f], Usable(disk[s]) => Usable(f)
    PROVE  SwapKeepsAGeneration
<1> QED BY KeptFrom, InvParts, SlotsPut DEF SomeUsable

\* A folder that is being written is not usable.
LEMMA NotUsable ==
    ASSUME NEW f, f.manifest = NoManifest \/ ~f.manifest.complete
    PROVE  ~Usable(f)
BY DEF Usable

\* One that is whole and complete is.
LEMMA WholeUsable ==
    ASSUME NEW f, NEW c \in Config, NEW kept, IsWhole(f, c, kept), f.manifest.complete
    PROVE  Usable(f)
BY Hashed DEF IsWhole, Usable

\* The temporary of a whole-source build is not usable before it was saved.
LEMMA TemporaryUnusable ==
    ASSUME Inv, pc \in {"build", "mark"} \/ (pc = "write" /\ Whole)
    PROVE  ~Usable(disk["temporary"])
<1>1. StageOk(pc, run, disk, raw, run.config) /\ DisksOk(disk, raw, ids, snapshot) BY InvParts
<1>2. disk["temporary"].manifest = NoManifest \/ ~disk["temporary"].manifest.complete
  <2>1. CASE pc = "build"
    <3>1. ~disk["temporary"].there BY <1>1, <2>1, StageIs DEF ToBuild, Settled, Free
    <3> QED BY NothingFields, <1>1, <3>1, NotThere DEF Slots
  <2>2. CASE pc = "mark"
    <3>1. disk["temporary"] = [Absent EXCEPT !.there = TRUE] BY <1>1, <2>2, StageIs DEF Marking
    <3> QED BY <3>1 DEF Absent
  <2>3. CASE pc = "write" /\ Whole
    <3>1. WritingWhole(disk, run.out, run.config, raw) BY <1>1, <2>3, StageIs DEF Whole
    <3> QED BY <3>1 DEF WritingWhole, WholeOut
  <2> QED BY <2>1, <2>2, <2>3
<1> QED BY <1>2, NotUsable

\* It may be changed.
LEMMA TemporaryKept ==
    ASSUME Inv, pc \in {"build", "mark"} \/ (pc = "write" /\ Whole), NEW f, disk' = [disk EXCEPT !["temporary"] = f]
    PROVE  SwapKeepsAGeneration
BY TemporaryUnusable, SlotKept DEF Slots

\* A folder that is completed.
LEMMA CompletedUsable ==
    ASSUME Inv, NEW s \in Slots, disk' = [disk EXCEPT ![s].manifest = Completed(disk[s].manifest)],
           IsWhole(disk[s], run.config, AllOf(raw)) \/ Usable(disk[s]), run.config \in Config,
           disk[s].manifest.hash # 0
    PROVE  SwapKeepsAGeneration
<1> DEFINE f == disk[s]
           k == Completed(f.manifest)
           g == [f EXCEPT !.manifest = k]
<1>1. disk \in [Slots -> Folder] /\ FolderOk(f, raw, ids, snapshot) /\ IdsOk(ids, snapshot) /\ f \in Folder
  BY InvParts, DisksAre
<1>3. k.hash = f.manifest.hash /\ k.shards = f.manifest.shards /\ k.complete
  BY <1>1, CompletedLemma, FolderParts, FolderFields
<1> HIDE DEF k
<1>4. g.manifest = k /\ g.files = f.files BY <1>1 DEF Folder
<1>5. disk' = [disk EXCEPT ![s] = g] BY DEF k
<1> HIDE DEF g
<1>9. Usable(g) BY <1>3, <1>4, NothingFields DEF Usable, ListedMissing, IsWhole
<1> QED BY <1>5, <1>9, SlotKept

\* The final folder is completed.
LEMMA CompletedBuiltKept == Inv /\ CompleteBuilt => SwapKeepsAGeneration
<1> SUFFICES ASSUME Inv, CompleteBuilt PROVE SwapKeepsAGeneration OBVIOUS
<1> DEFINE f == disk["final"]
           c == run.config
           k == Completed(f.manifest)
           g == [f EXCEPT !.manifest = k]
<1>1. pc = "build" /\ Built(c) /\ disk' = [disk EXCEPT !["final"].manifest = k] BY DEF CompleteBuilt
<1>2. c \in Config /\ f.manifest.hash = Hash[c] BY <1>1, InvParts DEF Built
<1>3. f.manifest.hash # 0 /\ "final" \in Slots BY <1>2, ConfigLemma DEF Slots
<1>4. CASE Usable(f) BY <1>1, <1>2, <1>3, <1>4, CompletedUsable
<1>5. CASE ~Usable(f) BY <1>1, <1>3, <1>5, SlotKept
<1> QED BY <1>4, <1>5

\* The temporary is made, marked and saved.
LEMMA MarkedTemporaryKept == Inv /\ (CreateTemporary \/ MarkTemporary \/ SaveTemporary) => SwapKeepsAGeneration
<1> SUFFICES ASSUME Inv, CreateTemporary \/ MarkTemporary \/ SaveTemporary PROVE SwapKeepsAGeneration OBVIOUS
<1>1. CASE CreateTemporary BY <1>1, TemporaryKept DEF CreateTemporary
<1>2. CASE MarkTemporary BY <1>2, TemporaryKept DEF MarkTemporary
<1>3. CASE SaveTemporary BY <1>3, TemporaryKept DEF SaveTemporary
<1> QED BY <1>1, <1>2, <1>3

\* It is written.
LEMMA WrittenKept == Inv /\ Whole /\ (BeginGeneration \/ PublishShard) => SwapKeepsAGeneration
<1> SUFFICES ASSUME Inv, Whole, BeginGeneration \/ PublishShard PROVE SwapKeepsAGeneration OBVIOUS
<1>1. Dir = "temporary" BY DEF Dir
<1>2. CASE BeginGeneration
  <2>1. pc = "write" /\ disk' = [disk EXCEPT !["temporary"].there = TRUE, !["temporary"].manifest = run'.out]
    BY <1>1, <1>2 DEF BeginGeneration
  <2> DEFINE g == [disk["temporary"] EXCEPT !.there = TRUE, !.manifest = run'.out]
  <2>2. disk' = [disk EXCEPT !["temporary"] = g] BY <2>1
  <2> HIDE DEF g
  <2> QED BY <2>1, <2>2, TemporaryKept
<1>3. CASE PublishShard BY <1>3, <1>1, TemporaryKept DEF PublishShard
<1> QED BY <1>2, <1>3

\* It is completed.
LEMMA CompletedTemporaryKept == Inv /\ CompleteTemporary => SwapKeepsAGeneration
<1> SUFFICES ASSUME Inv, CompleteTemporary PROVE SwapKeepsAGeneration OBVIOUS
<1>1. pc = "complete" /\ disk' = [disk EXCEPT !["temporary"].manifest = Completed(disk["temporary"].manifest)]
  BY DEF CompleteTemporary
<1>2. Completing(disk, run.config, raw) BY <1>1, InvParts, StageIs
<1>3. IsWhole(disk["temporary"], run.config, AllOf(raw)) /\ run.config \in Config /\ "temporary" \in Slots
  BY <1>1, <1>2, InvParts DEF Completing, WholeFor, Slots
<1>4. disk["temporary"].manifest.hash # 0 BY <1>3, ConfigLemma DEF IsWhole
<1> QED BY <1>1, <1>3, <1>4, CompletedUsable

\* While the folders are swapped, the new one is usable.
LEMMA SwappingUsable ==
    ASSUME NEW d, NEW c \in Config, NEW r, Swapping(d, c, r)
    PROVE  Usable(d["temporary"])
BY WholeUsable DEF Swapping, WholeFor

\* The folders are swapped.
LEMMA SwappedKept == Inv /\ (MarkFinal \/ ParkFinal \/ PlaceTemporary \/ DiscardBackup \/ DiscardInterrupted)
                        => SwapKeepsAGeneration
<1> SUFFICES ASSUME Inv, MarkFinal \/ ParkFinal \/ PlaceTemporary \/ DiscardBackup \/ DiscardInterrupted
             PROVE  SwapKeepsAGeneration
  OBVIOUS
<1>1. disk \in [Slots -> Folder] /\ StageOk(pc, run, disk, raw, run.config) /\ (pc # "idle" => run.config \in Config)
      /\ "final" \in Slots /\ "temporary" \in Slots /\ "backup" \in Slots
  BY InvParts DEF Slots
<1>2. CASE MarkFinal
  <2>1. pc = "step aside" /\ \E g : disk' = [disk EXCEPT !["final"] = g] BY <1>2 DEF MarkFinal
  <2>2. Usable(disk["temporary"]) BY <1>1, <2>1, StageIs, SwappingUsable DEF Parking
  <2>3. disk'["temporary"] = disk["temporary"] BY <1>1, <2>1, SlotsPut
  <2> QED BY <1>1, <2>2, <2>3, OneUsable
<1>3. CASE ParkFinal
  <2>1. pc = "park" /\ disk' = [disk EXCEPT !["backup"] = disk["final"], !["final"] = Absent]
    BY <1>3 DEF ParkFinal
  <2>2. Usable(disk["temporary"]) BY <1>1, <2>1, StageIs, SwappingUsable DEF Parking
  <2> QED BY <1>1, <2>2, OneUsable, <2>1
<1>4. CASE PlaceTemporary
  <2>1. pc = "place" /\ disk' = [disk EXCEPT !["final"] = disk["temporary"], !["temporary"] = Absent]
    BY <1>4 DEF PlaceTemporary
  <2>2. Usable(disk["temporary"]) BY <1>1, <2>1, StageIs, SwappingUsable DEF Placing
  <2> QED BY <1>1, <2>2, OneUsable, <2>1
<1>5. CASE DiscardBackup \/ DiscardInterrupted
  <2>1. pc = "discard" /\ \E g : disk' = [disk EXCEPT !["backup"] = g]
    BY <1>5 DEF DiscardBackup, DiscardInterrupted
  <2>2. Usable(disk["final"]) BY <1>1, <2>1, StageIs, WholeUsable DEF Discarding, WholeFor
  <2> QED BY <1>1, <2>2, OneUsable, <2>1, SlotsPut
<1> QED BY <1>2, <1>3, <1>4, <1>5

\* No step of a build takes the last generation.
LEMMA GenerationKept == Inv /\ [Next]_vars => SwapKeepsAGeneration
<1> SUFFICES ASSUME Inv, [Next]_vars, pc # "idle", pc # "repair", Whole PROVE SwapKeepsAGeneration
  BY UnderWay DEF SwapKeepsAGeneration
<1>1. ASSUME UNCHANGED disk PROVE SwapKeepsAGeneration BY <1>1, SameDiskKept
<1>2. ~(DeleteFolder \/ DeleteInterrupted \/ SwapIn \/ DeleteRaw \/ DeleteRawInterrupted \/ TruncateRaw
         \/ TruncateInterrupted \/ Repaired)
  BY DEF DeleteFolder, DeleteInterrupted, SwapIn, DeleteRaw, DeleteRawInterrupted, TruncateRaw, TruncateInterrupted,
     Repaired, Doing
<1>3. ~(ResumeBuild \/ SkipEmptyShard \/ CloseBuild \/ CoverShard)
  <2>1. ~CoverShard
    <3> SUFFICES ASSUME CoverShard PROVE FALSE OBVIOUS
    <3>1. Covering(disk, run.out, run.config, raw) BY InvParts, StageIs DEF CoverShard
    <3> QED BY <3>1 DEF Covering, Whole
  <2> QED BY <2>1 DEF ResumeBuild, SkipEmptyShard, CloseBuild
<1>4. CASE CompleteBuilt \/ CreateTemporary \/ MarkTemporary \/ SaveTemporary \/ BeginGeneration \/ PublishShard
           \/ CompleteTemporary
  BY <1>4, CompletedBuiltKept, MarkedTemporaryKept, WrittenKept, CompletedTemporaryKept
<1>5. CASE MarkFinal \/ ParkFinal \/ PlaceTemporary \/ DiscardBackup \/ DiscardInterrupted
  BY <1>5, SwappedKept
<1>6. CASE StartDownload \/ StartBuild \/ EndRound \/ WriteRawShard \/ RecordRawShard \/ FinishDownload
           \/ BuildWhenDownloaded \/ Finish \/ Crash
  BY <1>1, <1>6 DEF StartDownload, StartBuild, EndRound, WriteRawShard, RecordRawShard, FinishDownload,
     BuildWhenDownloaded, Finish, Crash
<1>7. CASE UNCHANGED vars BY <1>1, <1>7 DEF vars
<1>8. ~(Fault \/ NoMoreRuns \/ \E c \in Config, yes \in BOOLEAN : Prepare(c, yes))
  BY DEF Fault, LoseRawFile, LoseFinalFile, NoMoreRuns, Prepare
<1> QED BY <1>2, <1>3, <1>4, <1>5, <1>6, <1>7, <1>8 DEF Next, PrepareStep, Interruption

-----------------------------------------------------------------------------
(* No step of the repair takes it.                                         *)

\* One of the folders is whole for the config, or the final one is left in place.
SomeWhole(d, c, r) == \E s \in Slots : IsWhole(d[s], c, KeptIn(r, c))
\* What the repair may not take away.
Remains(d, c, r) == SomeWhole(d, c, r) \/ Survives(d["final"], c, KeptIn(r, c))

\* A step that leaves it keeps a generation.
LEMMA RepairKeptFrom ==
    ASSUME Inv, pc = "repair" /\ SomeWhole(disk, run.config, raw) => Remains(disk', run.config, raw')
    PROVE  RepairKeepsAGeneration
<1> SUFFICES ASSUME NEW c \in Config, pc = "repair", c = run.config,
                    \E f \in DOMAIN disk : IsWhole(disk[f], c, KeptRaw(c))
             PROVE  (\E f \in DOMAIN disk : IsWhole(disk[f], c, KeptRaw(c))') \/ FinalSurvives(c)'
  BY DEF RepairKeepsAGeneration
<1>1. DOMAIN disk = Slots BY InvParts
<1>5. KeptRaw(c)' = KeptIn(raw', c) /\ FinalSurvives(c)' = Survives(disk'["final"], c, KeptIn(raw', c))
  BY FoundNext
<1>6. CASE SomeWhole(disk', c, raw')
  BY <1>6, <1>5, <1>1 DEF SomeWhole, IsWhole, ListedMissing, Unlisted, IsListed
<1> QED BY <1>5, <1>6, <1>1, Found DEF Remains, SomeWhole

\* The folders do not change, nor what they are judged by.
LEMMA RepairSameDisk ==
    ASSUME Inv, disk' = disk, KeptIn(raw', run.config) = KeptIn(raw, run.config)
    PROVE  RepairKeepsAGeneration
BY RepairKeptFrom DEF SomeWhole, Remains

\* A folder is deleted only when it is not whole, or the final one is left in place.
LEMMA RepairDeletes ==
    ASSUME Inv, pc = "repair", run.plan # <<>>, Due.verb = "delete", Due.folder # "raw", NEW f,
           disk' = [disk EXCEPT ![Due.folder] = f], raw' = raw
    PROVE  RepairKeepsAGeneration
<1> DEFINE c == run.config
           kept == KeptIn(raw, c)
           s == Due.folder
<1>1. s \in Slots /\ c \in Config /\ disk \in [Slots -> Folder] BY DueParts, InvParts DEF Slots
<1>2. \A t \in Slots : t # s => disk'[t] = disk[t] BY <1>1, SlotsPut
<1>3. ~IsWhole(disk[s], c, kept) \/ (s # "final" /\ Survives(disk["final"], c, kept))
  BY DueIs, <1>1, WholeIsSound DEF Slots
<1> HIDE DEF kept
<1>4. CASE s # "final" /\ Survives(disk["final"], c, kept)
  BY <1>2, <1>4, RepairKeptFrom DEF Slots, Remains, kept
<1>5. CASE ~IsWhole(disk[s], c, kept) BY <1>2, <1>5, RepairKeptFrom DEF SomeWhole, kept, Remains
<1> QED BY <1>3, <1>4, <1>5

\* A leftover is swapped in only when it is whole.
LEMMA RepairSwaps == Inv /\ SwapIn => RepairKeepsAGeneration
<1> SUFFICES ASSUME Inv, SwapIn PROVE RepairKeepsAGeneration OBVIOUS
<1> DEFINE c == run.config
           s == Due.folder
<1> HIDE DEF s
<1>5. SomeWhole(disk', c, raw') BY InvParts, DueIs, DueParts DEF SomeWhole, Slots, SwapIn, Doing
<1> QED BY <1>5, RepairKeptFrom DEF Remains

\* Without raw shards no folder is whole.
LEMMA RepairDeletesRaw ==
    ASSUME Inv, pc = "repair", run.plan # <<>>, Due.verb = "delete", Due.folder = "raw"
    PROVE  RepairKeepsAGeneration
<1> QED BY RepairKeptFrom, DueIs DEF SomeWhole, IsWhole, KeptIn, Kept

\* A cut leaves the verdicts as they are.
LEMMA RepairTruncates == Inv /\ TruncateRaw => RepairKeepsAGeneration
<1> SUFFICES ASSUME Inv, TruncateRaw PROVE RepairKeepsAGeneration OBVIOUS
<1>1. pc = "repair" /\ run.plan # <<>> /\ disk' = disk BY DEF TruncateRaw, Doing
<1>2. raw' \in RawFolder /\ IsCut(raw, raw', run.config) /\ raw \in RawFolder /\ run.config \in Config
  BY <1>1, TruncatedRaw, InvParts
<1>3. KeptIn(raw', run.config) = KeptIn(raw, run.config) BY <1>2, CutLemma
<1> QED BY <1>1, <1>3, RepairSameDisk

\* A truncation that is cut off before its manifest is saved changes nothing that is read.
LEMMA TruncationCutOff ==
    ASSUME NEW r \in RawFolder, NEW s \in RawFolder, NEW c, s.hash = r.hash, s.shards = r.shards,
           s.files \subseteq r.files, 1 .. GoodIn(r) \subseteq s.files
    PROVE  KeptIn(s, c) = KeptIn(r, c)
<1>3. GoodIn(s) = GoodIn(r) BY GoodLemma DEF GoodTo
<1> QED BY <1>3 DEF KeptIn, DeletedIn, TruncatedIn

\* So does one that is cut off.
LEMMA RepairCutOff == Inv /\ TruncateInterrupted => RepairKeepsAGeneration
<1> SUFFICES ASSUME Inv, TruncateInterrupted PROVE RepairKeepsAGeneration OBVIOUS
<1>1. pc = "repair" /\ run.plan # <<>> /\ Due.verb = "truncate" /\ disk' = disk
  BY DEF TruncateInterrupted, Doing
<1>2. PICK k \in SUBSET raw.files : raw.files \intersect (1 .. Due.keep) \subseteq k /\ raw' = [raw EXCEPT !.files = k]
  BY DEF TruncateInterrupted
<1>4. raw \in RawFolder /\ raw.files \in SUBSET Nat BY InvParts, RawFields
<1>6. raw' \in RawFolder /\ raw'.hash = raw.hash /\ raw'.shards = raw.shards /\ raw'.files = k
  BY <1>2, <1>4 DEF RawFolder
<1>8. 1 .. GoodIn(raw) \subseteq raw'.files /\ raw'.files \subseteq raw.files
  BY <1>2, <1>6, <1>1, DueRaw, <1>4, GoodLemma DEF GoodTo
<1> QED BY <1>1, RepairSameDisk, <1>4, <1>6, <1>8, TruncationCutOff

\* No step of the repair takes the last folder that is whole.
LEMMA RepairKeeps == Inv /\ [Next]_vars => RepairKeepsAGeneration
<1> SUFFICES ASSUME Inv, [Next]_vars, pc = "repair" PROVE RepairKeepsAGeneration BY DEF RepairKeepsAGeneration
<1>1. ASSUME UNCHANGED <<disk, raw>> PROVE RepairKeepsAGeneration BY <1>1, RepairSameDisk
<1>2. CASE DeleteFolder \/ DeleteInterrupted BY <1>2, RepairDeletes DEF DeleteFolder, DeleteInterrupted, Doing
<1>3. CASE SwapIn BY <1>3, RepairSwaps
<1>4. CASE DeleteRaw \/ DeleteRawInterrupted
  BY <1>4, RepairDeletesRaw DEF DeleteRaw, DeleteRawInterrupted, Doing
<1>5. CASE TruncateRaw \/ TruncateInterrupted BY <1>5, RepairTruncates, RepairCutOff
<1>6. CASE Repaired \/ Crash \/ UNCHANGED vars BY <1>1, <1>6 DEF Repaired, Crash, vars
<1>7. ~(StartDownload \/ StartBuild \/ EndRound \/ WriteRawShard \/ RecordRawShard \/ FinishDownload
         \/ BuildWhenDownloaded \/ CompleteBuilt \/ CreateTemporary \/ MarkTemporary \/ ResumeBuild)
  BY DEF StartDownload, StartBuild, EndRound, WriteRawShard, RecordRawShard, FinishDownload, BuildWhenDownloaded,
     CompleteBuilt, CreateTemporary, MarkTemporary, ResumeBuild
<1>8. ~(BeginGeneration \/ PublishShard \/ SkipEmptyShard \/ CoverShard \/ CloseBuild \/ SaveTemporary
         \/ CompleteTemporary \/ MarkFinal \/ ParkFinal \/ PlaceTemporary \/ DiscardBackup \/ DiscardInterrupted
         \/ Finish)
  BY DEF BeginGeneration, PublishShard, SkipEmptyShard, CoverShard, CloseBuild, SaveTemporary,
     CompleteTemporary, MarkFinal, ParkFinal, PlaceTemporary, DiscardBackup, DiscardInterrupted, Finish
<1>9. ~(Fault \/ NoMoreRuns \/ \E c \in Config, yes \in BOOLEAN : Prepare(c, yes))
  BY DEF Fault, LoseRawFile, LoseFinalFile, NoMoreRuns, Prepare
<1> QED BY <1>2, <1>3, <1>4, <1>5, <1>6, <1>7, <1>8, <1>9 DEF Next, PrepareStep, Interruption

\* Both.
LEMMA GenerationsStay == Inv /\ [Next]_vars => SwapKeepsAGeneration /\ RepairKeepsAGeneration
BY GenerationKept, RepairKeeps

\* The last good generation survives every step of a whole-source build and of
\* the repair (_swap_into_place; inspect_swap_leftovers).
THEOREM GenerationPreservation == Spec => LastGenerationKept
<1>1. Inv /\ [Next]_vars => [SwapKeepsAGeneration /\ RepairKeepsAGeneration]_vars BY GenerationsStay
<1> QED BY <1>1, Invariance, PTL DEF Spec, LastGenerationKept

-----------------------------------------------------------------------------
(* The build of one raw shard after another, with workers (ShardBuild).    *)

\* what the proofs assume of the constants
Assumptions ==
    /\ Sequential!BuildConstants
    /\ UsesWorkers \in BOOLEAN
    /\ Processes \in Nat \ {0}

ManifestType ==
    [covered : 0..NumRaw, kept : Seq(SUBSET Nat), rows : Nat, input : Nat,
     duplicates : Int]

ManifestOK(manifest) ==
    manifest \in ManifestType /\ Len(manifest.kept) = manifest.covered

\* the raw shard the build adds next to what is saved
Following == saved.covered + 1

KeptNext == Sequential!Kept(Sequential!StoredKeys(saved), Following)

(* Before the save, memory is what is saved; then it is one pass further.  *)
(* The filter always holds the keys of the rows memory keeps.              *)
ThreadInv ==
    /\ thread \in {"idle", "head", "take", "write", "save"}
    /\ ManifestOK(saved) /\ ManifestOK(mem)
    /\ base \in 0..saved.covered
    /\ thread # "save" => mem = saved
    /\ thread \in {"head", "take"} => seen = Sequential!StoredKeys(saved)
    /\ thread \in {"take", "write", "save"} => ShardsLeft(saved)
    /\ thread \in {"write", "save"} =>
        keep = KeptNext /\ seen = Sequential!Inserted(Sequential!StoredKeys(saved), Following, keep)
    /\ thread = "save" => mem = Sequential!AddShards(saved, Following, keep)
    /\ thread \in {"take", "write"} => UsesWorkers

\* the rows kept so far do not serve the budget
NeedsMore == Limited => saved.rows + Cardinality(KeptNext) < Target

Early == thread \in {"head", "take"}
Late == thread \in {"write", "save"}

(* Where the worker of raw shard k stands. *)
TaskInv(k) ==
    /\ task[k] \in {"none", "queued", "held", "writing", "written"}
    /\ k <= base => task[k] = "none"
    /\ base < k /\ k <= saved.covered => task[k] = "written"
    /\ task[k] = "held" => WorkerFree(k)
    /\ Early /\ saved.covered < k =>
        /\ task[k] \in {"none", "queued", "held"}
        /\ k <= saved.covered + Processes /\ ShardsLeft(saved) => task[k] # "none"
        /\ k > saved.covered + Processes => task[k] = "none"
    /\ Late /\ k = Following =>
        task[k] \in {"writing", "written"} /\ (thread = "save" => task[k] = "written")
    /\ Late /\ Following < k =>
        /\ task[k] \in {"none", "queued", "held"}
        /\ k <= saved.covered + Processes => task[k] # "none"
        /\ k = Following + Processes /\ NeedsMore => task[k] # "none"
        /\ k > Following + Processes => task[k] = "none"

WorkersInv ==
    /\ task \in [1..NumRaw -> {"none", "queued", "held", "writing", "written"}]
    /\ thread = "idle" \/ ~UsesWorkers => task = NoTasks
    /\ thread # "idle" /\ UsesWorkers => \A k \in 1..NumRaw : TaskInv(k)

IInv == ThreadInv /\ WorkersInv

----------------------------------------------------------------------------
(* The instance's cardinality is the cardinality. *)
LEMMA SameSize == \A S : Sequential!Cardinality(S) = Cardinality(S)
  BY DEF Sequential!Cardinality, Cardinality

(* What is kept of a raw shard is a finite set of its positions. *)
LEMMA KeptPositions ==
    ASSUME Assumptions, NEW k \in 1..NumRaw, NEW keys
    PROVE  /\ Sequential!Kept(keys, k) \subseteq Sequential!Survivors(k)
           /\ Sequential!Kept(keys, k) \in SUBSET Nat
           /\ Cardinality(Sequential!Kept(keys, k)) \in Nat
           /\ Cardinality(Sequential!Survivors(k)) \in Nat
<1>1. Len(Raw[k]) \in Nat BY DEF Assumptions, Sequential!BuildConstants, NumRaw
<1>3. Sequential!Kept(keys, k) \subseteq Sequential!Survivors(k) BY DEF Sequential!Kept
<1>4. IsFiniteSet(1..Len(Raw[k])) BY <1>1, FS_Interval
<1>. QED BY <1>3, FS_CardinalityType, <1>1, <1>4, FS_Subset DEF Sequential!Survivors

(* A manifest with one more raw shard. *)
LEMMA ShardAdded ==
    ASSUME Assumptions, NEW m, ManifestOK(m), m.covered < NumRaw, NEW keys
    PROVE  LET kept == Sequential!Kept(keys, m.covered + 1)
               next == Sequential!AddShards(m, m.covered + 1, kept)
           IN  /\ ManifestOK(next)
               /\ next.covered = m.covered + 1
               /\ next.rows = m.rows + Cardinality(kept)
               /\ Sequential!StoredKeys(next) =
                    Sequential!Inserted(Sequential!StoredKeys(m), m.covered + 1, kept)
<1>. DEFINE k == m.covered + 1
            kept == Sequential!Kept(keys, k)
            next == Sequential!AddShards(m, k, kept)
<1>1. m.covered \in Nat /\ m.covered \in 0..NumRaw /\ NumRaw \in Nat /\ k \in 1..NumRaw
  BY DEF ManifestOK, ManifestType, Assumptions, Sequential!BuildConstants, NumRaw
<1>2. kept \in SUBSET Nat /\ Cardinality(kept) \in Nat /\ Cardinality(Sequential!Survivors(k)) \in Nat
  BY <1>1, KeptPositions
<1>. HIDE DEF kept
<1>4. /\ next.covered = k /\ next.kept = Append(m.kept, kept)
      /\ next.rows = m.rows + Cardinality(kept)
      /\ next.input = m.input + Len(Raw[k])
      /\ next.duplicates =
            m.duplicates + (Cardinality(Sequential!Survivors(k)) - Cardinality(kept))
      /\ next = [covered |-> next.covered, kept |-> next.kept, rows |-> next.rows,
                 input |-> next.input, duplicates |-> next.duplicates]
  BY SameSize DEF Sequential!AddShards
<1>5. /\ Append(m.kept, kept) \in Seq(SUBSET Nat)
      /\ Len(Append(m.kept, kept)) = k
      /\ Append(m.kept, kept)[k] = kept
      /\ \A i \in 1..m.covered : Append(m.kept, kept)[i] = m.kept[i]
  BY <1>1, <1>2 DEF ManifestOK, ManifestType
<1>6. Len(Raw[k]) \in Nat /\ m.rows \in Nat /\ m.input \in Nat /\ m.duplicates \in Int
  BY <1>1 DEF Assumptions, Sequential!BuildConstants, NumRaw, ManifestOK, ManifestType
<1>7. ManifestOK(next)
  <2>1. next.covered \in 0..NumRaw /\ next.kept \in Seq(SUBSET Nat) /\ next.rows \in Nat
        /\ next.input \in Nat /\ next.duplicates \in Int
    <3>2. m.rows + Cardinality(kept) \in Nat /\ m.input + Len(Raw[k]) \in Nat BY <1>2, <1>6
    <3>3. m.duplicates + (Cardinality(Sequential!Survivors(k)) - Cardinality(kept)) \in Int BY <1>2, <1>6
    <3>. HIDE DEF next
    <3>. QED BY <1>4, <1>5, <3>2, <3>3, <1>1 DEF k
  <2>. HIDE DEF next
  <2>. QED BY <1>4, <1>5, <2>1 DEF ManifestOK, ManifestType
<1>8. 1..k = 1..m.covered \cup {k} BY <1>1
<1>9. Sequential!StoredKeys(next) = Sequential!Inserted(Sequential!StoredKeys(m), k, kept)
  <2>2. UNION {Sequential!KeysOf(i, next.kept[i]) : i \in 1..next.covered}
          = (UNION {Sequential!KeysOf(i, m.kept[i]) : i \in 1..m.covered})
                \cup Sequential!KeysOf(k, kept)
    <3>. HIDE DEF next, k
    <3>1. ASSUME NEW x
          PROVE  (\E i \in 1..next.covered : x \in Sequential!KeysOf(i, next.kept[i]))
                    <=> \/ \E i \in 1..m.covered : x \in Sequential!KeysOf(i, m.kept[i])
                        \/ x \in Sequential!KeysOf(k, kept)
      <4>. QED BY <1>4, <1>5, <1>8
    <3>. QED BY <3>1
  <2>3. Dedup \in BOOLEAN BY DEF Assumptions, Sequential!BuildConstants
  <2>. HIDE DEF next, k
  <2>. QED BY <2>2, <2>3 DEF Sequential!StoredKeys, Sequential!Inserted
<1>. QED BY <1>4, <1>7, <1>9 DEF kept

----------------------------------------------------------------------------
(* The inductive invariant *)

LEMMA Numbers ==
    ASSUME Assumptions, ThreadInv
    PROVE  /\ NumRaw \in Nat /\ Processes \in Nat \ {0}
           /\ saved.covered \in 0..NumRaw /\ base \in 0..saved.covered
           /\ saved.rows \in Nat
           /\ ShardsLeft(saved) => Following \in 1..NumRaw
           /\ thread # "save" => Current = Following
  BY DEF Assumptions, Sequential!BuildConstants, ThreadInv, ManifestOK, ManifestType,
         NumRaw, Following, ShardsLeft, Current

LEMMA BuildInitHolds ==
    ASSUME Assumptions, BuildInit PROVE IInv
<1>1. ManifestOK(Sequential!EmptyManifest) /\ Sequential!EmptyManifest.covered = 0
  <2>2. 0 \in 0..NumRaw BY DEF Assumptions, Sequential!BuildConstants, NumRaw
  <2>. QED BY <2>2 DEF ManifestOK, ManifestType, Sequential!EmptyManifest
<1>. QED BY <1>1 DEF IInv, ThreadInv, BuildInit, WorkersInv, NoTasks

LEMMA StartKeeps ==
    ASSUME Assumptions, IInv, BeginBuild PROVE IInv'
<1>1. /\ thread = "idle" /\ ShardsLeft(saved) /\ thread' = "head" /\ mem' = saved /\ saved' = saved
      /\ base' = saved.covered /\ seen' = Sequential!StoredKeys(saved)
      /\ task' = IF UsesWorkers THEN QueuedAhead(saved.covered) ELSE NoTasks
  BY DEF BeginBuild
<1>2. ThreadInv BY DEF IInv
<1>3. saved.covered \in Nat /\ Processes \in Nat \ {0} /\ NumRaw \in Nat BY <1>2, Numbers
<1>5. task' \in [1..NumRaw -> {"none", "queued", "held", "writing", "written"}]
  BY <1>1 DEF QueuedAhead, NoTasks
<1>6. ASSUME UsesWorkers, NEW k \in 1..NumRaw PROVE TaskInv(k)'
  BY <1>1, <1>6, <1>3 DEF QueuedAhead, TaskInv, Early, Late, Following
<1>. QED BY <1>1, <1>5, <1>6, <1>2, <1>3 DEF IInv, WorkersInv, ThreadInv, ManifestOK

LEMMA FinishBuildKeeps ==
    ASSUME Assumptions, IInv, FinishBuild PROVE IInv'
<1>2. WorkersInv' BY DEF WorkersInv, FinishBuild, NoTasks
<1>. QED BY <1>2 DEF IInv, ThreadInv, FinishBuild, ManifestOK

LEMMA AbortKeeps ==
    ASSUME Assumptions, IInv, Abort PROVE IInv'
<1>2. WorkersInv' BY DEF WorkersInv, Abort, NoTasks
<1>. QED BY <1>2 DEF IInv, ThreadInv, Abort, ManifestOK

LEMMA PipelineKeeps ==
    ASSUME Assumptions, IInv, RunPipeline PROVE IInv'
<1>1. /\ thread = "head" /\ ShardsLeft(mem) /\ ~UsesWorkers /\ thread' = "save"
      /\ saved' = saved /\ base' = base /\ task' = task
      /\ keep' = Sequential!Kept(seen, Current)
      /\ seen' = Sequential!Inserted(seen, Current, keep')
      /\ mem' = Sequential!AddShards(mem, Current, keep')
  BY DEF RunPipeline
<1>2. /\ ThreadInv /\ mem = saved /\ seen = Sequential!StoredKeys(saved)
      /\ Current = Following /\ ManifestOK(saved) /\ saved.covered < NumRaw
  BY <1>1, Numbers DEF IInv, ThreadInv, ShardsLeft
<1>5. ThreadInv' BY <1>1, <1>2, ShardAdded DEF ThreadInv, ManifestOK, KeptNext, Following, ShardsLeft
<1>. QED BY <1>5, <1>1 DEF IInv, WorkersInv

LEMMA AwaitKeeps ==
    ASSUME Assumptions, IInv, AwaitPrepared PROVE IInv'
<1>1. /\ thread = "head" /\ thread' = "take" /\ ShardsLeft(mem) /\ UsesWorkers
      /\ saved' = saved /\ mem' = mem /\ base' = base /\ seen' = seen /\ keep' = keep
      /\ task' = task
  BY DEF AwaitPrepared
<1>3. \A k \in 1..NumRaw : TaskInv(k)'
  <2>. TAKE k \in 1..NumRaw
  <2>1. TaskInv(k) BY <1>1 DEF IInv, WorkersInv
  <2>. QED BY <1>1, <2>1 DEF TaskInv, Early, Late, WorkerFree, Following
<1>. QED BY <1>1, <1>3 DEF IInv, WorkersInv, ThreadInv, ManifestOK, ShardsLeft

LEMMA TakeKeeps ==
    ASSUME Assumptions, IInv, TakePrepared PROVE IInv'
<1>. DEFINE needsMore == Limited => mem.rows + Cardinality(keep') < Target
<1>1. /\ thread = "take" /\ thread' = "write" /\ task[Current] = "held"
      /\ saved' = saved /\ mem' = mem /\ base' = base
      /\ keep' = Sequential!Kept(seen, Current)
      /\ seen' = Sequential!Inserted(seen, Current, keep')
      /\ task' = [k \in 1..NumRaw |->
                    IF k = Current THEN "writing"
                    ELSE IF k = Current + Processes /\ needsMore THEN "queued"
                    ELSE task[k]]
  BY DEF TakePrepared
<1>2. /\ ThreadInv /\ mem = saved /\ seen = Sequential!StoredKeys(saved)
      /\ Current = Following /\ ShardsLeft(saved) /\ UsesWorkers
  BY <1>1, Numbers DEF IInv, ThreadInv
<1>3. keep' = KeptNext /\ KeptNext' = KeptNext BY <1>1, <1>2 DEF KeptNext, Following
<1>4. needsMore <=> NeedsMore BY <1>2, <1>3 DEF NeedsMore
<1>. HIDE DEF needsMore
<1>5. ThreadInv' BY <1>1, <1>2, <1>3 DEF ThreadInv, ManifestOK, Following, ShardsLeft
<1>6. /\ NumRaw \in Nat /\ Processes \in Nat \ {0} /\ saved.covered \in 0..NumRaw
      /\ base \in 0..saved.covered /\ Following \in 1..NumRaw
      /\ Following = saved.covered + 1
  BY <1>2, Numbers DEF Following
<1>9. /\ thread' = "write" /\ saved' = saved /\ base' = base /\ Following' = Following
      /\ ~Early' /\ Late' /\ Early /\ (NeedsMore' <=> NeedsMore)
  BY <1>1, <1>3 DEF Early, Late, Following, NeedsMore
<1>10. ASSUME NEW k \in 1..NumRaw, k # Following, ~(k = Following + Processes /\ NeedsMore)
       PROVE  task'[k] = task[k]
  BY <1>1, <1>2, <1>4, <1>10
<1>12. ASSUME NEW k \in 1..NumRaw PROVE TaskInv(k)'
  <2>1. TaskInv(k) /\ k \in Nat BY <1>1, <1>2 DEF IInv, WorkersInv
  <2>2. CASE k = Following BY <1>6, <2>2, <1>9, <1>1, <1>2 DEF TaskInv
  <2>3. CASE k # Following /\ k = Following + Processes /\ NeedsMore
    BY <1>6, <2>3, <1>1, <1>2, <1>4, <1>9, SMTT(30), Z3T(30) DEF TaskInv
  <2>4. CASE k # Following /\ ~(k = Following + Processes /\ NeedsMore)
    <3>1. task'[k] = task[k] BY <1>10, <2>4
    <3>2. k <= saved.covered => task'[k] = task[k] /\ ~(Following < k) BY <1>6, <3>1
    <3>3. WorkerFree(k) /\ task[k] = "held" => WorkerFree(k)'
      BY <1>1, <1>2, <1>6, <2>1, <1>9, <1>10, SMTT(30), Z3T(30) DEF WorkerFree, TaskInv
    <3>4. Following < k => saved.covered < k BY <1>6
    <3>5. k > Following + Processes => k > saved.covered + Processes BY <1>6
    <3>. QED BY <1>2, <1>9, <2>1, <2>4, <3>1, <3>2, <3>3, <3>4, <3>5 DEF TaskInv
  <2>. QED BY <2>2, <2>3, <2>4
<1>. QED BY <1>2, <1>5, <1>9, <1>12, <1>1 DEF IInv, WorkersInv

LEMMA PublishKeeps ==
    ASSUME Assumptions, IInv, PublishPrepared PROVE IInv'
<1>1. /\ thread = "write" /\ thread' = "save" /\ task[Current] = "written"
      /\ mem' = Sequential!AddShards(mem, Current, keep)
      /\ saved' = saved /\ base' = base /\ seen' = seen /\ keep' = keep /\ task' = task
  BY DEF PublishPrepared
<1>2. /\ ThreadInv /\ mem = saved /\ Current = Following /\ ShardsLeft(saved)
      /\ UsesWorkers /\ keep = KeptNext /\ ManifestOK(saved) /\ saved.covered < NumRaw
  BY <1>1, Numbers DEF IInv, ThreadInv, ShardsLeft
<1>4. ThreadInv' BY <1>1, <1>2, ShardAdded DEF ThreadInv, ManifestOK, KeptNext, Following, ShardsLeft
<1>5. \A k \in 1..NumRaw : TaskInv(k)'
  <2>. TAKE k \in 1..NumRaw
  <2>1. TaskInv(k) BY <1>1, <1>2 DEF IInv, WorkersInv
  <2>2. k = Following => task[k] = "written" BY <1>1, <1>2
  <2>. QED
    BY <1>1, <2>1, <2>2
       DEF TaskInv, Early, Late, WorkerFree, Following, NeedsMore, KeptNext
<1>. QED BY <1>1, <1>2, <1>4, <1>5 DEF IInv, WorkersInv

LEMMA SaveKeeps ==
    ASSUME Assumptions, IInv, Save PROVE IInv'
<1>1. /\ thread = "save" /\ thread' = "head" /\ saved' = mem /\ mem' = mem
      /\ base' = base /\ seen' = seen /\ keep' = keep /\ task' = task
  BY DEF Save
<1>2. /\ ThreadInv /\ ShardsLeft(saved) /\ keep = KeptNext
      /\ mem = Sequential!AddShards(saved, Following, KeptNext)
      /\ seen = Sequential!Inserted(Sequential!StoredKeys(saved), Following, KeptNext)
      /\ ManifestOK(saved) /\ saved.covered < NumRaw
  BY <1>1 DEF IInv, ThreadInv, ShardsLeft
<1>3. /\ mem.covered = Following /\ mem.rows = saved.rows + Cardinality(KeptNext)
      /\ Sequential!StoredKeys(mem) = seen
  BY <1>2, ShardAdded DEF Following, KeptNext
<1>4. /\ NumRaw \in Nat /\ Processes \in Nat \ {0} /\ saved.covered \in 0..NumRaw
      /\ base \in 0..saved.covered /\ Following = saved.covered + 1 /\ saved.rows \in Nat
  BY <1>2, Numbers DEF Following
<1>6. ShardsLeft(mem) => NeedsMore
  <2>2. Target \in Nat BY DEF Assumptions, Sequential!BuildConstants
  <2>. QED
    BY <1>3, <1>4, <2>2, <1>2, Numbers, KeptPositions DEF ShardsLeft, Sequential!Enough, NeedsMore, KeptNext
<1>7. ASSUME UsesWorkers, NEW k \in 1..NumRaw PROVE TaskInv(k)'
  <2>1. TaskInv(k) /\ k \in Nat BY <1>1, <1>7 DEF IInv, WorkersInv
  <2>2. /\ saved'.covered = Following /\ Late /\ ~Late' /\ Early' /\ task' = task /\ base' = base
        /\ (ShardsLeft(saved)' <=> ShardsLeft(mem)) /\ WorkerFree(k)' = WorkerFree(k)
    BY <1>1, <1>3 DEF Late, Early, ShardsLeft, WorkerFree
  <2>. QED BY <2>1, <2>2, <1>4, <1>6, <1>1 DEF TaskInv
<1>. QED BY <1>1, <1>7, <1>3, <1>4, <1>2 DEF IInv, WorkersInv, ThreadInv, ManifestOK

(* A step of a worker. *)
LEMMA WorkerKeeps ==
    ASSUME Assumptions, IInv, NEW j \in 1..NumRaw, PrepareShard(j) \/ WriteShard(j)
    PROVE  IInv'
<1>1. /\ thread' = thread /\ saved' = saved /\ mem' = mem /\ base' = base /\ seen' = seen /\ keep' = keep
      /\ \/ task[j] = "queued" /\ WorkerFree(j) /\ task' = [task EXCEPT ![j] = "held"]
         \/ task[j] = "writing" /\ task' = [task EXCEPT ![j] = "written"]
  BY DEF PrepareShard, WriteShard
<1>2. task \in [1..NumRaw -> {"none", "queued", "held", "writing", "written"}] BY DEF IInv, WorkersInv
<1>3. thread # "idle" /\ UsesWorkers BY <1>1 DEF NoTasks, IInv, WorkersInv
<1>4. ThreadInv' BY <1>1 DEF IInv, ThreadInv, ManifestOK, KeptNext, Following, ShardsLeft
<1>7. ASSUME NEW k \in 1..NumRaw, WorkerFree(k) PROVE WorkerFree(k)'
  BY <1>1, <1>2, <1>7, Numbers DEF WorkerFree, IInv, Following
<1>8. /\ Early' = Early /\ Late' = Late /\ Following' = Following /\ (NeedsMore' <=> NeedsMore)
      /\ (ShardsLeft(saved)' <=> ShardsLeft(saved))
  BY <1>1 DEF Early, Late, Following, NeedsMore, KeptNext, ShardsLeft
<1>9. ASSUME NEW k \in 1..NumRaw PROVE TaskInv(k)'
  <2>1. TaskInv(k) /\ TaskInv(j) BY <1>3 DEF IInv, WorkersInv
  <2>2. CASE k # j
    <3>1. task'[k] = task[k] BY <1>1, <1>2, <2>2
    <3>. QED BY <1>1, <1>7, <1>8, <2>1, <3>1 DEF TaskInv
  <2>3. CASE k = j /\ task[j] = "queued" BY <1>1, <1>2, <2>3, <1>7, <1>8, <2>1 DEF TaskInv
  <2>4. CASE k = j /\ task[j] = "writing" BY <1>1, <1>2, <2>4, <2>1, <1>8 DEF TaskInv
  <2>. QED BY <1>1, <2>2, <2>3, <2>4
<1>. QED BY <1>1, <1>3, <1>4, <1>9, <1>2 DEF IInv, WorkersInv

LEMMA StutterKeeps ==
    ASSUME IInv, UNCHANGED buildVars PROVE IInv'
<1>1. ThreadInv' BY DEF buildVars, IInv, ThreadInv, ManifestOK, KeptNext, Following, ShardsLeft
<1>2. WorkersInv'
  BY DEF buildVars, IInv, WorkersInv, TaskInv, Early, Late, WorkerFree, Following, NeedsMore,
         KeptNext, ShardsLeft
<1>. QED BY <1>1, <1>2 DEF IInv

(* The inductive invariant: memory is at most one raw shard ahead of what  *)
(* is saved, the filter holds the keys of the rows memory keeps, and as    *)
(* long as more rows are needed every shard of the next round of workers   *)
(* is on its way.                                                          *)
THEOREM BuildInvariance == ASSUME Assumptions PROVE BuildSpec => []IInv
<1>1. BuildInit => IInv BY BuildInitHolds
<1>2. IInv /\ [BuildNext]_buildVars => IInv'
  <2>. SUFFICES ASSUME IInv, [BuildNext]_buildVars PROVE IInv' OBVIOUS
  <2>. QED
    BY StartKeeps, FinishBuildKeeps, PipelineKeeps, AwaitKeeps, TakeKeeps, PublishKeeps, SaveKeeps,
       AbortKeeps, WorkerKeeps, StutterKeeps DEF BuildNext
<1>. QED BY <1>1, <1>2, PTL DEF BuildSpec

----------------------------------------------------------------------------
(* For every source, budget and number of workers, the build thread never  *)
(* waits for a shard that no worker will deliver.                          *)
THEOREM NeverInVain == ASSUME Assumptions PROVE BuildSpec => []NeverWaitsInVain
<1>1. IInv => NeverWaitsInVain
  <2>. SUFFICES ASSUME IInv, thread = "take" \/ thread = "write" PROVE NeverWaitsInVain
    BY DEF NeverWaitsInVain
  <2>1. /\ ThreadInv /\ UsesWorkers /\ ShardsLeft(saved) /\ Following \in 1..NumRaw
        /\ Current = Following
    BY Numbers DEF IInv, ThreadInv
  <2>2. TaskInv(Following) BY <2>1 DEF IInv, WorkersInv
  <2>3. /\ NumRaw \in Nat /\ Processes \in Nat \ {0} /\ saved.covered \in 0..NumRaw
        /\ base \in 0..saved.covered /\ Following = saved.covered + 1
    BY <2>1, Numbers DEF Following
  <2>4. CASE thread = "take"
    <3>2. task[Following] \in {"queued", "held"} BY <2>1, <2>2, <2>4, <2>3 DEF TaskInv, Early
    <3>. QED BY <2>1, <2>4, <3>2, <2>3 DEF NeverWaitsInVain, WorkerFree, IInv, WorkersInv, TaskInv
  <2>5. CASE thread = "write" BY <2>2, <2>5, <2>1 DEF TaskInv, Late, NeverWaitsInVain
  <2>. QED BY <2>4, <2>5
<1>. QED BY BuildInvariance, <1>1, PTL

(* For every number of workers, none holds the rows of two raw shards.     *)
THEOREM HoldsOneShard == ASSUME Assumptions PROVE BuildSpec => []OneShardPerWorker
<1>1. IInv => OneShardPerWorker
  <2>. SUFFICES ASSUME IInv, NEW k \in 1..NumRaw, NEW l \in 1..NumRaw,
                       l = k + Processes, task[l] = "held"
                PROVE  task[k] \in {"none", "written"}
    BY DEF OneShardPerWorker
  <2>2. TaskInv(k) /\ TaskInv(l) BY DEF IInv, WorkersInv, NoTasks
  <2>. QED BY <2>2, Numbers DEF TaskInv, WorkerFree, IInv
<1>. QED BY BuildInvariance, <1>1, PTL

(* For every source, budget and number of workers, and however often the   *)
(* build is interrupted, what is saved is what one sequential pass stores. *)
THEOREM BuildIsSequential == ASSUME Assumptions PROVE BuildSpec => ImplementsSequentialBuild
<1>1. BuildInit => Sequential!Init BY DEF BuildInit, Sequential!Init
<1>2. IInv /\ [BuildNext]_buildVars => [Sequential!BuildRawShard]_saved
  <2>. SUFFICES ASSUME IInv, BuildNext, saved' # saved PROVE Sequential!BuildRawShard BY DEF buildVars
  <2>1. Save
    BY DEF BuildNext, BeginBuild, FinishBuild, RunPipeline, AwaitPrepared, TakePrepared, PublishPrepared,
           Abort, PrepareShard, WriteShard
  <2>2. /\ saved' = Sequential!AddShards(saved, Following, KeptNext)
        /\ ShardsLeft(saved)
    BY <2>1 DEF Save, IInv, ThreadInv
  <2>. QED BY <2>2 DEF Sequential!BuildRawShard, Sequential!Pass, KeptNext, Following, ShardsLeft, NumRaw
<1>. QED BY BuildInvariance, <1>1, <1>2, PTL DEF BuildSpec, Sequential!Spec, ImplementsSequentialBuild
=============================================================================
