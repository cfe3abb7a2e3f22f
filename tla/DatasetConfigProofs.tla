------------------------- MODULE DatasetConfigProofs -------------------------
(* What the identities and the row counts of a dataset configuration        *)
(* guarantee, for every configuration, and that the runs started on it keep *)
(* validation rows out of training and feed every loader; what the settings *)
(* and the model of a run that starts guarantee; what no resume changes; and*)
(* that a conversation is cut, counted, trained on and prompted alike.      *)
(* At the end, what holds of the forward pass of RecurrentForward for every *)
(* pool of documents, pack length and padding, number of blocks and layers  *)
(* and depth: a document owns its columns of the pack, its attention mask   *)
(* never leaves them (PackSees), nor that of a padded row the document      *)
(* (RowSees), so what agrees before a layer agrees after it (LayerAgrees).  *)
EXTENDS RunSettings, Conversation, RecurrentForward, SequenceTheorems, FiniteSetTheorems, TLAPS

\* Two objects with one payload agree on every setting that belongs to the hash.
LEMMA PayloadEquality ==
    ASSUME NEW a, NEW aAnnotation, NEW b, NEW bAnnotation, NEW hash,
           HashPayload(a, aAnnotation, hash) = HashPayload(b, bAnnotation, hash),
           NEW f \in DOMAIN aAnnotation, aAnnotation[f] = hash
    PROVE  /\ f \in DOMAIN bAnnotation /\ bAnnotation[f] = hash
           /\ HashedValue(f, a[f]) = HashedValue(f, b[f])
<1> DEFINE A == {g \in DOMAIN aAnnotation : aAnnotation[g] = hash}
           B == {g \in DOMAIN bAnnotation : bAnnotation[g] = hash}
<1> QED BY DEF HashPayload

\* Two sources with one raw identity are read and mapped alike, so the rows either
\* stored serve both.
THEOREM RawHashCoversLoader ==
    ASSUME NEW c, NEW d, NEW s, NEW t,
           RawHashPayload(c, s) = RawHashPayload(d, t)
    PROVE  /\ LoaderReads(s) = LoaderReads(t)
           /\ (s.instruction_format = "messages") <=> (t.instruction_format = "messages")
<1>2. \A f \in DOMAIN SourceAnnotation(s) : SourceAnnotation(s)[f] = "raw" =>
        HashedValue(f, s[f]) = HashedValue(f, t[f])
  BY PayloadEquality DEF RawHashPayload
<1>6. s.kind = "pretrain" => s.text_field = t.text_field BY <1>2 DEF SourceAnnotation, HashedValue
<1>7. s.loader = "synthetic" => s.seed = t.seed BY <1>2 DEF SourceAnnotation, HashedValue
<1>8. LoaderReads(s) = LoaderReads(t)
  BY <1>6, <1>7, <1>2 DEF LoaderReads, ReadsSplit, When, SourceAnnotation, HashedValue
<1> QED BY <1>8 DEF RawHashPayload, When, Some, None

LEMMA SomeIsInjective ==
    ASSUME NEW x, NEW y, Some(x) = Some(y)
    PROVE  x = y
BY DEF Some

\* Two sources with one processed identity are built alike: no setting a build reads
\* is left out of the hash, so a folder kept for its hash holds what a rebuild would.
THEOREM ProcessedHashCoversBuild ==
    ASSUME NEW c, NEW d, NEW n, NEW m,
           c.sources[n].kind \in Kinds,
           ProcessedHashPayload(c, n) = ProcessedHashPayload(d, m)
    PROVE  BuildReads(c, n) = BuildReads(d, m)
<1> DEFINE s == c.sources[n]
           t == d.sources[m]
           p == SourceProcessing(c, n)
           q == SourceProcessing(d, m)
<1>1. RawHashPayload(c, s) = RawHashPayload(d, t) BY DEF ProcessedHashPayload
<1> HIDE DEF s, t, p, q
<1>23. LoaderReads(s) = LoaderReads(t) BY <1>1, RawHashCoversLoader
<1>3. s.kind = t.kind BY <1>23 DEF LoaderReads
<1>4. When(s.kind = "pretrain", s.text_field) = When(t.kind = "pretrain", t.text_field)
    BY <1>23 DEF LoaderReads
<1> USE DEF s, t, p, q
<1>5. (s.instruction_format = "messages") = (t.instruction_format = "messages") BY <1>1, RawHashCoversLoader
<1>6. /\ c.dataset_max_sequence_length = d.dataset_max_sequence_length
      /\ c.token_count = d.token_count
      /\ ShuffleOf(c, n) = ShuffleOf(d, m)
      /\ s.seed = t.seed
    BY DEF ProcessedHashPayload
<1>7. /\ c.tokenizer.kind = d.tokenizer.kind
      /\ c.tokenizer.hf_id = d.tokenizer.hf_id
      /\ c.tokenizer.revision = d.tokenizer.revision
  BY PayloadEquality DEF ProcessedHashPayload, TokenizerPayload, TokenizerAnnotation, HashedValue
<1>9. \A f \in DOMAIN DedupAnnotation(p.dedup) :
        DedupAnnotation(p.dedup)[f] = "processed" =>
            HashedValue(f, p.dedup[f]) = HashedValue(f, q.dedup[f])
  BY PayloadEquality, <1>3 DEF DedupPayload, ProcessedHashPayload, DedupAlone, ProcessingPayload
<1>10. p.dedup.mode = q.dedup.mode BY <1>9 DEF DedupAnnotation, HashedValue
<1>13. s.kind # "instruct" =>
        /\ p.min_chars = q.min_chars
        /\ p.quality_filter = q.quality_filter
        /\ p.decontamination = q.decontamination
    BY <1>3, SomeIsInjective DEF When, ProcessedHashPayload, ProcessingPayload
<1>16. When(ShuffleOf(c, n), s.seed) = When(ShuffleOf(d, m), t.seed) BY <1>6
<1>17. When(s.kind # "pretrain", <<s.input_inversions, s.seed>>)
       = When(t.kind # "pretrain", <<t.input_inversions, t.seed>>)
  BY <1>3, <1>6, SomeIsInjective DEF When, Kinds, ProcessedHashPayload
<1>18. /\ When(s.kind = "pretrain", p.min_chars) = When(t.kind = "pretrain", q.min_chars)
       /\ When(s.kind = "pretrain", p.quality_filter)
          = When(t.kind = "pretrain", q.quality_filter)
    BY <1>3, <1>13 DEF When, Kinds
<1>19. When(p.dedup.mode # "none", p.dedup.normalize)
       = When(q.dedup.mode # "none", q.dedup.normalize)
  BY <1>10, <1>9 DEF When, DedupAnnotation, HashedValue
<1>20. When(p.dedup.mode = "minhash",
            <<p.dedup.threshold, p.dedup.num_perm, p.dedup.ngram>>)
       = When(q.dedup.mode = "minhash",
              <<q.dedup.threshold, q.dedup.num_perm, q.dedup.ngram>>)
  BY <1>10, <1>9 DEF When, DedupAnnotation, HashedValue
<1>21. When(s.kind = "pretrain" /\ p.decontamination.enabled,
            <<p.decontamination.ngram, p.decontamination.threshold,
              BenchmarkRevisions(c, p.decontamination.benchmarks)>>)
       = When(t.kind = "pretrain" /\ q.decontamination.enabled,
              <<q.decontamination.ngram, q.decontamination.threshold,
                BenchmarkRevisions(d, q.decontamination.benchmarks)>>)
  BY <1>3, <1>13, SomeIsInjective DEF When, ProcessedHashPayload
<1>22. (ShuffleOf(c, n) \/ (s.kind = "pretrain" /\ p.dedup.mode = "minhash"))
       = (ShuffleOf(d, m) \/ (t.kind = "pretrain" /\ q.dedup.mode = "minhash"))
    BY <1>3, <1>6, <1>10
<1> HIDE DEF s, t, p, q
<1>24. BuildReads(c, n) = BuildReads(d, m)
    BY <1>3, <1>5, <1>6, <1>7, <1>10, <1>4, <1>16, <1>17, <1>18, <1>19, <1>20, <1>21, <1>22
    DEF BuildReads, s, t, p, q
<1> QED BY <1>24

-----------------------------------------------------------------------------
(* Row counts                                                               *)

LEMMA CeilDivBounds ==
    ASSUME NEW a \in Nat, NEW b \in Nat \ {0}
    PROVE  /\ CeilDiv(a, b) \in Nat
           /\ CeilDiv(a, b) * b >= a
           /\ (CeilDiv(a, b) - 1) * b < a
BY DEF CeilDiv

LEMMA ProductOrder ==
    ASSUME NEW x \in Int, NEW y \in Int, NEW k \in Nat \ {0}
    PROVE  /\ x >= y => x * k >= y * k
           /\ x > y => x * k > y * k
           /\ x * k > y * k => x > y
OBVIOUS

\* Download asks for at least the rows at which a source serves its budget.
THEOREM SufficientWithinNeeded ==
    ASSUME NEW c, NEW n, NEW measured,
           RowsNeeded(c, n, measured) \in Nat,
           OrElse(c.sources[n].rows, 0) \in Nat
    PROVE  RowsSufficient(c, n, measured) <= RowsNeeded(c, n, measured)
<1> QED BY DEF RowsSufficient, WithoutMargin, RowsNeeded, CeilDiv

\* A source with the rows its budget asks for still serves it from what the
\* validation holdout, rounded up, leaves for training, up to one row.
THEOREM TrainingPartServesBudget ==
    ASSUME NEW c, NEW n, NEW measured, NEW rows \in Nat,
           UsedInTrain(c, n),
           c.unit \in Nat \ {0},
           TokenBudget(c, n) \in Nat,
           ValidationFractionOf(c, n) \in 0..(c.unit - 1),
           TokensPerRowRate(c, n, measured) \in Nat \ {0},
           rows >= RowsSufficient(c, n, measured)
    PROVE  LET held == CeilDiv(ValidationFractionOf(c, n) * rows, c.unit)
           IN (rows - held + 1) * TokensPerRowRate(c, n, measured)
              > TokenBudget(c, n) * c.unit
<1> DEFINE U == c.unit
           B == TokenBudget(c, n)
           H == ValidationFractionOf(c, n)
           R == TokensPerRowRate(c, n, measured)
           N == RowsFor(B, U, H, R)
           M == WithoutMargin(N)
           V == CeilDiv(H * rows, U)
           G == U - H
           W == R * G
           K == rows - V + 1
<1>1. rows >= M BY DEF RowsSufficient, RowsNeeded
<1>2. U \in Nat \ {0} /\ B \in Nat /\ H \in Nat /\ R \in Nat \ {0} /\ G \in Nat \ {0} OBVIOUS
<1>3. N = CeilDiv(6 * B * U * U, 5 * R * G) /\ M = CeilDiv(5 * N, 6) BY DEF RowsFor, WithoutMargin
<1>4. SUFFICES K * R > B * U OBVIOUS
<1>5. V = CeilDiv(H * rows, U) /\ K = rows - V + 1 /\ G = U - H /\ W = R * G OBVIOUS
<1> HIDE DEF U, B, H, R, N, M, V, G, W, K
<1>6. W \in Nat \ {0} /\ 5 * R * G = 5 * W BY <1>2, <1>5
<1> DEFINE D == B * U
           Q == D * U
<1>7. D \in Nat /\ Q \in Nat /\ 6 * B * U * U = 6 * Q BY <1>2
<1> HIDE DEF D, Q
<1>8. N \in Nat /\ N * (5 * W) >= 6 * Q BY <1>3, <1>6, <1>7, CeilDivBounds
<1>10. (6 * rows) * W >= (5 * N) * W BY <1>1, <1>6, <1>8, ProductOrder, <1>3, CeilDivBounds
<1>13. V \in Nat /\ (V - 1) * U < H * rows BY <1>2, <1>5, CeilDivBounds
<1>14. K \in Int /\ K * U > rows * G BY <1>2, <1>5, <1>13
<1>17. (K * R) * U > D * U
    <2>1. (K * R) * U > rows * W BY <1>2, <1>14, ProductOrder, <1>5
    <2>2. (K * R) * U \in Int /\ rows * W \in Int BY <1>2, <1>6, <1>14
    <2> QED BY <1>7, <2>1, <2>2, <1>6, <1>8, <1>10 DEF Q
<1> QED BY <1>2, <1>14, <1>7, <1>17, ProductOrder DEF D

-----------------------------------------------------------------------------
(* The resolution of a dataset                                              *)

\* The share held out is below one.
LEMMA FractionBelowOne ==
    ASSUME NEW c, DatasetHolds(c), c.unit \in Nat \ {0}, NEW n \in DOMAIN c.sources
    PROVE  ValidationFractionOf(c, n) \in 0..(c.unit - 1)
<1>4. OrElse(c.sources[n].validation_fraction, c.validation_fraction) \in 0..(c.unit - 1)
  BY DEF OrElse, DatasetHolds, SourceValuesHold, None
<1> QED BY <1>4 DEF ValidationFractionOf

LEMMA ShareWithin ==
    ASSUME NEW total \in Nat, NEW unit \in Nat \ {0}, NEW share \in 0..(unit - 1)
    PROVE  CeilDiv(share * total, unit) \in 0..total
<1> DEFINE V == CeilDiv(share * total, unit)
<1>1. share * total \in Nat /\ share * total <= unit * total OBVIOUS
<1>2. V \in Nat /\ (V - 1) * unit < share * total BY <1>1, CeilDivBounds
<1> HIDE DEF V
<1> QED BY <1>2, <1>1 DEF V

\* The counted rows of an accepted resolution, and the split of each source.
THEOREM SplitWithin ==
    ASSUME Assumptions, NEW c \in Configs, NEW s \in Runs, NEW d \in Disks,
           ResolveDataset(c, s, d), NEW n \in DOMAIN c.sources
    PROVE  LET r == Resolved(c, s, d)
           IN /\ r.source_rows[n] \in Nat
              /\ r.validation_rows[n] \in 0..r.source_rows[n]
<1> DEFINE rows == ProcessedRowCounts(c, d)
<1>1. d.footers[n] # None /\ d.listed[n] = d.footers[n] BY DEF ResolveDataset, ProcessedRowsHold
<1>3. rows[n] \in Nat BY <1>1 DEF Assumptions, ProcessedRowCounts, OrElse, None
<1> HIDE DEF rows
<1> QED
  BY <1>3, FractionBelowOne, ShareWithin DEF Assumptions, ValidationRowsOf, Resolved, ResolveSplits, rows

\* The rows a train loader reads are those behind the split, at least one.
LEMMA TrainRange ==
    ASSUME Assumptions, NEW c \in Configs, NEW s \in Runs, NEW d \in Disks,
           ResolveDataset(c, s, d), NEW n \in DOMAIN Resolved(c, s, d).train_sources
    PROVE  LET r == Resolved(c, s, d)
               entry == r.train_sources[n]
           IN /\ r.source_rows[n] \in Nat /\ r.validation_rows[n] \in Nat
              /\ RangeStart(entry, r.source_rows[n]) = r.validation_rows[n]
              /\ RangeStop(entry, r.source_rows[n]) = r.source_rows[n]
              /\ r.validation_rows[n] < r.source_rows[n]
<1> DEFINE r == Resolved(c, s, d)
           total == r.source_rows[n]
           split == r.validation_rows[n]
           entry == r.train_sources[n]
<1>2. total \in Nat /\ split \in 0..total BY SplitWithin DEF Resolved, ResolveTrainSources
<1>4. entry.skip_rows = split /\ entry.max_rows = None BY DEF DataEntry, When, Resolved, ResolveTrainSources
<1>5. EntryRowsInRange(entry, total) > 0 BY DEF ResolveDataset, CheckEntries, EntryHolds
<1> HIDE DEF r, total, split, entry
<1>6. RangeStart(entry, total) = split /\ RangeStop(entry, total) = total
    BY <1>2, <1>4 DEF RangeStart, RangeStop, Smaller
<1> QED BY <1>2, <1>6, <1>5 DEF r, total, split, entry, EntryRowsInRange

\* The rows a validation loader reads are those before the split, one per rank at least.
LEMMA ValRange ==
    ASSUME Assumptions, NEW c \in Configs, NEW s \in Runs, NEW d \in Disks,
           ResolveDataset(c, s, d), NEW i \in DOMAIN Resolved(c, s, d).stages,
           NEW n \in DOMAIN Resolved(c, s, d).stages[i].val_data
    PROVE  LET r == Resolved(c, s, d)
               entry == r.stages[i].val_data[n]
           IN /\ r.validation_rows[n] \in Nat
              /\ RangeStart(entry, r.source_rows[n]) = 0
              /\ RangeStop(entry, r.source_rows[n]) = r.validation_rows[n]
              /\ r.validation_rows[n] >= World
<1> DEFINE r == Resolved(c, s, d)
           total == r.source_rows[n]
           split == r.validation_rows[n]
           entry == r.stages[i].val_data[n]
<1>1. /\ i \in DOMAIN c.stages /\ n \in DOMAIN c.stages[i].val
      /\ entry = DataEntry(c, n, c.stages[i].val[n], "val", r.validation_rows)
    BY DEF Resolved, ResolveStagePlan, ResolveValEntries
<1>3. total \in Nat /\ split \in 0..total BY SplitWithin, <1>1 DEF Assumptions, DatasetHolds
<1>4. entry.skip_rows = 0 /\ entry.max_rows = {split} BY <1>1 DEF DataEntry, When, Some
<1>5. EntryRowsInRange(entry, total) >= LoaderShards(0, World) BY DEF ResolveDataset, CheckEntries, EntryHolds
<1> HIDE DEF r, total, split, entry
<1>6. RangeStart(entry, total) = 0 BY <1>3, <1>4 DEF RangeStart, Smaller
<1>8. RangeStop(entry, total) = split BY <1>3, <1>6, <1>4 DEF RangeStop, Smaller, OrElse, None
<1>10. split >= World BY <1>3, <1>5, <1>6, <1>8 DEF EntryRowsInRange, Assumptions, LoaderShards
<1> QED BY <1>3, <1>6, <1>8, <1>10 DEF r, total, split, entry

\* What is known of the dataset while an attempt runs.
Known == phase = "running" =>
    \E c \in Configs, s \in Runs, d \in Disks :
        ResolveDataset(c, s, d) /\ dataset = Resolved(c, s, d) /\ run = s

\* A rank's pass: the members' next rows, and rows read only once there is a batch
\* or a part of one.
Passing(r) ==
    /\ scoring[r] \in [stage : DOMAIN dataset.stages, read : [Members(r) -> Nat],
                       filled : Nat, batches : Nat]
    /\ scoring[r].filled = 0 /\ scoring[r].batches = 0 =>
           \A n \in Members(r) : scoring[r].read[n] = 0

\* Since the run was started afresh every attempt had one split.
Separated == exact =>
    /\ \A m \in checkpoint : m = Metadata(dataset)
    /\ \A x \in trained :
        /\ x[3] \in Int /\ dataset.validation_rows[x[2]] \in Nat
        /\ x[3] >= dataset.validation_rows[x[2]]
    /\ \A x \in validated : x[3] \in Int /\ x[3] < dataset.validation_rows[x[2]]

ResolutionInv ==
    /\ phase \in {"idle", "running"}
    /\ DOMAIN scoring = Ranks
    /\ disk \in Disks
    /\ Known
    /\ phase = "running" => \A r \in Ranks : scoring[r] = NotScoring \/ Passing(r)
    /\ Separated

\* The first row of a rank's shard of an entry is in the entry's range.
LEMMA FirstShardRow ==
    ASSUME Assumptions, Known, phase = "running",
           NEW i \in DOMAIN dataset.stages, NEW r \in Ranks,
           NEW n \in DOMAIN dataset.stages[i].val_data
    PROVE  HasRow(dataset.stages[i].val_data[n], dataset.source_rows[n], r, 0)
<1>1. PICK c \in Configs, s \in Runs, d \in Disks :
        ResolveDataset(c, s, d) /\ dataset = Resolved(c, s, d)
    BY DEF Known
<1> DEFINE entry == dataset.stages[i].val_data[n]
           total == dataset.source_rows[n]
           stop == dataset.validation_rows[n]
<1>2. /\ RangeStart(entry, total) = 0 /\ RangeStop(entry, total) = stop
      /\ stop \in Nat /\ stop >= World
    BY <1>1, ValRange
<1> HIDE DEF entry, total, stop
<1>4. HasRow(entry, total, r, 0) BY <1>2 DEF HasRow, ShardRow, Ranks, Assumptions
<1> QED BY <1>4 DEF entry, total

LEMMA PassHasBatch ==
    ASSUME Assumptions, Known, phase = "running", NEW r \in Ranks, Passing(r), PassOver(r)
    PROVE  scoring[r].batches > 0
<1>1. PICK c \in Configs, s \in Runs, d \in Disks :
        ResolveDataset(c, s, d) /\ dataset = Resolved(c, s, d) /\ run = s
    BY DEF Known
<1> SUFFICES ASSUME scoring[r].batches = 0 PROVE FALSE BY DEF Passing
<1>3. Remaining(r) = {} /\ scoring[r].filled = 0 BY <1>1 DEF PassOver, EvalItersPerRank, Assumptions
<1> DEFINE i == scoring[r].stage
<1>4. i \in DOMAIN dataset.stages /\ \A n \in Members(r) : scoring[r].read[n] = 0
    BY <1>3, SMTT(40) DEF Passing
<1>5. Members(r) # {}
    <2>1. i \in DOMAIN c.stages /\ Members(r) = DOMAIN c.stages[i].val
        BY <1>1, <1>4 DEF Members, Resolved, ResolveStagePlan, ResolveValEntries
    <2>3. WeightsHold(c.stages[i].val, c.unit) BY <2>1 DEF StageHolds, Assumptions, DatasetHolds
    <2> QED BY <2>1, <2>3, ZenonT(30) DEF WeightsHold
<1>6. PICK n \in Members(r) : TRUE BY <1>5
<1> QED BY <1>3, <1>4, FirstShardRow DEF Remaining, Members, ValEntry

\* Drawing a row moves one member on and fills the batch.
LEMMA DrawRowEffect ==
    ASSUME Known, phase = "running", DOMAIN scoring = Ranks, NEW r \in Ranks, Passing(r),
           NEW n \in Members(r), DrawRow(r, n)
    PROVE  /\ scoring'[r].stage = scoring[r].stage
           /\ scoring'[r].read = [scoring[r].read EXCEPT ![n] = @ + 1]
           /\ scoring'[r] = [stage |-> scoring'[r].stage, read |-> scoring'[r].read,
                              filled |-> scoring'[r].filled, batches |-> scoring'[r].batches]
           /\ scoring'[r].filled \in Nat /\ scoring'[r].batches \in Nat
           /\ scoring'[r].filled # 0 \/ scoring'[r].batches # 0
           /\ DOMAIN scoring' = Ranks
           /\ \A q \in Ranks : q # r => scoring'[q] = scoring[q]
<1> DEFINE full == scoring[r].filled + 1 = run.validation_batch_size
           pass == [stage |-> scoring[r].stage, read |-> [scoring[r].read EXCEPT ![n] = @ + 1],
                    filled |-> IF full THEN 0 ELSE scoring[r].filled + 1,
                    batches |-> IF full THEN scoring[r].batches + 1 ELSE scoring[r].batches]
<1>1. scoring' = [scoring EXCEPT ![r] = pass] BY DEF DrawRow
<1> HIDE DEF full
<1>3. /\ pass.filled \in Nat /\ pass.batches \in Nat
      /\ pass.filled # 0 \/ pass.batches # 0
  BY DEF Passing
<1>4. /\ pass.stage = scoring[r].stage
      /\ pass.read = [scoring[r].read EXCEPT ![n] = @ + 1]
      /\ pass = [stage |-> pass.stage, read |-> pass.read, filled |-> pass.filled,
                 batches |-> pass.batches]
    OBVIOUS
<1> HIDE DEF pass
<1>6. \A q \in Ranks : q # r => scoring'[q] = scoring[q] BY <1>1
<1> QED BY <1>3, <1>4, <1>6, <1>1

LEMMA EstablishInv ==
    ASSUME Assumptions, ResolutionInv, NEW c \in Configs, NEW s \in Runs, Establish(c, s)
    PROVE  /\ phase' \in {"idle", "running"} /\ DOMAIN scoring' = Ranks /\ disk' \in Disks
           /\ Known'
           /\ \A r \in Ranks : scoring'[r] = NotScoring
<1> QED BY DEF Establish, ResolutionInv, Known

LEMMA StartAfreshInv ==
    ASSUME Assumptions, ResolutionInv, NEW c \in Configs, NEW s \in Runs, StartAfresh(c, s)
    PROVE  ResolutionInv'
<1> QED BY EstablishInv DEF StartAfresh, ResolutionInv, Separated, None

LEMMA ResumeInv ==
    ASSUME Assumptions, ResolutionInv, NEW c \in Configs, NEW s \in Runs, Resume(c, s)
    PROVE  ResolutionInv'
<1>2. Separated'
    <2> SUFFICES ASSUME exact' PROVE Separated' BY DEF Separated
    <2>1. exact /\ \A m \in checkpoint : DatasetUnchanged(m, dataset') BY DEF Resume
    <2>3. PICK m \in checkpoint : TRUE BY DEF Resume, None
    <2> QED BY <2>1, <2>3 DEF Separated, ResolutionInv, Resume, Metadata, DatasetUnchanged
<1> QED BY <1>2, EstablishInv DEF ResolutionInv, Resume

LEMMA TrainRowInv ==
    ASSUME Assumptions, ResolutionInv, NEW n, NEW i, TrainRow(n, i)
    PROVE  ResolutionInv'
<1>1. PICK c \in Configs, s \in Runs, d \in Disks :
        ResolveDataset(c, s, d) /\ dataset = Resolved(c, s, d)
    BY DEF Known, ResolutionInv, TrainRow
<1> DEFINE split == dataset.validation_rows[n]
           total == dataset.source_rows[n]
<1> HIDE DEF split, total
<1> DEFINE x == RowOf(n, i)
<1>5. x[2] = n /\ x[3] = i BY DEF RowOf
<1>6. /\ x[3] \in Int /\ dataset.validation_rows[x[2]] \in Nat
      /\ x[3] >= dataset.validation_rows[x[2]]
  BY <1>5, <1>1, TrainRange DEF split, TrainRows, TrainRow
<1>7. trained' = trained \union {x} BY DEF TrainRow
<1> HIDE DEF x
<1>8. UNCHANGED <<disk, phase, dataset, run, checkpoint, exact, validated, scoring>> BY DEF TrainRow
<1> QED BY <1>8, <1>6, <1>7 DEF ResolutionInv, Known, Passing, Members, Separated

LEMMA DrawRowInv ==
    ASSUME Assumptions, ResolutionInv, NEW r \in Ranks, NEW n \in Members(r), DrawRow(r, n)
    PROVE  ResolutionInv'
<1>1. PICK c \in Configs, s \in Runs, d \in Disks :
        ResolveDataset(c, s, d) /\ dataset = Resolved(c, s, d)
    BY DEF Known, ResolutionInv, DrawRow
<1>2. phase = "running" /\ Passing(r) /\ n \in Remaining(r) /\ DOMAIN scoring = Ranks
    BY DEF DrawRow, ResolutionInv
<1>3. UNCHANGED <<disk, phase, dataset, run, checkpoint, exact, trained>> BY DEF DrawRow
<1> DEFINE row == ShardRow(ValEntry(r, n), dataset.source_rows[n], r, scoring[r].read[n])
           x == RowOf(n, row)
<1>4. x[3] \in Int /\ x[3] < dataset.validation_rows[x[2]]
    <2>2. /\ RangeStart(ValEntry(r, n), dataset.source_rows[n]) = 0
          /\ RangeStop(ValEntry(r, n), dataset.source_rows[n]) = dataset.validation_rows[n]
      BY <1>1, ValRange, <1>2 DEF ValEntry, Members, Passing
    <2>5. row \in Int BY <2>2, <1>2 DEF ShardRow, Passing, Ranks, Assumptions
    <2> QED BY <2>5, <1>2, <2>2 DEF RowOf, Remaining, HasRow
<1>5. validated' = validated \union {x} BY DEF DrawRow
<1> HIDE DEF x, row
<1>7. DOMAIN scoring' = Ranks /\ \A q \in Ranks : q # r => scoring'[q] = scoring[q]
    BY <1>2, DrawRowEffect DEF ResolutionInv
<1>8. Passing(r)'
    <2>1. /\ scoring'[r].stage = scoring[r].stage
          /\ scoring'[r].read = [scoring[r].read EXCEPT ![n] = @ + 1]
          /\ scoring'[r] = [stage |-> scoring'[r].stage, read |-> scoring'[r].read,
                             filled |-> scoring'[r].filled, batches |-> scoring'[r].batches]
          /\ scoring'[r].filled \in Nat /\ scoring'[r].batches \in Nat
          /\ scoring'[r].filled # 0 \/ scoring'[r].batches # 0
        BY <1>2, DrawRowEffect DEF ResolutionInv
    <2>3. scoring[r].stage \in DOMAIN dataset.stages /\ scoring[r].read \in [Members(r) -> Nat]
        BY <1>2 DEF Passing
    <2> QED BY <1>3, <2>1, <2>3 DEF Passing, Members
<1>10. \A q \in Ranks : scoring'[q] = NotScoring \/ Passing(q)'
  BY <1>2, <1>7, <1>8, <1>3 DEF ResolutionInv, Passing, Members
<1> QED BY <1>3, <1>7, <1>10, <1>4, <1>5 DEF ResolutionInv, Known, Separated

LEMMA StartEvaluationInv ==
    ASSUME Assumptions, ResolutionInv, NEW i \in DOMAIN dataset.stages, StartEvaluation(i)
    PROVE  ResolutionInv'
<1>1. UNCHANGED <<disk, phase, dataset, run, checkpoint, exact, trained, validated>> BY DEF StartEvaluation
<1> DEFINE pass == [stage |-> i, filled |-> 0, batches |-> 0,
                    read |-> [n \in DOMAIN dataset.stages[i].val_data |-> 0]]
<1>2. scoring' = [r \in Ranks |-> pass] BY DEF StartEvaluation
<1>3. /\ pass \in [stage : DOMAIN dataset.stages, filled : Nat, batches : Nat,
                   read : [DOMAIN dataset.stages[i].val_data -> Nat]]
      /\ pass.stage = i
      /\ \A n \in DOMAIN dataset.stages[i].val_data : pass.read[n] = 0
    OBVIOUS
<1> HIDE DEF pass
<1>6. \A r \in Ranks : Passing(r)' BY <1>1, <1>3, <1>2 DEF Passing, Members
<1> QED BY <1>1, <1>6, <1>2 DEF ResolutionInv, Known, Separated

\* The passes of the ranks end with a batch each, so no rank raises.
LEMMA RankStepInv ==
    ASSUME Assumptions, ResolutionInv, NEW r \in Ranks, ShortBatch(r) \/ RaiseUnscored(r)
    PROVE  ResolutionInv'
<1>1. CASE ShortBatch(r)
    <2>1. UNCHANGED <<disk, phase, dataset, run, checkpoint, exact, trained, validated>>
        BY <1>1 DEF ShortBatch
    <2>2. Passing(r) /\ DOMAIN scoring = Ranks BY <1>1 DEF ShortBatch, ResolutionInv
    <2> DEFINE pass == [stage |-> scoring[r].stage, read |-> scoring[r].read,
                        filled |-> 0, batches |-> scoring[r].batches + 1]
    <2>3. scoring' = [scoring EXCEPT ![r] = pass] BY <1>1 DEF ShortBatch
    <2>4. /\ pass \in [stage : DOMAIN dataset.stages, read : [Members(r) -> Nat],
                       filled : Nat, batches : Nat]
          /\ pass.batches # 0 /\ pass.stage = scoring[r].stage
        BY <2>2 DEF Passing
    <2> HIDE DEF pass
    <2>5. /\ scoring'[r] = pass /\ DOMAIN scoring' = Ranks
          /\ \A q \in Ranks : q # r => scoring'[q] = scoring[q]
        BY <2>2, <2>3
    <2> QED BY <2>1, <2>5, <2>4 DEF ResolutionInv, Known, Separated, Passing, Members
<1>2. CASE RaiseUnscored(r) BY <1>2, PassHasBatch DEF RaiseUnscored, NoBatchSeen, ResolutionInv
<1> QED BY <1>1, <1>2

\* What a step that reads no row leaves of the dataset.
LEMMA OtherStepInv ==
    ASSUME Assumptions, ResolutionInv,
           ChangeDisk \/ ReduceLosses \/ SaveCheckpoint \/ Stop \/ UNCHANGED vars
    PROVE  ResolutionInv'
<1>1. UNCHANGED <<dataset, run, exact, trained, validated>>
    BY DEF ChangeDisk, ReduceLosses, SaveCheckpoint, Stop, vars
<1>2. phase' \in {"idle", "running"} /\ (phase' = "running" => phase = "running")
    BY DEF ChangeDisk, ReduceLosses, SaveCheckpoint, Stop, vars, ResolutionInv
<1>3. disk' \in Disks BY DEF ChangeDisk, ReduceLosses, SaveCheckpoint, Stop, vars, ResolutionInv
<1>4. checkpoint' = checkpoint \/ checkpoint' = {Metadata(dataset)}
    BY DEF ChangeDisk, ReduceLosses, SaveCheckpoint, Stop, vars, Some
<1>5. scoring' = scoring \/ scoring' = [r \in Ranks |-> NotScoring]
    BY DEF ChangeDisk, ReduceLosses, SaveCheckpoint, Stop, vars
<1>9. phase' = "running" => \A r \in Ranks : scoring'[r] = NotScoring \/ Passing(r)'
  BY <1>1, <1>2, <1>5 DEF Passing, Members, ResolutionInv
<1> QED BY <1>2, <1>3, <1>9, <1>1, <1>4, <1>5 DEF ResolutionInv, Known, Separated, Metadata

\* Every reachable state has the split of its lineage.
THEOREM ResolutionInvariance ==
    ASSUME Assumptions
    PROVE  Spec => []ResolutionInv
<1>1. Init => ResolutionInv BY DEF Init, ResolutionInv, Known, Separated, None
<1>2. ResolutionInv /\ [Next]_vars => ResolutionInv'
    <2> SUFFICES ASSUME ResolutionInv, [Next]_vars PROVE ResolutionInv' OBVIOUS
    <2>1. ASSUME NEW c \in Configs, NEW s \in Runs, StartAfresh(c, s) \/ Resume(c, s)
          PROVE  ResolutionInv'
        BY <2>1, StartAfreshInv, ResumeInv
    <2>2. ASSUME NEW n, NEW i, TrainRow(n, i) PROVE ResolutionInv' BY <2>2, TrainRowInv
    <2>3. ASSUME NEW i \in DOMAIN dataset.stages, StartEvaluation(i) PROVE ResolutionInv'
        BY <2>3, StartEvaluationInv
    <2>4. ASSUME NEW r \in Ranks, ShortBatch(r) \/ RaiseUnscored(r) PROVE ResolutionInv' BY <2>4, RankStepInv
    <2>5. ASSUME NEW r \in Ranks, NEW n \in Members(r), DrawRow(r, n) PROVE ResolutionInv' BY <2>5, DrawRowInv
    <2>6. CASE ChangeDisk \/ ReduceLosses \/ SaveCheckpoint \/ Stop \/ UNCHANGED vars BY <2>6, OtherStepInv
    <2> QED BY <2>1, <2>2, <2>3, <2>4, <2>5, <2>6 DEF Next
<1> QED BY <1>1, <1>2, PTL DEF Spec

\* A run never trains on a row it is validated on, over all its attempts, unless one
\* of them was let resume on a changed dataset.
THEOREM RowsHeldOut ==
    ASSUME Assumptions
    PROVE  Spec => []HeldOut
<1>1. ResolutionInv => HeldOut BY DEF HeldOut, ResolutionInv, Separated
<1> QED BY <1>1, ResolutionInvariance, PTL

\* An accepted dataset feeds every loader: each rank's shard of every validation
\* entry and every training range has a row, and no rank's evaluation is empty.
THEOREM LoadersAreFed ==
    ASSUME Assumptions
    PROVE  Spec => [](NoShardIsEmpty /\ EveryRankScores /\ EpochsHaveRows)
<1>1. ResolutionInv => NoShardIsEmpty BY FirstShardRow DEF ResolutionInv, NoShardIsEmpty
<1>2. ResolutionInv => EveryRankScores BY DEF ResolutionInv, EveryRankScores
<1>3. ResolutionInv => EpochsHaveRows BY TrainRange DEF EpochsHaveRows, Known, ResolutionInv, TrainRows
<1> QED BY <1>1, <1>2, <1>3, ResolutionInvariance, PTL

-----------------------------------------------------------------------------
(* Settings and the model                                                   *)

IntegerSettings == PositiveSettings \union NonNegativeSettings
IntegersIn(s) ==
    (\A f \in IntegerSettings : s[f] \in Int) /\ s.training_max_sequence_length \in Int

\* Settings that passed the sign rules are natural numbers.
LEMMA SignsHold ==
    ASSUME NEW s, NEW unit, IntegersIn(s), SettingsHold(s, unit)
    PROVE  /\ \A f \in PositiveSettings : s[f] \in Nat \ {0}
           /\ \A f \in NonNegativeSettings : s[f] \in Nat
<1> QED BY DEF SettingsHold, IntegersIn, IntegerSettings

\* What divides a divisor of a number divides the number.
LEMMA DividesOn ==
    ASSUME NEW a \in Nat, NEW b \in Nat \ {0}, NEW c \in Nat \ {0},
           a % b = 0, b % c = 0
    PROVE  a % c = 0
<1> DEFINE q == a \div b
           r == b \div c
<1>1. q \in Int /\ a = b * q OBVIOUS
<1>2. r \in Int /\ b = c * r OBVIOUS
<1> HIDE DEF q, r
<1>5. \A k \in Int : (c * k) % c = 0 OBVIOUS
<1> QED BY <1>5, <1>1, <1>2

\* Every validation result and every probe of the gradients falls on a step whose
\* metrics are written, whatever the intervals and the length of the run.
THEOREM IntervalsAreKept ==
    ASSUME NEW s, NEW unit, NEW totalSteps \in Nat, IntegersIn(s), SettingsHold(s, unit)
    PROVE  ResultsAreLogged(s, totalSteps)
<1>1. /\ s["log_step_interval"] \in Nat \ {0} /\ s["eval_step_interval"] \in Nat \ {0}
      /\ s["log_gradient_metrics_interval"] \in Nat
    BY SignsHold DEF PositiveSettings, NonNegativeSettings
<1>2. /\ s.eval_step_interval % s.log_step_interval = 0
      /\ s.log_gradient_metrics_interval % s.log_step_interval = 0
    BY DEF SettingsHold, IntervalsHold
<1> SUFFICES ASSUME NEW step \in Nat,
                    IsEvaluationStep(s, step, totalSteps) \/ IsProbed(s, step)
             PROVE  IsLogged(s, step, totalSteps)
    BY DEF ResultsAreLogged
<1>3. CASE step >= totalSteps BY <1>3 DEF IsLogged
<1>4. CASE step % s.eval_step_interval = 0 BY <1>1, <1>2, <1>4, DividesOn DEF IsLogged
<1>5. CASE IsProbed(s, step) BY <1>5, <1>1, <1>2, DividesOn DEF IsProbed, IsLogged
<1> QED BY <1>3, <1>4, <1>5 DEF IsEvaluationStep

\* The packs of a step split into whole shares of at least one, and the unit of the
\* stage budgets is a positive number of tokens.
THEOREM SharesMakeTheStep ==
    ASSUME NEW s, NEW unit, NEW world \in Int, IntegersIn(s), SettingsHold(s, unit),
           WorldSizeHolds(s, world)
    PROVE  SharesAreWhole(s, world)
<1> DEFINE total == s.micro_batches_per_step
           tokens == s.tokens_per_micro_batch
           share == total \div world
<1>2. world \in Nat \ {0} /\ total % world = 0 BY DEF WorldSizeHolds, SplitsOverRanks
<1>3. total \in Nat \ {0} /\ tokens \in Nat \ {0} BY SignsHold DEF PositiveSettings, NonNegativeSettings
<1> HIDE DEF total, tokens
<1>4. share \in Int /\ total = world * share BY <1>2, <1>3
<1> HIDE DEF share
<1>5. share > 0 BY <1>2, <1>3, <1>4
<1>6. share * world = total BY <1>2, <1>4
<1>7. total * tokens \in Nat \ {0} BY <1>3
<1> QED
    BY <1>4, <1>5, <1>6, <1>7
    DEF SharesAreWhole, MicroBatchesPerRank, TokensPerOptimizerStep, total, tokens, share

\* The settings and the dataset config a run starts on are what the validation split,
\* the loaders and the validation passes are proved under.
THEOREM StartedRunsFitTheDataset ==
    ASSUME World \in Int, Runs # {},
           \A c \in Configs : c.unit \in Nat \ {0} /\ DatasetHolds(c),
           \A s \in Runs : IntegersIn(s) /\ (\E unit : SettingsHold(s, unit))
                             /\ WorldSizeHolds(s, World),
           \A c \in Configs, d \in Disks : \A n \in DOMAIN c.sources : d.footers[n] \subseteq Nat
    PROVE  Assumptions
<1>1. ASSUME NEW s \in Runs
      PROVE  /\ World \in Nat \ {0} /\ s.eval_iters \div World \in Nat \ {0}
             /\ s.validation_batch_size \in Nat \ {0}
  BY SignsHold DEF PositiveSettings, NonNegativeSettings, WorldSizeHolds, SplitsOverRanks
<1> QED BY <1>1 DEF Assumptions

\* A run that starts trains on documents its packs and its position table hold, with a
\* trained embedding for every token and gradient in every block, though the dataset
\* config may have changed between the plan and the resolution.
THEOREM StartedRunsFitTheModel ==
    ASSUME NEW s, NEW loaded, NEW c, NEW d, NEW world, NEW tokens \in Nat, NEW contract,
           IntegersIn(s),
           FromYaml(loaded, Overrides(s)).n_layers_in_recurrent_block \in Seq(Int),
           Constructed(FromYaml(loaded, Overrides(s))).mean_recurrence \in Seq(Int),
           Constructed(FromYaml(loaded, Overrides(s))).mean_backprop_depth \in Seq(Int),
           Starts(s, loaded, c, d, world, tokens, contract)
    PROVE  /\ ForwardFits(s, Constructed(FromYaml(loaded, Overrides(s))), tokens)
           /\ s.training_max_sequence_length <= d.dataset_max_sequence_length
<1> DEFINE m == FromYaml(loaded, Overrides(s))
           model == Constructed(m)
<1>1. /\ SettingsHold(s, d.unit) /\ RecurrenceHolds(model) /\ ContractHolds(contract, model)
      /\ TokenizerVocabularyHolds(tokens, model) /\ SequenceLengthsHold(s, d, model)
    BY DEF Starts, PlanHolds, ModelHolds
<1>2. model.n_layers_in_recurrent_block = m.n_layers_in_recurrent_block BY DEF Constructed
<1> HIDE DEF m, model
<1>5. \E padded \in model.padded_vocab_size :
          tokens <= model.vocab_size /\ model.vocab_size <= padded
    BY <1>1 DEF ContractHolds, TokenizerVocabularyHolds
<1>6. ASSUME NEW b \in 1..NumBlocks(model)
      PROVE  model.mean_backprop_depth[b] \in 1..model.mean_recurrence[b]
  BY <1>1 DEF RecurrenceHolds, model, m
<1> QED BY <1>5, <1>6, <1>1 DEF ForwardFits, model, m, SequenceLengthsHold, SettingsHold

-----------------------------------------------------------------------------
(* Resuming                                                                 *)

\* What the groups of a run tell of its optimizer.
LEMMA GroupsTell ==
    ASSUME NEW s, s.optimizer \in Optimizers
    PROVE  /\ "betas" \in DOMAIN Hyperparameters(s, 1)
           /\ "eps" \in DOMAIN Hyperparameters(s, 1)
           /\ "weight_decay" \in DOMAIN Hyperparameters(s, 1)
           /\ Hyperparameters(s, 1)["betas"] = s.optim_config.betas
           /\ Hyperparameters(s, 1)["eps"] = Eps(s)
           /\ Hyperparameters(s, 1)["weight_decay"] = s.optim_config.weight_decay
           /\ s.optimizer # "AdamW" <=> "init_lr" \in DOMAIN Hyperparameters(s, 1)
           /\ s.optimizer = "ELLISAdam8bit" <=> "state_bits" \in DOMAIN Hyperparameters(s, 1)
           /\ s.optimizer # "AdamW" =>
                  \A key \in DOMAIN EllisOptions(s) :
                      /\ key \in DOMAIN Hyperparameters(s, 1)
                      /\ Hyperparameters(s, 1)[key] = EllisOptions(s)[key]
<1>1. /\ DOMAIN CommonOptions(s, 1) = {"betas", "eps", "weight_decay"}
      /\ CommonOptions(s, 1)["betas"] = s.optim_config.betas
      /\ CommonOptions(s, 1)["eps"] = Eps(s)
      /\ CommonOptions(s, 1)["weight_decay"] = s.optim_config.weight_decay
    BY DEF CommonOptions, WeightDecay
<1>2. DOMAIN EllisOptions(s) =
          {"init_lr", "update_clipping", "running_init", "atan_adam", "decouple_wd"}
    BY DEF EllisOptions
<1>4. CASE s.optimizer = "AdamW" BY <1>4, <1>1 DEF Hyperparameters
<1> DEFINE ellis == Overlay(EllisOptions(s), CommonOptions(s, 1))
<1>5. /\ DOMAIN ellis = DOMAIN EllisOptions(s) \union DOMAIN CommonOptions(s, 1)
      /\ \A key \in DOMAIN EllisOptions(s) : ellis[key] = EllisOptions(s)[key]
      /\ \A key \in DOMAIN CommonOptions(s, 1) \ DOMAIN EllisOptions(s) :
             ellis[key] = CommonOptions(s, 1)[key]
    BY DEF Overlay
<1> HIDE DEF ellis
<1>6. CASE s.optimizer = "ELLISAdam" BY <1>6, <1>1, <1>2, <1>5 DEF Hyperparameters, ellis
<1>7. CASE s.optimizer = "ELLISAdam8bit"
  BY <1>7, <1>1, <1>2, <1>5 DEF Hyperparameters, ellis, Overlay, StateBits
<1> QED BY <1>4, <1>6, <1>7 DEF Optimizers, EllisOptimizers

\* Groups that pass the comparison have the same fields and the same values.
LEMMA GroupsAgree ==
    ASSUME NEW f, NEW g, NEW key \in DOMAIN f \union DOMAIN g, Get(f, key) = Get(g, key)
    PROVE  key \in DOMAIN f /\ key \in DOMAIN g /\ f[key] = g[key]
BY DEF Get, Some, None

\* However often a run is resumed and whatever it allows to change, its optimizer, all the
\* update reads but the scheduled learning rate, the decay of its groups, its number of
\* ranks and its tokenizer stay those it was started with.
THEOREM ResumeKeepsTheOptimizer ==
    ASSUME NEW a, NEW aModel, NEW aWorld, NEW aContract,
           NEW b, NEW bModel, NEW bWorld, NEW bContract,
           a.optimizer \in Optimizers, b.optimizer \in Optimizers,
           {ParamGroupingSetting, "optimizer_sharding"} \subseteq DOMAIN a,
           ParamGroupingSetting \in DOMAIN b,
           Restores(MetadataOf(a, aModel, aWorld, aContract), b, bModel, bWorld, bContract)
    PROVE  SameOptimizer(a, b) /\ aWorld = bWorld /\ aContract = bContract
<1> DEFINE meta == MetadataOf(a, aModel, aWorld, aContract)
<1>1. /\ meta.settings = a /\ meta.groups = GroupHyperparameters(a)
      /\ meta.world_size = aWorld /\ meta.tokenizer_contract = aContract
    BY DEF MetadataOf
<1>2. /\ meta.tokenizer_contract = bContract /\ meta.world_size = bWorld
      /\ OrElse(Get(meta.settings, "optimizer_sharding"), "none") = b.optimizer_sharding
      /\ ParamGroupsUnchanged(GroupHyperparameters(b), meta.groups)
      /\ SettingsUnchanged(meta, b, bModel)
    BY DEF Restores
<1> HIDE DEF meta
<1> DEFINE f == Hyperparameters(b, 1)
           g == Hyperparameters(a, 1)
<1>4. \A key \in DOMAIN f \union DOMAIN g : Get(f, key) = Get(g, key)
    <2>1. 1 \in Groups BY DEF Groups
    <2> QED BY <1>1, <1>2, <2>1 DEF ParamGroupsUnchanged, GroupHyperparameters
<1> HIDE DEF f, g
<1>5. \A key \in DOMAIN f \union DOMAIN g :
          key \in DOMAIN f /\ key \in DOMAIN g /\ f[key] = g[key]
    BY <1>4, GroupsAgree
<1>6. a.optimizer = b.optimizer BY <1>5, GroupsTell DEF f, g, Optimizers, EllisOptimizers
<1>7. /\ a.optim_config.betas = b.optim_config.betas /\ Eps(a) = Eps(b)
      /\ a.optim_config.weight_decay = b.optim_config.weight_decay
    BY <1>5, GroupsTell DEF f, g
<1>8. a.optimizer # "AdamW" => EllisOptions(a) = EllisOptions(b)
  BY <1>5, <1>6, GroupsTell DEF EllisOptions, f, g
<1>9. a[ParamGroupingSetting] = b[ParamGroupingSetting]
    <2> DEFINE stored == Overlay(a, LegacySettings)
    <2>1. ParamGroupingSetting \in DOMAIN stored
          /\ stored[ParamGroupingSetting] = a[ParamGroupingSetting]
        BY DEF Overlay
    <2>2. ParamGroupingSetting \notin ChangedSettings(stored, b) BY <1>1, <1>2, <2>1 DEF SettingsUnchanged
    <2> HIDE DEF stored
    <2>4. Get(stored, ParamGroupingSetting) = Some(b[ParamGroupingSetting])
      BY <2>2 DEF ChangedSettings, ParamGroupingSetting, AllowedToDiffer
    <2> QED BY <2>1, <2>4 DEF Get, Some
<1> QED BY <1>1, <1>2, <1>6, <1>7, <1>8, <1>9 DEF SameOptimizer, Get, OrElse, Some, None

\* A resume that does not ask for it changes no setting but the exempt ones, and not the
\* model.
THEOREM ResumeKeepsTheSettings ==
    ASSUME NEW a, NEW aModel, NEW aWorld, NEW aContract,
           NEW b, NEW bModel, NEW bWorld, NEW bContract,
           DOMAIN LegacyModel \subseteq DOMAIN aModel,
           aModel = [x \in DOMAIN aModel |-> aModel[x]],
           ~b.allow_settings_change,
           Restores(MetadataOf(a, aModel, aWorld, aContract), b, bModel, bWorld, bContract)
    PROVE  SameSettings(a, b) /\ aModel = bModel
<1> DEFINE meta == MetadataOf(a, aModel, aWorld, aContract)
           stored == Overlay(a, LegacySettings)
<1>1. meta.settings = a /\ meta.model_config = aModel BY DEF MetadataOf
<1>2. SettingsUnchanged(meta, b, bModel) BY DEF Restores
<1> HIDE DEF meta
<1>3. ChangedSettings(stored, b) = {} /\ bModel = Overlay(aModel, LegacyModel)
    BY <1>1, <1>2 DEF SettingsUnchanged
<1>4. ASSUME NEW key \in (DOMAIN a \intersect DOMAIN b) \ AllowedToDiffer
      PROVE  a[key] = b[key]
    <2>1. key \in DOMAIN stored /\ stored[key] = a[key] BY DEF Overlay
    <2> HIDE DEF stored
    <2> QED BY <2>1, <1>3 DEF Get, Some, ChangedSettings
<1>5. Overlay(aModel, LegacyModel) = aModel
    <2>2. Overlay(aModel, LegacyModel) = [x \in DOMAIN aModel |-> aModel[x]] BY DEF Overlay
    <2> QED BY <2>2
<1> QED BY <1>3, <1>4, <1>5 DEF SameSettings

-----------------------------------------------------------------------------
(* Conversations: the naturals, and what a recursion over them computes *)

\* Induction over the naturals, by the smallest interval that breaks it.
LEMMA NaturalsAreInductive ==
    ASSUME NEW S, 0 \in S, \A n \in Nat : n \in S => n + 1 \in S
    PROVE  Nat \subseteq S
<1> SUFFICES ASSUME Nat \ S # {} PROVE FALSE OBVIOUS
<1> DEFINE T == {1..n : n \in Nat \ S}
<1>2. T \subseteq FiniteSubsetsOf(Nat) /\ T # {}
  <2>1. \A n \in Nat : 1..n \in FiniteSubsetsOf(Nat) BY FS_Interval DEF FiniteSubsetsOf
  <2> QED BY <2>1
<1>3. \E s \in T : \A t \in T : <<t, s>> \notin StrictSubsetOrdering(Nat)
  <2> HIDE DEF T
  <2> QED BY <1>2, WFMin, FS_StrictSubsetOrderingWellFounded
<1>4. PICK x \in Nat \ S : \A t \in T : <<t, 1..x>> \notin StrictSubsetOrdering(Nat) BY <1>3
<1>5. ASSUME NEW y \in Nat \ S, y < x
      PROVE  FALSE
  <2>3. <<1..y, 1..x>> \in StrictSubsetOrdering(Nat) BY <1>5 DEF StrictSubsetOrdering
  <2> QED BY <1>4, <2>3
<1> QED BY <1>5

\* g is computed by a recursion over 0..N.
Iterates(g, V, N, first, step) ==
    /\ g \in [0..N -> V]
    /\ g[0] = first
    /\ \A n \in 1..N : g[n] = step[<<n, g[n - 1]>>]

\* What a recursion over 0..N defines exists.
LEMMA RecursionExists ==
    ASSUME NEW V, NEW N \in Nat, NEW first \in V,
           NEW step \in [(1..N) \X V -> V]
    PROVE  \E g : Iterates(g, V, N, first, step)
<1> DEFINE Good(g, k) == /\ g[0] = first
                         /\ \A n \in 1..k : g[n] = step[<<n, g[n - 1]>>]
           S == {k \in Nat : k <= N => \E g \in [0..k -> V] : Good(g, k)}
<1>1. 0 \in S
  <2> DEFINE g == [n \in 0..0 |-> first]
  <2>1. g \in [0..0 -> V] /\ Good(g, 0) OBVIOUS
  <2> QED BY <2>1
<1>2. ASSUME NEW k \in Nat, k \in S
      PROVE  k + 1 \in S
  <2> SUFFICES ASSUME k + 1 <= N
               PROVE  \E g \in [0..(k + 1) -> V] : Good(g, k + 1)
      OBVIOUS
  <2>1. PICK g \in [0..k -> V] : Good(g, k) BY <1>2
  <2> DEFINE h == [n \in 0..(k + 1) |-> IF n <= k THEN g[n] ELSE step[<<k + 1, g[k]>>]]
  <2>3. h \in [0..(k + 1) -> V] OBVIOUS
  <2>4. h[0] = first BY <2>1
  <2>5. ASSUME NEW n \in 1..(k + 1)
        PROVE  h[n] = step[<<n, h[n - 1]>>]
    <3>1. n - 1 \in 0..k /\ h[n - 1] = g[n - 1] OBVIOUS
    <3>2. CASE n <= k BY <2>1, <3>1, <3>2
    <3>3. CASE n = k + 1
      <4>1. h[k + 1] = step[<<k + 1, g[k]>>] OBVIOUS
      <4> HIDE DEF h
      <4> QED BY <3>3, <4>1, <3>1
    <3> QED BY <3>2, <3>3
  <2>6. Good(h, k + 1) BY <2>4, <2>5
  <2> QED BY <2>3, <2>6
<1>3. Nat \subseteq S
  <2> HIDE DEF S
  <2> QED BY <1>1, <1>2, NaturalsAreInductive
<1>4. PICK g \in [0..N -> V] : Good(g, N) BY <1>3
<1> QED BY <1>4 DEF Iterates

\* The encoder maps a content to tokens, and the structural tokens are tokens.
EncodersAssumption ==
    /\ \A c \in Content : Encode(c) \in Seq(Token)
    /\ {Bos, Eos, User, Assistant} \subseteq Token
    /\ {FirstUser, NextUser, Answer} \subseteq Seq(Token)
    /\ Literal \in BOOLEAN

\* Tokens with their supervision; every choice of structural tokens.
Mark == [id : Token, supervised : BOOLEAN]
AnyOptions == [bos : BOOLEAN, eos : BOOLEAN]

\* Marking keeps the length and marks every token alike.
LEMMA MarkedIsTyped ==
    ASSUME NEW ids \in Seq(Token), NEW learn \in BOOLEAN
    PROVE  /\ Marked(ids, learn) \in Seq(Mark)
           /\ Len(Marked(ids, learn)) = Len(ids)
           /\ \A k \in 1..Len(ids) : Marked(ids, learn)[k].supervised = learn
<1>2. Len(ids) \in Nat OBVIOUS
<1> QED BY <1>2 DEF Marked, Mark

\* A turn is a header and a body; an answer ends with a supervised Eos.
LEMMA TurnIsTyped ==
    ASSUME EncodersAssumption,
           NEW m \in Seq(Content), NEW i \in 1..Len(m), NEW o \in AnyOptions
    PROVE  /\ Marked(Header(i), FALSE) \in Seq(Mark)
           /\ Marked(Encode(m[i]) \o Closing(i, o), ~Asks(i)) \in Seq(Mark)
           /\ Turn(m, i, o) \in Seq(Mark)
           /\ ~Asks(i) /\ o.eos =>
                /\ Len(Turn(m, i, o)) >= 1
                /\ Turn(m, i, o)[Len(Turn(m, i, o))].supervised
<1> DEFINE h == Marked(Header(i), FALSE)
           ids == Encode(m[i]) \o Closing(i, o)
           b == Marked(ids, ~Asks(i))
<1>1. Header(i) \in Seq(Token) BY DEF Header, EncodersAssumption
<1>2. Encode(m[i]) \in Seq(Token) BY DEF EncodersAssumption
<1>3. Closing(i, o) \in Seq(Token) /\ (~Asks(i) /\ o.eos => Len(Closing(i, o)) = 1)
    BY DEF Closing, EncodersAssumption
<1>4. ids \in Seq(Token) /\ Len(ids) = Len(Encode(m[i])) + Len(Closing(i, o)) BY <1>2, <1>3, ConcatProperties
<1>5. (~Asks(i)) \in BOOLEAN BY Zenon DEF Asks
<1>6. h \in Seq(Mark) BY <1>1, MarkedIsTyped
<1> HIDE DEF ids
<1>7. b \in Seq(Mark) /\ Len(b) = Len(ids) BY <1>4, <1>5, MarkedIsTyped
<1>11. ~Asks(i) => \A k \in 1..Len(ids) : b[k].supervised
  <2>1. \A k \in 1..Len(ids) : b[k].supervised = (~Asks(i)) BY <1>4, <1>5, MarkedIsTyped, Zenon
  <2> QED BY <2>1, Zenon
<1> HIDE DEF b, h
<1>8. /\ h \o b \in Seq(Mark) /\ Len(h \o b) = Len(h) + Len(b)
      /\ \A k \in 1..(Len(h) + Len(b)) :
            (h \o b)[k] = IF k <= Len(h) THEN h[k] ELSE b[k - Len(h)]
    BY <1>6, <1>7, ConcatProperties
<1>9. Turn(m, i, o) = h \o b BY DEF Turn, h, b, ids
<1>10. ASSUME ~Asks(i), o.eos
       PROVE  Len(h \o b) >= 1 /\ (h \o b)[Len(h \o b)].supervised
  <2>4. Len(Closing(i, o)) = 1 BY <1>3, <1>10, Zenon
  <2>1. Len(b) \in Nat /\ Len(b) >= 1 /\ Len(h) \in Nat BY <1>4, <1>7, <2>4, <1>2, <1>6, LenProperties
  <2> QED BY <1>8, <2>1, <1>7, <1>10, <1>11
<1> QED BY <1>6, <1>7, <1>8, <1>9, <1>10 DEF h, b, ids

\* A conversation opens with a Bos or with nothing.
LEMMA OpeningIsTyped ==
    ASSUME EncodersAssumption, NEW o \in AnyOptions
    PROVE  /\ Opening(o) \in Seq(Mark)
           /\ o.bos => Len(Opening(o)) = 1
<1>1. <<Bos>> \in Seq(Token) /\ Len(<<Bos>>) = 1 BY DEF EncodersAssumption
<1>2. Marked(<<Bos>>, FALSE) \in Seq(Mark) /\ Len(Marked(<<Bos>>, FALSE)) = 1 BY <1>1, MarkedIsTyped
<1>3. CASE o.bos BY <1>2, <1>3 DEF Opening
<1>4. CASE ~o.bos BY <1>4 DEF Opening
<1> QED BY <1>3, <1>4

\* Written is what its recursion says.
LEMMA WrittenHolds ==
    ASSUME EncodersAssumption, NEW m \in Seq(Content), NEW o \in AnyOptions
    PROVE  /\ Written(m, o)[0] = Opening(o)
           /\ \A n \in 1..Len(m) : Written(m, o)[n] = Written(m, o)[n - 1] \o Turn(m, n, o)
           /\ \A n \in 0..Len(m) : Written(m, o)[n] \in Seq(Mark)
<1> DEFINE N == Len(m)
           F(w) == w = [n \in 0..N |->
                        IF n = 0 THEN Opening(o) ELSE w[n - 1] \o Turn(m, n, o)]
           V == Seq(Mark)
           step == [p \in (1..N) \X V |-> p[2] \o Turn(m, p[1], o)]
<1>1. N \in Nat /\ Opening(o) \in Seq(Mark) BY OpeningIsTyped
<1>2. \A n \in 1..N : Turn(m, n, o) \in Seq(Mark) BY TurnIsTyped
<1>3. step \in [(1..N) \X V -> V] BY <1>2, ConcatProperties
<1>4. \A n \in 1..N, s \in V : step[<<n, s>>] = s \o Turn(m, n, o) OBVIOUS
<1>16. Opening(o) \in V BY <1>1
<1> DEFINE first == Opening(o)
<1>17. N \in Nat /\ first \in V BY <1>1
<1> HIDE DEF step, V, N, first
<1>18. \E g : Iterates(g, V, N, first, step) BY <1>3, <1>17, RecursionExists
<1>5. PICK g \in [0..N -> V] :
        g[0] = Opening(o) /\ \A n \in 1..N : g[n] = step[<<n, g[n - 1]>>]
    BY <1>18 DEF first, Iterates
<1>6. \A n \in 0..N : g[n] = IF n = 0 THEN Opening(o) ELSE g[n - 1] \o Turn(m, n, o)
  <2>1. ASSUME NEW n \in 1..N PROVE g[n] = g[n - 1] \o Turn(m, n, o)
    <3>1. n - 1 \in 0..N /\ g[n - 1] \in V BY <1>1, <1>17
    <3> QED BY <1>4, <1>5, <3>1
  <2>2. \A n \in 0..N : n = 0 \/ n \in 1..N BY <1>17
  <2> QED BY <1>5, <2>1, <2>2
<1> USE DEF N, V
<1>7. F(g) BY <1>6
<1>8. Written(m, o) = CHOOSE w : F(w) BY DEF Written
<1> DEFINE f == Written(m, o)
           d == [n \in 0..N |-> IF n = 0 THEN Opening(o) ELSE f[n - 1] \o Turn(m, n, o)]
<1>9. F(f)
  <2> HIDE DEF F
  <2> QED BY <1>7, <1>8
<1>10. f = d BY <1>9
<1>11. \A n \in 0..N : d[n] = IF n = 0 THEN Opening(o) ELSE f[n - 1] \o Turn(m, n, o) OBVIOUS
<1> HIDE DEF d, f
<1>12. \A n \in 0..N : f[n] = IF n = 0 THEN Opening(o) ELSE f[n - 1] \o Turn(m, n, o) BY <1>10, <1>11
<1>13. f[0] = Opening(o) BY <1>1, <1>12
<1>14. ASSUME NEW n \in 1..N PROVE f[n] = f[n - 1] \o Turn(m, n, o)
  <2>1. n \in 0..N /\ n # 0 BY <1>1
  <2> QED BY <1>12, <2>1, Zenon
<1>15. \A n \in 0..N : f[n] \in Seq(Mark)
  <2> DEFINE S == {k \in Nat : k \in 0..N => f[k] \in Seq(Mark)}
  <2>1. 0 \in S BY <1>1, <1>13
  <2>2. ASSUME NEW k \in Nat, k \in S
        PROVE  k + 1 \in S
    <3> SUFFICES ASSUME k + 1 \in 0..N PROVE f[k + 1] \in Seq(Mark) OBVIOUS
    <3>1. f[k] \in Seq(Mark) /\ k + 1 \in 1..N /\ (k + 1) - 1 = k BY <1>1, <2>2
    <3>2. f[k + 1] = f[k] \o Turn(m, k + 1, o) BY <1>14, <3>1
    <3> QED BY <1>2, <3>1, <3>2, ConcatProperties
  <2>3. Nat \subseteq S
    <3> HIDE DEF S
    <3> QED BY <2>1, <2>2, NaturalsAreInductive
  <2> QED BY <1>1, <2>3
<1> QED BY <1>13, <1>14, <1>15 DEF f

\* The first messages of a conversation.
LEMMA FirstMessages ==
    ASSUME NEW m \in Seq(Content), NEW k \in 0..Len(m)
    PROVE  /\ SubSeq(m, 1, k) \in Seq(Content)
           /\ Len(SubSeq(m, 1, k)) = k
           /\ \A i \in 1..k : SubSeq(m, 1, k)[i] = m[i]
<1> QED BY SubSeqProperties

\* What the first messages are written as does not depend on the others.
LEMMA WrittenOfFirst ==
    ASSUME EncodersAssumption, NEW m \in Seq(Content), NEW o \in AnyOptions,
           NEW k \in 0..Len(m), NEW n \in 0..k
    PROVE  Written(SubSeq(m, 1, k), o)[n] = Written(m, o)[n]
<1> DEFINE p == SubSeq(m, 1, k)
           w == Written(m, o)
           v == Written(p, o)
           S == {i \in Nat : i \in 0..k => v[i] = w[i]}
<1>1. p \in Seq(Content) /\ Len(p) = k /\ \A i \in 1..k : p[i] = m[i] BY FirstMessages
<1> HIDE DEF p
<1>2. v[0] = Opening(o) /\ \A i \in 1..k : v[i] = v[i - 1] \o Turn(p, i, o) BY <1>1, WrittenHolds
<1>3. w[0] = Opening(o) /\ \A i \in 1..Len(m) : w[i] = w[i - 1] \o Turn(m, i, o) BY WrittenHolds
<1>4. \A i \in 1..k : Turn(p, i, o) = Turn(m, i, o) BY <1>1 DEF Turn
<1>5. 1..k \subseteq 1..Len(m) OBVIOUS
<1> HIDE DEF v, w
<1>6. 0 \in S BY <1>2, <1>3
<1>7. ASSUME NEW i \in Nat, i \in S
      PROVE  i + 1 \in S
  <2> SUFFICES ASSUME i + 1 \in 0..k PROVE v[i + 1] = w[i + 1] OBVIOUS
  <2>1. v[i] = w[i] /\ i + 1 \in 1..k /\ (i + 1) - 1 = i BY <1>7
  <2>2. v[i + 1] = v[i] \o Turn(p, i + 1, o) BY <1>2, <2>1
  <2>3. w[i + 1] = w[i] \o Turn(m, i + 1, o) BY <1>3, <1>5, <2>1
  <2> QED BY <1>4, <2>1, <2>2, <2>3
<1>8. Nat \subseteq S
  <2> HIDE DEF S
  <2> QED BY <1>6, <1>7, NaturalsAreInductive
<1> QED BY <1>8 DEF v, w, p

-----------------------------------------------------------------------------
(* The ends of the exchanges *)

\* A whole conversation has a Bos and an Eos.
LEMMA FullIsAny == Full \in AnyOptions
    BY DEF Full, AnyOptions

\* The end of an exchange is a length, of an even number of messages.
LEMMA EndIsTyped ==
    ASSUME EncodersAssumption, NEW m \in Seq(Content), NEW o \in AnyOptions,
           NEW k \in 0..Complete(m)
    PROVE  ExchangeEnd(m, o, k) \in Nat /\ 2 * k \in 0..Len(m)
<1> QED BY LenProperties, WrittenHolds DEF ExchangeEnd, Complete

\* An exchange is two turns; with an Eos it is not empty.
LEMMA NextEnd ==
    ASSUME EncodersAssumption, NEW m \in Seq(Content), NEW o \in AnyOptions,
           NEW k \in 1..Complete(m)
    PROVE  /\ ExchangeEnd(m, o, k - 1) <= ExchangeEnd(m, o, k)
           /\ o.eos => /\ ExchangeEnd(m, o, k - 1) < ExchangeEnd(m, o, k)
                       /\ Written(m, o)[2 * k][ExchangeEnd(m, o, k)].supervised
<1> DEFINE w == Written(m, o)
           a == w[2 * k - 2]
           b == w[2 * k - 1]
           c == w[2 * k]
           t == Turn(m, 2 * k - 1, o)
           u == Turn(m, 2 * k, o)
<1>1. 2 * k - 1 \in 1..Len(m) /\ 2 * k \in 1..Len(m) /\ 2 * k - 2 \in 0..Len(m) BY DEF Complete
<1>2. a \in Seq(Mark) /\ b \in Seq(Mark) /\ c \in Seq(Mark) BY <1>1, WrittenHolds
<1>3. t \in Seq(Mark) /\ u \in Seq(Mark) BY <1>1, TurnIsTyped
<1>4. b = a \o t /\ c = b \o u
  <2>1. (2 * k - 1) - 1 = 2 * k - 2 OBVIOUS
  <2>2. w[2 * k - 1] = w[(2 * k - 1) - 1] \o t /\ w[2 * k] = w[2 * k - 1] \o u BY <1>1, WrittenHolds
  <2> QED BY <2>1, <2>2
<1>5. ~Asks(2 * k) BY DEF Asks
<1>6. o.eos => Len(u) >= 1 /\ u[Len(u)].supervised BY <1>1, <1>5, TurnIsTyped
<1>7. ExchangeEnd(m, o, k - 1) = Len(a) /\ ExchangeEnd(m, o, k) = Len(c) BY DEF ExchangeEnd
<1> HIDE DEF a, b, c, t, u
<1>8. Len(b) = Len(a) + Len(t) /\ Len(c) = Len(b) + Len(u) BY <1>2, <1>3, <1>4, ConcatProperties
<1>9. Len(a) \in Nat /\ Len(b) \in Nat /\ Len(t) \in Nat /\ Len(u) \in Nat BY <1>2, <1>3, LenProperties
<1>11. ASSUME o.eos
       PROVE  Len(a) < Len(c) /\ c[Len(c)].supervised
  <2>1. Len(u) >= 1 /\ u[Len(u)].supervised BY <1>6, <1>11, Zenon
  <2>2. Len(a) < Len(c) /\ Len(c) \in 1..(Len(b) + Len(u)) /\ Len(c) > Len(b) /\ Len(c) - Len(b) = Len(u)
      BY <1>8, <1>9, <2>1
  <2> QED BY <2>1, <2>2, <1>2, <1>3, <1>4, ConcatProperties
<1> QED BY <1>7, <1>11, <1>8, <1>9 DEF c

\* The ends grow.
LEMMA EndsGrow ==
    ASSUME EncodersAssumption, NEW m \in Seq(Content), NEW o \in AnyOptions,
           NEW j \in 0..Complete(m), NEW k \in j..Complete(m)
    PROVE  ExchangeEnd(m, o, j) <= ExchangeEnd(m, o, k)
<1> DEFINE e(i) == ExchangeEnd(m, o, i)
           S == {n \in Nat : j + n <= Complete(m) => e(j) <= e(j + n)}
<1>1. Complete(m) \in Nat BY DEF Complete
<1>2. \A i \in 0..Complete(m) : e(i) \in Nat BY EndIsTyped
<1>3. \A i \in 1..Complete(m) : e(i - 1) <= e(i) BY NextEnd
<1> HIDE DEF e
<1>4. 0 \in S BY <1>1, <1>2
<1>5. ASSUME NEW n \in Nat, n \in S
      PROVE  n + 1 \in S
  BY <1>1, <1>5, <1>3, <1>2
<1>6. Nat \subseteq S
  <2> HIDE DEF S
  <2> QED BY <1>4, <1>5, NaturalsAreInductive
<1> QED BY <1>6, <1>1 DEF e

-----------------------------------------------------------------------------
(* The exchanges that fit *)

\* An exchange fits where a later one does.
LEMMA FitsDownward ==
    ASSUME EncodersAssumption, NEW m \in Seq(Content), NEW o \in AnyOptions,
           NEW limit \in SUBSET Nat,
           NEW j \in 0..Complete(m), NEW k \in j..Complete(m), Fits(m, o, limit, k)
    PROVE  Fits(m, o, limit, j)
<1> QED BY EndsGrow, EndIsTyped DEF Fits, Complete

\* So there is a last one that does.
LEMMA LastFitting ==
    ASSUME EncodersAssumption, NEW m \in Seq(Content), NEW o \in AnyOptions,
           NEW limit \in SUBSET Nat
    PROVE  \E k \in 0..Complete(m) :
               \A j \in 1..Complete(m) : Fits(m, o, limit, j) <=> j <= k
<1> DEFINE C == Complete(m)
           F(j) == Fits(m, o, limit, j)
           LastOf(n, k) == \A j \in 1..n : F(j) <=> j <= k
           S == {n \in Nat : n <= C => \E k \in 0..n : LastOf(n, k)}
<1>1. C \in Nat BY DEF Complete
<1>2. \A k \in 0..C : \A j \in 0..k : F(k) => F(j) BY <1>1, FitsDownward
<1> HIDE DEF C, F
<1>3. 0 \in S OBVIOUS
<1>4. ASSUME NEW n \in Nat, n \in S
      PROVE  n + 1 \in S
  <2> SUFFICES ASSUME n + 1 <= C
               PROVE  \E k \in 0..(n + 1) : LastOf(n + 1, k)
      OBVIOUS
  <2>1. PICK k \in 0..n : LastOf(n, k) BY <1>1, <1>4
  <2>2. CASE F(n + 1) BY <1>1, <1>2, <2>2
  <2>3. CASE ~F(n + 1)
    <3>1. LastOf(n + 1, k) BY <2>1, <2>3
    <3> HIDE DEF LastOf
    <3> QED BY <3>1
  <2> QED BY <2>2, <2>3
<1>5. Nat \subseteq S
  <2> HIDE DEF S
  <2> QED BY <1>3, <1>4, NaturalsAreInductive
<1>6. \E k \in 0..C : LastOf(C, k)
  <2> HIDE DEF LastOf
  <2> QED BY <1>1, <1>5
<1> QED BY <1>6 DEF C, F

\* Both ways of fitting keep exactly the exchanges that fit.
LEMMA KeptIs ==
    ASSUME EncodersAssumption, NEW m \in Seq(Content), NEW o \in AnyOptions,
           NEW limit \in SUBSET Nat,
           NEW k \in 0..Complete(m),
           \A j \in 1..Complete(m) : Fits(m, o, limit, j) <=> j <= k
    PROVE  Kept(m, o, limit) = k
<1> DEFINE C == Complete(m)
           F(j) == Fits(m, o, limit, j)
           P(i) == /\ \A j \in 1..i : F(j)
                   /\ i < C => ~F(i + 1)
<1>1. C \in Nat BY DEF Complete
<1>3. KeptOfAll(m, o, limit) = k
  <2>1. {j \in 1..C : F(j)} = 1..k BY <1>1
  <2>2. Cardinality(1..k) = k BY FS_Interval
  <2> QED BY <2>1, <2>2 DEF KeptOfAll
<1> QED BY <1>3, <1>1 DEF Kept, KeptInOrder, C, F

\* Whatever the order it looks in, an exchange is kept if and only if it fits.
LEMMA KeptHolds ==
    ASSUME EncodersAssumption, NEW m \in Seq(Content), NEW o \in AnyOptions,
           NEW limit \in SUBSET Nat
    PROVE  /\ Kept(m, o, limit) \in 0..Complete(m)
           /\ \A j \in 1..Complete(m) : Fits(m, o, limit, j) <=> j <= Kept(m, o, limit)
<1>1. PICK k \in 0..Complete(m) :
        \A j \in 1..Complete(m) : Fits(m, o, limit, j) <=> j <= k
    BY LastFitting
<1> QED BY <1>1, KeptIs

\* What a fitted conversation is, with its number of exchanges named.
FitAt(m, o, k) ==
    [tokens |-> IF k = 0 THEN <<>> ELSE Written(m, o)[2 * k],
     ends |-> [j \in 1..k |-> ExchangeEnd(m, o, j)],
     messages |-> SubSeq(m, 1, 2 * k)]

\* A fitted conversation is what is written of its first exchanges.
LEMMA FitIs ==
    ASSUME NEW m, NEW o, NEW limit
    PROVE  Fit(m, o, limit) = FitAt(m, o, Kept(m, o, limit))
    BY DEF Fit, FitAt

(* Fitting a conversation again keeps what fitting it once under both limits *)
(* does: no row depends on when it was cut (fit_conversation is called by    *)
(* the download, the build and the collate).                                *)
THEOREM FittingAgain ==
    ASSUME EncodersAssumption, NEW m \in Seq(Content), NEW o \in AnyOptions,
           NEW first \in SUBSET Nat, NEW second \in SUBSET Nat,
           NEW both \in SUBSET Nat, both = first \union second
    PROVE  Fit(Fit(m, o, first).messages, o, second) = Fit(m, o, both)
<1> DEFINE k == Kept(m, o, first)
           p == SubSeq(m, 1, 2 * k)
           i == Kept(p, o, second)
<1>1. /\ k \in 0..Complete(m)
      /\ \A j \in 1..Complete(m) : Fits(m, o, first, j) <=> j <= k
    BY KeptHolds
<1>2. Fit(m, o, first).messages = p BY DEF Fit
<1> HIDE DEF k
<1>3. Complete(m) \in Nat /\ Len(m) \in Nat /\ 2 * k \in 0..Len(m) BY <1>1 DEF Complete
<1>4. p \in Seq(Content) /\ Len(p) = 2 * k BY <1>3, FirstMessages
<1>6. ASSUME NEW n \in 0..(2 * k)
      PROVE  Written(p, o)[n] = Written(m, o)[n]
    BY <1>3, WrittenOfFirst
<1> HIDE DEF p
<1>7. \A j \in 0..k : ExchangeEnd(p, o, j) = ExchangeEnd(m, o, j) BY <1>1, <1>6 DEF ExchangeEnd
<1>8. i \in 0..k /\ \A j \in 1..k : Fits(p, o, second, j) <=> j <= i BY <1>4, KeptHolds, <1>1 DEF Complete
<1> HIDE DEF i
<1>10. \A j \in 1..Complete(m) :
          Fits(m, o, both, j) <=> Fits(m, o, first, j) /\ Fits(m, o, second, j)
    BY DEF Fits
<1>11. i \in 0..Complete(m) BY <1>1, <1>3, <1>8
<1>12. ASSUME NEW j \in 1..Complete(m)
       PROVE  Fits(m, o, both, j) <=> j <= i
  <2>1. CASE j <= k
    <3> QED BY <1>1, <1>8, <1>10, <2>1, <1>7 DEF Fits
  <2>2. CASE ~(j <= k)
    <3>1. ~(j <= i) BY <1>1, <1>3, <1>8, <2>2
    <3> QED BY <1>1, <1>10, <2>2, <3>1
  <2> QED BY <2>1, <2>2
<1>13. Kept(m, o, both) = i BY <1>11, <1>12, KeptIs
<1>14. FitAt(p, o, i) = FitAt(m, o, i)
  <2>1. 2 * i \in 0..(2 * k) /\ i \in Nat BY <1>1, <1>3, <1>8
  <2>2. Written(p, o)[2 * i] = Written(m, o)[2 * i] BY <1>6, <2>1
  <2>4. SubSeq(p, 1, 2 * i) = SubSeq(m, 1, 2 * i) BY <1>3, FirstMessages, <2>1, <1>4, SeqEqual DEF p
  <2> QED BY <2>2, <2>4, <1>1, <1>3, <1>8, <1>7 DEF FitAt
<1>16. Fit(m, o, both) = FitAt(m, o, i) BY <1>13, FitIs
<1> QED BY <1>2, <1>14, <1>16, FitIs DEF i

-----------------------------------------------------------------------------
(* A row from its download to its training step *)

\* An exchange ends after a Bos and an Eos at least.
LEMMA EndsFromTwo ==
    ASSUME EncodersAssumption, NEW m \in Seq(Content), NEW k \in 1..Complete(m)
    PROVE  ExchangeEnd(m, Full, k) >= 2 /\ ExchangeEnd(m, Full, k) \in Nat
<1>1. Full \in AnyOptions /\ Full.bos /\ Full.eos BY DEF Full, AnyOptions
<1>2. Complete(m) \in Nat /\ 0 \in 0..Complete(m) /\ k \in 0..Complete(m) BY DEF Complete
<1>3. ExchangeEnd(m, Full, 0) = 1 BY <1>1, WrittenHolds, OpeningIsTyped DEF ExchangeEnd
<1>4. 1 \in 1..Complete(m) /\ 1 - 1 = 0 /\ 1 \in 0..Complete(m) /\ k \in 1..Complete(m) BY <1>2
<1>7. ExchangeEnd(m, Full, 1) \in Nat /\ ExchangeEnd(m, Full, k) \in Nat BY <1>1, <1>2, <1>4, EndIsTyped
<1> QED BY <1>3, <1>4, <1>7, <1>1, NextEnd, EndsGrow

(* A row of a built source is the conversation fitted under the limits of    *)
(* the download and of the build, whether the build took the raw row over or *)
(* fitted it anew (Build._message_rows).                                     *)
THEOREM BuiltAsFitted ==
    ASSUME EncodersAssumption, NEW m \in Seq(Content), NEW l \in Nat, NEW d \in Nat,
           NEW same \in BOOLEAN
    PROVE  Built(Downloaded(m, l), same, d) = Fit(m, Full, {l, d})
<1>1. Full \in AnyOptions /\ {l} \in SUBSET Nat /\ {d} \in SUBSET Nat /\ {l, d} \in SUBSET Nat BY FullIsAny
<1>5. Fit(Fit(m, Full, {l}).messages, Full, {d}) = Fit(m, Full, {l, d})
  <2> DEFINE x == {l}
             y == {d}
             z == {l, d}
  <2>1. x \in SUBSET Nat /\ y \in SUBSET Nat /\ z \in SUBSET Nat /\ z = x \union y BY <1>1
  <2> HIDE DEF x, y, z
  <2>2. Fit(Fit(m, Full, x).messages, Full, y) = Fit(m, Full, z) BY <1>1, <2>1, FittingAgain, SMTT(40)
  <2> QED BY <2>2 DEF x, y, z
<1> DEFINE raw == Downloaded(m, l)
           k == Kept(m, Full, {l})
<1>4. ASSUME Len(raw.tokens) <= d
      PROVE  raw = Fit(m, Full, {l, d})
  <2>1. /\ k \in 0..Complete(m)
        /\ \A j \in 1..Complete(m) : Fits(m, Full, {l}, j) <=> j <= k
      BY <1>1, KeptHolds
  <2>2. raw = FitAt(m, Full, k) BY FitIs DEF Downloaded
  <2> HIDE DEF k, raw
  <2>3. \A j \in 1..k : Fits(m, Full, {d}, j)
    <3> SUFFICES ASSUME NEW j \in 1..k PROVE Fits(m, Full, {d}, j) OBVIOUS
    <3>1. k # 0 /\ j \in 0..Complete(m) /\ k \in j..Complete(m) /\ k \in 0..Complete(m) BY <2>1 DEF Complete
    <3>4. Fits(m, Full, {d}, k) BY <1>4, <2>2, <3>1 DEF Fits, ExchangeEnd, FitAt
    <3> QED BY <1>1, <3>1, <3>4, FitsDownward
  <2>5. ASSUME NEW j \in 1..Complete(m)
        PROVE  Fits(m, Full, {l, d}, j) <=> j <= k
    <3> QED BY <2>1, <2>3 DEF Fits
  <2>6. Kept(m, Full, {l, d}) = k BY <1>1, <2>1, <2>5, KeptIs
  <2> QED BY <2>2, <2>6, FitIs
<1> QED BY <1>4, <1>5 DEF Built, Downloaded

(* What is trained on is the conversation fitted under every limit it has    *)
(* met (format_conversation).                                                *)
THEOREM TrainedAsFitted ==
    ASSUME EncodersAssumption, NEW m \in Seq(Content), NEW l \in Nat, NEW d \in Nat,
           NEW t \in Nat, NEW same \in BOOLEAN
    PROVE  Trained(Built(Downloaded(m, l), same, d), t) = Fit(m, Full, {l, d, t + 1}).tokens
<1>1. Full \in AnyOptions /\ {l, d} \in SUBSET Nat /\ {t + 1} \in SUBSET Nat /\ {l, d, t + 1} \in SUBSET Nat
    BY FullIsAny
<1>3. Fit(Fit(m, Full, {l, d}).messages, Full, {t + 1}) = Fit(m, Full, {l, d, t + 1})
  <2> DEFINE x == {l, d}
             y == {t + 1}
             z == {l, d, t + 1}
  <2>1. x \in SUBSET Nat /\ y \in SUBSET Nat /\ z \in SUBSET Nat /\ z = x \union y BY <1>1
  <2> HIDE DEF x, y, z
  <2>2. Fit(Fit(m, Full, x).messages, Full, y) = Fit(m, Full, z) BY <1>1, <2>1, FittingAgain, SMTT(40)
  <2> QED BY <2>2 DEF x, y, z
<1> QED BY <1>3, BuiltAsFitted DEF Trained

(* The planner can count every row the download stored: it never raises.     *)
THEOREM StoredIsCountable ==
    ASSUME EncodersAssumption, NEW m \in Seq(Content), NEW l \in Nat,
           Stored(Downloaded(m, l))
    PROVE  Countable(Downloaded(m, l).ends)
<1> DEFINE k == Kept(m, Full, {l})
           e == [j \in 1..k |-> ExchangeEnd(m, Full, j)]
<1>1. Full \in AnyOptions /\ Full.eos /\ {l} \in SUBSET Nat BY DEF Full, AnyOptions
<1>2. k \in 0..Complete(m) BY <1>1, KeptHolds
<1>3. Downloaded(m, l) = FitAt(m, Full, k) BY FitIs DEF Downloaded
<1> HIDE DEF k
<1>5. k \in Nat \ {0} /\ 1..k \subseteq 1..Complete(m) BY <1>2, <1>3, SubSeqEmpty DEF Complete, FitAt, Stored
<1>6. \A j \in 1..k : ExchangeEnd(m, Full, j) >= 2 /\ ExchangeEnd(m, Full, j) \in Nat BY <1>5, EndsFromTwo
<1>8. e \in Seq(Nat) /\ Len(e) = k BY <1>5, <1>6
<1>9. \A j \in 1..k : e[j] = ExchangeEnd(m, Full, j) OBVIOUS
<1> HIDE DEF e
<1>11. ASSUME NEW j \in 1..(k - 1)
       PROVE  e[j] < e[j + 1]
  BY <1>5, <1>1, NextEnd, <1>9
<1>12. Countable(e) BY <1>6, <1>8, <1>9, <1>11, <1>5 DEF Countable
<1> QED BY <1>3, <1>12 DEF FitAt, e

(* The positions the planner counts for a raw row, from its ends alone, are  *)
(* those that are trained on once it is built, cut and shifted.             *)
THEOREM PlannedIsTrained ==
    ASSUME EncodersAssumption, NEW m \in Seq(Content), NEW l \in Nat, NEW d \in Nat \ {0},
           NEW t \in Nat, NEW same \in BOOLEAN
    PROVE  Planned(Downloaded(m, l), t, d)
               = Positions(Trained(Built(Downloaded(m, l), same, d), t))
<1> DEFINE raw == Downloaded(m, l)
           E(j) == ExchangeEnd(m, Full, j)
           k == Kept(m, Full, {l})
           n == Kept(m, Full, {l, d, t + 1})
           target == IF t <= d - 1 THEN t ELSE d - 1
           U == Usable(raw.ends, target) \union {0}
           p == IF n = 0 THEN 0 ELSE E(n) - 1
<1>1. Full \in AnyOptions /\ {l} \in SUBSET Nat /\ {l, d, t + 1} \in SUBSET Nat BY FullIsAny
<1>2. /\ k \in 0..Complete(m)
      /\ \A j \in 1..Complete(m) : Fits(m, Full, {l}, j) <=> j <= k
    BY <1>1, KeptHolds
<1>3. /\ n \in 0..Complete(m)
      /\ \A j \in 1..Complete(m) : Fits(m, Full, {l, d, t + 1}, j) <=> j <= n
    BY <1>1, KeptHolds
<1>4. raw = FitAt(m, Full, k) BY FitIs DEF Downloaded
<1>5. Fit(m, Full, {l, d, t + 1}) = FitAt(m, Full, n) BY FitIs
<1> HIDE DEF k, n, raw
<1>6. \A j \in 1..Complete(m) : E(j) >= 2 /\ E(j) \in Nat BY EndsFromTwo
<1>7. Complete(m) \in Nat BY DEF Complete
<1>8. \A j \in 1..Complete(m) : j <= n => E(j) <= E(n) BY <1>3, <1>7, <1>1, EndsGrow
<1>9. \A j \in 1..Complete(m) : j <= k <=> E(j) <= l BY <1>2 DEF Fits
<1>10. \A j \in 1..Complete(m) : j <= n <=> E(j) <= l /\ E(j) <= d /\ E(j) <= t + 1 BY <1>3 DEF Fits
<1>11. /\ Len(raw.ends) = k
       /\ \A j \in 1..k : raw.ends[j] = E(j)
  BY <1>4, <1>2 DEF FitAt
<1> HIDE DEF E
<1>12. target \in Int /\ \A x \in Nat : x <= target + 1 <=> x <= d /\ x <= t + 1 OBVIOUS
<1> HIDE DEF target
<1>14. \A j \in 1..k : raw.ends[j] <= target + 1 <=> j <= n
  <2> SUFFICES ASSUME NEW j \in 1..k PROVE raw.ends[j] <= target + 1 <=> j <= n OBVIOUS
  <2>1. j \in 1..Complete(m) /\ j <= k BY <1>2, <1>7
  <2>2. raw.ends[j] = E(j) /\ E(j) \in Nat /\ E(j) <= l BY <1>6, <1>9, <1>11, <2>1
  <2> QED BY <1>10, <2>1, <2>2, <1>12
<1>15. Usable(raw.ends, target) = {E(j) - 1 : j \in 1..n} BY <1>2, <1>3, <1>11, <1>14, <1>9, <1>10 DEF Usable
<1>16. p \in U /\ p \in Int BY <1>3, <1>6, <1>15
<1>17. ASSUME NEW q \in U
       PROVE  q <= p /\ q \in Int
  <2>1. CASE q = 0 BY <1>3, <1>6, <2>1
  <2>2. CASE q # 0 BY <1>15, <2>2, <1>3, <1>7, <1>6, <1>8
  <2> QED BY <2>1, <2>2
<1> HIDE DEF U, p
<1>18. \A x \in U : (\A q \in U : q <= x) => x = p BY <1>16, <1>17
<1>19. Counted(raw.ends, target) = p BY <1>16, <1>17, <1>18 DEF Counted, U
<1>21. Positions(FitAt(m, Full, n).tokens) = p BY <1>3, <1>6 DEF FitAt, Positions, p, E, ExchangeEnd
<1> QED BY <1>21, <1>19, <1>5, TrainedAsFitted DEF raw, Planned, target

(* A fitted row is never dropped for want of a label: its last token closes  *)
(* an answer, and is supervised (has_supervised_label, pad_and_shift).      *)
THEOREM FittedIsSupervised ==
    ASSUME EncodersAssumption, NEW m \in Seq(Content), NEW limit \in SUBSET Nat,
           Fit(m, Full, limit).tokens # <<>>
    PROVE  LET tokens == Fit(m, Full, limit).tokens
           IN Len(tokens) >= 2 /\ tokens[Len(tokens)].supervised
<1> DEFINE k == Kept(m, Full, limit)
<1>1. Full \in AnyOptions /\ Full.eos BY DEF Full, AnyOptions
<1>2. k \in 0..Complete(m) BY <1>1, KeptHolds
<1>3. Fit(m, Full, limit) = FitAt(m, Full, k) BY FitIs
<1> HIDE DEF k
<1>4. k # 0 BY <1>3 DEF FitAt
<1>5. k \in 1..Complete(m) BY <1>2, <1>4
<1> QED BY <1>3, <1>4, <1>1, <1>5, NextEnd, EndsFromTwo DEF ExchangeEnd, FitAt

-----------------------------------------------------------------------------
(* What an answer may be made of *)

\* The structural tokens of the literal profile are not content, nor one another.
StructuralTokens ==
    /\ {Bos, Eos, User, Assistant} \intersect BodyToken = {}
    /\ Eos \notin {Bos, User, Assistant}

\* All that is supervised is content or the end of an answer.
Learnable(s) == \A j \in 1..Len(s) : s[j].supervised => s[j].id \in BodyToken \union {Eos}

\* So is what is joined of two such.
LEMMA LearnableJoined ==
    ASSUME NEW s \in Seq(Mark), NEW t \in Seq(Mark), Learnable(s), Learnable(t)
    PROVE  Learnable(s \o t)
<1>1. /\ Len(s \o t) = Len(s) + Len(t)
      /\ \A j \in 1..(Len(s) + Len(t)) :
            (s \o t)[j] = IF j <= Len(s) THEN s[j] ELSE t[j - Len(s)]
    BY ConcatProperties
<1>2. Len(s) \in Nat /\ Len(t) \in Nat BY LenProperties
<1> SUFFICES ASSUME NEW j \in 1..(Len(s) + Len(t)), (s \o t)[j].supervised
             PROVE  (s \o t)[j].id \in BodyToken \union {Eos}
    BY <1>1 DEF Learnable
<1>3. CASE j <= Len(s) BY <1>1, <1>2, <1>3 DEF Learnable
<1>4. CASE ~(j <= Len(s)) BY <1>1, <1>2, <1>4 DEF Learnable
<1> QED BY <1>3, <1>4

\* A header is not supervised, and the body is content and its end.
LEMMA TurnIsLearnable ==
    ASSUME EncodersAssumption, Literal, NEW m \in Conversations, NEW o \in AnyOptions,
           NEW i \in 1..Len(m)
    PROVE  Learnable(Turn(m, i, o))
<1> DEFINE ids == Encode(m[i]) \o Closing(i, o)
           h == Marked(Header(i), FALSE)
           b == Marked(ids, ~Asks(i))
<1>1. m \in Seq(Content) /\ m[i] \in Content /\ Plain(m[i]) BY DEF Conversations
<1>2. Closing(i, o) = <<Eos>> /\ Header(i) \in Seq(Token) BY DEF Closing, Header, EncodersAssumption
<1>4. h \in Seq(Mark) /\ b \in Seq(Mark) /\ Turn(m, i, o) = h \o b BY <1>1, TurnIsTyped DEF Turn
<1>5. Learnable(h)
  <2>1. Len(h) = Len(Header(i)) /\ \A k \in 1..Len(Header(i)) : h[k].supervised = FALSE BY <1>2, MarkedIsTyped
  <2> QED BY <2>1 DEF Learnable
<1>7. Learnable(b)
  BY <1>2, ConcatProperties, LenProperties, <1>1 DEF Marked, Learnable, Plain, EncodersAssumption
<1> HIDE DEF h, b
<1> QED BY <1>4, <1>5, <1>7, LearnableJoined

(* With the literal profile the model is never taught to write a header or a *)
(* Bos, whatever its training data says: what is supervised of a fitted      *)
(* conversation is content and the end of an answer (encode_chat refuses a   *)
(* body with a structural token).                                            *)
THEOREM NoHeaderIsSupervised ==
    ASSUME EncodersAssumption, StructuralTokens, Literal,
           NEW m \in Conversations, NEW o \in Options, NEW limit \in SUBSET Nat,
           NEW j \in 1..Len(Fit(m, o, limit).tokens),
           Fit(m, o, limit).tokens[j].supervised
    PROVE  Fit(m, o, limit).tokens[j].id \notin {Bos, User, Assistant}
<1> DEFINE w == Written(m, o)
           k == Kept(m, o, limit)
           S == {n \in Nat : n \in 0..Len(m) => Learnable(w[n])}
<1>1. m \in Seq(Content) /\ o \in AnyOptions /\ Len(m) \in Nat
  <2>2. o.bos = TRUE /\ o.eos = TRUE /\ o = [bos |-> TRUE, eos |-> TRUE] BY DEF Options
  <2> QED BY LenProperties, <2>2 DEF Conversations, AnyOptions
<1>2. /\ w[0] = Opening(o)
      /\ \A n \in 1..Len(m) : w[n] = w[n - 1] \o Turn(m, n, o)
      /\ \A n \in 0..Len(m) : w[n] \in Seq(Mark)
    BY <1>1, WrittenHolds
<1> HIDE DEF w
<1>3. 0 \in S
  <2>1. <<Bos>> \in Seq(Token) /\ Len(<<Bos>>) = 1 BY DEF EncodersAssumption
  <2>2. Learnable(Marked(<<Bos>>, FALSE))
    <3>1. \A i \in 1..1 : Marked(<<Bos>>, FALSE)[i].supervised = FALSE BY <2>1, MarkedIsTyped
    <3>2. Len(Marked(<<Bos>>, FALSE)) = 1 BY <2>1, MarkedIsTyped
    <3> QED BY <3>1, <3>2 DEF Learnable
  <2>3. Learnable(<<>>) BY DEF Learnable
  <2> QED BY <1>2, <2>2, <2>3 DEF Opening
<1>4. ASSUME NEW n \in Nat, n \in S
      PROVE  n + 1 \in S
  <2> SUFFICES ASSUME n + 1 \in 0..Len(m) PROVE Learnable(w[n + 1]) OBVIOUS
  <2>1. n \in 0..Len(m) /\ n + 1 \in 1..Len(m) /\ (n + 1) - 1 = n BY <1>1
  <2>2. w[n] \in Seq(Mark) /\ w[n + 1] = w[n] \o Turn(m, n + 1, o) BY <1>2, <2>1
  <2>3. Turn(m, n + 1, o) \in Seq(Mark) /\ Learnable(Turn(m, n + 1, o))
      BY <1>1, <2>1, TurnIsTyped, TurnIsLearnable
  <2> DEFINE x == w[n]
             y == Turn(m, n + 1, o)
  <2>5. x \in Seq(Mark) /\ y \in Seq(Mark) /\ Learnable(x) /\ Learnable(y) BY <2>2, <2>3, <1>4, <2>1
  <2> HIDE DEF x, y
  <2> QED BY <2>2, <2>5, LearnableJoined DEF x, y
<1>5. Nat \subseteq S
  <2> HIDE DEF S
  <2> QED BY <1>3, <1>4, NaturalsAreInductive
<1>6. k \in 0..Complete(m) BY <1>1, KeptHolds
<1>7. Fit(m, o, limit) = FitAt(m, o, k) BY FitIs
<1> HIDE DEF k
<1>9. Fit(m, o, limit).tokens = w[2 * k] /\ 2 * k \in 0..Len(m) BY <1>1, <1>6, <1>7, EndIsTyped DEF FitAt, w
<1> QED BY <1>9, <1>5 DEF StructuralTokens, Learnable

-----------------------------------------------------------------------------
(* Prompts *)

\* Without a limit every exchange is kept.
LEMMA NoLimitKeepsAll ==
    ASSUME EncodersAssumption, NEW m \in Seq(Content)
    PROVE  Kept(m, Full, {}) = Complete(m)
<1> QED BY KeptIs, FullIsAny DEF Complete, Fits

(* Both prompts are the tokens before the question, the question and the     *)
(* header of an answer.                                                      *)
LEMMA PromptIs ==
    ASSUME EncodersAssumption, NEW m \in Seq(Content), NEW k \in Nat, Len(m) = 2 * k + 1
    PROVE  Prompt(m) = Written(m, Full)[2 * k + 1] \o Marked(Header(2 * k + 2), FALSE)
<1> DEFINE n == 2 * k + 1
           w == Written(m, Full)
           h == Marked(Header(n), FALSE)
           b == Marked(Encode(m[n]), FALSE)
           a == Marked(Header(n + 1), FALSE)
           past == SubSeq(m, 1, n - 1)
           before == IF past = <<>> THEN Opening(Full) ELSE Fit(past, Full, {}).tokens
<1>1. Full \in AnyOptions /\ n \in 1..Len(m) /\ n - 1 \in 0..Len(m) /\ n - 1 = 2 * k /\ n + 1 = 2 * k + 2
    BY FullIsAny
<1>2. Asks(n) BY DEF Asks
<1>3. past \in Seq(Content) /\ Len(past) = 2 * k BY <1>1, FirstMessages
<1>4. before = w[2 * k]
  <2>1. CASE k = 0 BY <1>3, <2>1, <1>1, WrittenHolds
  <2>2. CASE k # 0
    <3>3. Written(past, Full)[2 * k] = w[2 * k] BY <1>1, WrittenOfFirst
    <3> HIDE DEF past
    <3>4. Kept(past, Full, {}) = k BY <1>3, NoLimitKeepsAll DEF Complete
    <3> QED BY <3>3, <1>3, <2>2, <3>4, FitIs DEF FitAt
  <2> QED BY <2>1, <2>2
<1> HIDE DEF before
<1>5. CASE Literal BY <1>1, <1>5 DEF Prompt, LiteralPrompt
<1>6. CASE ~Literal
  <2>1. Prompt(m) = before \o h \o b \o a BY <1>6 DEF Prompt, LegacyPrompt, before
  <2>3. Encode(m[n]) \in Seq(Token) /\ Header(n) \in Seq(Token) BY <1>1, <1>6 DEF EncodersAssumption, Header
  <2>4. Encode(m[n]) \o Closing(n, Full) = Encode(m[n]) BY <2>3, ConcatEmptySeq, <1>2, <1>6 DEF Closing
  <2>5. Turn(m, n, Full) = h \o b
    <3>1. (~Asks(n)) = FALSE BY <1>2
    <3> QED BY <2>4, <3>1 DEF Turn
  <2>6. h \in Seq(Mark) /\ b \in Seq(Mark) BY <2>3, MarkedIsTyped
  <2>7. w[2 * k] \in Seq(Mark) /\ w[n] = w[2 * k] \o Turn(m, n, Full) BY <1>1, WrittenHolds
  <2> HIDE DEF h, b, w, a, n
  <2>8. (w[2 * k] \o h) \o b = w[2 * k] \o (h \o b)
    <3> DEFINE x == w[2 * k]
    <3>1. x \in Seq(Mark) BY <2>7
    <3> HIDE DEF x
    <3>2. (x \o h) \o b = x \o (h \o b) BY <2>6, <3>1, ConcatAssociative, SMTT(40)
    <3> QED BY <3>2 DEF x
  <2>9. before \o h \o b \o a = w[n] \o a BY <1>4, <2>5, <2>7, <2>8
  <2> QED BY <1>1, <2>1, <2>9 DEF n, w, a
<1> QED BY <1>5, <1>6 DEF EncodersAssumption

(* An answer is generated from what it is trained after: a conversation that *)
(* ends with an answer is written as the prompt of its messages but the      *)
(* last, and then nothing but that answer and its end, supervised            *)
(* (check_template_parity compares the two on three conversations).          *)
THEOREM PromptIsTrained ==
    ASSUME EncodersAssumption, NEW m \in Seq(Content), NEW k \in Nat, Len(m) = 2 * k + 2
    PROVE  Fit(m, Full, {}).tokens
               = Prompt(SubSeq(m, 1, 2 * k + 1))
                     \o Marked(Encode(m[2 * k + 2]) \o <<Eos>>, TRUE)
<1> DEFINE n == 2 * k + 2
           q == SubSeq(m, 1, 2 * k + 1)
           w == Written(m, Full)
           h == Marked(Header(n), FALSE)
           b == Marked(Encode(m[n]) \o <<Eos>>, TRUE)
<1>1. /\ Full \in AnyOptions /\ n \in 1..Len(m) /\ 2 * k + 1 \in 0..Len(m)
      /\ n - 1 = 2 * k + 1 /\ 2 * k + 1 \in 0..(2 * k + 1)
    BY FullIsAny
<1>2. ~Asks(n) /\ Full.eos BY DEF Asks, Full
<1>3. Complete(m) = k + 1 /\ 2 * (k + 1) = n /\ k + 1 # 0 BY DEF Complete
<1>4. Fit(m, Full, {}).tokens = w[n] BY <1>3, NoLimitKeepsAll, FitIs DEF FitAt
<1>5. q \in Seq(Content) /\ Len(q) = 2 * k + 1 BY <1>1, FirstMessages
<1>6. Written(q, Full)[2 * k + 1] = w[2 * k + 1] BY <1>1, WrittenOfFirst
<1>7. Prompt(q) = w[2 * k + 1] \o h BY <1>5, <1>6, PromptIs
<1>8. Turn(m, n, Full) = h \o b
  <2>1. (~Asks(n)) = TRUE BY <1>2
  <2>2. Closing(n, Full) = <<Eos>> BY <1>2 DEF Closing
  <2> QED BY <2>1, <2>2 DEF Turn
<1>9. h \in Seq(Mark) /\ b \in Seq(Mark)
  <2>1. Closing(n, Full) = <<Eos>> BY <1>2 DEF Closing
  <2>2. (~Asks(n)) = TRUE BY <1>2
  <2>3. h \in Seq(Mark) /\ Marked(Encode(m[n]) \o Closing(n, Full), ~Asks(n)) \in Seq(Mark)
      BY <1>1, TurnIsTyped
  <2> QED BY <2>1, <2>2, <2>3
<1>10. w[2 * k + 1] \in Seq(Mark) /\ w[n] = w[2 * k + 1] \o Turn(m, n, Full) BY <1>1, WrittenHolds
<1> HIDE DEF w, h, b, n, q
<1>11. (w[2 * k + 1] \o h) \o b = w[2 * k + 1] \o (h \o b)
  <2> DEFINE x == w[2 * k + 1]
  <2>1. x \in Seq(Mark) BY <1>10
  <2> HIDE DEF x
  <2>2. (x \o h) \o b = x \o (h \o b) BY <1>9, <2>1, ConcatAssociative, SMTT(40)
  <2> QED BY <2>2 DEF x
<1>12. Fit(m, Full, {}).tokens = Prompt(q) \o b BY <1>4, <1>7, <1>8, <1>10, <1>11
<1> QED BY <1>12 DEF q, b, n
-----------------------------------------------------------------------------

\* What the settings and the data pipeline guarantee: sequences fit the RoPE
\* table (check_sequence_lengths), labels fit the model's vocabulary
\* (check_tokenizer_vocabulary), depths are positive (_validate_recurrence).
ForwardAssumptions ==
    /\ Count \in Nat /\ PackLength \in Nat /\ Table \in Nat
    /\ \A d \in Documents : Len(Tokens[d]) \in Nat /\ Longest[d] \in Nat
    /\ \A d \in Documents : \A j \in Nat : Labels[d][j] \in Int
    /\ MaxLength \in Nat /\ MaxLength <= Table
    /\ PaddingMultiple \in Nat \ {0}
    /\ TokenizerVocab \in Nat /\ ModelVocab \in Nat /\ TokenizerVocab <= ModelVocab
    /\ IgnoreIndex \in Int /\ IgnoreIndex < 0
    /\ Prelude \in Nat /\ Coda \in Nat
    /\ CoreLayers \in Seq(Nat)
    /\ \A b \in Blocks : MeanRecurrence[b] \in Nat \ {0} /\ MeanBackprop[b] \in Nat \ {0}
    /\ \A b \in Blocks : Asked[b] = Sample \/ Asked[b] \in Int \X Int
    /\ Draws \subseteq Nat

Owns(n, c) == c - start[n] \in SlotsOf(data[n])

\* Documents in the pack: their columns, in use and theirs alone.
Placed ==
    /\ next \in 0..Count /\ taken \in Nat /\ taken <= next /\ offset \in 0..PackLength
    /\ DOMAIN start = Documents /\ DOMAIN data = Documents
    /\ \A n \in Numbers : /\ data[n] \in Rows
                          /\ start[n] \in Nat
                          /\ start[n] + Slots(data[n]) <= offset

Filled ==
    \A n \in Numbers : \A j \in SlotsOf(data[n]) :
        pack[start[n] + j] = [input |-> Input(data[n], j), label |-> Target(data[n], j),
                              position |-> j, document |-> n]

Owned == \A c \in Columns : c < offset => pack[c].document \in Numbers /\ Owns(pack[c].document, c)

TailBehind ==
    \A c \in Columns : c >= offset =>
        /\ pack[c].label = IgnoreIndex
        /\ DOMAIN pack[c] = {"input", "label", "position", "document"}
        /\ where.part \notin {"pack", "refused"} =>
              pack[c].position = c - offset /\ pack[c].document = taken

\* Either everything walked over was taken or some document did not fit.
Waits ==
    /\ pooled \in Nat
    /\ pooled = offset \/ \E d \in Rows : offset + Slots(d) > PackLength

Packed == Placed /\ Filled /\ Owned /\ TailBehind /\ Waits

Sealing == where.part \notin {"pack", "refused"} => taken > 0

Agree(f) ==
    \A n \in Numbers : \A j \in SlotsOf(data[n]) :
        f[Pack][start[n] + j] = f[data[n]][First(data[n]) + j]

Forwarded ==
    /\ where.part \in {"prelude", "enter", "core", "coda", "done"} => Agree(hidden)
    /\ where.part = "core" => Agree(base) /\ Agree(latent)

-----------------------------------------------------------------------------
(* Rows and columns                                                        *)

\* find_multiple never rounds down.
LEMMA FindMultipleBounds ==
    ASSUME NEW value \in Nat, NEW multiple \in Nat \ {0}
    PROVE  FindMultiple(value, multiple) \in Nat /\ FindMultiple(value, multiple) >= value
<1> QED BY DEF FindMultiple

\* A document has a column, and its padded row has room for all of them.
LEMMA RowShape ==
    ASSUME ForwardAssumptions, NEW d \in Rows
    PROVE  /\ d \in Documents /\ d # Pack
           /\ Slots(d) \in Nat /\ Slots(d) >= 1 /\ Slots(d) <= MaxLength
           /\ Width(d) \in Nat /\ Width(d) <= MaxLength
           /\ First(d) \in Nat /\ First(d) + Slots(d) <= Width(d)
<1>1. d \in Documents /\ d # Pack BY DEF Rows, Documents, Pack, ForwardAssumptions
<1>2. Cut(d) \in Nat /\ Cut(d) <= MaxLength + 1 BY <1>1 DEF Cut, Lesser, ForwardAssumptions
<1>3. Slots(d) \in Int /\ Slots(d) >= 1 BY <1>2 DEF Rows, HasSupervisedLabel, SlotsOf, Slots
<1>4. Longest[d] \in Nat /\ PaddingMultiple \in Nat \ {0} /\ MaxLength \in Nat BY <1>1 DEF ForwardAssumptions
<1> DEFINE L == Larger(Cut(d), Longest[d])
           F == FindMultiple(L, PaddingMultiple)
<1>5. L \in Nat /\ L >= Cut(d) BY <1>2, <1>4 DEF Larger
<1>6. F \in Nat /\ F >= L BY <1>4, <1>5, FindMultipleBounds
<1>7. Width(d) = Lesser(F, MaxLength + 1) - 1 BY DEF Width
<1> HIDE DEF L, F
<1>8. Width(d) \in Int /\ Width(d) >= Slots(d) /\ Width(d) <= MaxLength
    BY <1>2, <1>4, <1>5, <1>6, <1>7 DEF Lesser, Slots
<1> QED BY <1>1, <1>3, <1>8, <1>2, <1>4 DEF First, Slots

\* A column of a document in its padded row.
LEMMA RowColumn ==
    ASSUME ForwardAssumptions, NEW d \in Rows, NEW j \in SlotsOf(d)
    PROVE  /\ First(d) + j \in ColumnsOf(d) /\ First(d) + j - First(d) = j
           /\ Position(d, First(d) + j) = j
           /\ InputAt(d, First(d) + j) = Input(d, j)
           /\ LabelAt(d, First(d) + j) = Target(d, j)
<1>1. d # Pack /\ Slots(d) \in Nat /\ Width(d) \in Nat /\ First(d) \in Nat
         /\ First(d) + Slots(d) <= Width(d)
    BY RowShape
<1>2. j \in Nat /\ j < Slots(d) BY <1>1 DEF SlotsOf
<1>6. PICK col : col = First(d) + j OBVIOUS
<1>11. InputAt(d, First(d) + j) = Input(d, j) /\ LabelAt(d, First(d) + j) = Target(d, j)
  BY <1>6, <1>1, <1>2 DEF InputAt, LabelAt, Real, ColumnsOf
<1> QED BY <1>11, <1>1, <1>2 DEF Position, Larger, ColumnsOf

\* In a padded row a document's column sees the document up to itself.
LEMMA RowSees ==
    ASSUME ForwardAssumptions, NEW d \in Rows, NEW j \in SlotsOf(d), NEW f
    PROVE  Seen(f, d, First(d) + j) = {<<i, f[d][First(d) + i]>> : i \in 0..j}
<1>1. d # Pack /\ Slots(d) \in Nat /\ Width(d) \in Nat /\ First(d) \in Nat
         /\ First(d) + Slots(d) <= Width(d)
    BY RowShape
<1>2. j \in Nat /\ j < Slots(d) BY <1>1 DEF SlotsOf
<1>3. Attends(d, First(d) + j) = {First(d) + i : i \in 0..j}
  <2> DEFINE A == {k \in ColumnsOf(d) : (First(d) <= k /\ k <= First(d) + j) \/ k = First(d) + j}
  <2>2. ASSUME NEW k \in A PROVE k \in {First(d) + i : i \in 0..j}
    <3>1. k - First(d) \in 0..j /\ k = First(d) + (k - First(d)) BY <1>1, <1>2 DEF ColumnsOf
    <3> QED BY <3>1
  <2>3. ASSUME NEW i \in 0..j PROVE First(d) + i \in A BY <1>1, <1>2 DEF ColumnsOf
  <2> QED BY <2>2, <2>3, <1>1 DEF Attends
<1>4. ASSUME NEW i \in 0..j PROVE Position(d, First(d) + i) = i BY <1>1, <1>2, RowColumn DEF SlotsOf
<1> QED BY <1>3, <1>4 DEF Seen

-----------------------------------------------------------------------------
(* The pack                                                                *)

\* A column of a document in the pack.
LEMMA PackColumn ==
    ASSUME ForwardAssumptions, Placed, Filled, NEW n \in Numbers, NEW j \in SlotsOf(data[n])
    PROVE  /\ start[n] + j \in Columns /\ start[n] + j \in ColumnsOf(Pack)
           /\ start[n] + j < offset
           /\ Position(Pack, start[n] + j) = j
           /\ InputAt(Pack, start[n] + j) = Input(data[n], j)
           /\ LabelAt(Pack, start[n] + j) = Target(data[n], j)
           /\ pack[start[n] + j].document = n
<1>1. data[n] \in Rows /\ start[n] \in Nat /\ start[n] + Slots(data[n]) <= offset
         /\ offset \in Nat /\ offset <= PackLength
    BY DEF Placed
<1>2. Slots(data[n]) \in Nat BY <1>1, RowShape
<1>4. start[n] + j \in Columns /\ start[n] + j < offset BY <1>1, <1>2 DEF Columns, ForwardAssumptions, SlotsOf
<1>5. pack[start[n] + j] = [input |-> Input(data[n], j), label |-> Target(data[n], j),
                            position |-> j, document |-> n]
    BY DEF Filled
<1> QED BY <1>4, <1>5 DEF ColumnsOf, Position, InputAt, LabelAt

\* In the pack a document's column sees the document up to itself.
LEMMA PackSees ==
    ASSUME ForwardAssumptions, Placed, Filled, Owned, TailBehind, where.part \notin {"pack", "refused"},
           NEW n \in Numbers, NEW j \in SlotsOf(data[n]), NEW f
    PROVE  Seen(f, Pack, start[n] + j) = {<<i, f[Pack][start[n] + i]>> : i \in 0..j}
<1> DEFINE c == start[n] + j
<1>1. data[n] \in Rows /\ start[n] \in Nat /\ start[n] + Slots(data[n]) <= offset
         /\ offset \in Nat /\ taken \in Nat
    BY DEF Placed
<1>2. Slots(data[n]) \in Nat BY <1>1, RowShape
<1>3. j \in Nat /\ j < Slots(data[n]) BY <1>2 DEF SlotsOf
<1>4. \A i \in 0..j : i \in SlotsOf(data[n]) BY <1>2, <1>3 DEF SlotsOf
<1>5. c \in Columns /\ c < offset /\ pack[c].document = n BY PackColumn
<1>6. Attends(Pack, c) = {start[n] + i : i \in 0..j}
  <2> DEFINE A == {k \in Columns : k <= c /\ pack[k].document = pack[c].document}
  <2>2. ASSUME NEW k \in A PROVE k \in {start[n] + i : i \in 0..j}
    <3>1. k \in Columns /\ k <= c /\ pack[k].document = n BY <1>5
    <3>2. k \in Int /\ k < offset BY <3>1, <1>1, <1>5 DEF Columns, ForwardAssumptions
    <3> QED BY <3>1, <3>2, <1>1, <1>2, <1>3 DEF Owns, SlotsOf, Owned
  <2>3. ASSUME NEW i \in 0..j PROVE start[n] + i \in A BY <1>4, PackColumn, <1>1, <1>3, <1>5
  <2> QED BY <2>2, <2>3 DEF Attends
<1>7. ASSUME NEW i \in 0..j PROVE Position(Pack, start[n] + i) = i BY <1>4, PackColumn
<1> QED BY <1>6, <1>7 DEF Seen

\* One layer keeps pack and rows in agreement.
LEMMA LayerAgrees ==
    ASSUME ForwardAssumptions, Placed, Filled, Owned, TailBehind, where.part \notin {"pack", "refused"},
           NEW which, NEW f, Agree(f)
    PROVE  Agree(LayerOver(which, f))
<1> SUFFICES ASSUME NEW n \in Numbers, NEW j \in SlotsOf(data[n])
             PROVE  LayerOver(which, f)[Pack][start[n] + j] =
                        LayerOver(which, f)[data[n]][First(data[n]) + j]
    BY DEF Agree
<1> DEFINE d == data[n]
           p == start[n] + j
           r == First(d) + j
<1>1. d \in Rows BY DEF Placed
<1>2. Pack \in Views /\ d \in Views BY <1>1 DEF Views
<1>7. {<<i, f[Pack][start[n] + i]>> : i \in 0..j} = {<<i, f[d][First(d) + i]>> : i \in 0..j}
  BY <1>1, RowShape DEF Agree, SlotsOf
<1>8. Seen(f, Pack, p) = Seen(f, d, r) BY <1>1, <1>7, PackSees, RowSees
<1> QED BY <1>8, <1>2, PackColumn, <1>1, RowColumn DEF Agree, LayerOver

-----------------------------------------------------------------------------
(* The depths                                                              *)

Parts == {"pack", "embed", "prelude", "enter", "core", "coda", "done", "refused"}

\* What an iteration count means for the two counters of a block.
RanAfter(steps, i) == <<Lesser(i, steps[1]), Larger(i - steps[1], 0)>>

Past(b) == \/ where.part \in {"coda", "done"}
           \/ where.part \in {"enter", "core"} /\ b < where.block
Ahead(b) == \/ where.part \in {"pack", "embed", "prelude"}
            \/ where.part = "enter" /\ b >= where.block
            \/ where.part = "core" /\ b > where.block

InBlock ==
    /\ where.block \in Blocks /\ where.iteration \in Nat /\ where.layer \in Nat
    /\ depth[where.block] \in Depths(where.block)
    /\ where.layer <= CoreLayers[where.block] + 1
    /\ where.iteration <= Iterations(where.block)
    /\ where.layer > 0 => where.iteration < Iterations(where.block)
    /\ ran[where.block] = RanAfter(depth[where.block],
                                IF where.layer > 0 THEN where.iteration + 1 ELSE where.iteration)

Stepped ==
    /\ where.part \in Parts
    /\ DOMAIN ran = Blocks /\ DOMAIN depth = Blocks
    /\ where.part \in {"enter", "core", "coda", "done"} => StepsHold
    /\ where.part = "enter" => where.block \in 1..(Len(CoreLayers) + 1)
    /\ where.part = "core" => InBlock
    /\ \A b \in Blocks : Past(b) => ran[b] = depth[b] /\ depth[b] \in Depths(b)
    /\ \A b \in Blocks : Ahead(b) => ran[b] = <<0, 0>>

IInv == Packed /\ Sealing /\ Forwarded /\ Stepped

\* Whatever a block is given as its depth, it runs.
LEMMA DepthsRun ==
    ASSUME ForwardAssumptions, StepsHold, NEW b \in Blocks, NEW steps \in Depths(b)
    PROVE  /\ steps \in Nat \X Nat /\ steps[1] + steps[2] >= 1
           /\ Asked[b] = Sample /\ Training =>
                 steps[1] + steps[2] - 1 \in Draws /\ steps[2] \in 1..MeanBackprop[b]
<1>1. MeanRecurrence[b] \in Nat \ {0} /\ MeanBackprop[b] \in Nat \ {0} BY DEF ForwardAssumptions
<1>2. CASE Asked[b] # Sample BY <1>2 DEF Depths, StepsHold, ForwardAssumptions, RunsOnce
<1>3. CASE Asked[b] = Sample /\ ~Training BY <1>3, <1>1 DEF Depths
<1>4. CASE Asked[b] = Sample /\ Training
  <2>1. PICK draw \in Draws : steps = Sampled(b, draw) BY <1>4 DEF Depths
  <2>2. draw \in Nat BY DEF ForwardAssumptions
  <2> QED BY <2>2, <2>1, <1>1 DEF Sampled, Larger, Lesser
<1> QED BY <1>2, <1>3, <1>4

-----------------------------------------------------------------------------
(* The invariant is inductive                                              *)

\* Nothing is in the pack yet.
LEMMA InitHolds == ASSUME ForwardAssumptions, ForwardInit PROVE IInv
<1>1. where.part = "pack" BY DEF ForwardInit, At
<1>2. Placed /\ Filled /\ Owned BY DEF ForwardInit, Placed, Filled, Owned, Numbers, Columns, ForwardAssumptions
<1>4. Sealing /\ Forwarded BY <1>1 DEF Sealing, Forwarded
<1>5. Stepped BY <1>1 DEF ForwardInit, Stepped, Parts, Past, Ahead
<1> QED BY <1>2, <1>4, <1>5, <1>1 DEF IInv, Packed, ForwardInit, TailBehind, Waits

\* A document appended at the offset keeps the others where they are.
LEMMA TakeKeeps == ASSUME ForwardAssumptions, IInv, Take PROVE IInv'
<1> USE DEF Take
<1>1. where.part = "pack" /\ where' = where OBVIOUS
<1>2. /\ next \in Nat /\ taken \in Nat /\ taken <= next /\ next < Count /\ offset \in Nat
      /\ next \in Rows /\ PackLength \in Nat /\ pooled \in Nat /\ Count \in Nat
      /\ taken \in Documents /\ offset <= PackLength
    BY DEF IInv, Packed, Placed, Waits, ForwardAssumptions, Documents
<1>3. Slots(next) \in Nat /\ Slots(next) >= 1 BY <1>2, RowShape
<1>4. Numbers' = Numbers \union {taken} /\ taken \notin Numbers BY <1>2 DEF Numbers
<1>5. start'[taken] = offset /\ data'[taken] = next BY <1>2 DEF IInv, Packed, Placed
<1>6. \A n \in Numbers : start'[n] = start[n] /\ data'[n] = data[n] BY <1>4
<1>7. \A n \in Numbers : data[n] \in Rows /\ start[n] \in Nat /\ start[n] + Slots(data[n]) <= offset
    BY DEF IInv, Packed, Placed
<1>8. \A c \in Columns : c < offset => pack'[c] = pack[c] BY <1>2 DEF WithDocument, Columns
<1>9. Placed'
  <2>3. \A n \in Numbers' : data'[n] \in Rows /\ start'[n] \in Nat
                            /\ start'[n] + Slots(data'[n]) <= offset'
    <3>1. CASE TRUE
      <4>1. \A n \in Numbers : Slots(data[n]) \in Nat BY <1>7, RowShape
      <4> QED BY <4>1, <1>2, <1>3, <1>4, <1>5, <1>6, <1>7
    <3> QED BY <3>1
  <2> QED BY <2>3, <1>2, <1>3 DEF Placed, IInv, Packed
<1>10. Filled'
  <2> SUFFICES ASSUME NEW n \in Numbers', NEW j \in SlotsOf(data'[n])
               PROVE  pack'[start'[n] + j] =
                         [input |-> Input(data'[n], j), label |-> Target(data'[n], j),
                          position |-> j, document |-> n]
      BY DEF Filled
  <2>1. CASE n \in Numbers BY <2>1, <1>6, PackColumn, <1>8 DEF IInv, Packed, Filled
  <2>2. CASE n = taken
    <3>1. j \in Nat /\ j < Slots(next) BY <2>2, <1>3, <1>5 DEF SlotsOf
    <3> QED BY <2>2, <1>5, <3>1, <1>2, <1>3, SMTT(30) DEF WithDocument, Columns
  <2> QED BY <2>1, <2>2, <1>4
<1>11. Owned'
  <2> SUFFICES ASSUME NEW c \in Columns, c < offset'
               PROVE  /\ pack'[c].document \in Numbers'
                      /\ c - start'[pack'[c].document] \in SlotsOf(data'[pack'[c].document])
      BY DEF Owned, Owns
  <2>1. CASE c < offset BY <2>1, <1>8, <1>6, <1>4 DEF IInv, Packed, Owned, Owns
  <2>2. CASE ~(c < offset) BY <2>2, <1>2, <1>3, <1>4, <1>5 DEF Columns, WithDocument, SlotsOf
  <2> QED BY <2>1, <2>2
<1>12. TailBehind'
  <2>1. \A c \in Columns : c >= offset' => c >= offset /\ pack'[c] = pack[c]
      BY <1>2, <1>3 DEF WithDocument, Columns
  <2> QED BY <2>1, <1>1 DEF TailBehind, IInv, Packed
<1>13. Waits' BY <1>2, <1>3, RowShape DEF Waits, IInv, Packed
<1>14. Sealing' /\ Forwarded' BY <1>1 DEF Sealing, Forwarded
<1>15. Stepped' BY DEF IInv, Stepped, Unmoved, Past, Ahead
<1> QED BY <1>9, <1>10, <1>11, <1>12, <1>13, <1>14, <1>15 DEF IInv, Packed

\* Documents walked over without a place change nothing in the pack.
LEMMA WalkKeeps == ASSUME ForwardAssumptions, IInv, Drop \/ Keep \/ RefuseEmpty PROVE IInv'
<1>1. where.part = "pack" /\ where'.part \in {"pack", "refused"} BY DEF Drop, Keep, RefuseEmpty, At
<1>2. UNCHANGED <<taken, offset, start, data, pack>> /\ Unmoved BY DEF Drop, Keep, RefuseEmpty, packing
<1>3. next' \in 0..Count /\ next' >= next /\ next \in Nat
    BY DEF Drop, Keep, RefuseEmpty, packing, IInv, Packed, Placed, ForwardAssumptions
<1>4. Placed' BY <1>2, <1>3 DEF IInv, Packed, Placed, Numbers
<1>5. Filled' /\ Owned' BY <1>2 DEF IInv, Packed, Filled, Owned, Owns, Numbers
<1>7. Waits'
  <2>1. CASE pooled' = pooled BY <2>1, <1>2 DEF IInv, Packed, Waits
  <2>2. CASE Keep BY <2>2, RowShape, <1>2 DEF Keep, IInv, Packed, Waits
  <2> QED BY <2>1, <2>2 DEF Drop, RefuseEmpty, packing
<1>9. Stepped'
  <2>1. DOMAIN ran' = Blocks /\ DOMAIN depth' = Blocks BY <1>2 DEF IInv, Stepped, Unmoved
  <2>2. \A b \in Blocks : ran'[b] = <<0, 0>> BY <1>1, <1>2 DEF IInv, Stepped, Unmoved, Ahead
  <2> QED BY <1>1, <2>1, <2>2 DEF Stepped, Parts, Past, Ahead
<1> QED BY <1>4, <1>5, <1>7, <1>9, <1>1, <1>2 DEF IInv, Packed, Sealing, Forwarded, TailBehind

\* The tail becomes a document of its own.
LEMMA SealKeeps == ASSUME ForwardAssumptions, IInv, Seal PROVE IInv'
<1> USE DEF Seal
<1>1. where.part = "pack" /\ where'.part = "embed" BY DEF At
<1>2. UNCHANGED <<next, pooled, taken, offset, start, data>> OBVIOUS
<1>3. \A c \in Columns : c < offset => pack'[c] = pack[c] BY DEF Sealed
<1>5. Filled' BY <1>2, PackColumn, <1>3 DEF IInv, Packed, Filled, Numbers
<1>6. Owned' BY <1>2, <1>3 DEF IInv, Packed, Owned, Owns, Numbers
<1>7. TailBehind'
  <2> SUFFICES ASSUME NEW c \in Columns, c >= offset
               PROVE  /\ pack'[c].label = IgnoreIndex
                      /\ DOMAIN pack'[c] = {"input", "label", "position", "document"}
                      /\ pack'[c].position = c - offset /\ pack'[c].document = taken
      BY <1>2 DEF TailBehind
  <2>1. pack[c].label = IgnoreIndex /\ DOMAIN pack[c] = {"input", "label", "position", "document"}
      BY DEF IInv, Packed, TailBehind
  <2>2. ~(c < offset) BY DEF IInv, Packed, Placed, Columns
  <2>3. pack'[c] = [pack[c] EXCEPT !.position = c - offset, !.document = taken] BY <2>2 DEF Sealed
  <2> QED BY <2>1, <2>3
<1>8. Sealing' /\ Forwarded' BY <1>1, <1>2 DEF Sealing, Forwarded
<1>9. Stepped'
  <2>1. \A b \in Blocks : ran'[b] = <<0, 0>> BY <1>1 DEF IInv, Stepped, Unmoved, Ahead
  <2> QED BY <1>1, <2>1 DEF IInv, Stepped, Unmoved, Parts, Past, Ahead
<1> QED BY <1>5, <1>6, <1>7, <1>8, <1>9, <1>2 DEF IInv, Packed, Placed, Waits, Numbers

\* A step that leaves the pack alone keeps what holds of it.
LEMMA PackStays ==
    ASSUME IInv, UNCHANGED packing, where.part \notin {"pack", "refused"}
    PROVE  Packed' /\ Sealing'
<1>1. UNCHANGED <<next, pooled, taken, offset, start, data, pack>> BY DEF packing
<1>2. Placed' /\ Filled' /\ Owned' /\ Waits'
    BY <1>1 DEF IInv, Packed, Placed, Filled, Owned, Owns, Waits, Numbers
<1> QED BY <1>2, <1>1 DEF Packed, IInv, TailBehind, Sealing

\* A document's column in the pack and in its row: both exist, are fed the
\* same token and draw the same noise.
LEMMA SameColumn ==
    ASSUME ForwardAssumptions, Placed, Filled, NEW n \in Numbers, NEW j \in SlotsOf(data[n])
    PROVE  /\ Pack \in Views /\ data[n] \in Views
           /\ start[n] + j \in ColumnsOf(Pack)
           /\ First(data[n]) + j \in ColumnsOf(data[n])
           /\ InputAt(Pack, start[n] + j) = InputAt(data[n], First(data[n]) + j)
           /\ LabelAt(Pack, start[n] + j) = LabelAt(data[n], First(data[n]) + j)
           /\ \A b \in Blocks :
                 NoiseAt(Pack, b, start[n] + j) = NoiseAt(data[n], b, First(data[n]) + j)
<1>1. data[n] \in Rows /\ data[n] # Pack
         /\ First(data[n]) \in Nat /\ Slots(data[n]) \in Nat
    BY RowShape DEF Placed
<1>3. /\ start[n] + j \in ColumnsOf(Pack)
      /\ InputAt(Pack, start[n] + j) = Input(data[n], j)
      /\ LabelAt(Pack, start[n] + j) = Target(data[n], j)
      /\ Position(Pack, start[n] + j) = j
      /\ pack[start[n] + j].document = n
    BY PackColumn
<1>5. ASSUME NEW b \in Blocks
      PROVE  NoiseAt(Pack, b, start[n] + j) = NoiseAt(data[n], b, First(data[n]) + j)
  BY <1>3, <1>1 DEF Numbers, Placed, Position, NoiseAt, SlotsOf
<1> QED BY <1>3, <1>5, <1>1, RowColumn DEF Views

-----------------------------------------------------------------------------
(* What the steps of the forward pass do to the registers                  *)

LEMMA ForwardedStays ==
    ASSUME ForwardAssumptions, IInv, UNCHANGED packing, where.part \notin {"pack", "refused"},
           EmbedTokens \/ PreludeLayer \/ EnterBlock \/ Inject \/ CoreLayer \/ LeaveBlock
               \/ CodaLayer
    PROVE  Forwarded'
<1> USE DEF IInv, Packed
<1>2. CASE EmbedTokens
  <2>2. ASSUME NEW n \in Numbers, NEW j \in SlotsOf(data[n])
        PROVE  hidden'[Pack][start[n] + j] = hidden'[data[n]][First(data[n]) + j]
    BY <1>2, SameColumn DEF EmbedTokens
  <2>3. Agree(hidden)' BY <2>2 DEF Agree, packing, Numbers
  <2> QED BY <2>3, <1>2 DEF Forwarded, EmbedTokens, At
<1>3. CASE PreludeLayer
  <2>1. where.part = "prelude" /\ where'.part = "prelude" /\ hidden' = LayerOver(<<"prelude", where.layer>>, hidden)
      BY <1>3 DEF PreludeLayer, At
  <2> QED BY <2>1, LayerAgrees DEF Forwarded, Agree, packing, Numbers
<1>4. CASE EnterBlock
  <2> DEFINE b == where.block
  <2>1. where.part = "enter" /\ b \in Blocks /\ where'.part = "core" /\ hidden' = hidden BY <1>4 DEF EnterBlock, At
  <2>2. ASSUME NEW n \in Numbers, NEW j \in SlotsOf(data[n])
        PROVE  base'[Pack][start[n] + j] = base'[data[n]][First(data[n]) + j]
    BY <1>4, <2>1, SameColumn DEF EnterBlock, Forwarded, Agree
  <2>3. ASSUME NEW n \in Numbers, NEW j \in SlotsOf(data[n])
        PROVE  latent'[Pack][start[n] + j] = latent'[data[n]][First(data[n]) + j]
    BY <1>4, <2>1, SameColumn DEF EnterBlock
  <2> QED BY <2>1, <2>2, <2>3 DEF Forwarded, Agree, packing, Numbers
<1>5. CASE Inject
  <2>1. where.part = "core" /\ where'.part = "core" /\ UNCHANGED <<hidden, base>> BY <1>5 DEF Inject, At
  <2>2. ASSUME NEW n \in Numbers, NEW j \in SlotsOf(data[n])
        PROVE  latent'[Pack][start[n] + j] = latent'[data[n]][First(data[n]) + j]
    BY <1>5, <2>1, SameColumn DEF Inject, Forwarded, Agree
  <2> QED BY <2>1, <2>2 DEF Forwarded, Agree, packing, Numbers
<1>6. CASE CoreLayer
  <2> DEFINE w == <<"core", where.block, where.layer>>
  <2>1. where.part = "core" /\ where'.part = "core" /\ UNCHANGED <<hidden, base>> /\ latent' = LayerOver(w, latent)
      BY <1>6 DEF CoreLayer, At
  <2> QED BY <2>1, LayerAgrees DEF Forwarded, Agree, packing, Numbers
<1>7. CASE LeaveBlock
  <2>1. where.part = "core" /\ where'.part = "enter" BY <1>7 DEF LeaveBlock, At
  <2>2. ASSUME NEW n \in Numbers, NEW j \in SlotsOf(data[n])
        PROVE  hidden'[Pack][start[n] + j] = hidden'[data[n]][First(data[n]) + j]
    BY <1>7, <2>1, SameColumn DEF LeaveBlock, Forwarded, Agree
  <2> QED BY <2>1, <2>2 DEF Forwarded, Agree, packing, Numbers
<1>8. CASE CodaLayer
  <2>1. where.part = "coda" /\ where'.part = "coda" /\ hidden' = LayerOver(<<"coda", where.layer>>, hidden)
      BY <1>8 DEF CodaLayer, At
  <2> QED BY <2>1, LayerAgrees DEF Forwarded, Agree, packing, Numbers
<1> QED BY <1>2, <1>3, <1>4, <1>5, <1>6, <1>7, <1>8

\* The steps that only move on.
LEMMA ForwardedSame ==
    ASSUME IInv, UNCHANGED packing, UNCHANGED <<hidden, base, latent>>,
           where'.part \in {"prelude", "enter", "core", "coda", "done"} =>
               where.part \in {"prelude", "enter", "core", "coda", "done"},
           where'.part = "core" => where.part = "core"
    PROVE  Forwarded'
<1> QED BY DEF IInv, Forwarded, Agree, packing, Numbers

LEMMA BlocksOf == ASSUME ForwardAssumptions PROVE Blocks = 1..Len(CoreLayers) /\ Len(CoreLayers) \in Nat
                                           /\ \A b \in Blocks : CoreLayers[b] \in Nat
BY DEF ForwardAssumptions, Blocks

-----------------------------------------------------------------------------
(* What they do to the depths                                              *)

\* Before the blocks, and between them.
LEMMA SteppedOutside ==
    ASSUME ForwardAssumptions, IInv,
           EmbedTokens \/ RefusePositions \/ PreludeLayer \/ LeavePrelude \/ EnterCoda
               \/ CodaLayer \/ Finish
    PROVE  Stepped'
<1>1. UNCHANGED <<depth, ran>>
    BY DEF EmbedTokens, RefusePositions, PreludeLayer, LeavePrelude, EnterCoda, CodaLayer,
           Finish, Unmoved
<1>2. Stepped /\ Blocks = 1..Len(CoreLayers) /\ Len(CoreLayers) \in Nat BY BlocksOf DEF IInv
<1>3. CASE EmbedTokens \/ RefusePositions \/ PreludeLayer
  <2>1. where.part \in {"embed", "prelude"} /\ where'.part \in {"prelude", "refused"}
      BY <1>3 DEF EmbedTokens, RefusePositions, PreludeLayer, At
  <2> QED BY <1>1, <1>2, <2>1 DEF Stepped, Parts, Past, Ahead
<1>4. CASE LeavePrelude
  <2>2. \A b \in Blocks : ran[b] = <<0, 0>> BY <1>2, <1>4 DEF Stepped, Ahead, LeavePrelude
  <2>3. CASE StepsHold
    <3>1. where'.part = "enter" /\ where'.block = 1 BY <1>4, <2>3 DEF LeavePrelude, At
    <3> QED BY <1>1, <1>2, <2>2, <2>3, <3>1 DEF Stepped, Parts, Past, Ahead
  <2>4. CASE ~StepsHold
    <3>1. where'.part = "refused" BY <1>4, <2>4 DEF LeavePrelude, At
    <3> QED BY <1>1, <1>2, <2>2, <3>1 DEF Stepped, Parts, Past, Ahead
  <2> QED BY <2>3, <2>4
<1>5. CASE EnterCoda
  <2>1. where.part = "enter" /\ where.block \notin Blocks /\ where'.part = "coda" BY <1>5 DEF EnterCoda, At
  <2> QED BY <1>1, <1>2, <2>1 DEF Stepped, Parts, Past, Ahead
<1>6. CASE CodaLayer \/ Finish
  <2>1. where.part = "coda" /\ where'.part \in {"coda", "done"} BY <1>6 DEF CodaLayer, Finish, At
  <2> QED BY <1>1, <1>2, <2>1 DEF Stepped, Parts, Past, Ahead
<1> QED BY <1>3, <1>4, <1>5, <1>6

\* The iterations of a block: first those without gradient.
LEMMA SteppedInside ==
    ASSUME ForwardAssumptions, IInv, EnterBlock \/ Inject \/ CoreLayer \/ EndIteration \/ LeaveBlock
    PROVE  Stepped'
<1> DEFINE b == where.block
<1>1. /\ Stepped /\ Blocks = 1..Len(CoreLayers) /\ Len(CoreLayers) \in Nat
      /\ \A c \in Blocks : CoreLayers[c] \in Nat
    BY BlocksOf DEF IInv
<1>2. CASE EnterBlock
  <2>1. /\ where.part = "enter" /\ b \in Blocks /\ UNCHANGED ran
        /\ where' = At("core", b, 0, 0)
      BY <1>2 DEF EnterBlock
  <2>2. where'.part = "core" /\ where'.block = b /\ where'.iteration = 0 /\ where'.layer = 0 BY <2>1 DEF At
  <2>3. PICK steps \in Depths(b) : depth' = [depth EXCEPT ![b] = steps] BY <1>2 DEF EnterBlock
  <2>4. StepsHold /\ DOMAIN depth = Blocks /\ DOMAIN ran = Blocks BY <1>1, <2>1 DEF Stepped
  <2>5. depth'[b] = steps /\ DOMAIN depth' = Blocks /\ \A c \in Blocks \ {b} : depth'[c] = depth[c]
      BY <2>1, <2>3, <2>4
  <2>6. steps \in Nat \X Nat BY <2>1, <2>4, DepthsRun
  <2>8. InBlock'
    <3>1. ran'[b] = RanAfter(steps, 0) BY <2>1, <2>6, <1>1 DEF RanAfter, Lesser, Larger, Stepped, Ahead
    <3>2. steps[1] + steps[2] >= 0 BY <2>6
    <3> QED BY <1>1, <2>1, <2>2, <2>3, <2>5, <3>1, <3>2 DEF InBlock, Iterations, Depths
  <2>9. ASSUME NEW c \in Blocks, Past(c)' PROVE ran'[c] = depth'[c] /\ depth'[c] \in Depths(c)
    BY <2>2, <2>9, <1>1, <2>1, <2>5 DEF Past, Stepped
  <2>10. ASSUME NEW c \in Blocks, Ahead(c)' PROVE ran'[c] = <<0, 0>>
    BY <2>2, <2>10, <1>1, <2>1 DEF Ahead, Stepped
  <2>11. \A c \in Blocks : Past(c)' => ran'[c] = depth'[c] /\ depth'[c] \in Depths(c) BY <2>9
  <2>12. (\A c \in Blocks : Past(c) => ran[c] = depth[c] /\ depth[c] \in Depths(c))' BY <2>11 DEF Depths
  <2>13. (\A c \in Blocks : Ahead(c) => ran[c] = <<0, 0>>)' BY <2>10
  <2> QED BY <2>1, <2>2, <2>4, <2>5, <2>8, <2>12, <2>13 DEF Stepped, Parts
<1>3. CASE Inject
  <2>1. /\ where.part = "core" /\ where.layer = 0 /\ where.iteration < Iterations(b) /\ UNCHANGED depth
        /\ where' = At("core", b, where.iteration, 1)
        /\ ran' = [ran EXCEPT ![b] = IF where.iteration < depth[b][1] THEN <<@[1] + 1, @[2]>>
                                     ELSE <<@[1], @[2] + 1>>]
      BY <1>3 DEF Inject
  <2>2. where'.part = "core" /\ where'.block = b /\ where'.iteration = where.iteration /\ where'.layer = 1 BY <2>1 DEF At
  <2>3. InBlock /\ StepsHold /\ DOMAIN depth = Blocks /\ DOMAIN ran = Blocks BY <1>1, <2>1 DEF Stepped
  <2>4. b \in Blocks /\ where.iteration \in Nat /\ depth[b] \in Depths(b)
           /\ ran[b] = RanAfter(depth[b], where.iteration)
      BY <2>1, <2>3 DEF InBlock
  <2>5. depth[b] \in Nat \X Nat BY <2>3, <2>4, DepthsRun
  <2>7. InBlock'
    <3>1. 1 <= CoreLayers[b] + 1 /\ Iterations(b) \in Nat /\ Iterations(b)' = Iterations(b)
        BY <1>1, <2>1, <2>2, <2>4, <2>5 DEF Iterations
    <3>2. where'.iteration <= Iterations(b) /\ where'.layer > 0 /\ where'.layer \in Nat BY <2>1, <2>2, <2>4, <3>1
    <3>3. ran'[where'.block] = RanAfter(depth'[where'.block],
                                     IF where'.layer > 0 THEN where'.iteration + 1 ELSE where'.iteration)
      BY <2>1, <2>2, <3>2, <2>3, <2>4, <2>5 DEF RanAfter, Lesser, Larger
    <3>4. depth'[b] \in Depths(b)' BY <2>1, <2>2, <2>4 DEF Depths
    <3>5. where'.block \in Blocks /\ where'.iteration \in Nat /\ where'.layer <= CoreLayers[where'.block] + 1
        BY <2>2, <2>4, <3>1
    <3>6. where'.iteration < Iterations(b) BY <2>1, <2>2
    <3> QED BY <2>2, <3>1, <3>2, <3>3, <3>4, <3>5, <3>6 DEF InBlock, Iterations, Depths
  <2>8. \A c \in Blocks : c # b => ran'[c] = ran[c] BY <2>1, <2>3
  <2>9. \A c \in Blocks : (Past(c)' => Past(c) /\ c # b) /\ (Ahead(c)' => Ahead(c) /\ c # b)
      BY <1>1, <2>1, <2>2, <2>4 DEF Past, Ahead
  <2>10. (\A c \in Blocks : Past(c) => ran[c] = depth[c] /\ depth[c] \in Depths(c))'
      BY <1>1, <2>1, <2>8, <2>9 DEF Stepped, Depths
  <2>11. (\A c \in Blocks : Ahead(c) => ran[c] = <<0, 0>>)' BY <1>1, <2>8, <2>9 DEF Stepped
  <2> QED BY <2>1, <2>2, <2>3, <2>7, <2>10, <2>11 DEF Stepped, Parts
<1>4. CASE CoreLayer \/ EndIteration
  <2>1. where.part = "core" /\ UNCHANGED <<depth, ran>> BY <1>4 DEF CoreLayer, EndIteration, Unmoved
  <2>2. InBlock /\ StepsHold /\ DOMAIN depth = Blocks /\ DOMAIN ran = Blocks BY <1>1, <2>1 DEF Stepped
  <2>3. where'.part = "core" /\ where'.block = b /\ InBlock'
    <3>1. CASE CoreLayer BY <3>1, <1>1, <2>2, <2>1 DEF CoreLayer, At, InBlock, Iterations, Depths
    <3>2. CASE EndIteration
      <4>1. /\ where.layer = CoreLayers[b] + 1
            /\ where' = At("core", b, where.iteration + 1, 0)
          BY <3>2 DEF EndIteration
      <4>3. b \in Blocks /\ where.layer > 0 /\ where.iteration \in Nat /\ CoreLayers[b] \in Nat
          BY <1>1, <2>2, <4>1 DEF InBlock
      <4> QED BY <2>1, <2>2, <4>3, DepthsRun, <4>1 DEF InBlock, Iterations, Depths, At
    <3> QED BY <1>4, <3>1, <3>2
  <2> QED BY <2>1, <2>2, <2>3, <1>1 DEF Stepped, Parts, Depths, Past, Ahead
<1>5. CASE LeaveBlock
  <2>1. /\ where.part = "core" /\ where.layer = 0 /\ where.iteration = Iterations(b)
        /\ where' = At("enter", b + 1, 0, 0) /\ UNCHANGED <<depth, ran>>
      BY <1>5 DEF LeaveBlock
  <2>2. where'.part = "enter" /\ where'.block = b + 1 BY <2>1 DEF At
  <2>3. InBlock /\ StepsHold /\ DOMAIN depth = Blocks /\ DOMAIN ran = Blocks BY <1>1, <2>1 DEF Stepped
  <2>4. b \in Blocks /\ depth[b] \in Depths(b) /\ ran[b] = RanAfter(depth[b], Iterations(b))
      BY <2>1, <2>3 DEF InBlock
  <2>6. ran[b] = depth[b] BY <2>4, <2>3, DepthsRun DEF RanAfter, Iterations, Lesser, Larger
  <2>7. \A c \in Blocks : (Past(c)' => Past(c) \/ c = b) /\ (Ahead(c)' => Ahead(c))
      BY <1>1, <2>1, <2>2, <2>4 DEF Past, Ahead
  <2>8. (\A c \in Blocks : Past(c) => ran[c] = depth[c] /\ depth[c] \in Depths(c))'
      BY <1>1, <2>1, <2>4, <2>6, <2>7 DEF Stepped, Depths
  <2>9. (\A c \in Blocks : Ahead(c) => ran[c] = <<0, 0>>)' BY <1>1, <2>1, <2>7 DEF Stepped
  <2>10. where'.block \in 1..(Len(CoreLayers) + 1) BY <1>1, <2>2, <2>4
  <2> QED BY <2>1, <2>2, <2>3, <2>8, <2>9, <2>10 DEF Stepped, Parts
<1> QED BY <1>2, <1>3, <1>4, <1>5

-----------------------------------------------------------------------------
(* The theorems                                                            *)

\* Every step keeps the invariant.
LEMMA StepKeeps == ASSUME ForwardAssumptions, IInv, [ForwardNext]_forwardVars PROVE IInv'
<1>1. CASE UNCHANGED forwardVars
  <2>1. UNCHANGED <<where, next, pooled, taken, offset, start, data, pack, hidden, base, latent, depth, ran>>
      BY <1>1 DEF forwardVars, packing
  <2>2. Packed' /\ Sealing'
      BY <2>1 DEF IInv, Packed, Placed, Filled, Owned, Owns, TailBehind, Waits, Numbers, Sealing
  <2>4. Stepped' BY <2>1 DEF IInv, Stepped, InBlock, Iterations, Past, Ahead, Depths
  <2> QED BY <2>2, <2>4, <2>1 DEF IInv, Forwarded, Agree, Numbers
<1>2. CASE Drop \/ Take \/ Keep \/ Seal \/ RefuseEmpty BY <1>2, TakeKeeps, WalkKeeps, SealKeeps
<1>3. CASE EmbedTokens \/ PreludeLayer \/ EnterBlock \/ Inject \/ CoreLayer \/ LeaveBlock
               \/ CodaLayer
  <2>1. UNCHANGED packing /\ where.part \notin {"pack", "refused"}
      BY <1>3 DEF EmbedTokens, PreludeLayer, EnterBlock, Inject, CoreLayer, LeaveBlock, CodaLayer
  <2> QED BY <1>3, <2>1, PackStays, ForwardedStays, SteppedOutside, SteppedInside DEF IInv
<1>4. CASE RefusePositions \/ LeavePrelude \/ EndIteration \/ EnterCoda \/ Finish
  <2>1. UNCHANGED packing /\ UNCHANGED <<hidden, base, latent>> /\ where.part \notin {"pack", "refused"}
      BY <1>4 DEF RefusePositions, LeavePrelude, EndIteration, EnterCoda, Finish, Unmoved
  <2>2. /\ where'.part \in {"prelude", "enter", "core", "coda", "done"} =>
               where.part \in {"prelude", "enter", "core", "coda", "done"}
        /\ where'.part = "core" => where.part = "core"
      BY <1>4 DEF RefusePositions, LeavePrelude, EndIteration, EnterCoda, Finish, At
  <2>3. Stepped' BY <1>4, SteppedOutside, SteppedInside
  <2> QED BY <2>1, <2>2, <2>3, PackStays, ForwardedSame DEF IInv
<1> QED BY <1>1, <1>2, <1>3, <1>4 DEF ForwardNext

THEOREM ForwardInvariant == ASSUME ForwardAssumptions PROVE ForwardSpec => []IInv
<1>1. ForwardInit => IInv BY InitHolds
<1>2. IInv /\ [ForwardNext]_forwardVars => IInv' BY StepKeeps
<1> QED BY <1>1, <1>2, PTL DEF ForwardSpec

\* The states and losses of a document are the same in the pack and in its
\* padded row.
THEOREM PackingChangesNothing == ASSUME ForwardAssumptions PROVE ForwardSpec => []PackedAsAlone
<1>1. IInv => PackedAsAlone
  <2> SUFFICES ASSUME IInv, Done, NEW n \in Numbers, NEW j \in SlotsOf(data[n])
               PROVE  /\ hidden[Pack][start[n] + j] = hidden[data[n]][First(data[n]) + j]
                      /\ TokenLoss(Pack, start[n] + j) = TokenLoss(data[n], First(data[n]) + j)
      BY DEF PackedAsAlone
  <2>1. hidden[Pack][start[n] + j] = hidden[data[n]][First(data[n]) + j] BY DEF IInv, Done, Forwarded, Agree
  <2> QED BY <2>1, SameColumn DEF TokenLoss, Counts, IInv, Packed
<1> QED BY <1>1, ForwardInvariant, PTL

\* A label that is ignored does not count.
LEMMA IgnoredDoesNot == ASSUME ForwardAssumptions PROVE Effective(IgnoreIndex) = IgnoreIndex
BY DEF ForwardAssumptions, Effective, Valid

\* Neither the tail of a pack nor padding is trained or validated on.
THEOREM PaddingIsIgnored == ASSUME ForwardAssumptions PROVE ForwardSpec => []OnlyTargetsCount
<1>1. IInv => OnlyTargetsCount
  <2> SUFFICES ASSUME IInv, Done PROVE OnlyTargetsCount BY DEF OnlyTargetsCount
  <2>1. ASSUME NEW c \in Columns, Counts(Pack, c)
        PROVE  \E n \in Numbers : c - start[n] \in SlotsOf(data[n])
    <3>1. pack[c].label # IgnoreIndex BY <2>1, IgnoredDoesNot DEF Counts, LabelAt
    <3>2. c < offset BY <3>1 DEF IInv, Packed, TailBehind, Placed, Columns
    <3> QED BY <3>2 DEF IInv, Packed, Owned, Owns
  <2>2. ASSUME NEW d \in Rows, NEW c \in ColumnsOf(d), Counts(d, c)
        PROVE  c - First(d) \in SlotsOf(d)
    BY RowShape, <2>2, IgnoredDoesNot DEF Counts, LabelAt, ColumnsOf, Real, SlotsOf
  <2> QED BY <2>1, <2>2 DEF OnlyTargetsCount
<1> QED BY <1>1, ForwardInvariant, PTL

\* What counts is the document's own next token.
THEOREM NextTokensOnly == ASSUME ForwardAssumptions PROVE ForwardSpec => []TargetsAreTheNextToken
<1>1. IInv => TargetsAreTheNextToken
  <2> SUFFICES ASSUME IInv, NEW n \in Numbers, NEW j \in SlotsOf(data[n]), Counts(Pack, start[n] + j)
               PROVE  /\ pack[start[n] + j].input = Tokens[data[n]][j + 1]
                      /\ pack[start[n] + j].label = Labels[data[n]][j + 2]
      BY DEF TargetsAreTheNextToken
  <2>1. pack[start[n] + j] = [input |-> Input(data[n], j), label |-> Target(data[n], j),
                              position |-> j, document |-> n]
      BY DEF IInv, Packed, Filled
  <2> QED BY <2>1, IgnoredDoesNot DEF Input, Target, Masked, Counts, LabelAt
<1> QED BY <1>1, ForwardInvariant, PTL

\* The mean over a pack's targets never divides by zero.
THEOREM PacksAreSupervised == ASSUME ForwardAssumptions PROVE ForwardSpec => []PackIsSupervised
<1>1. IInv => PackIsSupervised
  <2> SUFFICES ASSUME IInv, Done PROVE \E c \in Columns : Counts(Pack, c) BY DEF PackIsSupervised
  <2>1. taken > 0 /\ taken \in Nat BY DEF IInv, Sealing, Done, Packed, Placed
  <2>2. 0 \in Numbers /\ data[0] \in Rows BY <2>1 DEF Numbers, IInv, Packed, Placed
  <2>3. PICK j \in SlotsOf(data[0]) : Valid(Labels[data[0]][j + 2], TokenizerVocab)
      BY <2>2 DEF Rows, HasSupervisedLabel
  <2>7. Labels[data[0]][j + 2] \in Int BY <2>2, RowShape DEF ForwardAssumptions, SlotsOf
  <2>8. Effective(Labels[data[0]][j + 2]) # IgnoreIndex BY <2>3, <2>7 DEF Effective, Valid, ForwardAssumptions
  <2> QED BY <2>8, <2>3, <2>2, PackColumn DEF Counts, Target, Masked, IInv, Packed
<1> QED BY <1>1, ForwardInvariant, PTL

\* Every block runs as deep as asked, and at least once.
THEOREM DepthsHold == ASSUME ForwardAssumptions PROVE ForwardSpec => []DepthsAsAsked
<1>1. IInv => DepthsAsAsked BY DepthsRun DEF DepthsAsAsked, IInv, Stepped, Done, Past
<1> QED BY <1>1, ForwardInvariant, PTL

\* No iteration without gradient follows one that has it.
THEOREM GradientIsLast == ASSUME ForwardAssumptions PROVE ForwardSpec => GradientComesLast
<1>1. IInv /\ [ForwardNext]_forwardVars => [\A b \in Blocks : ran[b]'[1] # ran[b][1] => ran[b][2] = 0]_forwardVars
  <2> SUFFICES ASSUME IInv, ForwardNext, NEW b \in Blocks, ran[b]'[1] # ran[b][1]
               PROVE  ran[b][2] = 0
      OBVIOUS
  <2>1. Inject
    <3>1. ran' # ran OBVIOUS
    <3> QED BY <3>1 DEF ForwardNext, Drop, Take, Keep, Seal, RefuseEmpty, EmbedTokens, RefusePositions,
               PreludeLayer, LeavePrelude, EnterBlock, CoreLayer, EndIteration, LeaveBlock,
               EnterCoda, CodaLayer, Finish, Unmoved
  <2>2. where.part = "core" /\ where.layer = 0 BY <2>1 DEF Inject
  <2>3. InBlock /\ StepsHold /\ DOMAIN ran = Blocks BY <2>2 DEF IInv, Stepped
  <2> QED BY <2>3, DepthsRun, <2>1, <2>2 DEF RanAfter, Larger, Inject, InBlock
<1> QED BY <1>1, ForwardInvariant, PTL DEF ForwardSpec, GradientComesLast

\* The tail of a pack filled from a pool that holds more than a pack is
\* shorter than a document: no position leaves the RoPE table.
THEOREM TailFits == ASSUME ForwardAssumptions PROVE ForwardSpec => []TailStaysInTable
<1>1. IInv => TailStaysInTable
  <2> SUFFICES ASSUME IInv, where.part = "embed", pooled > PackLength, NEW c \in Columns
               PROVE  pack[c].position < Table
      BY DEF TailStaysInTable, Positioned, ColumnsOf, Position
  <2>1. offset \in Nat /\ offset <= PackLength /\ c \in Nat /\ c < PackLength
           /\ PackLength \in Nat /\ MaxLength \in Nat /\ Table \in Nat /\ MaxLength <= Table
      BY DEF IInv, Packed, Placed, Columns, ForwardAssumptions
  <2>2. CASE c < offset
    <3>1. PICK n \in Numbers : Owns(n, c) BY <2>2 DEF IInv, Packed, Owned
    <3>4. PICK j \in SlotsOf(data[n]) : j = c - start[n] BY <3>1 DEF Owns
    <3> QED BY PackColumn, <2>1, <3>4, RowShape DEF Position, IInv, Packed, SlotsOf, Placed
  <2>3. CASE ~(c < offset) BY <2>1, <2>3, RowShape DEF IInv, Packed, TailBehind, Waits
  <2> QED BY <2>2, <2>3
<1> QED BY <1>1, ForwardInvariant, PTL

\* The pieces of the chunked loss cover every column of a row once.
THEOREM ChunksCover == ASSUME NEW width \in Nat PROVE ChunksPartition(width)
<1> DEFINE q == width \div 8
<1>1. q \in Nat /\ 8 * q <= width /\ width < 8 * q + 8 OBVIOUS
<1> SUFFICES ASSUME NEW c \in 0..(width - 1)
             PROVE  /\ \E i \in 0..7 : c \in Chunk(width, i)
                    /\ \A i, k \in 0..7 : c \in Chunk(width, i) /\ c \in Chunk(width, k) => i = k
    BY DEF ChunksPartition, LossChunks
<1>2. \A i \in 0..7 : c \in Chunk(width, i) <=> i * q <= c /\ (i < 7 => c < i * q + q)
    BY DEF Chunk, ChunkStart, ChunkEnd, LossChunks
<1> HIDE DEF q
<1>4. ASSUME NEW i \in 0..7, NEW k \in 0..7, i < k, k * q <= c PROVE ~(c < i * q + q) BY <1>1, <1>4
<1>5. ASSUME NEW i \in 0..7, NEW k \in 0..7, c \in Chunk(width, i), c \in Chunk(width, k)
      PROVE  i = k
  BY <1>2, <1>4, <1>5
<1> QED BY <1>2, <1>5, <1>1
=============================================================================
