--------------------------- MODULE DatasetConfig ---------------------------
(* A dataset configuration (data_preparation/lib/dataset_config.py): which  *)
(* settings a config may combine, the identities its folders are keyed by,  *)
(* and the rows its budgets ask for. Everything here is a function of the   *)
(* configuration c, a record; the modules that prepare and read a dataset   *)
(* take these values as constants.                                          *)
(*                                                                          *)
(* An optional setting is a set of at most one value. A fraction (a weight, *)
(* a share of a stage or of the rows, a mean of tokens per row) is its      *)
(* numerator over c.unit: the code computes with exact Fractions. A hash is *)
(* the payload it is taken of. A glob is a sequence of parts, "*" one of    *)
(* them. c.pins holds the revisions the code pins its benchmarks to.        *)
EXTENDS Integers, FiniteSets, FiniteSetsExt, SequencesExt

None == {}
Some(x) == {x}
OrElse(option, x) == IF option = None THEN x ELSE CHOOSE y \in option : TRUE
When(condition, x) == IF condition THEN Some(x) ELSE None
CeilDiv(a, b) == (a + b - 1) \div b

-----------------------------------------------------------------------------
(* Which source setting belongs where                                       *)

Kinds == {"pretrain", "instruct"}
HubLoaders == {"hf_files", "hf_split", "hf_stream", "github_code"}
Loaders == HubLoaders \union {"local", "synthetic"}

Scope(kinds, loaders, required) ==
    [kinds |-> kinds, loaders |-> loaders, required |-> required]
Anywhere == Scope(Kinds, Loaders, FALSE)
OnlyFor(kind) == Scope({kind}, Loaders, FALSE)

SourceFieldScopes == [
    kind |-> Anywhere, loader |-> Anywhere, converter |-> Anywhere,
    check_limit |-> Anywhere, rows |-> Anywhere, seed |-> Anywhere,
    shuffle |-> Anywhere, validation_fraction |-> Anywhere,
    describe_tokens_per_row |-> Anywhere, split |-> Anywhere,
    text_field |-> OnlyFor("pretrain"), processing |-> OnlyFor("pretrain"),
    fields |-> OnlyFor("instruct"), instruction_format |-> OnlyFor("instruct"),
    filter |-> OnlyFor("instruct"), input_inversions |-> OnlyFor("instruct"),
    hf_id |-> Scope(Kinds, HubLoaders, TRUE),
    revision |-> Scope(Kinds, HubLoaders, FALSE),
    load_kwargs |-> Scope(Kinds, HubLoaders, FALSE),
    language |-> Scope(Kinds, {"github_code"}, TRUE),
    path |-> Scope(Kinds, {"local"}, TRUE)]

SourceDefaults == [
    loader |-> "hf_split", hf_id |-> None, revision |-> None,
    load_kwargs |-> [data_files |-> None, max_cached_file_mb |-> None],
    split |-> "train", text_field |-> "text", language |-> None, path |-> None,
    converter |-> None, fields |-> None, filter |-> None, check_limit |-> None,
    rows |-> None, seed |-> 42, processing |-> None, input_inversions |-> 0,
    shuffle |-> None, validation_fraction |-> None,
    describe_tokens_per_row |-> 500, instruction_format |-> "single_turn"]

\* A setting outside its scope has its default; a required one inside it a value.
FieldScopesHold(s) ==
    \A f \in DOMAIN SourceFieldScopes :
        LET scope == SourceFieldScopes[f]
        IN IF s.kind \in scope.kinds /\ s.loader \in scope.loaders
           THEN scope.required => s[f] # None
           ELSE s[f] = SourceDefaults[f]

MessageConverters == {"opencode_messages", "webinstruct_messages", "nemotron_messages"}
InstructionPairConverters ==
    {"sharegpt_conversations", "first_two_turns", "instruction_input_output"}

MessagesHold(s) ==
    /\ \/ /\ \E name \in MessageConverters \union InstructionPairConverters :
                 s.converter = Some(name)
          /\ s.fields = None
       \/ s.converter = None /\ s.fields # None
    /\ s.input_inversions = 0
    /\ s.converter = Some("opencode_messages") => s.filter = Some("opencode_passed_tests")

\* The rules about a value that the scopes cannot express.
SourceValuesHold(s, unit) ==
    /\ IF s.instruction_format = "messages" THEN MessagesHold(s)
       ELSE \A name \in MessageConverters : s.converter # Some(name)
    /\ s.filter = Some("opencode_passed_tests") => s.converter = Some("opencode_messages")
    /\ s.loader = "hf_files" => s.load_kwargs.data_files # None
    /\ \A mb \in s.load_kwargs.max_cached_file_mb : mb >= 0
    /\ s.kind = "instruct" /\ s.loader # "synthetic" => s.fields # None \/ s.converter # None
    /\ \A columns \in s.fields : {"instruction", "output"} \subseteq columns
    /\ s.filter = Some("sharegpt_quality") =>
           s.converter = Some("sharegpt_conversations") /\ s.fields = None
    /\ \A limit \in s.check_limit : limit > 0
    /\ \A rows \in s.rows : rows > 0
    /\ s.input_inversions \in 0..(unit - 1)
    /\ \A fraction \in s.validation_fraction : fraction \in 0..(unit - 1)
    /\ s.describe_tokens_per_row > 0

DedupHolds(dedup, unit) ==
    /\ dedup.threshold \in 1..unit
    /\ dedup.num_perm > 0 /\ dedup.ngram > 0 /\ dedup.bloom_memory_mb > 0

DecontaminationHolds(d, unit) == d.ngram > 0 /\ d.threshold \in 0..unit

ProcessingHolds(p, unit) ==
    /\ p.min_chars >= 0
    /\ DedupHolds(p.dedup, unit) /\ DecontaminationHolds(p.decontamination, unit)

\* A literal chat profile belongs to one pinned tokenizer under a name of its own.
TokenizerHolds(t, pinned) ==
    /\ t.profile # None =>
           t.kind = "hf" /\ <<t.hf_id, t.revision>> = pinned /\ t.name # "llama-32k"
    /\ t.kind = "hf" => t.hf_id # None

-----------------------------------------------------------------------------
(* Stages and the use of sources                                            *)

\* Weights are positive and sum to one.
WeightsHold(weights, unit) ==
    /\ DOMAIN weights # {}
    /\ \A n \in DOMAIN weights : weights[n] > 0
    /\ MapThenSumSet(LAMBDA n : weights[n], DOMAIN weights) = unit

StageHolds(stage, unit) ==
    /\ stage.tokens > 0 /\ stage.transition_pct \in 0..(unit - 1)
    /\ WeightsHold(stage.train, unit) /\ WeightsHold(stage.val, unit)

UsedInTrain(c, n) == \E i \in DOMAIN c.stages : n \in DOMAIN c.stages[i].train
UsedInVal(c, n) == \E i \in DOMAIN c.stages : n \in DOMAIN c.stages[i].val

ShuffleOf(c, n) == OrElse(c.sources[n].shuffle, c.sources[n].kind = "instruct")

\* The share of a source's rows held out of training: only where it is used for both.
ValidationFractionOf(c, n) ==
    IF UsedInTrain(c, n) /\ UsedInVal(c, n)
    THEN OrElse(c.sources[n].validation_fraction, c.validation_fraction) ELSE 0

SourceProcessing(c, n) == OrElse(c.sources[n].processing, c.processing)

\* Every source is used; rows is for the ones validation alone reads.
SourceUsageHolds(c) ==
    \A n \in DOMAIN c.sources :
        /\ UsedInTrain(c, n) \/ UsedInVal(c, n)
        /\ UsedInTrain(c, n) <=> (c.sources[n].rows = None)
        /\ UsedInTrain(c, n) /\ UsedInVal(c, n) => ValidationFractionOf(c, n) > 0

\* The near-duplicate pass runs for pretrain rows only.
DedupModesHold(c) ==
    \A n \in DOMAIN c.sources :
        c.sources[n].kind = "instruct" => SourceProcessing(c, n).dedup.mode # "minhash"

-----------------------------------------------------------------------------
(* Budgets                                                                  *)

\* Tokens stage i draws from source n, times 2 * unit * unit: the plain part at
\* its weight, the transition at the mean of its weight and the next stage's.
StageTokens(c, n, i) ==
    LET stage == c.stages[i]
        Weight(j) == IF n \in DOMAIN c.stages[j].train THEN c.stages[j].train[n] ELSE 0
    IN IF i = Len(c.stages) THEN 2 * stage.tokens * Weight(i) * c.unit
       ELSE 2 * stage.tokens * (c.unit - stage.transition_pct) * Weight(i)
            + stage.tokens * stage.transition_pct * (Weight(i) + Weight(i + 1))

TokenBudget(c, n) ==
    CeilDiv(MapThenSumSet(LAMBDA i : StageTokens(c, n, i), DOMAIN c.stages),
            2 * c.unit * c.unit)

\* Tokens a row serves the budget with: the measured mean, or the estimate before
\* the first shard, never more than the length the run trains at.
TokensPerRowRate(c, n, measured) ==
    LET rate == OrElse(measured, c.sources[n].describe_tokens_per_row * c.unit)
        cap == c.training_target_sequence_length * c.unit
    IN IF rate <= cap THEN rate ELSE cap

RowsBudget(c, n, measured) ==
    CeilDiv(TokenBudget(c, n) * c.unit, TokensPerRowRate(c, n, measured))

\* Raw rows to download: the rows budget with the safety margin of 6/5, and enough
\* of them that the training part keeps the budget after the holdout.
RowsFor(budget, unit, heldOut, rate) ==
    CeilDiv(6 * budget * unit * unit, 5 * rate * (unit - heldOut))
RowsNeeded(c, n, measured) ==
    IF UsedInTrain(c, n)
    THEN RowsFor(TokenBudget(c, n), c.unit, ValidationFractionOf(c, n),
                 TokensPerRowRate(c, n, measured))
    ELSE CeilDiv(6 * OrElse(c.sources[n].rows, 0), 5)

\* Processed rows at which a source serves its budget.
WithoutMargin(rows) == CeilDiv(5 * rows, 6)
RowsSufficient(c, n, measured) ==
    IF UsedInTrain(c, n) THEN WithoutMargin(RowsNeeded(c, n, measured))
    ELSE OrElse(c.sources[n].rows, 0)

\* A MinHash build holds its rows and their index in memory.
AllAtOnceRowsHold(c, n, rows) ==
    c.sources[n].kind = "pretrain" /\ SourceProcessing(c, n).dedup.mode = "minhash" =>
        rows <= c.minhash_build_max_rows

-----------------------------------------------------------------------------
(* The rules about a whole configuration                                    *)

ConversationsHold(c) ==
    LET messages == {n \in DOMAIN c.sources : c.sources[n].instruction_format = "messages"}
        instruct == {n \in DOMAIN c.sources : c.sources[n].kind = "instruct"}
    IN /\ c.tokenizer.profile # None => instruct \subseteq messages
       /\ messages # {} => c.token_count = "tokenizer" /\ c.benchmarks = {}

DatasetHolds(c) ==
    /\ \A n \in DOMAIN c.sources :
        /\ FieldScopesHold(c.sources[n]) /\ SourceValuesHold(c.sources[n], c.unit)
        /\ \A p \in c.sources[n].processing : ProcessingHolds(p, c.unit)
    /\ ProcessingHolds(c.processing, c.unit)
    /\ TokenizerHolds(c.tokenizer, c.pinned_tokenizer)
    /\ ConversationsHold(c)
    /\ c.benchmarks # {} => c.bloom_deduplicate_across_sources
    /\ c.bloom_dedup_memory_mb >= 1
    /\ c.training_target_sequence_length \in 1..c.dataset_max_sequence_length
    /\ c.validation_fraction \in 0..(c.unit - 1)
    /\ c.stages # <<>>
    /\ \A i, j \in DOMAIN c.stages : c.stages[i].name = c.stages[j].name => i = j
    /\ \A i \in DOMAIN c.stages :
        /\ StageHolds(c.stages[i], c.unit)
        /\ DOMAIN c.stages[i].train \union DOMAIN c.stages[i].val \subseteq DOMAIN c.sources
    /\ SourceUsageHolds(c)
    /\ DedupModesHold(c)
    /\ \A n \in DOMAIN c.sources : AllAtOnceRowsHold(c, n, RowsNeeded(c, n, None))

-----------------------------------------------------------------------------
(* Identities. Every setting is annotated with the hash it belongs to, some *)
(* of them only under a condition on their neighbours.                      *)

ReadsSplit(s) == s.loader \in {"hf_split", "hf_stream"}

SourceAnnotation(s) == [
    kind |-> "raw", loader |-> "raw", hf_id |-> "raw", revision |-> "raw",
    load_kwargs |-> "raw", language |-> "raw", path |-> "raw", converter |-> "raw",
    fields |-> "raw", filter |-> "raw",
    split |-> IF ReadsSplit(s) THEN "raw" ELSE "none",
    text_field |-> IF s.kind = "pretrain" THEN "raw" ELSE "none",
    seed |-> IF s.loader = "synthetic" THEN "raw" ELSE "processed",
    processing |-> "processed", input_inversions |-> "processed", shuffle |-> "processed",
    check_limit |-> "config", rows |-> "config", validation_fraction |-> "config",
    describe_tokens_per_row |-> "none", instruction_format |-> "none"]

DedupAnnotation(dedup) ==
    LET minhashOnly == IF dedup.mode = "minhash" THEN "processed" ELSE "none"
    IN [mode |-> "processed", bloom_memory_mb |-> "none",
        normalize |-> IF dedup.mode = "none" THEN "none" ELSE "processed",
        threshold |-> minhashOnly, num_perm |-> minhashOnly, ngram |-> minhashOnly]

TokenizerAnnotation(t) == [
    name |-> "tokenizer", kind |-> "tokenizer", hf_id |-> "tokenizer",
    revision |-> "tokenizer", profile |-> IF t.profile # None THEN "tokenizer" ELSE "none"]

\* The size at which a file is cached says how it is fetched, not what is in it.
HashedValue(field, value) == IF field = "load_kwargs" THEN value.data_files ELSE value

\* The settings of an object that belong to one hash, with their values.
HashPayload(object, annotation, hash) ==
    [f \in {g \in DOMAIN annotation : annotation[g] = hash} |-> HashedValue(f, object[f])]

TokenizerPayload(t) == HashPayload(t, TokenizerAnnotation(t), "tokenizer")
DedupPayload(dedup) == HashPayload(dedup, DedupAnnotation(dedup), "processed")
ProcessingPayload(p) == [
    min_chars |-> Some(p.min_chars), dedup |-> DedupPayload(p.dedup),
    quality_filter |-> Some(p.quality_filter), decontamination |-> Some(p.decontamination)]
DedupAlone(p) == [
    min_chars |-> None, dedup |-> DedupPayload(p.dedup),
    quality_filter |-> None, decontamination |-> None]

ExchangePolicyApplies(s) ==
    \/ s.converter = Some("sharegpt_conversations") /\ s.fields = None
    \/ s.filter = Some("sharegpt_quality")

\* Identity of the rows a loader stores: sources/<source>/raw.
RawHashPayload(c, s) == [
    source |-> HashPayload(s, SourceAnnotation(s), "raw"),
    conversation |-> When(s.instruction_format = "messages", TokenizerPayload(c.tokenizer)),
    tokenizer_profile |-> When(c.tokenizer.profile # None, TokenizerPayload(c.tokenizer)),
    sharegpt_exchange |-> ExchangePolicyApplies(s)]

BenchmarkRevisions(c, names) == [name \in names |-> c.pins[name]]

\* Identity of what the build makes of them: processed/<source>.
ProcessedHashPayload(c, n) ==
    LET s == c.sources[n]
        p == SourceProcessing(c, n)
        instruct == s.kind = "instruct"
    IN [raw |-> RawHashPayload(c, s),
        max_seq_length |-> c.dataset_max_sequence_length,
        tokenizer |-> TokenizerPayload(c.tokenizer),
        token_count |-> c.token_count,
        shuffle |-> ShuffleOf(c, n),
        seed |-> s.seed,
        processing |-> IF instruct THEN DedupAlone(p) ELSE ProcessingPayload(p),
        input_inversions |-> When(instruct, s.input_inversions),
        benchmark_revisions |->
            When(~instruct /\ p.decontamination.enabled,
                 BenchmarkRevisions(c, p.decontamination.benchmarks))]

\* Global admission lets validation-only sources go first, each group as configured.
OrderedSources(c) ==
    SelectSeq(c.source_order, LAMBDA n : ~UsedInTrain(c, n))
    \o SelectSeq(c.source_order, LAMBDA n : UsedInTrain(c, n))

GlobalPolicy(c) ==
    When(c.bloom_deduplicate_across_sources,
         [source_order |-> OrderedSources(c), memory_mb |-> c.bloom_dedup_memory_mb,
          benchmark_seeds |-> BenchmarkRevisions(c, c.benchmarks)])

\* Identity of the training data, recorded in checkpoints.
ConfigHashPayload(c) == [
    sources |-> [n \in DOMAIN c.sources |->
        [processed |-> ProcessedHashPayload(c, n),
         config |-> HashPayload(c.sources[n], SourceAnnotation(c.sources[n]), "config")]],
    stages |-> c.stages,
    validation_fraction |-> c.validation_fraction,
    tokenizer |-> TokenizerPayload(c.tokenizer),
    global_dedup |-> GlobalPolicy(c)]

\* The keys a mismatch is explained with, of two flat payloads.
HashChange(old, new) ==
    {key \in DOMAIN old \union DOMAIN new :
        \/ key \notin DOMAIN old \/ key \notin DOMAIN new
        \/ old[key] # new[key]}

-----------------------------------------------------------------------------
(* What reads the settings                                                  *)

GithubCodeFiles == <<"data/", "*">>

\* The settings a source's loader and row mapping read.
LoaderReads(s) == [
    kind |-> s.kind, loader |-> s.loader,
    mapping |-> <<s.converter, s.fields, s.filter>>,
    column |-> When(s.kind = "pretrain", s.text_field),
    hub |-> When(s.loader \in HubLoaders, <<s.hf_id, s.revision, s.load_kwargs.data_files>>),
    split |-> When(ReadsSplit(s), s.split),
    language |-> When(s.loader = "github_code", s.language),
    path |-> When(s.loader = "local", s.path),
    seed |-> When(s.loader = "synthetic", s.seed)]

\* The settings a build of processed/<source> reads.
BuildReads(c, n) ==
    LET s == c.sources[n]
        p == SourceProcessing(c, n)
        pretrain == s.kind = "pretrain"
    IN [kind |-> s.kind,
        column |-> When(pretrain, s.text_field),
        messages |-> s.instruction_format = "messages",
        cap |-> c.dataset_max_sequence_length,
        counter |-> <<c.token_count, c.tokenizer.kind, c.tokenizer.hf_id, c.tokenizer.revision>>,
        all_at_once |-> ShuffleOf(c, n) \/ (pretrain /\ p.dedup.mode = "minhash"),
        order |-> When(ShuffleOf(c, n), s.seed),
        inversions |-> When(~pretrain, <<s.input_inversions, s.seed>>),
        min_chars |-> When(pretrain, p.min_chars),
        quality |-> When(pretrain, p.quality_filter),
        dedup |-> p.dedup.mode,
        normalize |-> When(p.dedup.mode # "none", p.dedup.normalize),
        minhash |-> When(p.dedup.mode = "minhash",
                         <<p.dedup.threshold, p.dedup.num_perm, p.dedup.ngram>>),
        overlap |-> When(pretrain /\ p.decontamination.enabled,
                         <<p.decontamination.ngram, p.decontamination.threshold,
                           BenchmarkRevisions(c, p.decontamination.benchmarks)>>)]

-----------------------------------------------------------------------------
(* Sources of one repository                                                *)

\* What github_code sources share to be read in one pass.
GithubCodeRepoKey(s) ==
    <<s.hf_id, s.revision, OrElse(s.load_kwargs.data_files, GithubCodeFiles)>>

\* A language no source asks for is stored as the source its group would have.
GithubCodeExtraSource(template, language) ==
    [template EXCEPT !.language = Some(language),
                     !.describe_tokens_per_row = SourceDefaults.describe_tokens_per_row]

\* The literal directory a glob starts with.
GlobPrefix(files) ==
    LET glob == OrElse(files, <<>>)
        wild == {i \in DOMAIN glob : glob[i] = "*"}
    IN IF wild = {} THEN glob ELSE SubSeq(glob, 1, Min(wild) - 1)

\* Validation-only sources that read a training source's rows, as far as a glob tells.
OverlapWarnings(c) ==
    {pair \in (DOMAIN c.sources) \X (DOMAIN c.sources) :
        LET v == c.sources[pair[1]]
            t == c.sources[pair[2]]
            inside == GlobPrefix(v.load_kwargs.data_files)
            around == GlobPrefix(t.load_kwargs.data_files)
        IN /\ UsedInVal(c, pair[1]) /\ ~UsedInTrain(c, pair[1]) /\ UsedInTrain(c, pair[2])
           /\ v.hf_id # None /\ v.hf_id = t.hf_id
           /\ ~(ReadsSplit(t) /\ ReadsSplit(v) /\ t.split # v.split)
           /\ IsPrefix(inside, around) \/ IsPrefix(around, inside)}
=============================================================================
