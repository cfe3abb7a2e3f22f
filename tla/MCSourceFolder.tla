--------------------------- MODULE MCSourceFolder ---------------------------
(* Small instances of SourceFolder for TLC: the identities and row counts   *)
(* of its configurations are those of four dataset configurations.          *)
EXTENDS SourceFolder
LOCAL INSTANCE DatasetConfig

LOCAL Unit == 10

LOCAL Processing(mode, minChars) == [
    min_chars |-> minChars, quality_filter |-> FALSE,
    dedup |-> [mode |-> mode, normalize |-> TRUE, bloom_memory_mb |-> 1024,
               threshold |-> 9, num_perm |-> 256, ngram |-> 5],
    decontamination |-> [enabled |-> FALSE, benchmarks |-> {"gsm8k"},
                         ngram |-> 13, threshold |-> 1]]

LOCAL HubSource == [SourceDefaults EXCEPT !.hf_id = Some("org/texts")] @@ [kind |-> "pretrain"]

\* A dataset that validates on "texts", or trains on it a little, next to "web".
LOCAL Dataset(texts, processing, ownTokens) == [
    unit |-> Unit,
    sources |-> [texts |-> texts,
                 web |-> [HubSource EXCEPT !.hf_id = Some("org/web")]],
    source_order |-> <<"web", "texts">>,
    stages |-> <<
        [name |-> "warm", tokens |-> 10, transition_pct |-> 0, val |-> [web |-> Unit],
         train |-> IF ownTokens THEN [texts |-> 5, web |-> 5] ELSE [web |-> Unit]],
        [name |-> "main", tokens |-> 10, transition_pct |-> 5, train |-> [web |-> Unit],
         val |-> IF ownTokens THEN [web |-> Unit] ELSE [texts |-> Unit]]>>,
    tokenizer |-> [name |-> "llama", kind |-> "hf", hf_id |-> Some("org/llama"),
                   revision |-> None, profile |-> None],
    pinned_tokenizer |-> <<Some("org/chat"), Some("sha")>>,
    training_target_sequence_length |-> 6, dataset_max_sequence_length |-> 8,
    validation_fraction |-> 1, token_count |-> "tokenizer", processing |-> processing,
    bloom_deduplicate_across_sources |-> TRUE, benchmarks |-> {},
    bloom_dedup_memory_mb |-> 1024, minhash_build_max_rows |-> 10,
    pins |-> [name \in {"gsm8k"} |-> "sha"]]

\* Validation alone reads "texts": it says how many rows.
LOCAL HeldOut == [HubSource EXCEPT !.rows = Some(2)]

\* 1: whole source; 2: shard by shard, other filters; 3: another raw identity;
\* 4: config 2 with a smaller budget
LOCAL Datasets == <<
    Dataset(HeldOut, Processing("minhash", 0), FALSE),
    Dataset(HeldOut, Processing("exact", 50), FALSE),
    Dataset([HeldOut EXCEPT !.split = "test"], Processing("exact", 0), FALSE),
    Dataset([HubSource EXCEPT !.check_limit = Some(9)], Processing("exact", 50), TRUE)>>

MCSharded == {2}
MCAll == {1, 2, 3, 4}

MCHash == [c \in Config |-> <<1, 2, 3, 2>>[c]]
MCRawHash == [c \in Config |-> <<1, 1, 2, 1>>[c]]
MCWholeSource == [c \in Config |-> <<TRUE, FALSE, FALSE, FALSE>>[c]]
MCNeeded == [c \in Config |-> <<3, 3, 3, 1>>[c]]
MCSufficient == [c \in Config |-> <<2, 2, 2, 1>>[c]]

\* The documents long enough for the build's filter.
LOCAL Characters == <<60, 40, 60, 40, 40>>
MCKeeps == [c \in Config |-> <<1..5, {1, 3}, 1..5, {1, 3}>>[c]]

\* Every configuration is one the loader of the config accepts, and the values
\* above are what DatasetConfig makes of it.
ASSUME DatasetsHold == \A c \in Config : DatasetHolds(Datasets[c])

LOCAL Hashed(c) == ProcessedHashPayload(Datasets[c], "texts")
LOCAL RawHashed(c) == RawHashPayload(Datasets[c], Datasets[c].sources["texts"])

ASSUME HashesAreTheirs == \A c, d \in Config :
    /\ MCHash[c] = MCHash[d] <=> Hashed(c) = Hashed(d)
    /\ MCRawHash[c] = MCRawHash[d] <=> RawHashed(c) = RawHashed(d)

ASSUME NeedsAreTheirs == \A c \in Config :
    /\ MCNeeded[c] = RowsNeeded(Datasets[c], "texts", None)
    /\ MCSufficient[c] = RowsSufficient(Datasets[c], "texts", None)

ASSUME BuildsAreTheirs == \A c \in Config :
    LET reads == BuildReads(Datasets[c], "texts")
    IN /\ MCWholeSource[c] = reads.all_at_once
       /\ MCKeeps[c] = {d \in DOMAIN Characters :
                           \A least \in reads.min_chars : Characters[d] >= least}

\* the first two downloads yield too little, the third runs dry
MCUpstream == <<<<1, 1, 1, 1, 1, 1, 2, 3, 4>>, <<5, 5>>>>
=============================================================================
