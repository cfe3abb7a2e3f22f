-------------------------- MODULE SequentialBuild --------------------------
(***************************************************************************)
(* What a per-raw-shard build of one source promises: it stores what one   *)
(* uninterrupted pass over the raw shards stores, shard by shard, each     *)
(* with its statistics, and reads no further than the rows it needs        *)
(* (data_preparation/lib/stages/build.py, exact_dedup.py).                 *)
(*                                                                         *)
(* A raw shard is a sequence of rows [valid, chars, prose, hash]: whether  *)
(* the text is not null, its length, whether check_quality passes it and   *)
(* its dedup key.  What is kept of a shard is the set of its positions.    *)
(* The Bloom filter is a function of the keys inserted: it contains a key  *)
(* when all bits of the key are set, so it may also contain others.        *)
(***************************************************************************)
EXTENDS Integers, Sequences, FiniteSets

CONSTANTS
    Raw,            \* the rows of each raw shard
    MinChars,       \* processing.min_chars
    QualityFilter,  \* processing.quality_filter
    Dedup,          \* dedup.mode # "none"
    Bits,           \* key -> the bits of the filter it sets
    Limited,        \* rows_target is not None
    Target          \* rows_target

\* what the proofs assume of the constants
BuildConstants ==
    /\ Len(Raw) \in Nat
    /\ \A k \in 1..Len(Raw) : Len(Raw[k]) \in Nat
    /\ Dedup \in BOOLEAN
    /\ Limited \in BOOLEAN
    /\ Target \in Nat

----------------------------------------------------------------------------
(* The row pipeline *)

LongEnough(row) == row.valid /\ row.chars >= MinChars
Survives(row) == LongEnough(row) /\ (QualityFilter => row.prose)

Survivors(k) == {i \in 1..Len(Raw[k]) : Survives(Raw[k][i])}

KeysOf(k, positions) == {Raw[k][i].hash : i \in positions}

\* the filter after the keys in seen were inserted
Contains(seen, key) == Bits[key] \subseteq UNION {Bits[other] : other \in seen}

\* first occurrence wins, against the filter as it grows with the rows kept
Kept(seen, k) ==
    LET new[i \in 1..Len(Raw[k])] ==
            /\ Survives(Raw[k][i])
            /\ Dedup =>
                ~Contains(seen \cup KeysOf(k, {j \in 1..(i - 1) : new[j]}),
                          Raw[k][i].hash)
    IN  {i \in Survivors(k) : new[i]}

\* the filter after that
Inserted(seen, k, kept) == IF Dedup THEN seen \cup KeysOf(k, kept) ELSE seen

----------------------------------------------------------------------------
(* The manifest of the processed folder *)

EmptyManifest == [covered |-> 0, kept |-> <<>>, rows |-> 0, input |-> 0, duplicates |-> 0]

AddShards(manifest, k, kept) ==
    [covered |-> manifest.covered + 1,
     kept |-> Append(manifest.kept, kept),
     rows |-> manifest.rows + Cardinality(kept),
     input |-> manifest.input + Len(Raw[k]),
     duplicates |-> manifest.duplicates + (Cardinality(Survivors(k)) - Cardinality(kept))]

\* the keys of every row on disk, which refill the filter
StoredKeys(manifest) ==
    IF Dedup THEN UNION {KeysOf(k, manifest.kept[k]) : k \in 1..manifest.covered} ELSE {}

Enough(manifest) == Limited /\ manifest.rows >= Target

\* one raw shard in one pass
Pass(manifest) ==
    LET k == manifest.covered + 1
    IN  AddShards(manifest, k, Kept(StoredKeys(manifest), k))

----------------------------------------------------------------------------
VARIABLE manifest

Init == manifest = EmptyManifest

BuildRawShard ==
    /\ manifest.covered < Len(Raw)
    /\ ~Enough(manifest)
    /\ manifest' = Pass(manifest)

Spec == Init /\ [][BuildRawShard]_manifest
=============================================================================
