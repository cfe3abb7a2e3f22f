---------------------------- MODULE PreparedData ----------------------------
(***************************************************************************)
(* What a preparation with dataset-wide deduplication leaves on disk: per  *)
(* source a raw folder, the source-local candidates built from it and the  *)
(* dataset-scoped output admitted from the candidates, and one snapshot    *)
(* over all outputs.  The folder operations that the job pools and the     *)
(* ordered admission share are defined here, as are the verdicts of the    *)
(* planner.                                                                *)
(*                                                                         *)
(* A raw shard holds one row, a row is its admission key, and every raw    *)
(* row survives the source-local build; what the local build drops, how a  *)
(* raw folder is repaired and how a download stores rows are the matter of *)
(* SourceFolder and RawDownload.                                           *)
(***************************************************************************)
EXTENDS Naturals, Sequences, FiniteSets, SequencesExt

CONSTANTS
    Order,       \* the sources, in admission order
    Upstream,    \* source -> the keys of its rows, in loader order
    Early,       \* source -> how many of them exist at the start
    Needed,      \* source -> rows_needed, the raw rows to download
    Sufficient,  \* source -> rows_sufficient, the rows that serve the budget
    Seeds,       \* the benchmark keys the filter is seeded with
    Bits,        \* key -> the bits of the Bloom filter it sets
    MaxFaults    \* bound on failures, crashes and interrupts

ASSUME DataAssumption ==
    /\ Order # <<>>
    /\ \A s \in ToSet(Order) :
         /\ Early[s] \in 1..Len(Upstream[s])
         /\ Sufficient[s] \in 1..Needed[s]
    /\ MaxFaults \in Nat

VARIABLES
    avail,      \* source -> rows its loader can serve today
    raw,        \* source -> raw rows on disk
    exhausted,  \* source -> the raw manifest says the loader ran dry
    cand,       \* source -> the source-local candidates
    out,        \* source -> the dataset-scoped output's manifest
    stray,      \* source -> rows of a published shard no manifest lists
    issued,     \* source -> generations begun in its output folder
    snapshot,   \* the output generations the snapshot names, <<>> when absent
    faults

diskVars == <<avail, raw, exhausted, cand, out, stray, issued, snapshot, faults>>

Sources == ToSet(Order)
Position(s) == CHOOSE i \in 1..Len(Order) : Order[i] = s

(* The admission's durable progress: the source being admitted, its        *)
(* candidates consumed, all candidates consumed and the keys retained (the *)
(* code stores their number and digest).                                   *)
FirstFrontier == [index |-> 1, offset |-> 0, consumed |-> 0, keys |-> <<>>]

NoCandidates == [built |-> 0, gen |-> 0, complete |-> FALSE]
NoOutput == [gen |-> 0, complete |-> FALSE, start |-> FirstFrontier,
             deps |-> <<>>, candGen |-> 0, covers |-> 0, shards |-> <<>>,
             frontier |-> FirstFrontier]

Rows(s) == FlattenSeq(out[s].shards)
Candidates(s) == SubSeq(Upstream[s], 1, cand[s].built)

DiskInit ==
    /\ avail = Early
    /\ raw = [s \in Sources |-> 0]
    /\ exhausted = [s \in Sources |-> FALSE]
    /\ cand = [s \in Sources |-> NoCandidates]
    /\ out = [s \in Sources |-> NoOutput]
    /\ stray = [s \in Sources |-> <<>>]
    /\ issued = [s \in Sources |-> 0]
    /\ snapshot = <<>>
    /\ faults = 0

-----------------------------------------------------------------------------
(* The source-local build.  A generation is begun anew only when the last  *)
(* one was completed; an interrupted one is continued under its own id.    *)

BuildHasWork(s, target) == cand[s].built < raw[s] /\ cand[s].built < target

BeginCandidates(s, target) ==
    /\ BuildHasWork(s, target)
    /\ cand[s].complete \/ cand[s].gen = 0
    /\ cand' = [cand EXCEPT ![s].gen = @ + 1, ![s].complete = FALSE]

AddCandidates(s, target) ==
    /\ BuildHasWork(s, target)
    /\ ~cand[s].complete /\ cand[s].gen > 0
    /\ cand' = [cand EXCEPT ![s].built = @ + 1]

CompleteCandidates(s, target) ==
    /\ ~BuildHasWork(s, target)
    /\ cand' = [cand EXCEPT ![s].complete = TRUE,
                            ![s].gen = IF @ = 0 THEN 1 ELSE @]

(* The raw download of a source up to a target, one stored row at a time.  *)
FetchRow(s, target) ==
    /\ raw[s] < target /\ raw[s] < avail[s]
    /\ raw' = [raw EXCEPT ![s] = @ + 1]
    /\ UNCHANGED exhausted

FetchEnds(s, target) ==
    /\ raw[s] >= target \/ raw[s] = avail[s]
    /\ exhausted' = [exhausted EXCEPT ![s] = @ \/ raw[s] < target]
    /\ UNCHANGED raw

-----------------------------------------------------------------------------
(* The planner's verdicts.  The pools are planned from the candidates, the *)
(* admission and the report from the dataset-scoped outputs.               *)

RowsToFetch(s) ==
    IF exhausted[s] \/ cand[s].built >= Sufficient[s] \/ raw[s] >= Needed[s]
    THEN 0 ELSE Needed[s] - raw[s]

BuildPending(s) ==
    /\ raw[s] > 0
    /\ \/ cand[s].built < raw[s] /\ cand[s].built < Sufficient[s]
       \/ cand[s].gen > 0 /\ ~cand[s].complete

CeilDiv(n, d) == (n + d - 1) \div d
AtMost(n, bound) == IF n <= bound THEN n ELSE bound

(* SAFETY_MARGIN is 6/5. *)
TopUpRows(s) ==
    LET got == Len(Rows(s))
        wanted == CeilDiv((Sufficient[s] - got) * raw[s] * 6, got * 5)
    IN  IF got = 0 THEN 0 ELSE AtMost(wanted, Needed[s])

(* What an admission round adds to the raw rows of a source that is short. *)
Increment(s) ==
    IF raw[s] < Needed[s] THEN Needed[s] - raw[s]
    ELSE IF TopUpRows(s) > 0 THEN TopUpRows(s) ELSE Needed[s]

Built(s) == out[s].gen > 0 /\ out[s].covers = raw[s]
ServesBudget(s) == out[s].gen > 0 /\ Len(Rows(s)) >= Sufficient[s]

Satisfied(s) ==
    \/ ServesBudget(s)
    \/ Built(s) /\ exhausted[s] /\ Rows(s) # <<>>

Dependencies(i) == [j \in 1..(i - 1) |-> out[Order[j]].gen]

OutputsComplete ==
    \A i \in 1..Len(Order) :
        LET m == out[Order[i]]
        IN  /\ m.gen > 0 /\ m.complete
            /\ m.deps = Dependencies(i)
            /\ m.start = IF i = 1 THEN FirstFrontier
                         ELSE out[Order[i - 1]].frontier
            /\ m.frontier.index = i + 1

Generations == [i \in 1..Len(Order) |-> out[Order[i]].gen]

SnapshotValid ==
    /\ snapshot # <<>> /\ snapshot = Generations
    /\ \A s \in Sources : out[s].complete

DatasetComplete ==
    /\ \A s \in Sources : Satisfied(s)
    /\ SnapshotValid /\ OutputsComplete

PublishSnapshot ==
    snapshot' = IF (\A s \in Sources : Satisfied(s)) /\ OutputsComplete
                THEN Generations ELSE snapshot

(* Rows added upstream after the first preparation (external). *)
UpstreamGrows(s) ==
    /\ avail[s] < Len(Upstream[s])
    /\ avail' = [avail EXCEPT ![s] = Len(Upstream[s])]
    /\ UNCHANGED <<raw, exhausted, cand, out, stray, issued, snapshot, faults>>

=============================================================================
