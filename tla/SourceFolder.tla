---------------------------- MODULE SourceFolder ----------------------------
(***************************************************************************)
(* The folders of one source under preparation: raw/ (downloaded shards),  *)
(* processed/ (the final folder training reads) and the two owned slots a  *)
(* whole-source build goes through, temporary and backup                   *)
(* (data_preparation/lib: storage/ownership.py, storage/manifest.py,       *)
(* storage/raw_folder.py, build/repair.py, build/assessment.py,            *)
(* stages/build.py, stages/build_output.py, storage/snapshot.py).          *)
(*                                                                         *)
(* A run of `prepare` holds the dataset lock: it inspects everything, asks *)
(* once, repairs, and then downloads and builds in rounds.  It may end at  *)
(* any point (a kill, a stop request, an error); only the disk survives,   *)
(* and a deletion that is cut off leaves any part of a folder behind.      *)
(*                                                                         *)
(* A document is a number, a raw shard the sequence of its documents, a    *)
(* processed shard the set of documents that survived.  What a processed   *)
(* manifest records of a raw shard is its place and its row count.         *)
(***************************************************************************)
EXTENDS Naturals, FiniteSets, SequencesExt

CONSTANTS
    Config,      \* dataset configs that share the folder
    Hash,        \* config -> the hash of its processed rows (no budget in it)
    RawHash,     \* config -> the hash of what its loader stores
    WholeSource, \* config -> built all at once, or one raw shard at a time
    Keeps,       \* config -> the documents its filters let through
    Upstream,    \* raw hash -> the documents its loader yields, in order
    ShardSize,   \* rows per shard, at most
    Needed,      \* config -> raw rows to download at first (rows_needed)
    Sufficient,  \* config -> processed rows that serve its budget (rows_sufficient)
    MaxRounds,   \* runner.MAX_ROUNDS
    MaxRuns,     \* bound: runs of prepare
    MaxFaults    \* bound: shard files lost behind the program's back

ASSUME SourceAssumption ==
    /\ Config \subseteq Nat \ {0}
    /\ {Hash, RawHash, Needed, Sufficient} \subseteq [Config -> Nat \ {0}]
    /\ WholeSource \in [Config -> BOOLEAN]
    /\ \A c \in Config : Keeps[c] \subseteq Nat
    /\ \A c \in Config : Upstream[RawHash[c]] \in Seq(Nat) \ {<<>>}
    /\ \A c, d \in Config : Hash[c] = Hash[d] =>
        RawHash[c] = RawHash[d] /\ WholeSource[c] = WholeSource[d] /\ Keeps[c] = Keeps[d]
    /\ {ShardSize, MaxRounds} \subseteq Nat \ {0}
    /\ {MaxRuns, MaxFaults} \subseteq Nat

VARIABLES
    disk,      \* final, temporary, backup -> the folder there
    raw,       \* the raw folder: its manifest and the files in it
    snapshot,  \* config -> what its published snapshot attests
    pc,        \* what the running prepare does next, or "idle"
    run,       \* its volatile state
    refused,   \* why the last prepare refused to start, or "no"
    ids,       \* the fresh ids (uuid4) given out so far
    runs,      \* runs of prepare so far
    faults     \* lost files so far

vars == <<disk, raw, snapshot, pc, run, refused, ids, runs, faults>>

NoOwner == [role |-> "none", build |-> 0]

NoManifest == [hash |-> 0, covered |-> <<>>, shards |-> <<>>, gen |-> 0, complete |-> TRUE]

Absent == [there |-> FALSE, owner |-> NoOwner, manifest |-> NoManifest, files |-> {}]

NoRaw == [hash |-> 0, shards |-> <<>>, exhausted |-> FALSE, files |-> {}]

NoRun == [config |-> 0, plan |-> <<>>, out |-> NoManifest, rounds |-> 0, target |-> 0]

Init ==
    /\ disk = [f \in {"final", "temporary", "backup"} |-> Absent]
    /\ raw = NoRaw
    /\ snapshot = [c \in Config |-> [gen |-> 0, shards |-> <<>>]]
    /\ pc = "idle"
    /\ run = NoRun
    /\ refused = "no"
    /\ ids = 0 /\ runs = 0 /\ faults = 0

-----------------------------------------------------------------------------
(* What the folders hold.                                                  *)

Rows(shards) == [i \in DOMAIN shards |-> Len(shards[i])]

\* one for each place of a shard
RawRows == Cardinality(UNION {{i} \X DOMAIN raw.shards[i] : i \in DOMAIN raw.shards})

\* the documents of the first n raw shards
DocsOf(n) == UNION {ToSet(raw.shards[i]) : i \in 1..n}

Content(shards) == UNION {shards[i] : i \in DOMAIN shards}

\* shards hold disjoint documents, so the rows are the documents
ProcessedRows(m) == Cardinality(Content(m.shards))

FileOf(i, docs) == [i |-> i, docs |-> docs]

IsListed(f, i) == i \in DOMAIN f.manifest.shards

ListedMissing(f) == {i \in DOMAIN f.manifest.shards : \A g \in f.files : g.i # i}

Unlisted(f) == {g.i : g \in {h \in f.files : ~IsListed(f, h.i)}}

\* The raw shards a repaired folder will hold; "gone": queued for deletion.
Kept(gone, rows) == [gone |-> gone, rows |-> rows]

-----------------------------------------------------------------------------
(* The verdict on a processed folder (assessment.py).                      *)

\* Mutant: no unlisted file is recognised as the shard of an interrupted build.
NoMoreRaw(covered, rows) == FALSE

MoreRawFollows(covered, rows) == IsStrictPrefix(covered, rows)

\* One unlisted file is the next shard of an interrupted build: left alone.
CrashLeftover(f, kept) ==
    /\ Unlisted(f) = {Len(f.manifest.shards) + 1}
    /\ MoreRawFollows(f.manifest.covered, kept.rows)

NeedsRebuild(f, c, kept) ==
    IF f.manifest = NoManifest
    THEN f.files # {}
    ELSE \/ kept.gone
         \/ f.manifest.hash # Hash[c]
         \/ ListedMissing(f) # {}
         \/ Unlisted(f) # {} /\ ~CrashLeftover(f, kept)
         \/ ~IsPrefix(f.manifest.covered, kept.rows)

\* The verdict "none" of the repair step, files checked.
IsWhole(f, c, kept) ==
    /\ f.manifest.hash = Hash[c] /\ ~kept.gone
    /\ ListedMissing(f) = {} /\ Unlisted(f) = {}
    /\ f.manifest.covered = kept.rows

\* The verdicts of the planner and the build, manifests only.
Built(c) ==
    /\ disk["final"].manifest.hash = Hash[c]
    /\ disk["final"].manifest.covered = Rows(raw.shards)

Healthy(c) ==
    /\ disk["final"].manifest.hash = Hash[c]
    /\ IsPrefix(disk["final"].manifest.covered, Rows(raw.shards))

-----------------------------------------------------------------------------
(* The plan of the repair step (repair.py).                                *)

Act(verb, folder, keep) == [verb |-> verb, folder |-> folder, keep |-> keep]

GoodPrefix == CHOOSE g \in 0..Len(raw.shards) :
    /\ \A i \in 1..g : i \in raw.files
    /\ g = Len(raw.shards) \/ g + 1 \notin raw.files

RawIsStale(c) == raw.hash # 0 /\ raw.hash # RawHash[c]

RawIsLost(c) == raw.hash = RawHash[c] /\ GoodPrefix = 0 /\ raw.shards # <<>>

RawDeleted(c) == RawIsStale(c) \/ RawIsLost(c)

RawTruncated(c) == raw.hash = RawHash[c] /\ GoodPrefix \in 1..(Len(raw.shards) - 1)

KeptRaw(c) == Kept(RawDeleted(c), IF RawTruncated(c) THEN Rows(SubSeq(raw.shards, 1, GoodPrefix))
                                                     ELSE Rows(raw.shards))

FinalDeleted(c) == NeedsRebuild(disk["final"], c, KeptRaw(c))

FinalSurvives(c) == disk["final"].there /\ ~FinalDeleted(c)

TemporaryAdopted(c) ==
    disk["temporary"].there /\ ~FinalSurvives(c) /\ IsWhole(disk["temporary"], c, KeptRaw(c))

\* Mutant: a backup is always taken for the leftover of a finished swap.
BackupAlwaysReplaced(c) == TRUE

BackupReplaced(c) == FinalSurvives(c) \/ TemporaryAdopted(c)

\* One action at most per folder.
Unless(skip, act) == IF skip THEN <<>> ELSE <<act>>

\* Mutant: the raw folder is repaired before the folders derived from it.
PlanRawFirst(c) ==
    Unless(~RawDeleted(c), Act("delete", "raw", 0))
    \o Unless(~RawTruncated(c), Act("truncate", "raw", GoodPrefix))
    \o Unless(~FinalDeleted(c), Act("delete", "final", 0))
    \o Unless(~disk["temporary"].there,
              Act(IF TemporaryAdopted(c) THEN "swap" ELSE "delete", "temporary", 0))
    \o Unless(~disk["backup"].there,
              Act(IF BackupReplaced(c) THEN "delete" ELSE "swap", "backup", 0))

\* Derived folders first, in the order they were planned, then raw.
Plan(c) ==
    Unless(~FinalDeleted(c), Act("delete", "final", 0))
    \o Unless(~disk["temporary"].there,
              Act(IF TemporaryAdopted(c) THEN "swap" ELSE "delete", "temporary", 0))
    \o Unless(~disk["backup"].there,
              Act(IF BackupReplaced(c) THEN "delete" ELSE "swap", "backup", 0))
    \o Unless(~RawDeleted(c), Act("delete", "raw", 0))
    \o Unless(~RawTruncated(c), Act("truncate", "raw", GoodPrefix))

\* What joins the one confirmation; dropping only a broken tail does not.
AsksFirst(c) ==
    \/ RawDeleted(c)
    \/ RawTruncated(c) /\ Len(raw.shards) - GoodPrefix > 1
    \/ FinalDeleted(c) /\ disk["final"].manifest # NoManifest /\ disk["final"].manifest.hash # Hash[c]

Owned(slot) == disk[slot].owner.role = slot

ReplacementOf(c) == IF FinalSurvives(c) THEN "final" ELSE "temporary"

VerifiedReplacement(c) ==
    LET replacement == disk[ReplacementOf(c)] IN
    replacement.there =>
        replacement.owner = [role |-> "temporary", build |-> disk["backup"].owner.build]

\* Why the inspection refuses to plan anything, in the order it looks.
Refusals(c) ==
    Unless(raw.hash # 0 \/ raw.files = {}, "raw")
    \o Unless(~disk["temporary"].there \/ Owned("temporary"), "temporary")
    \o Unless(~disk["backup"].there \/ Owned("backup"), "backup")
    \o Unless(~disk["backup"].there \/ VerifiedReplacement(c), "replacement")
    \o Unless(~disk["backup"].there \/ BackupReplaced(c)
                \/ IsWhole(disk["backup"], c, KeptRaw(c)), "last backup")

Refusal(c, yes) ==
    CASE Refusals(c) # <<>> -> Head(Refusals(c))
      [] Refusals(c) = <<>> /\ AsksFirst(c) /\ ~yes -> "unconfirmed"
      [] OTHER -> "no"

-----------------------------------------------------------------------------
(* One run of prepare: inspect, ask, repair.                               *)

Goto(l) == pc' = l

Prepare(c, yes) ==
    /\ pc = "idle" /\ runs < MaxRuns
    /\ runs' = runs + 1
    /\ refused' = Refusal(c, yes)
    /\ IF refused' = "no"
       THEN Goto("repair") /\ run' = [NoRun EXCEPT !.config = c, !.plan = Plan(c)]
       ELSE UNCHANGED <<pc, run>>
    /\ UNCHANGED <<disk, raw, snapshot, ids, faults>>

Due == Head(run.plan)

Doing(verb) == pc = "repair" /\ run.plan # <<>> /\ Due.verb = verb

Performed == run' = [run EXCEPT !.plan = Tail(@)] /\ UNCHANGED pc

Stopped == pc' = "idle" /\ run' = NoRun

DeleteFolder ==
    /\ Doing("delete") /\ Due.folder # "raw"
    /\ disk' = [disk EXCEPT ![Due.folder] = Absent]
    /\ Performed
    /\ UNCHANGED <<raw, snapshot, refused, ids, runs, faults>>

\* rmtree removes the entries of a folder in no particular order.
Torn(f) == [there : {f.there}, owner : {f.owner, NoOwner},
            manifest : {f.manifest, NoManifest}, files : SUBSET f.files]

DeleteInterrupted ==
    /\ Doing("delete") /\ Due.folder # "raw"
    /\ \E f \in Torn(disk[Due.folder]) : disk' = [disk EXCEPT ![Due.folder] = f]
    /\ Stopped
    /\ UNCHANGED <<raw, snapshot, refused, ids, runs, faults>>

DeleteRaw ==
    /\ Doing("delete") /\ Due.folder = "raw"
    /\ raw' = NoRaw
    /\ Performed
    /\ UNCHANGED <<disk, snapshot, refused, ids, runs, faults>>

DeleteRawInterrupted ==
    /\ Doing("delete") /\ Due.folder = "raw"
    /\ \E k \in SUBSET raw.files : raw' \in {[raw EXCEPT !.files = k], [NoRaw EXCEPT !.files = k]}
    /\ Stopped
    /\ UNCHANGED <<disk, snapshot, refused, ids, runs, faults>>

SwapIn ==
    /\ Doing("swap")
    /\ disk' = [disk EXCEPT !["final"] = disk[Due.folder], ![Due.folder] = Absent]
    /\ Performed
    /\ UNCHANGED <<raw, snapshot, refused, ids, runs, faults>>

TruncateRaw ==
    /\ Doing("truncate")
    /\ raw' = [raw EXCEPT !.shards = SubSeq(@, 1, Due.keep), !.exhausted = FALSE,
                          !.files = @ \intersect (1..Due.keep)]
    /\ Performed
    /\ UNCHANGED <<disk, snapshot, refused, ids, runs, faults>>

\* The files go one by one, the manifest is saved last.
TruncateInterrupted ==
    /\ Doing("truncate")
    /\ \E k \in SUBSET raw.files :
        /\ raw.files \intersect (1..Due.keep) \subseteq k
        /\ raw' = [raw EXCEPT !.files = k]
    /\ Stopped
    /\ UNCHANGED <<disk, snapshot, refused, ids, runs, faults>>

Repaired ==
    /\ pc = "repair" /\ run.plan = <<>>
    /\ Goto("round")
    /\ UNCHANGED <<disk, raw, snapshot, run, refused, ids, runs, faults>>

-----------------------------------------------------------------------------
(* The rounds (runner.py) and what they plan (planner.py).                 *)

HealthyRows(c) == IF Healthy(c) THEN ProcessedRows(disk["final"].manifest) ELSE 0

Serves(c) == Healthy(c) /\ HealthyRows(c) >= Sufficient[c]

\* shortfall / yield * 1.2, rounded up, at most rows_needed
TopUp(c) ==
    LET kept == HealthyRows(c)
        wanted == (6 * (Sufficient[c] - kept) * RawRows + 5 * kept - 1) \div (5 * kept)
    IN IF kept = 0 THEN 0 ELSE IF wanted <= Needed[c] THEN wanted ELSE Needed[c]

RowsToFetch(c) ==
    CASE raw.hash = 0 -> Needed[c]
      [] raw.hash # 0 /\ (raw.exhausted \/ Serves(c)) -> 0
      [] raw.hash # 0 /\ ~raw.exhausted /\ ~Serves(c) /\ RawRows < Needed[c] -> Needed[c] - RawRows
      [] raw.hash # 0 /\ ~raw.exhausted /\ ~Serves(c) /\ RawRows >= Needed[c] ->
            IF Built(c) THEN TopUp(c) ELSE 0

\* Mutant: an interrupted generation of a served source is not finished.
BuildPendingOnlyIfShort(c) == raw.hash # 0 /\ ~Built(c) /\ ~Serves(c)

\* Mutant: a healthy folder behind its raw shards is not built on.
BuildPendingOnlyIfBroken(c) ==
    /\ raw.hash # 0
    /\ ~Healthy(c) \/ ~disk["final"].manifest.complete

BuildPending(c) ==
    /\ raw.hash # 0
    /\ \/ ~Built(c) /\ ~Serves(c)
       \/ ~disk["final"].manifest.complete

Satisfied(c) ==
    /\ raw.hash = RawHash[c]
    /\ \/ Serves(c)
       \/ Built(c) /\ raw.exhausted /\ HealthyRows(c) > 0

BuildIfPending == Goto(IF BuildPending(run.config) THEN "build" ELSE "review")

\* A source with rows to fetch is built when its download has finished;
\* the shard writer removes the files its manifest does not know.
StartDownload ==
    /\ pc = "round" /\ RowsToFetch(run.config) > 0
    /\ run' = [run EXCEPT !.rounds = @ + 1, !.target = RawRows + RowsToFetch(run.config)]
    /\ raw' = [raw EXCEPT !.files = @ \intersect DOMAIN raw.shards]
    /\ Goto("fetch")
    /\ UNCHANGED <<disk, snapshot, refused, ids, runs, faults>>

StartBuild ==
    /\ pc = "round" /\ RowsToFetch(run.config) = 0
    /\ run' = [run EXCEPT !.rounds = @ + 1]
    /\ BuildIfPending
    /\ UNCHANGED <<disk, raw, snapshot, refused, ids, runs, faults>>

EndRound ==
    /\ pc = "review"
    /\ Goto(IF \/ Satisfied(run.config)
               \/ RowsToFetch(run.config) = 0
               \/ run.rounds = MaxRounds
            THEN "finish" ELSE "round")
    /\ UNCHANGED <<disk, raw, snapshot, run, refused, ids, runs, faults>>

-----------------------------------------------------------------------------
(* The download: shard by shard, the file first, then the manifest.        *)

Least(S) == CHOOSE x \in S : \A y \in S : x <= y

Source == Upstream[RawHash[run.config]]

NextRows == Least({ShardSize, run.target - RawRows, Len(Source) - RawRows})

NextRawShard == Len(raw.shards) + 1

Fetching == RawRows < run.target /\ RawRows < Len(Source)

WriteRawShard ==
    /\ pc = "fetch" /\ Fetching
    /\ raw' = [raw EXCEPT !.files = @ \union {NextRawShard}]
    /\ Goto("record")
    /\ UNCHANGED <<disk, snapshot, run, refused, ids, runs, faults>>

RecordRawShard ==
    /\ pc = "record"
    /\ raw' = [raw EXCEPT !.hash = RawHash[run.config],
                          !.shards = Append(@, SubSeq(Source, RawRows + 1, RawRows + NextRows))]
    /\ Goto("fetch")
    /\ UNCHANGED <<disk, snapshot, run, refused, ids, runs, faults>>

\* A loader that yields fewer rows than asked for is exhausted.
FinishDownload ==
    /\ pc = "fetch" /\ ~Fetching
    /\ raw' = [raw EXCEPT !.hash = RawHash[run.config], !.exhausted = RawRows < run.target]
    /\ Goto("fetched")
    /\ UNCHANGED <<disk, snapshot, run, refused, ids, runs, faults>>

BuildWhenDownloaded ==
    /\ pc = "fetched"
    /\ BuildIfPending
    /\ UNCHANGED <<disk, raw, snapshot, run, refused, ids, runs, faults>>

-----------------------------------------------------------------------------
(* The build (stages/build.py, stages/build_output.py).                    *)

Whole == WholeSource[run.config]

Dir == IF Whole THEN "temporary" ELSE "final"

Fresh == [NoManifest EXCEPT !.hash = Hash[run.config]]

Survivors(docs) == (docs \intersect Keeps[run.config]) \ Content(run.out.shards)

\* A seeded shuffle: some order, always the same one.
Chunk(docs) == CHOOSE s \in SUBSET docs : Cardinality(s) = Least({ShardSize, Cardinality(docs)})

\* The dedup filter holds what the shards written so far hold.
ToWrite ==
    IF Whole THEN Chunk(Survivors(DocsOf(Len(raw.shards))))
             ELSE Survivors(ToSet(raw.shards[Len(run.out.covered) + 1]))

\* One raw shard at a time stops at the budget.
ShardPending ==
    /\ Len(run.out.covered) < Len(raw.shards)
    /\ ProcessedRows(run.out) < Sufficient[run.config]

MoreToWrite == IF Whole THEN ToWrite # {} ELSE ShardPending

NeedsGeneration(m) == m.complete \/ m.gen = 0

\* Mutant: an output that is extended keeps its generation.
BegunAgain(m) == [m EXCEPT !.gen = IF @ = 0 THEN ids + 1 ELSE @, !.complete = FALSE]

Begun(m) == [m EXCEPT !.gen = ids + 1, !.complete = FALSE]

IdsAfter(m) == IF m.gen = 0 THEN ids + 1 ELSE ids

Completed(m) == [m EXCEPT !.gen = IF @ = 0 THEN ids + 1 ELSE @, !.complete = TRUE]

\* A build of exactly these raw shards, adopted from an interrupted swap.
CompleteBuilt ==
    /\ pc = "build" /\ Whole /\ Built(run.config)
    /\ disk' = [disk EXCEPT !["final"].manifest = Completed(@)]
    /\ ids' = IdsAfter(disk["final"].manifest)
    /\ Goto("review")
    /\ UNCHANGED <<raw, snapshot, run, refused, runs, faults>>

CreateTemporary ==
    /\ pc = "build" /\ Whole /\ ~Built(run.config)
    /\ disk' = [disk EXCEPT !["temporary"] = [Absent EXCEPT !.there = TRUE]]
    /\ Goto("mark")
    /\ UNCHANGED <<raw, snapshot, run, refused, ids, runs, faults>>

MarkTemporary ==
    /\ pc = "mark"
    /\ disk' = [disk EXCEPT !["temporary"].owner = [role |-> "temporary", build |-> ids + 1]]
    /\ ids' = ids + 1
    /\ run' = [run EXCEPT !.out = Fresh]
    /\ Goto("write")
    /\ UNCHANGED <<raw, snapshot, refused, runs, faults>>

\* A healthy folder is appended to, anything else in its place removed.
ResumeBuild ==
    /\ pc = "build" /\ ~Whole
    /\ run' = [run EXCEPT !.out = IF Healthy(run.config) THEN disk["final"].manifest ELSE Fresh]
    /\ disk' = IF Healthy(run.config) THEN disk ELSE [disk EXCEPT !["final"] = Absent]
    /\ Goto("write")
    /\ UNCHANGED <<raw, snapshot, refused, ids, runs, faults>>

\* Old snapshots are invalidated before the first file changes.
BeginGeneration ==
    /\ pc = "write" /\ MoreToWrite /\ NeedsGeneration(run.out)
    /\ run' = [run EXCEPT !.out = Begun(@)]
    /\ disk' = [disk EXCEPT ![Dir].there = TRUE, ![Dir].manifest = run'.out]
    /\ ids' = ids + 1
    /\ UNCHANGED <<raw, snapshot, pc, refused, runs, faults>>

\* The file is replaced atomically; the manifest follows in memory.
PublishShard ==
    /\ pc = "write" /\ MoreToWrite /\ ~NeedsGeneration(run.out) /\ ToWrite # {}
    /\ LET i == Len(run.out.shards) + 1 IN
        disk' = [disk EXCEPT ![Dir].files = {g \in @ : g.i # i} \union {FileOf(i, ToWrite)}]
    /\ run' = [run EXCEPT !.out.shards = Append(@, ToWrite)]
    /\ Goto(IF Whole THEN "write" ELSE "cover")
    /\ UNCHANGED <<raw, snapshot, refused, ids, runs, faults>>

SkipEmptyShard ==
    /\ pc = "write" /\ ~Whole /\ MoreToWrite /\ ~NeedsGeneration(run.out) /\ ToWrite = {}
    /\ Goto("cover")
    /\ UNCHANGED <<disk, raw, snapshot, run, refused, ids, runs, faults>>

CoverShard ==
    /\ pc = "cover"
    /\ run' = [run EXCEPT !.out.covered = SubSeq(Rows(raw.shards), 1, Len(@) + 1)]
    /\ disk' = [disk EXCEPT !["final"].manifest = run'.out]
    /\ Goto("write")
    /\ UNCHANGED <<raw, snapshot, refused, ids, runs, faults>>

CloseBuild ==
    /\ pc = "write" /\ ~Whole /\ ~MoreToWrite
    /\ disk' = [disk EXCEPT !["final"].manifest = Completed(run.out)]
    /\ ids' = IdsAfter(run.out)
    /\ Goto("review")
    /\ UNCHANGED <<raw, snapshot, run, refused, runs, faults>>

SaveTemporary ==
    /\ pc = "write" /\ Whole /\ ~MoreToWrite
    /\ run' = [run EXCEPT !.out.covered = Rows(raw.shards)]
    /\ disk' = [disk EXCEPT !["temporary"].manifest = run'.out]
    /\ Goto("complete")
    /\ UNCHANGED <<raw, snapshot, refused, ids, runs, faults>>

CompleteTemporary ==
    /\ pc = "complete"
    /\ disk' = [disk EXCEPT !["temporary"].manifest = Completed(@)]
    /\ ids' = IdsAfter(disk["temporary"].manifest)
    /\ Goto(IF disk["final"].there THEN "step aside" ELSE "place")
    /\ UNCHANGED <<raw, snapshot, run, refused, runs, faults>>

-----------------------------------------------------------------------------
(* The swap (BuildWorkspace.publish).                                      *)

MarkFinal ==
    /\ pc = "step aside"
    /\ disk' = [disk EXCEPT !["final"].owner =
                    [role |-> "backup", build |-> disk["temporary"].owner.build]]
    /\ Goto("park")
    /\ UNCHANGED <<raw, snapshot, run, refused, ids, runs, faults>>

ParkFinal ==
    /\ pc = "park"
    /\ disk' = [disk EXCEPT !["backup"] = disk["final"], !["final"] = Absent]
    /\ Goto("place")
    /\ UNCHANGED <<raw, snapshot, run, refused, ids, runs, faults>>

PlaceTemporary ==
    /\ pc = "place"
    /\ disk' = [disk EXCEPT !["final"] = disk["temporary"], !["temporary"] = Absent]
    /\ Goto(IF disk["backup"].there THEN "discard" ELSE "review")
    /\ UNCHANGED <<raw, snapshot, run, refused, ids, runs, faults>>

DiscardBackup ==
    /\ pc = "discard"
    /\ disk' = [disk EXCEPT !["backup"] = Absent]
    /\ Goto("review")
    /\ UNCHANGED <<raw, snapshot, run, refused, ids, runs, faults>>

DiscardInterrupted ==
    /\ pc = "discard"
    /\ \E f \in Torn(disk["backup"]) : disk' = [disk EXCEPT !["backup"] = f]
    /\ Stopped
    /\ UNCHANGED <<raw, snapshot, refused, ids, runs, faults>>

-----------------------------------------------------------------------------
(* The end of a run, crashes and lost files.                               *)

\* The snapshot is published once every source is satisfied.
Finish ==
    /\ pc = "finish"
    /\ LET m == disk["final"].manifest IN
        snapshot' = IF Satisfied(run.config) /\ m.complete
                    THEN [snapshot EXCEPT ![run.config] = [gen |-> m.gen, shards |-> m.shards]]
                    ELSE snapshot
    /\ Stopped
    /\ UNCHANGED <<disk, raw, refused, ids, runs, faults>>

\* A kill, a stop request or an error between two steps.
Crash ==
    /\ pc # "idle"
    /\ Stopped
    /\ UNCHANGED <<disk, raw, snapshot, refused, ids, runs, faults>>

LoseRawFile ==
    /\ pc = "idle" /\ faults < MaxFaults
    /\ \E i \in raw.files : raw' = [raw EXCEPT !.files = @ \ {i}]
    /\ faults' = faults + 1
    /\ UNCHANGED <<disk, snapshot, pc, run, refused, ids, runs>>

LoseFinalFile ==
    /\ pc = "idle" /\ faults < MaxFaults
    /\ \E g \in disk["final"].files : disk' = [disk EXCEPT !["final"].files = @ \ {g}]
    /\ faults' = faults + 1
    /\ UNCHANGED <<raw, snapshot, pc, run, refused, ids, runs>>

\* No further run within the bound.
NoMoreRuns == pc = "idle" /\ runs = MaxRuns /\ UNCHANGED vars

PrepareStep ==
    \/ DeleteFolder \/ DeleteRaw \/ SwapIn \/ TruncateRaw \/ Repaired
    \/ StartDownload \/ StartBuild \/ EndRound
    \/ WriteRawShard \/ RecordRawShard \/ FinishDownload \/ BuildWhenDownloaded
    \/ CompleteBuilt \/ CreateTemporary \/ MarkTemporary \/ ResumeBuild
    \/ BeginGeneration \/ PublishShard \/ SkipEmptyShard \/ CoverShard \/ CloseBuild
    \/ SaveTemporary \/ CompleteTemporary
    \/ MarkFinal \/ ParkFinal \/ PlaceTemporary \/ DiscardBackup
    \/ Finish

Interruption ==
    \/ DeleteInterrupted \/ DeleteRawInterrupted \/ TruncateInterrupted
    \/ DiscardInterrupted \/ Crash

Fault == LoseRawFile \/ LoseFinalFile

Next ==
    \/ \E c \in Config, yes \in BOOLEAN : Prepare(c, yes)
    \/ PrepareStep
    \/ Interruption
    \/ Fault
    \/ NoMoreRuns

Spec == Init /\ [][Next]_vars

-----------------------------------------------------------------------------
(* Properties.                                                             *)

Manifest == [hash : Nat, covered : Seq(Nat), shards : Seq(SUBSET Nat), gen : Nat, complete : BOOLEAN]

Folder == [there : BOOLEAN, owner : [role : {"none", "temporary", "backup"}, build : Nat],
           manifest : Manifest, files : SUBSET [i : Nat, docs : SUBSET Nat]]

\* The type of every variable; an id is never used before it was given out.
TypeOK ==
    /\ DOMAIN disk = {"final", "temporary", "backup"}
    /\ \A f \in DOMAIN disk : disk[f].manifest.gen <= ids /\ disk[f].owner.build <= ids
    /\ \A f \in DOMAIN disk : disk[f].there \/ disk[f] = Absent
    /\ DOMAIN raw.shards \subseteq 1..Len(raw.shards) /\ raw.exhausted \in BOOLEAN
    /\ \A c \in Config : snapshot[c].gen <= ids
    /\ run.config \in Config \union {0} /\ run.rounds \in 0..MaxRounds
    /\ pc = "idle" <=> run = NoRun
    /\ runs \in 0..MaxRuns /\ faults \in 0..MaxFaults

(* Derived data never outlives the raw data it was made from: whatever     *)
(* interrupted what, a manifest of processed/ describes a prefix of the    *)
(* raw shards that are there, of the right identity, its shards hold       *)
(* exactly what the filters keep of them and no document twice, and no     *)
(* readable file differs from its entry (repair.py, perform_repairs:       *)
(* "processed folders first ... so a crash never leaves derived data next  *)
(* to a raw folder it no longer matches").                                 *)
DerivedMatchesRaw ==
    LET f == disk["final"]
        m == f.manifest
    IN m # NoManifest =>
        /\ IsPrefix(m.covered, Rows(raw.shards))
        /\ \E c \in Config :
            /\ m.hash = Hash[c] /\ raw.hash = RawHash[c]
            /\ Content(m.shards) = Keeps[c] \intersect DocsOf(Len(m.covered))
        /\ \A i, j \in DOMAIN m.shards : i # j => m.shards[i] \intersect m.shards[j] = {}
        /\ \A g \in f.files : IsListed(f, g.i) => g.docs = m.shards[g.i]

(* A snapshot attests one output: while processed/ carries the generation  *)
(* a config's snapshot names, it is complete or being invalidated and      *)
(* lists the very shards it listed at publication                          *)
(* (docs/dataset_build_identity.md; Manifest.begin_generation).            *)
SnapshotAttests ==
    \A c \in Config :
        LET m == disk["final"].manifest IN
        m.gen # 0 /\ m.gen = snapshot[c].gen => m.complete /\ m.shards = snapshot[c].shards

(* A run that ends satisfied publishes: the generation is complete, every  *)
(* listed shard is there, and nothing is unlisted but the one file a later *)
(* build overwrites.  (With an incomplete generation publish_snapshot      *)
(* raises, snapshot.py: _constituents, and prepare fails at its very end.) *)
SatisfiedIsPublishable ==
    LET f == disk["final"] IN
    pc = "finish" /\ Satisfied(run.config) =>
        /\ f.manifest.complete /\ f.manifest.gen # 0
        /\ ListedMissing(f) = {}
        /\ Unlisted(f) = {} \/ CrashLeftover(f, Kept(FALSE, Rows(raw.shards)))

(* A run that was not cut off leaves a source that serves the budget or    *)
(* ran dry, however damaged it found the folders - or no row survived, or  *)
(* the rounds were used up (planner.py: "cannot contradict each other").   *)
FinishedIsServed ==
    pc = "finish" =>
        \/ Satisfied(run.config)
        \/ HealthyRows(run.config) = 0
        \/ run.rounds = MaxRounds

(* After the repair the build slots are free, so a whole-source build is   *)
(* never refused half-way through a run (BuildWorkspace.check_start,       *)
(* create_temporary, publish).                                             *)
BuildNeverBlocked ==
    /\ pc \in {"round", "fetch", "record", "fetched", "build"} =>
        ~disk["temporary"].there /\ ~disk["backup"].there
    /\ pc \in {"step aside", "park"} => ~disk["backup"].there
    /\ pc = "place" => ~disk["final"].there

\* Of the raw shards of the config's identity, those before the first unreadable
\* one stay on disk and in the manifest.
FetchedRowsStay ==
    run.config # 0 /\ raw.hash = RawHash[run.config] =>
        /\ IsPrefix(SubSeq(raw.shards, 1, GoodPrefix), raw'.shards)
        /\ 1..GoodPrefix \subseteq raw'.files

\* What an incremental build has covered stays covered while the config stays
\* and no file is missing, also when a crash left an unlisted shard behind.
BuiltShardsStay ==
    LET m == disk["final"].manifest
        c == run.config
    IN /\ c # 0 /\ ~WholeSource[c] /\ m.hash = Hash[c] /\ raw.hash = RawHash[c]
       /\ ListedMissing(disk["final"]) = {} /\ GoodPrefix = Len(raw.shards)
       => /\ m.hash = disk'["final"].manifest.hash
          /\ IsPrefix(m.covered, disk'["final"].manifest.covered)

(* A run of prepare never loses work it could go on from, over any crash:  *)
(* neither rows that were fetched (README of data_preparation, "keeps      *)
(* everything fetched so far") nor shards that were built (assessment.py,  *)
(* crash_leftover).                                                        *)
WorkKept == [][FetchedRowsStay /\ BuiltShardsStay]_vars

\* Everything its manifest lists is there, and was completed.
Usable(f) == f.manifest # NoManifest /\ f.manifest.complete /\ ListedMissing(f) = {}

\* No step of a whole-source build leaves neither the old nor the new output.
SwapKeepsAGeneration ==
    /\ pc # "repair" /\ run.config # 0 /\ Whole
    /\ \E f \in DOMAIN disk : Usable(disk[f])
    => \E f \in DOMAIN disk : Usable(disk'[f])

\* No step of the repair takes the last folder that is whole for the config:
\* one remains, or processed/ itself is left in place.
RepairKeepsAGeneration ==
    \A c \in Config :
        /\ pc = "repair" /\ c = run.config
        /\ \E f \in DOMAIN disk : IsWhole(disk[f], c, KeptRaw(c))
        => \/ \E f \in DOMAIN disk : IsWhole(disk[f], c, KeptRaw(c))'
           \/ FinalSurvives(c)'

(* The last good generation survives: a build replaces the published       *)
(* folder without a moment where neither output exists (stages/build.py,   *)
(* _swap_into_place), and the repair step never takes the last one that is *)
(* whole (repair.py, inspect_swap_leftovers).                              *)
LastGenerationKept == [][SwapKeepsAGeneration /\ RepairKeepsAGeneration]_vars

(* A crash between two shards of a download costs at most the shard in     *)
(* flight: the next prepare goes on (README of data_preparation, "Shards   *)
(* are published one at a time").                                          *)
DownloadsResume == refused # "raw"
=============================================================================
