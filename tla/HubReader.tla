----------------------------- MODULE HubReader -----------------------------
(***************************************************************************)
(* Reading a Hub dataset repository for several sources in one pass        *)
(* (data_preparation/lib/sources/hub_files.py, loaders.py).                *)
(*                                                                         *)
(* A repository is a sequence of files, a file a sequence of row groups, a *)
(* group a sequence of keys: the language of each row.  Every source asks  *)
(* for the rows of its key from its own offset on; Plain asks for all rows *)
(* (the hf_files loader).  A pass seeks by the counts the file index has   *)
(* learned, reads a group once for everybody who wants rows of it, lets a  *)
(* satisfied source read on passively, and admits keys nobody asked for.   *)
(* A pass can be stopped at any row and the process can crash: the index   *)
(* of the next pass is then the one last written.  A source's folder keeps *)
(* the rows of a completed pass and any prefix of those of another one.    *)
(***************************************************************************)
EXTENDS Integers, Sequences, FiniteSets, SequencesExt

CONSTANTS
    Key,        \* the keys of rows
    Extra,      \* keys without a configured source, stored when first met
    Plain,      \* the source without a key
    Repo,       \* the repositories considered
    MaxCount,   \* bound: rows a source asks for in a pass
    MaxPasses   \* bound: passes of a behaviour

ASSUME HubAssumption ==
    /\ Extra \subseteq Key /\ Plain \notin Key
    /\ \A r \in Repo : \A f \in DOMAIN r :
        /\ r[f].kind \in {"remote", "cached", "stream"}
        /\ r[f].groups \in Seq(Seq(Key))

VARIABLES
    repo,     \* the files, pinned to one commit
    index,    \* FileIndex: what is known of the files
    saved,    \* the index as last written
    stored,   \* per source, the rows its folder holds; their number is its offset
    kept,     \* per source, how many of them an interrupted pass cannot lose
    cursors,  \* the pass's requests and their positions
    seen,     \* the keys of requests, and those offered to discover
    readers,  \* the cursors' progress through the open parquet file
    joined,   \* the cursors served by the group (or the stream) being decoded
    counts,   \* rows per key decoded of that group (or stream)
    at,       \* where the pass is
    passes,   \* passes begun
    left,     \* history: groups of the files this pass opened that it left undecoded
    torn      \* history: sources fed passively behind rows of theirs in such groups

vars == <<repo, index, saved, stored, kept, cursors, seen, readers, joined, counts, at, passes, left, torn>>

Source == Key \cup {Plain}
Unknown == -1
Total(seq) == FoldLeft(LAMBDA a, b : a + b, 0, seq)
Larger(a, b) == IF a > b THEN a ELSE b
Zeros(n) == [i \in 1..n |-> 0]

File == DOMAIN repo
Groups(f) == repo[f].groups
Matches(n, key) == n = Plain \/ n = key
Matching(n, rows) == Cardinality({i \in DOMAIN rows : Matches(n, rows[i])})
TrueCounts(n, f) == [g \in DOMAIN Groups(f) |-> Matching(n, Groups(f)[g])]

\* The rows a source consists of, in the order of the repository.
Orders == [r \in Repo |-> [n \in Source |->
    FlattenSeq([f \in DOMAIN r |-> FlattenSeq([g \in DOMAIN r[f].groups |->
        LET rows == r[f].groups[g]
        IN SelectSeq([i \in DOMAIN rows |-> <<f, g, i>>], LAMBDA id : Matches(n, rows[id[3]]))])])]]

Order(n) == Orders[repo][n]

-----------------------------------------------------------------------------
(* The file index *)

NoIndex(r) ==
    [footers |-> {},
     rows |-> [f \in DOMAIN r |-> Unknown],
     groups |-> [k \in Key |-> [f \in DOMAIN r |-> <<>>]],
     full |-> [f \in DOMAIN r |-> 0],
     keyed |-> [k \in Key |-> [f \in DOMAIN r |-> Unknown]]]

\* Rows of n in the leading row groups of f whose counts are known: a key without an entry has none in a
\* group that was classified.
KnownGroups(ix, n, f) ==
    IF n = Plain THEN IF f \in ix.footers THEN TrueCounts(Plain, f) ELSE <<>>
    ELSE ix.groups[n][f] \o Zeros(Larger(ix.full[f] - Len(ix.groups[n][f]), 0))

KnownCount(ix, n, f) ==
    IF n = Plain THEN ix.rows[f]
    ELSE IF ix.keyed[n][f] # Unknown THEN ix.keyed[n][f]
    ELSE IF f \in ix.footers /\ ix.full[f] >= Len(Groups(f)) THEN Total(KnownGroups(ix, n, f))
    ELSE Unknown

RecordFooter(ix, f) ==
    IF f \in ix.footers THEN ix
    ELSE [ix EXCEPT !.footers = @ \cup {f}, !.rows[f] = Total(TrueCounts(Plain, f))]

\* Mutant: the groups before g count as classified too.
RecordGroupAnyway(ix, f, g, met) ==
    [ix EXCEPT !.groups = [k \in Key |-> IF k \in DOMAIN met THEN [@[k] EXCEPT ![f] = Append(@, met[k])] ELSE @[k]],
               !.full[f] = g]

\* Group g of f was decoded completely and held met[k] rows of every key k in its domain.
RecordGroup(ix, f, g, met) ==
    LET grown(k) ==
            LET prefix == ix.groups[k][f]
                filled == IF Len(prefix) < g - 1 /\ g - 1 <= ix.full[f]
                          THEN prefix \o Zeros(g - 1 - Len(prefix)) ELSE prefix
            IN IF k \in DOMAIN met
               THEN IF Len(filled) = g - 1 THEN Append(filled, met[k]) ELSE prefix
               ELSE IF prefix # <<>> /\ Len(prefix) = g - 1 THEN Append(prefix, 0) ELSE prefix
    IN [ix EXCEPT !.groups = [k \in Key |-> [@[k] EXCEPT ![f] = grown(k)]],
                  !.full[f] = IF @ = g - 1 THEN g ELSE @]

\* Every key with a group of its own on record, and the keys asked for, know the file's count with its groups'.
RecordComplete(ix, f, asked) ==
    LET knows(k) ==
            /\ k \in asked \/ \E o \in File : ix.groups[k][o] # <<>>
            /\ ix.keyed[k][f] = Unknown
            /\ Len(KnownGroups(ix, k, f)) = Len(Groups(f))
    IN [ix EXCEPT !.keyed = [k \in Key |->
            IF knows(k) THEN [@[k] EXCEPT ![f] = Total(KnownGroups(ix, k, f))] ELSE @[k]]]

\* A stream was decoded to its end: all its rows, and those of every cursor that read it through.
RecordStream(ix, f, met, asked) ==
    [ix EXCEPT !.rows[f] = Total(TrueCounts(Plain, f)),
               !.keyed = [k \in Key |->
                    IF k \in asked THEN [@[k] EXCEPT ![f] = IF k \in DOMAIN met THEN met[k] ELSE 0] ELSE @[k]]]

-----------------------------------------------------------------------------
(* Cursors and readers *)

Cursor(n, count, passive) ==
    [skip |-> Len(stored[n]), taken |-> 0, count |-> count, passive |-> passive, detached |-> FALSE]

\* Mutant: one row short.
SatisfiedEarly(c) == c.taken + 1 >= c.count

Satisfied(c) == c.taken >= c.count
IsActive(c) == ~c.passive /\ ~Satisfied(c)
IsCollecting(c) == c.passive /\ ~c.detached
Active(cs) == {n \in DOMAIN cs : IsActive(cs[n])}
Collecting(cs) == {n \in DOMAIN cs : IsCollecting(cs[n])}

\* The cursor passes f by its known count without opening it.
PassesBy(ix, n, skip, f) == KnownCount(ix, n, f) # Unknown /\ skip >= KnownCount(ix, n, f)

\* The leading groups the known counts cover, for a cursor that still has to skip that many rows.
Covered(known, skip) ==
    CHOOSE j \in 0..Len(known) :
        /\ Total(SubSeq(known, 1, j)) <= skip
        /\ j < Len(known) => Total(SubSeq(known, 1, j + 1)) > skip

Reader(ix, n, skip, f) ==
    LET covered == Covered(KnownGroups(ix, n, f), skip)
    IN [first |-> covered + 1, next |-> covered + 1, reading |-> TRUE]

SkipGroups(ix, n, skip, f) ==
    LET known == KnownGroups(ix, n, f) IN skip - Total(SubSeq(known, 1, Covered(known, skip)))

ReaderActive(rs, cs, n) == rs[n].reading /\ IsActive(cs[n])
Taking(rs, cs, n) == IF cs[n].passive THEN IsCollecting(cs[n]) ELSE rs[n].reading

\* Mutant: a cursor that cannot pass the file by a count reads on behind it.
SkipKeepingAll(ix, cs, f) ==
    [n \in DOMAIN cs |->
        IF IsCollecting(cs[n]) /\ PassesBy(ix, n, cs[n].skip, f)
        THEN [cs[n] EXCEPT !.skip = @ - KnownCount(ix, n, f)] ELSE cs[n]]

\* A file nobody opens: a collecting cursor passes it by its known count or loses alignment.
SkipPassively(ix, cs, f) ==
    [n \in DOMAIN cs |->
        IF ~IsCollecting(cs[n]) THEN cs[n]
        ELSE IF PassesBy(ix, n, cs[n].skip, f) THEN [cs[n] EXCEPT !.skip = @ - KnownCount(ix, n, f)]
        ELSE [cs[n] EXCEPT !.detached = TRUE]]

\* A request for a key first met in group g of f joins if every earlier row group is passed by a known
\* count, or was decoded in this pass without the key.
Discovered(n, f, g) ==
    LET before(j) == Total([i \in 1..j |-> KnownCount(index, n, i)])
        skip == Len(stored[n]) - before(f - 1)
        aligned == /\ \A j \in 1..(f - 1) : KnownCount(index, n, j) # Unknown
                   /\ \A j \in 1..(f - 1) : before(j) <= Len(stored[n])
        reader == Reader(index, n, skip, f)
    IN IF aligned /\ reader.first >= at.start
       THEN [aligned |-> TRUE,
             cursor |-> [Cursor(n, 0, TRUE) EXCEPT !.skip = SkipGroups(index, n, skip, f)],
             reader |-> [reader EXCEPT !.next = Larger(@, g)]]
       ELSE [aligned |-> FALSE, cursor |-> [Cursor(n, 0, TRUE) EXCEPT !.detached = TRUE]]

-----------------------------------------------------------------------------
(* The pass *)

Idle == [pc |-> "idle", file |-> 0, group |-> 0, row |-> 0, start |-> 0]

Init ==
    /\ repo \in Repo
    /\ index = NoIndex(repo) /\ saved = index
    /\ stored = [n \in Source |-> <<>>] /\ kept = [n \in Source |-> 0]
    /\ cursors = <<>> /\ seen = {} /\ readers = <<>> /\ joined = {} /\ counts = <<>>
    /\ at = Idle
    /\ passes = 0
    /\ left = {} /\ torn = {}

Busy == at.pc \notin {"idle", "done"}

\* The sources of a pass: Plain alone, or members of a group of which one at least has rows to fetch.
Requests ==
    {Plain :> count : count \in 1..MaxCount}
        \cup {r \in UNION {[D -> 0..MaxCount] : D \in SUBSET (Key \ Extra)} : \E n \in DOMAIN r : r[n] > 0}

StartPass ==
    /\ ~Busy /\ passes < MaxPasses
    /\ \E r \in Requests :
        /\ cursors' = [n \in DOMAIN r |-> Cursor(n, r[n], r[n] = 0)]
        /\ seen' = DOMAIN r
    /\ kept' = [n \in Source |-> Len(stored[n])]
    /\ at' = [Idle EXCEPT !.pc = "file", !.file = 1]
    /\ passes' = passes + 1
    /\ saved' = index
    /\ UNCHANGED <<repo, index, stored, readers, joined, counts, left, torn>>

NextFile == [Idle EXCEPT !.pc = "file", !.file = at.file + 1]

\* The pass ends when every active request is satisfied or the files are exhausted.
EndPass ==
    /\ at.pc = "file"
    /\ Active(cursors) = {} \/ at.file > Len(repo)
    /\ at' = [Idle EXCEPT !.pc = "done"]
    /\ saved' = index
    /\ left' = {}
    /\ UNCHANGED <<repo, index, stored, kept, cursors, seen, readers, joined, counts, passes, torn>>

\* The cursors after those of who whose skip covers f have passed it.
PassFile(ix, cs, who, f) ==
    [n \in DOMAIN cs |->
        IF n \in who /\ PassesBy(ix, n, cs[n].skip, f) THEN [cs[n] EXCEPT !.skip = @ - KnownCount(ix, n, f)]
        ELSE cs[n]]

\* A file every active cursor passes by its known count, or of which the footer says so.
SkipFile ==
    /\ at.pc = "file" /\ at.file <= Len(repo) /\ Active(cursors) # {}
    /\ LET f == at.file
           opened == \E n \in Active(cursors) : ~PassesBy(index, n, cursors[n].skip, f)
           ix == IF opened /\ repo[f].kind # "stream" THEN RecordFooter(index, f) ELSE index
           passed == {n \in Active(cursors) : PassesBy(IF n = Plain THEN ix ELSE index, n, cursors[n].skip, f)}
       IN /\ passed = Active(cursors)
          /\ index' = ix
          /\ saved' \in IF ix = index THEN {saved} ELSE {saved, ix}
          /\ cursors' = SkipPassively(ix, PassFile(ix, cursors, passed, f), f)
    /\ at' = NextFile
    /\ UNCHANGED <<repo, stored, kept, seen, readers, joined, counts, passes, left, torn>>

OpenParquet ==
    /\ at.pc = "file" /\ at.file <= Len(repo) /\ repo[at.file].kind # "stream"
    /\ LET f == at.file
           ix == RecordFooter(index, f)
           passed == {n \in Active(cursors) : PassesBy(IF n = Plain THEN ix ELSE index, n, cursors[n].skip, f)}
           reading == Active(cursors) \ passed
           following == {n \in Collecting(cursors) : ~PassesBy(ix, n, cursors[n].skip, f)}
           cs == PassFile(ix, cursors, passed \cup (Collecting(cursors) \ following), f)
           rs == [n \in reading \cup following |-> Reader(ix, n, cs[n].skip, f)]
           first == CHOOSE g \in {rs[n].first : n \in reading} : \A n \in reading : g <= rs[n].first
       IN /\ reading # {}
          /\ index' = ix
          /\ saved' \in IF ix = index THEN {saved} ELSE {saved, ix}
          /\ readers' = rs
          /\ cursors' = [n \in DOMAIN cs |->
                IF n \in DOMAIN rs THEN [cs[n] EXCEPT !.skip = SkipGroups(ix, n, @, f)] ELSE cs[n]]
          /\ at' = [at EXCEPT !.pc = "group", !.group = first, !.start = first]
    /\ UNCHANGED <<repo, stored, kept, seen, joined, counts, passes, left, torn>>

Undecoded(f, from) == {<<f, g>> : g \in from..Len(Groups(f))}

\* A collecting reader whose group was not decoded is detached; a group no active reader needs is not read.
EnterGroup ==
    /\ at.pc = "group"
    /\ LET g == at.group
           active == {n \in DOMAIN readers : ReaderActive(readers, cursors, n)}
           needed == {n \in active : readers[n].first <= g}
           behind == {n \in DOMAIN readers : IsCollecting(cursors[n]) /\ readers[n].next < g}
       IN IF g > Len(Groups(at.file))
          THEN at' = [at EXCEPT !.pc = "end"] /\ UNCHANGED <<cursors, joined, counts, left>>
          ELSE /\ cursors' = [n \in DOMAIN cursors |->
                    IF n \in behind THEN [cursors[n] EXCEPT !.detached = TRUE] ELSE cursors[n]]
               /\ IF needed = {}
                  THEN /\ at' = IF active = {} THEN [at EXCEPT !.pc = "end"] ELSE [at EXCEPT !.group = g + 1]
                       /\ left' = left \cup IF active = {} THEN Undecoded(at.file, g) ELSE {<<at.file, g>>}
                       /\ UNCHANGED <<joined, counts>>
                  ELSE /\ joined' = needed \cup {n \in DOMAIN readers : IsCollecting(cursors'[n]) /\ readers[n].next = g}
                       /\ counts' = <<>>
                       /\ at' = [at EXCEPT !.pc = "rows", !.row = 1]
                       /\ UNCHANGED left
    /\ UNCHANGED <<repo, index, saved, stored, kept, seen, readers, passes, torn>>

\* Rows of n the pass left behind in groups of files it had open, and the folder lacks.
LeftOut(n) == {id \in ToSet(Order(n)) \ ToSet(stored[n]) : <<id[1], id[2]>> \in left}

\* Hand the row to the cursor that wants it: one it still has to skip, or one more taken.
Take(cs, n, id) ==
    IF cs[n].skip > 0
    THEN /\ cursors' = [cs EXCEPT ![n].skip = @ - 1]
         /\ UNCHANGED <<stored, torn>>
    ELSE /\ cursors' = [cs EXCEPT ![n].taken = @ + 1]
         /\ stored' = [stored EXCEPT ![n] = Append(@, id)]
         /\ torn' = IF cs[n].passive /\ LeftOut(n) # {} THEN torn \cup {n} ELSE torn

DecodeRow ==
    /\ at.pc = "rows" /\ at.row <= Len(Groups(at.file)[at.group])
    /\ LET f == at.file
           g == at.group
           key == Groups(f)[g][at.row]
           keyed == Plain \notin seen
           isNew == keyed /\ key \notin seen
           found == isNew /\ key \in Extra
           extra == Discovered(key, f, g)
           cs == IF found THEN cursors @@ (key :> extra.cursor) ELSE cursors
           rs == IF found /\ extra.aligned THEN readers @@ (key :> extra.reader) ELSE readers
           js == IF found /\ extra.aligned /\ extra.reader.next = g THEN joined \cup {key} ELSE joined
           takers == {n \in js : Taking(rs, cs, n) /\ Matches(n, key)}
       IN /\ seen' = IF isNew THEN seen \cup {key} ELSE seen
          /\ counts' = IF key \in DOMAIN counts THEN [counts EXCEPT ![key] = @ + 1] ELSE counts @@ (key :> 1)
          /\ joined' = js
          /\ IF takers = {} THEN cursors' = cs /\ UNCHANGED <<stored, torn>>
             ELSE \E n \in takers : Take(cs, n, <<f, g, at.row>>)
          \* outside a remote file a cursor stops in the middle of the group
          /\ readers' = [n \in DOMAIN rs |->
                IF n \in takers /\ repo[f].kind # "remote" /\ Satisfied(cursors'[n]) /\ ~cursors'[n].passive
                THEN [rs[n] EXCEPT !.reading = FALSE] ELSE rs[n]]
          /\ at' = IF \E n \in js : Taking(readers', cursors', n) THEN [at EXCEPT !.row = @ + 1]
                   ELSE [at EXCEPT !.pc = "left"]
    /\ UNCHANGED <<repo, index, saved, kept, passes, left>>

\* The end of a group: a complete one is classified; a request that took its count in a remote group has
\* taken the group whole and turns passive.
LeaveGroup ==
    /\ \/ at.pc = "rows" /\ at.row > Len(Groups(at.file)[at.group])
       \/ at.pc = "left"
    /\ LET f == at.file
           g == at.group
           stops == {n \in joined : ~IsCollecting(cursors[n]) /\ readers[n].reading /\ Satisfied(cursors[n])}
           turns == IF repo[f].kind = "remote" THEN stops ELSE {}
       IN /\ index' = IF at.pc = "rows" /\ Plain \notin seen THEN RecordGroup(index, f, g, counts) ELSE index
          /\ cursors' = [n \in DOMAIN cursors |->
                IF n \in turns THEN [cursors[n] EXCEPT !.passive = TRUE] ELSE cursors[n]]
          /\ readers' = [n \in DOMAIN readers |->
                IF n \notin joined THEN readers[n]
                ELSE IF IsCollecting(cursors[n]) THEN [readers[n] EXCEPT !.next = g + 1]
                ELSE IF n \in turns THEN [readers[n] EXCEPT !.reading = FALSE, !.next = g + 1]
                ELSE IF n \in stops THEN [readers[n] EXCEPT !.reading = FALSE] ELSE readers[n]]
          /\ at' = IF \E n \in DOMAIN readers : ReaderActive(readers', cursors', n)
                   THEN [at EXCEPT !.pc = "group", !.group = g + 1]
                   ELSE [at EXCEPT !.pc = "end"]
          /\ left' = IF at'.pc = "end" THEN left \cup Undecoded(f, g + 1) ELSE left
    /\ UNCHANGED <<repo, saved, stored, kept, seen, joined, counts, passes, torn>>

EndFile ==
    /\ at.pc = "end"
    /\ index' = IF Plain \in seen THEN index ELSE RecordComplete(index, at.file, DOMAIN readers)
    /\ saved' \in IF Plain \in seen THEN {saved} ELSE {saved, index'}
    /\ at' = NextFile
    /\ readers' = <<>> /\ joined' = {} /\ counts' = <<>>
    /\ UNCHANGED <<repo, stored, kept, cursors, seen, passes, left, torn>>

\* A stream is decoded from its first row; passive requests take nothing from it.
OpenStream ==
    /\ at.pc = "file" /\ at.file <= Len(repo) /\ repo[at.file].kind = "stream"
    /\ LET passed == {n \in Active(cursors) : PassesBy(index, n, cursors[n].skip, at.file)}
       IN /\ joined' = Active(cursors) \ passed
          /\ joined' # {}
          /\ cursors' = [n \in DOMAIN cursors |->
                IF IsCollecting(cursors[n]) THEN [cursors[n] EXCEPT !.detached = TRUE]
                ELSE PassFile(index, cursors, passed, at.file)[n]]
    /\ counts' = <<>>
    /\ at' = [at EXCEPT !.pc = "stream", !.row = 1]
    /\ UNCHANGED <<repo, index, saved, stored, kept, seen, readers, passes, left, torn>>

StreamRows(f) == FlattenSeq(Groups(f))

StreamRow ==
    /\ at.pc = "stream" /\ joined # {} /\ at.row <= Len(StreamRows(at.file))
    /\ LET key == StreamRows(at.file)[at.row]
           takers == {n \in joined : Matches(n, key)}
       IN /\ counts' = IF key \in DOMAIN counts THEN [counts EXCEPT ![key] = @ + 1] ELSE counts @@ (key :> 1)
          /\ IF takers = {} THEN UNCHANGED <<cursors, stored, torn>>
             ELSE \E n \in takers : Take(cursors, n, <<at.file, 1, at.row>>)
          /\ joined' = joined \ {n \in takers : Satisfied(cursors'[n])}
    /\ at' = [at EXCEPT !.row = @ + 1]
    /\ UNCHANGED <<repo, index, saved, kept, seen, readers, passes, left>>

\* Dropped once every request is satisfied; its counts are learned only when it was read to the end.
EndStream ==
    /\ at.pc = "stream"
    /\ \/ joined = {} /\ UNCHANGED <<index, saved>>
       \/ /\ joined # {} /\ at.row > Len(StreamRows(at.file))
          /\ index' = RecordStream(index, at.file, counts, joined \ {Plain})
          /\ saved' \in {saved, index'}
    /\ at' = NextFile
    /\ joined' = {} /\ counts' = <<>>
    /\ UNCHANGED <<repo, stored, kept, cursors, seen, readers, passes, left, torn>>

\* What an interrupted pass leaves: a prefix of what was taken, nothing of an earlier pass is lost.
Abandon ==
    /\ Busy
    /\ \E lost \in [DOMAIN cursors -> 0..Max({Len(stored[n]) - kept[n] : n \in DOMAIN cursors})] :
        /\ \A n \in DOMAIN cursors : kept[n] + lost[n] <= Len(stored[n])
        /\ stored' = [n \in Source |->
            IF n \in DOMAIN cursors THEN SubSeq(stored[n], 1, Len(stored[n]) - lost[n]) ELSE stored[n]]
    /\ at' = Idle
    /\ cursors' = <<>> /\ seen' = {} /\ readers' = <<>> /\ joined' = {} /\ counts' = <<>> /\ left' = {}
    /\ UNCHANGED <<repo, kept, passes, torn>>

\* A stop or a failed request closes the generator, which saves the index.
Close == Abandon /\ saved' = index /\ UNCHANGED index

\* A crash loses what was learned since the index was last written.
Crash == Abandon /\ index' = saved /\ UNCHANGED saved

Next ==
    \/ StartPass \/ EndPass \/ SkipFile
    \/ OpenParquet \/ EnterGroup \/ DecodeRow \/ LeaveGroup \/ EndFile
    \/ OpenStream \/ StreamRow \/ EndStream
    \/ Close \/ Crash

Spec == Init /\ [][Next]_vars

-----------------------------------------------------------------------------
(* Correctness *)

(* What a folder holds is the beginning of its source's order, whatever    *)
(* was skipped by counts, taken passively or lost to a stop: no row is     *)
(* missing and none is stored twice.                                       *)
Contiguous == \A n \in Source : IsPrefix(stored[n], Order(n))

(* The code keeps it for every source that was never fed passively behind  *)
(* a row group of an open file that the pass did not decode: files nobody  *)
(* opens, streams, stops and seeking by counts leave no gap.               *)
ContiguousUnlessSkipped == \A n \in Source \ torn : IsPrefix(stored[n], Order(n))

(* The index never claims a count the repository does not have, neither in *)
(* memory nor on disk, though groups of a key are filled in with zeros and *)
(* several passes, some of them interrupted, contributed to it.            *)
IndexTruthful ==
    \A ix \in {index, saved}, n \in Source, f \in File :
        /\ KnownCount(ix, n, f) \in {Unknown, Total(TrueCounts(n, f))}
        /\ repo[f].kind # "stream" => IsPrefix(KnownGroups(ix, n, f), TrueCounts(n, f))

(* A pass that ends by itself has given every request at least the rows it *)
(* asked for, or all the source has.                                       *)
ServedInFull ==
    at.pc = "done" => \A n \in DOMAIN cursors :
        cursors[n].taken >= cursors[n].count \/ Len(stored[n]) = Len(Order(n))
=============================================================================
