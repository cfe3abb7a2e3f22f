--------------------------- MODULE GlobalAdmission ---------------------------
(***************************************************************************)
(* The ordered admission of every source's candidates through one Bloom    *)
(* filter (stages/global_build.py, global_output.py, global_session.py,    *)
(* global_dedup.py, and run_global_admission_rounds of build/runner.py).   *)
(*                                                                         *)
(* For each source in priority order: extend the local candidates to the   *)
(* target, restore or replay the output, admit the candidates batch by     *)
(* batch, and finish the source or fetch more raw rows and repeat.  The    *)
(* build thread runs ahead of a writer thread that publishes a batch's     *)
(* shard and then the manifest that lists it.                              *)
(*                                                                         *)
(* The reader thread and the hash workers hand over the candidates in      *)
(* order and change no state, so a batch is taken from the candidates.     *)
(***************************************************************************)
EXTENDS PreparedData

CONSTANTS BatchRows, MaxRounds

ASSUME AdmissionAssumption == BatchRows \in Nat \ {0} /\ MaxRounds \in Nat \ {0}

VARIABLES
    step,       \* where the build thread is, "off" outside the admission
    index,      \* the source being admitted
    round,      \* its round
    target,     \* rows asked of the local build, then of the top-up
    first,      \* the frontier the source starts from
    adm,        \* the admission: its frontier and the bits in its filter
    session,    \* the admission kept between passes, with its stamp
    queue,      \* at most one batch handed to the writer
    writing,    \* the batch whose shard the writer has published
    writerDead, \* a commit failed: what is queued behind it is discarded
    complete    \* the pass finalised its source

admissionVars == <<step, index, round, target, first, adm, session,
                   queue, writing, writerDead, complete>>

Current == Order[index]

-----------------------------------------------------------------------------
(* Admission of keys. *)

Positive(filter, k) == Bits[k] \subseteq filter

AdmitKey(a, k) ==
    IF Positive(a.filter, k) THEN a
    ELSE [filter |-> a.filter \cup Bits[k], kept |-> Append(a.kept, k)]

AdmitKeys(filter, keys) ==
    FoldLeft(AdmitKey, [filter |-> filter, kept |-> <<>>], keys)

BitsOf(keys) == UNION {Bits[k] : k \in keys}

NoAdmission == [frontier |-> FirstFrontier, filter |-> {}]
NoSession == [held |-> FALSE, stamp |-> <<>>, adm |-> NoAdmission]

AdmissionIdle ==
    /\ step = "off" /\ index = 1 /\ round = 1 /\ target = 0
    /\ first = FirstFrontier /\ adm = NoAdmission /\ session = NoSession
    /\ queue = <<>> /\ writing = <<>> /\ writerDead = FALSE /\ complete = FALSE

(* Reset, as the primed form of AdmissionIdle with another first step. *)
AdmissionReset(s) ==
    /\ step' = s /\ index' = 1 /\ round' = 1 /\ target' = 0
    /\ first' = FirstFrontier /\ adm' = NoAdmission /\ session' = NoSession
    /\ queue' = <<>> /\ writing' = <<>> /\ writerDead' = FALSE
    /\ complete' = FALSE

(* What the pass of a source would record now as its output's identity. *)
SameIdentity(m) ==
    /\ m.start = first
    /\ m.deps = Dependencies(index)
    /\ m.candGen = cand[Current].gen

CommittedKeys(i) ==
    FlattenSeq([j \in 1..(i - 1) |-> Rows(Order[j])]) \o Rows(Order[i])

(* A recovered admission refills its filter from the listed rows only. *)
Restored(i) ==
    [frontier |-> out[Order[i]].frontier,
     filter |-> BitsOf(Seeds \cup ToSet(CommittedKeys(i)))]

(* What a kept admission is bound to: the frontier, the finished           *)
(* generations in front of it and the generation it is in the middle of.   *)
Stamp(i) ==
    LET m == out[Order[i]]
        finished == m.frontier.index = i + 1
    IN  <<m.frontier,
          IF finished THEN Append(m.deps, m.gen) ELSE m.deps,
          IF finished \/ m.frontier = m.start THEN <<>>
          ELSE <<i, m.gen, m.candGen, m.start>>>>

-----------------------------------------------------------------------------
(* The rounds of one source. *)

Move(s) == step' = s

(* How many candidate rows the local build is asked for: pending           *)
(* candidates are admitted before the local output is extended.            *)
CandidateTarget(s) ==
    LET m == out[s]
        pending == /\ ~m.complete /\ m.candGen = cand[s].gen
                   /\ \/ m.frontier.index > first.index
                      \/ m.frontier.offset < cand[s].built
        short == IF Len(Rows(s)) < Sufficient[s]
                 THEN Sufficient[s] - Len(Rows(s)) ELSE 0
    IN  IF cand[s].gen = 0 \/ m.gen = 0 THEN Sufficient[s]
        ELSE IF pending THEN cand[s].built ELSE cand[s].built + short

StartRound ==
    /\ step = "round"
    /\ target' = CandidateTarget(Current)
    /\ Move("build")
    /\ UNCHANGED <<index, round, first, adm, session, queue, writing,
                   writerDead, complete, diskVars>>

BuildLocally ==
    /\ step = "build"
    /\ \/ /\ BeginCandidates(Current, target) \/ AddCandidates(Current, target)
          /\ UNCHANGED step
       \/ CompleteCandidates(Current, target) /\ Move("open")
    /\ UNCHANGED <<index, round, target, first, adm, session, queue, writing,
                   writerDead, complete>>
    /\ UNCHANGED <<avail, raw, exhausted, out, stray, issued, snapshot, faults>>

(* A complete output of the same inputs is reused when it serves the       *)
(* budget or nothing more can come; an incomplete one is resumed; anything *)
(* else is deleted and replayed from the source's first frontier.          *)
Reusable(m) ==
    /\ m.gen > 0 /\ SameIdentity(m) /\ m.complete
    /\ Len(Rows(Current)) >= Sufficient[Current] \/ exhausted[Current]

Resumable(m) == m.gen > 0 /\ SameIdentity(m) /\ ~m.complete

ReuseOutput ==
    /\ step = "open" /\ Reusable(out[Current])
    /\ session' = NoSession
    /\ adm' = [NoAdmission EXCEPT !.frontier = out[Current].frontier]
    /\ complete' = TRUE
    /\ Move("decide")
    /\ UNCHANGED <<index, round, target, first, queue, writing, writerDead, diskVars>>

DeleteOutput ==
    /\ step = "open"
    /\ out[Current].gen > 0
    /\ ~Reusable(out[Current]) /\ ~Resumable(out[Current])
    /\ out' = [out EXCEPT ![Current] = NoOutput]
    /\ stray' = [stray EXCEPT ![Current] = <<>>]
    /\ UNCHANGED admissionVars
    /\ UNCHANGED <<avail, raw, exhausted, cand, issued, snapshot, faults>>

BeginOutput ==
    /\ step = "open" /\ out[Current].gen = 0
    /\ issued' = [issued EXCEPT ![Current] = @ + 1]
    /\ out' = [out EXCEPT ![Current] =
                 [gen |-> issued[Current] + 1, complete |-> FALSE,
                  start |-> first, deps |-> Dependencies(index),
                  candGen |-> cand[Current].gen, covers |-> cand[Current].built,
                  shards |-> <<>>, frontier |-> first]]
    /\ UNCHANGED admissionVars
    /\ UNCHANGED <<avail, raw, exhausted, cand, stray, snapshot, faults>>

(* The kept admission is borrowed when its stamp is the manifest's, and    *)
(* taken out of the session either way.                                    *)
MayBorrow == session.held /\ session.stamp = Stamp(index)

Acquire ==
    /\ step = "open" /\ Resumable(out[Current])
    /\ adm' = IF MayBorrow THEN session.adm ELSE Restored(index)
    /\ session' = NoSession
    /\ Move(IF out[Current].frontier.index = first.index + 1 THEN "adopt" ELSE "admit")
    /\ writerDead' = FALSE
    /\ UNCHANGED <<index, round, target, first, queue, writing, complete, diskVars>>

(* The finished frontier was on disk before a crash in completion. *)
CompleteAdopted ==
    /\ step = "adopt"
    /\ out' = [out EXCEPT ![Current].complete = TRUE]
    /\ session' = [held |-> TRUE, stamp |-> Stamp(index), adm |-> adm]
    /\ complete' = TRUE
    /\ Move("decide")
    /\ UNCHANGED <<index, round, target, first, adm, queue, writing, writerDead>>
    /\ UNCHANGED <<avail, raw, exhausted, cand, stray, issued, snapshot, faults>>

NextBatch ==
    LET from == adm.frontier.offset
    IN  SubSeq(Candidates(Current), from + 1,
               AtMost(from + BatchRows, cand[Current].built))

Advanced(batch) ==
    LET a == AdmitKeys(adm.filter, batch)
    IN  [filter |-> a.filter,
         frontier |-> [adm.frontier EXCEPT
                         !.offset = @ + Len(batch),
                         !.consumed = @ + Len(batch),
                         !.keys = @ \o a.kept]]

(* One batch: its survivors and the next frontier are handed to the        *)
(* writer, which may still hold an earlier batch on its way to disk.       *)
AdmitBatch ==
    /\ step = "admit" /\ ~writerDead
    /\ NextBatch # <<>> /\ queue = <<>>
    /\ LET next == Advanced(NextBatch)
       IN  /\ queue' = <<[rows |-> SubSeq(next.frontier.keys,
                                          Len(adm.frontier.keys) + 1,
                                          Len(next.frontier.keys)),
                          frontier |-> next.frontier]>>
           /\ adm' = next
    /\ UNCHANGED <<step, index, round, target, first, session, writing,
                   writerDead, complete, diskVars>>

Flushed == queue = <<>> /\ writing = <<>>

(* With every commit on disk the source is finished when it has its rows   *)
(* or can get no more; the finished frontier is committed like a batch.    *)
FinishSource ==
    /\ step = "admit" /\ ~writerDead
    /\ NextBatch = <<>> /\ Flushed
    /\ complete' = (Len(Rows(Current)) >= Sufficient[Current] \/ exhausted[Current])
    /\ IF complete'
       THEN /\ adm' = [adm EXCEPT !.frontier.index = @ + 1, !.frontier.offset = 0]
            /\ queue' = <<[rows |-> <<>>, frontier |-> adm'.frontier]>>
       ELSE UNCHANGED <<adm, queue>>
    /\ Move("finish")
    /\ UNCHANGED <<index, round, target, first, session, writing, writerDead, diskVars>>

RecordPass ==
    /\ step = "finish" /\ ~writerDead /\ Flushed
    /\ out' = [out EXCEPT ![Current].complete = complete]
    /\ session' = [held |-> TRUE, stamp |-> Stamp(index), adm |-> adm]
    /\ Move("decide")
    /\ UNCHANGED <<index, round, target, first, adm, queue, writing,
                   writerDead, complete>>
    /\ UNCHANGED <<avail, raw, exhausted, cand, stray, issued, snapshot, faults>>

(* After a pass: the next source, another round, a top-up, or the end of   *)
(* the admission when the source stays short.                              *)
Decide ==
    /\ step = "decide"
    /\ \/ /\ complete /\ index < Len(Order)
          /\ index' = index + 1 /\ round' = 1
          /\ first' = adm.frontier /\ complete' = FALSE
          /\ Move("round") /\ UNCHANGED target
       \/ /\ \/ complete /\ index = Len(Order)
             \/ ~complete /\ round = MaxRounds
          /\ Move("assess")
          /\ UNCHANGED <<index, round, target, first, complete>>
       \/ /\ ~complete /\ round < MaxRounds
          /\ IF cand[Current].built < raw[Current]
             THEN Move("round") /\ round' = round + 1 /\ UNCHANGED target
             ELSE /\ Move("topup")
                  /\ target' = raw[Current] + Increment(Current)
                  /\ UNCHANGED round
          /\ UNCHANGED <<index, first, complete>>
    /\ UNCHANGED <<adm, session, queue, writing, writerDead, diskVars>>

TopUp ==
    /\ step = "topup"
    /\ \/ FetchRow(Current, target) /\ UNCHANGED <<step, round>>
       \/ FetchEnds(Current, target) /\ Move("round") /\ round' = round + 1
    /\ UNCHANGED <<index, target, first, adm, session, queue, writing,
                   writerDead, complete>>
    /\ UNCHANGED <<avail, cand, out, stray, issued, snapshot, faults>>

(* The final report publishes the snapshot of a complete dataset. *)
Assess ==
    /\ step = "assess"
    /\ PublishSnapshot
    /\ Move("returned")
    /\ UNCHANGED <<index, round, target, first, adm, session, queue, writing,
                   writerDead, complete>>
    /\ UNCHANGED <<avail, raw, exhausted, cand, out, stray, issued, faults>>

-----------------------------------------------------------------------------
(* The writer thread: a batch's shard is published under the next free     *)
(* name, then the manifest that lists it and carries its frontier is       *)
(* replaced.                                                               *)

WriteShard ==
    /\ queue # <<>> /\ writing = <<>> /\ ~writerDead
    /\ writing' = queue /\ queue' = <<>>
    /\ stray' = [stray EXCEPT ![Current] =
                   IF Head(queue).rows = <<>> THEN @ ELSE Head(queue).rows]
    /\ UNCHANGED <<step, index, round, target, first, adm, session, writerDead, complete>>
    /\ UNCHANGED <<avail, raw, exhausted, cand, out, issued, snapshot, faults>>

\* Mutant: the manifest takes the frontier the build thread has reached.
ListedAhead(m, item) ==
    [m EXCEPT !.shards = IF item.rows = <<>> THEN @ ELSE Append(@, item.rows),
              !.frontier = adm.frontier]

Listed(m, item) ==
    [m EXCEPT !.shards = IF item.rows = <<>> THEN @ ELSE Append(@, item.rows),
              !.frontier = item.frontier]

SaveManifest ==
    /\ writing # <<>>
    /\ out' = [out EXCEPT ![Current] = Listed(@, Head(writing))]
    /\ stray' = [stray EXCEPT ![Current] =
                   IF Head(writing).rows = <<>> THEN @ ELSE <<>>]
    /\ writing' = <<>>
    /\ UNCHANGED <<step, index, round, target, first, adm, session, queue, writerDead, complete>>
    /\ UNCHANGED <<avail, raw, exhausted, cand, issued, snapshot, faults>>

DiscardBatch ==
    /\ writerDead /\ queue # <<>>
    /\ queue' = <<>>
    /\ UNCHANGED <<step, index, round, target, first, adm, session, writing,
                   writerDead, complete, diskVars>>

(* A commit fails before its shard is published or before its manifest is  *)
(* saved.                                                                  *)
FailCommit ==
    /\ faults < MaxFaults /\ ~writerDead
    /\ \/ writing # <<>> /\ writing' = <<>> /\ UNCHANGED queue
       \/ writing = <<>> /\ queue # <<>> /\ queue' = <<>> /\ UNCHANGED writing
    /\ writerDead' = TRUE
    /\ faults' = faults + 1
    /\ UNCHANGED <<step, index, round, target, first, adm, session, complete>>
    /\ UNCHANGED <<avail, raw, exhausted, cand, out, stray, issued, snapshot>>

(* The build thread meets the writer's failure at its next publish or      *)
(* flush, and an exception of its own or a stop at any check; leaving the  *)
(* pass lets the writer commit what is still queued.                       *)
Active == step \notin {"off", "returned", "raise", "raised"}

RaiseInAdmission ==
    /\ Active
    /\ session' = NoSession
    /\ Move("raise")
    /\ UNCHANGED <<index, round, target, first, adm, queue, writing,
                   writerDead, complete>>
    /\ UNCHANGED <<avail, raw, exhausted, cand, out, stray, issued, snapshot>>

\* Mutant: the last flush returns without looking at the writer's failure.
MeetWriterFailureInLoop ==
    /\ writerDead /\ step = "admit"
    /\ RaiseInAdmission /\ UNCHANGED faults

MeetWriterFailure ==
    /\ writerDead /\ step \in {"admit", "finish"}
    /\ RaiseInAdmission /\ UNCHANGED faults

FailAdmission ==
    /\ faults < MaxFaults /\ faults' = faults + 1
    /\ RaiseInAdmission

LeavePass ==
    /\ step = "raise" /\ Flushed
    /\ Move("raised")
    /\ UNCHANGED <<index, round, target, first, adm, session, queue, writing,
                   writerDead, complete, diskVars>>

AdmissionStep ==
    \/ StartRound \/ BuildLocally
    \/ ReuseOutput \/ DeleteOutput \/ BeginOutput \/ Acquire \/ CompleteAdopted
    \/ AdmitBatch \/ FinishSource \/ RecordPass \/ Decide \/ TopUp \/ Assess
    \/ WriteShard \/ SaveManifest \/ DiscardBatch \/ MeetWriterFailure \/ LeavePass

AdmissionFault == FailCommit \/ FailAdmission

=============================================================================
