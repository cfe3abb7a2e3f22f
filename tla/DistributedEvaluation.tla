----------------------- MODULE DistributedEvaluation -----------------------
(***************************************************************************)
(* The inference a training run does after a step: samples, then           *)
(* benchmarks (training/execution/loop.py: run_scheduled_inference,        *)
(* evaluation/distributed*.py, evaluation/benchmark_model.py).             *)
(*                                                                         *)
(* Every rank holds a replica of the model.  The main rank plans the jobs; *)
(* a round gives each rank at most one of them, and the replies of all     *)
(* ranks are gathered, checked and put in the order of the requests.  The  *)
(* samples are planned once and every rank walks the plan.  The benchmarks *)
(* are driven by lm_eval on the main rank, whose calls for the model       *)
(* become commands; the other ranks serve commands until one says finish   *)
(* or cancel.  After each round the ranks agree on a request to stop.      *)
(*                                                                         *)
(* As in TrainingRun, a rank is at a collective (at), has entered it or    *)
(* not, and continues from its own locals and from what was gathered.      *)
(***************************************************************************)
EXTENDS Naturals, Sequences, FiniteSets, SequencesExt

CONSTANTS
    World,           \* the number of ranks
    Batches,         \* the batches of prompts that fit the model's positions
    SampleSettings,  \* pairs of temperature and recurrence to sample with
    Recurrences,     \* settings.benchmark_recurrences: how many there are
    Calls,           \* lm_eval's calls: the document of each request of a call
    TargetRequests,  \* benchmark_jobs.TARGET_REQUESTS: requests in a job
    MaxFaults        \* bound: jobs, evaluators and writes that fail, kills

Rank == 0 .. World - 1
Main == 0

ASSUME WorldAssumption == World \in Nat \ {0} /\ TargetRequests \in Nat \ {0}

\* The lists are sequences; lm_eval makes a call for the kinds of requests it has, never an empty one.
ASSUME PlanAssumption ==
    /\ Batches \in Nat /\ SampleSettings \in Nat /\ Recurrences \in Nat \ {0}
    /\ Len(Calls) \in Nat /\ DOMAIN Calls = 1 .. Len(Calls)
    /\ \A c \in DOMAIN Calls : Len(Calls[c]) \in Nat \ {0} /\ DOMAIN Calls[c] = 1 .. Len(Calls[c])

VARIABLES
    local,     \* rank -> its locals
    entered,   \* rank -> it is blocked in the collective local[r].at
    given,     \* rank -> what it contributed to that collective
    sig,       \* rank -> its process received a request to stop
    artifact,  \* phase -> the published file
    ran,       \* the jobs that were run so far, all ranks together
    faults     \* failures so far

vars == <<local, entered, given, sig, artifact, ran, faults>>

Phases == {"samples", "benchmarks"}

Ended == {"done", "dead"}

Alive(r) == local[r].at \notin Ended

\* The generator the training draws from, and one seeded for a session or job.
Training == <<"training">>
Seeded(s) == <<"seeded", s>>

-----------------------------------------------------------------------------
(* Jobs.  A position identifies a request; jobs do not depend on World.    *)

SampleJob(i) == [index |-> i, positions |-> <<i>>, seed |-> <<(i - 1) % Batches>>]

\* One job per batch of prompts, temperature and recurrence; a batch's seed is its offset.
SamplePlan == [i \in 1 .. SampleSettings * Batches |-> SampleJob(i)]

\* The positions of a set, in their order.
Ascending(S) ==
    [k \in 1 .. Cardinality(S) |-> CHOOSE p \in S : Cardinality({q \in S : q <= p}) = k]

\* The requests of one document stay together, in the order documents first appear.
Groups(requests) ==
    LET SameDocument(p) == {q \in DOMAIN requests : requests[q] = requests[p]}
        first == Ascending({p \in DOMAIN requests : \A q \in SameDocument(p) : p <= q})
    IN  [i \in DOMAIN first |-> Ascending(SameDocument(first[i]))]

\* A document joins the last job if it stays within the target, or begins a job of its own.
Joined(chunks, group) ==
    IF chunks # <<>> /\ Len(Last(chunks)) + Len(group) <= TargetRequests
    THEN Append(Front(chunks), Last(chunks) \o group)
    ELSE Append(chunks, group)

Chunks(requests) == FoldLeft(Joined, <<>>, Groups(requests))

CallChunks == [call \in DOMAIN Calls |-> Chunks(Calls[call])]

BenchmarkJobs(rec, call) ==
    [i \in DOMAIN CallChunks[call] |->
        [index |-> i, positions |-> CallChunks[call][i], seed |-> <<rec, call, i>>]]

\* What the model answers depends on the request and on the generator's state.
Answers(generator, job) ==
    [k \in DOMAIN job.positions |-> <<generator, k, job.positions[k]>>]

\* Mutant: a job draws from where the session's generator stands.
RunJobUnseeded(l, job) == Answers(l.generator, job)

\* A job is seeded with its own seed, and the generator is restored after it.
RunJob(l, job) == Answers(Seeded(job.seed), job)

-----------------------------------------------------------------------------
(* What the ranks tell each other.                                         *)

NoCommand == [method |-> "none", seq |-> 0, jobs |-> <<>>]
NoReply == [seq |-> 0, rank |-> Main, job |-> 0, values |-> <<>>]

Command(l, method, jobs) == [method |-> method, seq |-> l.seq, jobs |-> jobs]

\* The jobs of the round that begins after `start`.
RoundOf(jobs, start) ==
    SubSeq(jobs, start + 1, IF start + World < Len(jobs) THEN start + World ELSE Len(jobs))

Reply(l, r, jobs) ==
    IF r + 1 \in DOMAIN jobs
    THEN [seq |-> l.seq, rank |-> r, job |-> jobs[r + 1].index,
          values |-> RunJob(l, jobs[r + 1])]
    ELSE [NoReply EXCEPT !.seq = l.seq, !.rank = r]

\* What a rank contributes to a collective.
FlagOf(b) == [flag |-> b]
CommandOf(c) == [command |-> c]
ReplyOf(y) == [reply |-> y]
Nothing == [nothing |-> TRUE]

\* Every reply is the one its rank owed: its job, with an answer to each request.
RepliesMatch(l, jobs, replies) ==
    \A r \in Rank :
        /\ replies[r].seq = l.seq
        /\ replies[r].rank = r
        /\ IF r + 1 \in DOMAIN jobs
           THEN /\ replies[r].job = jobs[r + 1].index
                /\ Len(replies[r].values) = Len(jobs[r + 1].positions)
           ELSE replies[r].job = 0 /\ replies[r].values = <<>>

OneCommand(commands) ==
    /\ commands[Main] # NoCommand
    /\ \A r \in Rank \ {Main} : commands[r] = NoCommand

-----------------------------------------------------------------------------
(* The control flow of a rank, as functions of its locals.                 *)

Goto(l, place) == [l EXCEPT !.at = place]

\* A check of the protocol failed: the exception ends the worker.
ProtocolError(l) == [l EXCEPT !.at = "dead", !.refused = TRUE]

Start == [at |-> "agree", phase |-> "samples", requested |-> FALSE, completed |-> {},
          generator |-> Training, plan |-> <<>>, start |-> 0, seq |-> 0, rec |-> 1, call |-> 1,
          jobs |-> <<>>, cancelled |-> FALSE, replies |-> <<>>, ordered |-> <<>>,
          answers |-> <<>>, scores |-> <<>>, refused |-> FALSE]

Enter(l, phase) == [l EXCEPT !.at = "agree", !.phase = phase]

\* The session of the phase ends: the generator is what it was.
Leave(l, complete) ==
    [l EXCEPT !.at = "after phase", !.generator = Training,
              !.completed = IF complete THEN @ \union {l.phase} ELSE @]

\* The polls of run_scheduled_inference.
NextPhase(l) ==
    IF ~l.requested /\ l.phase = "samples" THEN Enter(l, "benchmarks") ELSE Goto(l, "done")

\* Samples: the next round of the plan, or the publication.
SampleRound(l) == Goto(l, IF l.start < Len(l.plan) THEN "round" ELSE "publish")

AfterPlan(l, commands) ==
    IF OneCommand(commands)
    THEN SampleRound([l EXCEPT !.plan = commands[Main].jobs])
    ELSE ProtocolError(l)

AfterRound(r, l, replies) ==
    IF ~RepliesMatch(l, RoundOf(l.plan, l.start), replies) THEN ProtocolError(l)
    ELSE [l EXCEPT !.at = "after round",
                   !.answers = IF r = Main
                               THEN @ \o [i \in DOMAIN RoundOf(l.plan, l.start) |-> replies[i - 1].values]
                               ELSE @]

\* A phase whose last round is done is published even on request.
AfterSampleRound(l) ==
    IF l.requested /\ l.start + World < Len(l.plan)
    THEN Leave(l, FALSE)
    ELSE SampleRound([l EXCEPT !.start = @ + World])

\* Benchmarks: a session per recurrence, with a generator of its own.
BeginRecurrence(l) ==
    [l EXCEPT !.at = "ready", !.generator = Seeded("session"), !.seq = 0, !.call = 1,
              !.start = 0, !.cancelled = FALSE, !.answers = <<>>, !.ordered = <<>>]

Missing == <<>>

\* The main rank's evaluator runs until it needs an answer of the ranks.
NextCall(l) ==
    [l EXCEPT !.at = "command", !.start = 0,
              !.ordered = IF l.call \in DOMAIN Calls
                          THEN [p \in DOMAIN Calls[l.call] |-> Missing] ELSE <<>>]

Ready(r, l) == IF r = Main THEN NextCall(l) ELSE Goto(l, "command")

\* What the main rank shares at "command".
MainCommand(l) ==
    IF l.cancelled THEN Command(l, "cancel", <<>>)
    ELSE IF l.call \in DOMAIN Calls
    THEN Command(l, "call", RoundOf(BenchmarkJobs(l.rec, l.call), l.start))
    ELSE Command(l, "finish", <<>>)

AfterCommand(l, commands) ==
    LET command == commands[Main]
    IN  IF ~OneCommand(commands) \/ command.seq # l.seq THEN ProtocolError(l)
        ELSE IF command.method \in {"finish", "cancel"}
        THEN [l EXCEPT !.at = "stats", !.cancelled = command.method = "cancel"]
        ELSE [l EXCEPT !.at = "replies", !.jobs = command.jobs]

AfterReplies(l, replies) ==
    IF ~RepliesMatch(l, l.jobs, replies) THEN ProtocolError(l)
    ELSE [l EXCEPT !.at = "after round", !.seq = @ + 1, !.replies = replies]

\* The answers of a round go to the positions their requests came from.
Filled(l) ==
    [p \in DOMAIN l.ordered |->
        LET owner == {r \in Rank : r + 1 \in DOMAIN l.jobs /\ Contains(l.jobs[r + 1].positions, p)}
        IN  IF owner = {} THEN l.ordered[p]
            ELSE LET r == CHOOSE r \in owner : TRUE
                     k == CHOOSE k \in DOMAIN l.jobs[r + 1].positions : l.jobs[r + 1].positions[k] = p
                 IN  l.replies[r].values[k]]

\* A position that two answers of a round are for, that has its answer already or is none.
Misplaced(l, p) ==
    \/ p \notin DOMAIN l.ordered
    \/ l.ordered[p] # Missing
    \/ \E i, j \in DOMAIN l.jobs :
          \E k \in DOMAIN l.jobs[i].positions, h \in DOMAIN l.jobs[j].positions :
             <<i, k>> # <<j, h>> /\ l.jobs[i].positions[k] = p /\ l.jobs[j].positions[h] = p

\* A call returns once all its jobs are done and no answer is missing.
Collect(l) ==
    LET ordered == Filled(l)
        done == l.start + World >= Len(BenchmarkJobs(l.rec, l.call))
    IN  IF \E i \in DOMAIN l.jobs : \E p \in Range(l.jobs[i].positions) : Misplaced(l, p)
        THEN ProtocolError(l)
        ELSE IF ~done THEN [l EXCEPT !.at = "command", !.start = @ + World, !.ordered = ordered]
        ELSE IF \E p \in DOMAIN ordered : ordered[p] = Missing THEN ProtocolError(l)
        ELSE NextCall([l EXCEPT !.answers = Append(@, ordered), !.call = @ + 1])

\* Mutant: the main rank cancels in its own mind only.
AfterBenchmarkRoundSilent(r, l) ==
    IF r # Main THEN Goto(l, "command")
    ELSE IF l.requested THEN [l EXCEPT !.at = "stats", !.cancelled = TRUE]
    ELSE Collect(l)

\* A request ends the evaluator; the others learn it as the next command.
AfterBenchmarkRound(r, l) ==
    IF r # Main THEN Goto(l, "command")
    ELSE IF l.requested THEN [l EXCEPT !.at = "command", !.cancelled = TRUE]
    ELSE Collect(l)

AfterRecurrence(l) ==
    LET scored == IF l.cancelled THEN l ELSE [l EXCEPT !.scores = Append(@, l.answers)]
    IN  IF l.cancelled \/ (l.requested /\ l.rec < Recurrences) THEN Leave(scored, FALSE)
        ELSE IF l.rec < Recurrences THEN BeginRecurrence([scored EXCEPT !.rec = @ + 1])
        ELSE Goto(scored, "publish")

AfterFirstPoll(l) ==
    IF l.requested THEN Leave(l, FALSE)
    ELSE IF l.phase = "samples" THEN Goto(l, "plan")
    ELSE BeginRecurrence(l)

\* Mutant: a poll returns the rank's own request.
PolledLocally(r, gave) == gave[r].flag

\* A request of one rank is a request to all (StopController.poll).
Polled(r, gave) == \E q \in Rank : gave[q].flag

\* Where a rank goes from a collective, given what all ranks contributed.
Continue(r, l, gave) ==
    LET requested == [l EXCEPT !.requested = Polled(r, gave)]
        commands == [q \in Rank |-> gave[q].command]
        replies == [q \in Rank |-> gave[q].reply]
    IN  CASE l.at = "agree" -> Goto(l, "before jobs")
          [] l.at = "before jobs" -> AfterFirstPoll(requested)
          [] l.at = "plan" -> AfterPlan(l, commands)
          [] l.at = "round" -> AfterRound(r, l, replies)
          [] l.at = "after round" ->
                IF l.phase = "samples" THEN AfterSampleRound(requested)
                ELSE AfterBenchmarkRound(r, requested)
          [] l.at = "ready" -> Ready(r, l)
          [] l.at = "command" -> AfterCommand(l, commands)
          [] l.at = "replies" -> AfterReplies(l, replies)
          [] l.at = "stats" -> Goto(l, "after recurrence")
          [] l.at = "after recurrence" -> AfterRecurrence(requested)
          [] l.at = "publish" -> Goto(l, "after publication")
          [] l.at = "after publication" -> Leave(requested, TRUE)
          [] l.at = "after phase" -> NextPhase(requested)

-----------------------------------------------------------------------------
(* Steps.                                                                  *)

Polls == {"before jobs", "after round", "after recurrence", "after publication", "after phase"}

\* The collectives of the backend: places of one kind cannot be told apart by it.
Kind(place) ==
    IF place \in Polls THEN "flag" ELSE IF place = "publish" THEN "barrier" ELSE "gather"

NoFile == {}

Init ==
    /\ local = [r \in Rank |-> Start]
    /\ entered = [r \in Rank |-> FALSE]
    /\ given = [r \in Rank |-> Nothing]
    /\ sig = [r \in Rank |-> FALSE]
    /\ artifact = [p \in Phases |-> NoFile]
    /\ ran = {}
    /\ faults = 0

RoundJobs(l) == IF l.at = "round" THEN RoundOf(l.plan, l.start) ELSE l.jobs

\* The jobs a rank runs on its way into the collective it is at.
JobsOnTheWay(r, l) ==
    IF l.at \in {"round", "replies"} /\ r + 1 \in DOMAIN RoundJobs(l)
    THEN {<<l.phase, RoundJobs(l)[r + 1].seed, RoundJobs(l)[r + 1].index>>} ELSE {}

Contribution(r, l) ==
    CASE l.at \in Polls -> FlagOf(l.requested \/ sig[r])
      [] l.at = "plan" -> CommandOf(IF r = Main THEN Command(l, "plan", SamplePlan) ELSE NoCommand)
      [] l.at = "command" -> CommandOf(IF r = Main THEN MainCommand(l) ELSE NoCommand)
      [] l.at \in {"round", "replies"} -> ReplyOf(Reply(l, r, RoundJobs(l)))
      [] OTHER -> Nothing

Results(l) == IF l.phase = "samples" THEN FlattenSeq(l.answers) ELSE l.scores

Writes(r, l) == r = Main /\ l.at = "publish"

\* A rank works up to its collective and enters it; the main rank writes before the barrier.
Arrive(r) ==
    /\ Alive(r) /\ ~entered[r]
    /\ entered' = [entered EXCEPT ![r] = TRUE]
    /\ given' = [given EXCEPT ![r] = Contribution(r, local[r])]
    /\ artifact' = IF Writes(r, local[r])
                   THEN [artifact EXCEPT ![local[r].phase] = {Results(local[r])}]
                   ELSE artifact
    /\ ran' = ran \union JobsOnTheWay(r, local[r])
    /\ UNCHANGED <<local, sig, faults>>

\* Every rank is in a collective of the same kind: it returns on all of them.
Meet ==
    /\ \A r \in Rank : Alive(r) /\ entered[r]
    /\ \A r \in Rank : Kind(local[r].at) = Kind(local[Main].at)
    /\ local' = [r \in Rank |-> Continue(r, local[r], given)]
    /\ entered' = [r \in Rank |-> FALSE]
    /\ given' = [r \in Rank |-> Nothing]
    /\ UNCHANGED <<sig, artifact, ran, faults>>

\* A job, the evaluator or the write fails, or the process is killed; the fatal
\* handler ends the worker, a write that failed leaves the file as it was.
Fails(r) ==
    /\ Alive(r) /\ faults < MaxFaults
    /\ local' = [local EXCEPT ![r].at = "dead"]
    /\ entered' = [entered EXCEPT ![r] = FALSE]
    /\ faults' = faults + 1
    /\ UNCHANGED <<given, sig, artifact, ran>>

\* The launcher ends the other workers once one is gone.
LauncherKill(r) ==
    /\ Alive(r)
    /\ \E q \in Rank : local[q].at = "dead"
    /\ local' = [local EXCEPT ![r].at = "dead"]
    /\ entered' = [entered EXCEPT ![r] = FALSE]
    /\ UNCHANGED <<given, sig, artifact, ran, faults>>

RequestStop(r) ==
    /\ Alive(r) /\ ~sig[r]
    /\ sig' = [sig EXCEPT ![r] = TRUE]
    /\ UNCHANGED <<local, entered, given, artifact, ran, faults>>

Next ==
    \/ Meet
    \/ \E r \in Rank : Arrive(r) \/ Fails(r) \/ LauncherKill(r) \/ RequestStop(r)

Spec == Init /\ [][Next]_vars

\* Jobs return, collectives that all ranks entered complete, the launcher acts.
Fairness ==
    /\ WF_vars(Meet)
    /\ \A r \in Rank : WF_vars(Arrive(r)) /\ WF_vars(LauncherKill(r))

FairSpec == Spec /\ Fairness

-----------------------------------------------------------------------------
(* Properties.                                                             *)

Site(l) == <<l.at, l.phase, l.rec, l.seq>>

\* The ranks that wait in a collective wait in the same one: a round, a command
\* or a poll of one rank is never met by another rank's earlier or later one,
\* and the checks of the protocol (sequence, owner, count, one command) never fail.
RoundsMatch ==
    /\ \A r, q \in Rank : entered[r] /\ entered[q] => Site(local[r]) = Site(local[q])
    /\ \A r \in Rank : ~local[r].refused

\* The answer to a request, whatever the world: what its job's own seed gives
\* at its place in the job.
SampleReference == FlattenSeq([i \in DOMAIN SamplePlan |-> Answers(Seeded(SamplePlan[i].seed), SamplePlan[i])])

DocumentJob(rec, call, p) ==
    LET jobs == BenchmarkJobs(rec, call)
    IN  jobs[CHOOSE i \in DOMAIN jobs : Contains(jobs[i].positions, p)]

BenchmarkReference ==
    [rec \in 1 .. Recurrences |-> [call \in DOMAIN Calls |-> [p \in DOMAIN Calls[call] |->
        LET job == DocumentJob(rec, call, p)
            group == {q \in DOMAIN Calls[call] : Calls[call][q] = Calls[call][p]}
        IN  IF \E q \in group : ~Contains(job.positions, q) THEN Missing
            ELSE <<Seeded(job.seed), CHOOSE k \in DOMAIN job.positions : job.positions[k] = p, p>>]]]

Reference == [p \in Phases |-> IF p = "samples" THEN SampleReference ELSE BenchmarkReference]

\* What is published is complete and what one process would have computed job by
\* job, a document never split; and a rank reports a phase as completed only when
\* its file is there, so that no peer trains on before the publication.
PublishedComplete ==
    /\ \A p \in Phases : artifact[p] \in {NoFile, {Reference[p]}}
    /\ \A r \in Rank : \A p \in local[r].completed : artifact[p] # NoFile
    /\ \A r \in Rank : local[r].at = "after publication" => artifact[local[r].phase] # NoFile

\* Once the ranks agreed on a stop no rank begins another job, and they leave
\* with the same verdicts and the generators the training had.
StopEndsTheJobs ==
    [][/\ ran' # ran => \A r \in Rank : Alive(r) => ~local[r].requested
       /\ \A r, q \in Rank : local'[r].at = "done" /\ local'[q].at = "done" =>
            /\ local'[r].completed = local'[q].completed
            /\ local'[r].requested = local'[q].requested
            /\ local'[r].generator = Training]_vars

\* Inference ends on every rank, also when a rank fails in the middle of a round
\* while the others wait for its reply.
InferenceEnds == <>(\A r \in Rank : ~Alive(r))
=============================================================================
