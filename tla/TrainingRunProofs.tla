------------------------- MODULE TrainingRunProofs -------------------------
(***************************************************************************)
(* What holds of TrainingRun for every number of ranks and steps, every    *)
(* schedule and every number of attempts.                                  *)
(*                                                                         *)
(* The argument: ranks that are not dead carry the same locals, apart from *)
(* their generators (LocalsAgree).  Every collective hands the same result *)
(* to all of them, and what a rank does with it is a function of those     *)
(* locals, so the locals agree again.  The lemmas on the loop's functions  *)
(* say that: each keeps a rank's locals well formed, and maps locals that  *)
(* agree to locals that agree.                                             *)
(*                                                                         *)
(* On top of that agreement (IndInv) RunInv says what a run leaves on disk *)
(* and why: it follows the main rank from a step to the poll, the save and *)
(* the end that belong to it.  The runs' invariants are read off RunInv,   *)
(* and with it every step of the ranks and of the environment is a step of *)
(* the one process of ResumableRun.                                        *)
(***************************************************************************)
EXTENDS TrainingRun, TLAPS

\* A rank on its way into a step has a step left to make.
WellFormed(l) ==
    /\ l \in LocalType
    /\ l.pc \in {"before step", "step"} => l.step < TotalSteps

\* A rank that moves on does not go back to the selection.
Onward(l) == WellFormed(l) /\ l.pc # "select"

SameControl(l, m) ==
    /\ l.pc = m.pc \/ (l.pc \in {"close", "closed"} /\ m.pc \in {"close", "closed"})
    /\ l.step = m.step
    /\ l.requested = m.requested
    /\ l.fresh = m.fresh
    /\ l.saving = m.saving
    /\ l.trained = m.trained

LocalsAgree ==
    \A r, s \in Rank :
        local[r].pc # "dead" /\ local[s].pc # "dead" => SameControl(local[r], local[s])

\* A rank that entered the selection holds the checkpoint all of them select,
\* and an explicitly named one is still there.
SelectionAgrees ==
    \A r \in Rank : local[r].pc = "select" =>
        /\ entered[r] => local[r].from = ResolveResume
        /\ attempt.mode = "explicit" => \E c \in ckpts : c.mtime = attempt.path

\* The file times never pass the clock, and one regular checkpoint is newest.
NewestExists ==
    /\ \A c \in ckpts : c.mtime <= clock
    /\ Regular(ckpts) # {} => \E c \in Regular(ckpts) : \A d \in Regular(ckpts) : d.mtime <= c.mtime

IndInv ==
    /\ TypeOK
    /\ \A r \in Rank : WellFormed(local[r])
    /\ \A r \in Rank : entered[r] => local[r].pc \in Collectives
    /\ LocalsAgree
    /\ SelectionAgrees
    /\ NewestExists

\* Nothing trained and no step made is a state of a rank.
LEMMA BeginLemma == <<>> \in Seq(Nat) /\ 0 \in 0..TotalSteps
<1> QED BY ScheduleAssumption

-----------------------------------------------------------------------------
(* The loop's control flow.                                                *)

USE DEF Places, Collectives, Polls, Inference, Ended

\* Going to a place keeps the locals well formed, and agreement.
LEMMA GotoLemma ==
    ASSUME NEW l, NEW m, WellFormed(l), WellFormed(m),
           NEW place \in Places \ {"before step", "step", "select"}
    PROVE  /\ Onward(Goto(l, place))
           /\ Goto(l, place).pc = place
           /\ SameControl(l, m) => SameControl(Goto(l, place), Goto(m, place))
BY ZenonT(60) DEF Goto, WellFormed, Onward, SameControl, LocalType

\* So does turning to save a checkpoint.
LEMMA SaveLemma ==
    ASSUME NEW l, NEW m, WellFormed(l), WellFormed(m),
           NEW why \in {"due", "final", "failed"}
    PROVE  /\ Onward(Save(l, why))
           /\ Save(l, why).pc = "gather"
           /\ SameControl(l, m) => SameControl(Save(l, why), Save(m, why))
BY DEF Save, WellFormed, Onward, SameControl, LocalType

\* Where a stopped run goes, and a loop that ended.
LEMMA SaveAndCloseLemma ==
    ASSUME NEW l, NEW m, WellFormed(l), WellFormed(m)
    PROVE  /\ Onward(SaveAndClose(l))
           /\ SameControl(l, m) => SameControl(SaveAndClose(l), SaveAndClose(m))
<1>1. Onward(Save(l, "final")) /\ Onward(Goto(l, "close")) BY SaveLemma, GotoLemma
<1>2. ASSUME SameControl(l, m)
      PROVE  SameControl(SaveAndClose(l), SaveAndClose(m))
  <2>3. SameControl(Goto(l, "close"), Goto(m, "close")) BY <1>2, GotoLemma
  <2> QED BY <2>3, <1>2, SaveLemma DEF SaveAndClose, SameControl
<1> QED BY <1>1, <1>2 DEF SaveAndClose

LEMMA FinishLoopLemma ==
    ASSUME NEW l, NEW m, WellFormed(l), WellFormed(m)
    PROVE  /\ Onward(FinishLoop(l))
           /\ SameControl(l, m) => SameControl(FinishLoop(l), FinishLoop(m))
<1>1. Onward(SaveAndClose(l)) /\ Onward(Goto(l, "before export")) BY SaveAndCloseLemma, GotoLemma
<1>2. ASSUME SameControl(l, m)
      PROVE  SameControl(FinishLoop(l), FinishLoop(m))
  <2>1. l.requested = m.requested BY <1>2 DEF SameControl
  <2>2. SameControl(SaveAndClose(l), SaveAndClose(m)) BY <1>2, SaveAndCloseLemma
  <2>3. SameControl(Goto(l, "before export"), Goto(m, "before export")) BY <1>2, GotoLemma
  <2> QED BY <2>1, <2>2, <2>3 DEF FinishLoop
<1> QED BY <1>1, <1>2 DEF FinishLoop

\* The head of the loop starts a step only if one is left.
LEMMA LoopHeadLemma ==
    ASSUME NEW l, NEW m, WellFormed(l), WellFormed(m)
    PROVE  /\ Onward(LoopHead(l))
           /\ SameControl(l, m) => SameControl(LoopHead(l), LoopHead(m))
<1>1. ASSUME l.step < TotalSteps
      PROVE  Onward(Goto(l, "before step"))
  BY <1>1 DEF WellFormed, Onward, Goto, LocalType
<1>2. ASSUME SameControl(l, m)
      PROVE  SameControl(Goto(l, "before step"), Goto(m, "before step"))
  BY <1>2 DEF WellFormed, Onward, Goto, LocalType, SameControl
<1>3. Onward(FinishLoop(l)) BY FinishLoopLemma
<1>4. ASSUME SameControl(l, m)
      PROVE  SameControl(LoopHead(l), LoopHead(m))
  <2>1. l.step = m.step BY <1>4 DEF SameControl
  <2>2. SameControl(FinishLoop(l), FinishLoop(m)) BY <1>4, FinishLoopLemma
  <2> QED BY <1>2, <1>4, <2>1, <2>2 DEF LoopHead
<1> QED BY <1>1, <1>3, <1>4 DEF LoopHead

\* Marking a checkpoint as fresh or stale touches nothing else.
LEMMA FreshLemma ==
    ASSUME NEW l, NEW m, WellFormed(l), WellFormed(m), NEW fresh \in BOOLEAN
    PROVE  /\ WellFormed([l EXCEPT !.fresh = fresh])
           /\ [l EXCEPT !.fresh = fresh].step = l.step
           /\ [l EXCEPT !.fresh = fresh].requested = l.requested
           /\ SameControl(l, m) =>
                SameControl([l EXCEPT !.fresh = fresh], [m EXCEPT !.fresh = fresh])
BY ZenonT(60) DEF WellFormed, Onward, LocalType, SameControl

\* Optional inference leads into a collective of its own or to the loop.
LEMMA InferenceLemma ==
    ASSUME NEW l, NEW m, WellFormed(l), WellFormed(m)
    PROVE  /\ Onward(BenchmarksIfDue(l))
           /\ Onward(RunScheduledInference(l))
           /\ SameControl(l, m) => /\ SameControl(BenchmarksIfDue(l), BenchmarksIfDue(m))
                                   /\ SameControl(RunScheduledInference(l), RunScheduledInference(m))
<1>1. ASSUME NEW place \in Inference
      PROVE  /\ Onward([l EXCEPT !.pc = place, !.fresh = FALSE])
             /\ SameControl(l, m) => SameControl([l EXCEPT !.pc = place, !.fresh = FALSE],
                                                 [m EXCEPT !.pc = place, !.fresh = FALSE])
  BY <1>1 DEF WellFormed, Onward, LocalType, SameControl
<1>3. ASSUME SameControl(l, m)
      PROVE  SameControl(BenchmarksIfDue(l), BenchmarksIfDue(m))
  <2>1. l.step = m.step BY <1>3 DEF SameControl
  <2> QED BY <1>1, <1>3, <2>1, LoopHeadLemma DEF BenchmarksIfDue
<1>4. ASSUME SameControl(l, m)
      PROVE  SameControl(RunScheduledInference(l), RunScheduledInference(m))
  <2>1. l.step = m.step BY <1>4 DEF SameControl
  <2> QED BY <1>1, <1>3, <1>4, <2>1 DEF RunScheduledInference
<1> QED BY <1>1, <1>3, <1>4, LoopHeadLemma DEF RunScheduledInference, BenchmarksIfDue

\* What follows a completed step.
LEMMA AfterStepLemma ==
    ASSUME NEW l, NEW m, WellFormed(l), WellFormed(m)
    PROVE  /\ Onward(AfterStep(l))
           /\ SameControl(l, m) => SameControl(AfterStep(l), AfterStep(m))
<1>1. Onward(SaveIfDue(l)) BY SaveLemma, FreshLemma, InferenceLemma DEF SaveIfDue
<1>2. ASSUME SameControl(l, m)
      PROVE  SameControl(SaveIfDue(l), SaveIfDue(m))
  <2>3. SameControl(RunScheduledInference([l EXCEPT !.fresh = FALSE]),
                    RunScheduledInference([m EXCEPT !.fresh = FALSE]))
    BY <1>2, FreshLemma, InferenceLemma
  <2> QED BY <2>3, <1>2, SaveLemma DEF SaveIfDue, SameControl
<1> QED BY <1>1, <1>2, FinishLoopLemma DEF AfterStep, SameControl

\* Taking the reduced request is not control flow yet.
LEMMA RequestLemma ==
    ASSUME NEW l, NEW m, WellFormed(l), WellFormed(m), NEW b \in BOOLEAN
    PROVE  /\ WellFormed([l EXCEPT !.requested = b])
           /\ [l EXCEPT !.requested = b].pc = l.pc
           /\ SameControl(l, m) =>
                SameControl([l EXCEPT !.requested = b], [m EXCEPT !.requested = b])
BY DEF WellFormed, Onward, LocalType, SameControl

\* Every poll leads locals that agree to locals that agree.
LEMMA AfterPollLemma ==
    ASSUME NEW l, NEW m, WellFormed(l), WellFormed(m),
           NEW place \in Polls, l.pc = place, m.pc = place
    PROVE  /\ Onward(AfterPoll(place, l))
           /\ SameControl(l, m) => SameControl(AfterPoll(place, l), AfterPoll(place, m))
<1>1. l.requested \in BOOLEAN /\ (SameControl(l, m) => l.requested = m.requested /\ l.step = m.step)
  BY DEF WellFormed, Onward, LocalType, SameControl
<1>2. CASE place = "before step"
  <2>1. Onward(StartStep(l)) BY <1>2 DEF WellFormed, Onward, LocalType, StartStep
  <2>2. SameControl(l, m) => SameControl(StartStep(l), StartStep(m))
    BY <1>2 DEF WellFormed, Onward, LocalType, SameControl, StartStep
  <2>3. /\ AfterPoll(place, l) = (IF l.requested THEN FinishLoop(l) ELSE StartStep(l))
        /\ AfterPoll(place, m) = (IF m.requested THEN FinishLoop(m) ELSE StartStep(m))
    BY <1>2 DEF AfterPoll
  <2> QED BY <1>1, <2>1, <2>2, <2>3, FinishLoopLemma
<1>3. CASE place = "after step"
  <2>1. /\ Onward(Goto(l, "evaluate"))
        /\ SameControl(l, m) => SameControl(Goto(l, "evaluate"), Goto(m, "evaluate"))
    BY GotoLemma
  <2>2. /\ AfterPoll(place, l) = (IF ~l.requested /\ EvaluationDue(l.step)
                                  THEN Goto(l, "evaluate") ELSE AfterStep(l))
        /\ AfterPoll(place, m) = (IF ~m.requested /\ EvaluationDue(m.step)
                                  THEN Goto(m, "evaluate") ELSE AfterStep(m))
    BY <1>3 DEF AfterPoll
  <2> QED BY <1>1, <2>1, <2>2, AfterStepLemma
<1>4. CASE place = "after validation"
  <2>1. AfterPoll(place, l) = AfterStep(l) /\ AfterPoll(place, m) = AfterStep(m) BY <1>4 DEF AfterPoll
  <2> QED BY <2>1, AfterStepLemma
<1>5. CASE place = "after checkpoint"
  <2>1. /\ AfterPoll(place, l) = (IF l.requested THEN FinishLoop(l) ELSE RunScheduledInference(l))
        /\ AfterPoll(place, m) = (IF m.requested THEN FinishLoop(m) ELSE RunScheduledInference(m))
    BY <1>5 DEF AfterPoll
  <2> QED BY <1>1, <2>1, FinishLoopLemma, InferenceLemma
<1>6. CASE place = "after samples"
  <2>1. /\ AfterPoll(place, l) = (IF l.requested THEN FinishLoop(l) ELSE BenchmarksIfDue(l))
        /\ AfterPoll(place, m) = (IF m.requested THEN FinishLoop(m) ELSE BenchmarksIfDue(m))
    BY <1>6 DEF AfterPoll
  <2> QED BY <1>1, <2>1, FinishLoopLemma, InferenceLemma
<1>7. CASE place = "after benchmarks"
  <2>1. /\ AfterPoll(place, l) = (IF l.requested THEN FinishLoop(l) ELSE LoopHead(l))
        /\ AfterPoll(place, m) = (IF m.requested THEN FinishLoop(m) ELSE LoopHead(m))
    BY <1>7 DEF AfterPoll
  <2> QED BY <1>1, <2>1, FinishLoopLemma, LoopHeadLemma
<1>8. CASE place = "before export"
  <2>1. AfterPoll(place, l) = SaveAndClose(l) /\ AfterPoll(place, m) = SaveAndClose(m) BY <1>8 DEF AfterPoll
  <2> QED BY <2>1, SaveAndCloseLemma
<1> QED BY <1>2, <1>3, <1>4, <1>5, <1>6, <1>7, <1>8

\* Drawing is not control flow.
LEMMA DrawnLemma ==
    ASSUME NEW l, NEW m, WellFormed(l), WellFormed(m), NEW n \in Nat, NEW k \in Nat
    PROVE  /\ WellFormed(Drawn(l, n))
           /\ Drawn(l, n).pc = l.pc /\ Drawn(l, n).step = l.step
           /\ SameControl(l, m) => SameControl(Drawn(l, n), Drawn(m, k))
<1>1. l \in LocalType /\ l.rng \in Nat BY DEF WellFormed, Onward, LocalType
<1>2. l.rng + n \in Nat BY <1>1
<1>3. Drawn(l, n) \in LocalType BY <1>1, <1>2 DEF LocalType, Drawn
<1>4. Drawn(l, n).pc = l.pc /\ Drawn(l, n).step = l.step BY <1>1 DEF LocalType, Drawn
<1>5. SameControl(l, m) => SameControl(Drawn(l, n), Drawn(m, k))
  BY DEF WellFormed, Onward, LocalType, Drawn, SameControl
<1> QED BY <1>3, <1>4, <1>5 DEF WellFormed, Onward

\* Neither the update nor a failed step leaves the schedule.
LEMMA StepLemma ==
    ASSUME NEW l, NEW m, WellFormed(l), WellFormed(m), l.pc = "step", m.pc = "step",
           stream \in Nat, NEW s
    PROVE  /\ Onward(Updated(l)) /\ Onward(NonFinite(l, s))
           /\ SameControl(l, m) => /\ SameControl(Updated(l), Updated(m))
                                   /\ SameControl(NonFinite(l, s), NonFinite(m, s))
<1>1. \A k \in {l, m} : /\ WellFormed(Drawn(k, 1))
                        /\ Drawn(k, 1).pc = "step" /\ Drawn(k, 1).step = k.step
  BY DrawnLemma
<1>2. SameControl(l, m) => SameControl(Drawn(l, 1), Drawn(m, 1)) BY DrawnLemma
<1>3. ASSUME NEW k, WellFormed(k), k.pc = "step"
      PROVE  /\ WellFormed(Learned(k))
             /\ Learned(k).pc = "step"
  <2>1. k \in LocalType /\ k.trained \in Seq(Nat) /\ k.step < TotalSteps
    BY <1>3 DEF WellFormed, Onward, LocalType
  <2>2. Append(k.trained, stream + 1) \in Seq(Nat) BY <2>1
  <2>3. Learned(k) \in LocalType /\ Learned(k).pc = "step" /\ Learned(k).step = k.step
    BY <1>3, <2>1, <2>2 DEF LocalType, Learned
  <2> QED BY <2>1, <2>3 DEF WellFormed, Onward
<1>4. ASSUME NEW k, NEW j, WellFormed(k), WellFormed(j), SameControl(k, j)
      PROVE  SameControl(Learned(k), Learned(j))
  BY <1>4 DEF WellFormed, Onward, LocalType, Learned, SameControl
<1>5. ASSUME NEW k, WellFormed(k), k.pc = "step"
      PROVE  Onward(Goto(Advanced(k), "after step"))
  <2>1. TotalSteps \in Nat /\ k \in LocalType /\ k.step \in 0..TotalSteps /\ k.step < TotalSteps
    BY <1>5, ScheduleAssumption DEF WellFormed, Onward, LocalType
  <2>2. k.step + 1 \in 0..TotalSteps BY <2>1
  <2>3. Advanced(k) \in LocalType BY <2>1, <2>2 DEF LocalType, Advanced
  <2> QED BY <2>3 DEF WellFormed, Onward, LocalType, Goto
<1>6. ASSUME NEW k, NEW j, WellFormed(k), WellFormed(j), SameControl(k, j)
      PROVE  SameControl(Goto(Advanced(k), "after step"), Goto(Advanced(j), "after step"))
  BY <1>6 DEF WellFormed, Onward, LocalType, Advanced, Goto, SameControl
<1>7. \A k \in {l, m} : WellFormed(Learned(Drawn(k, 1))) /\ Learned(Drawn(k, 1)).pc = "step" BY <1>1, <1>3
<1>8. Onward(Updated(l)) /\ (SameControl(l, m) => SameControl(Updated(l), Updated(m)))
  BY <1>1, <1>2, <1>4, <1>5, <1>6, <1>7 DEF Updated
<1>9. Onward(NonFinite(l, s)) BY <1>1, GotoLemma, SaveLemma DEF NonFinite
<1>10. ASSUME SameControl(l, m)
       PROVE  SameControl(NonFinite(l, s), NonFinite(m, s))
  <2>2. SameControl(Goto(Drawn(l, 1), "failed"), Goto(Drawn(m, 1), "failed")) BY <1>1, <1>2, <1>10, GotoLemma
  <2> QED BY <2>2, <1>10, <1>1, <1>2, SaveLemma DEF NonFinite, SameControl
<1> QED BY <1>8, <1>9, <1>10

\* A save returns to where it was called from.
LEMMA AfterPublishLemma ==
    ASSUME NEW l, NEW m, WellFormed(l), WellFormed(m), l.pc = "publish", m.pc = "publish"
    PROVE  /\ Onward(AfterPublish(l))
           /\ SameControl(l, m) => SameControl(AfterPublish(l), AfterPublish(m))
<1>1. Onward(AfterPublish(l)) BY DEF WellFormed, Onward, LocalType, AfterPublish
<1>2. ASSUME SameControl(l, m)
      PROVE  SameControl(AfterPublish(l), AfterPublish(m))
  <2>1. l.saving = m.saving /\ l.saving \in {"no", "due", "final", "failed"}
    BY <1>2 DEF SameControl, WellFormed, Onward, LocalType
  <2>2. CASE l.saving = "due" BY <1>2, <2>1, <2>2 DEF SameControl, WellFormed, Onward, LocalType, AfterPublish
  <2>3. CASE l.saving = "final"
    BY <1>2, <2>1, <2>3 DEF SameControl, WellFormed, Onward, LocalType, AfterPublish
  <2>4. CASE l.saving = "failed"
    BY <1>2, <2>1, <2>4 DEF SameControl, WellFormed, Onward, LocalType, AfterPublish
  <2>5. CASE l.saving = "no" BY <1>2, <2>1, <2>5 DEF SameControl, WellFormed, Onward, LocalType, AfterPublish
  <2> QED BY <2>1, <2>2, <2>3, <2>4, <2>5
<1> QED BY <1>1, <1>2

-----------------------------------------------------------------------------
(* A collective that completes.                                            *)

\* What the ranks know of each other is what the collectives keep true.
RankInv ==
    /\ local \in [Rank -> LocalType]
    /\ \A r \in Rank : WellFormed(local[r])
    /\ \A r \in Rank : entered[r] => local[r].pc \in Collectives
    /\ LocalsAgree

\* All ranks are in the collective, so all agree on where they are.
LEMMA InsideLemma ==
    ASSUME IndInv, NEW place \in Collectives, AllIn(place)
    PROVE  \A r, s \in Rank : /\ WellFormed(local[r]) /\ local[r].pc = place
                              /\ SameControl(local[r], local[s])
BY DEF IndInv, AllIn, LocalsAgree

\* If the ranks move on to locals that agree, the ranks agree again.
LEMMA JointLemma ==
    ASSUME Leave, NEW moved, moved = [r \in Rank |-> moved[r]], local' = moved,
           \A r, s \in Rank : Onward(moved[r]) /\ SameControl(moved[r], moved[s])
    PROVE  RankInv' /\ SelectionAgrees'
<1>1. \A r \in Rank : local'[r] = moved[r] /\ entered'[r] = FALSE BY DEF Leave
<1>2. local' \in [Rank -> LocalType] BY DEF Onward, WellFormed
<1>3. \A r \in Rank : WellFormed(local'[r]) /\ local'[r].pc # "select" BY <1>1 DEF Onward
<1>4. LocalsAgree' BY <1>1 DEF LocalsAgree
<1>5. SelectionAgrees' BY <1>3 DEF SelectionAgrees
<1> QED BY <1>1, <1>2, <1>3, <1>4, <1>5 DEF RankInv

\* The selected checkpoint is a file of the directory.
LEMMA SelectedLemma ==
    ASSUME IndInv, ResolveResume # 0, NEW r \in Rank, local[r].pc = "select"
    PROVE  /\ FileOf(ResolveResume) \in ckpts /\ FileOf(ResolveResume) \in CheckpointType
           /\ FileOf(ResolveResume).mtime = ResolveResume
<1>1. ckpts \subseteq CheckpointType /\ attempt.mode \in {"fresh", "plain", "explicit"}
  BY DEF IndInv, TypeOK, AttemptType
<1>2. \E c \in ckpts : c.mtime = ResolveResume
  <2>1. CASE attempt.mode = "explicit" BY <2>1 DEF ResolveResume, IndInv, SelectionAgrees
  <2>2. CASE attempt.mode = "plain"
    <3>1. FindLatest(ckpts) # 0 /\ ResolveResume = FindLatest(ckpts) BY <2>2 DEF ResolveResume
    <3>2. Regular(ckpts) # {} BY <3>1 DEF FindLatest
    <3>3. PICK c \in Regular(ckpts) : \A d \in Regular(ckpts) : d.mtime <= c.mtime
      BY <3>2 DEF IndInv, NewestExists
    <3>4. \E e \in Regular(ckpts) : e.mtime = FindLatest(ckpts) BY <3>2, <3>3 DEF FindLatest
    <3> QED BY <3>1, <3>4 DEF Regular
  <2>3. CASE attempt.mode = "fresh" BY <2>3 DEF ResolveResume
  <2> QED BY <1>1, <2>1, <2>2, <2>3
<1> QED BY <1>1, <1>2 DEF FileOf

\* Ranks that restore the same file agree.
LEMMA TakeUpLemma ==
    ASSUME NEW l, NEW m, WellFormed(l), WellFormed(m), l.pc = "select", m.pc = "select",
           SameControl(l, m), NEW c \in CheckpointType, NEW r \in Rank, NEW s \in Rank
    PROVE  /\ Onward(TakeUp(l, c, r))
           /\ SameControl(TakeUp(l, c, r), TakeUp(m, c, s))
<1>1. /\ c.step \in 0..TotalSteps /\ c.trained \in Seq(Nat)
      /\ c.rng[r] \in Nat /\ c.rng[s] \in Nat
  BY DEF CheckpointType
<1>2. /\ WellFormed(Loaded(l, c)) /\ WellFormed(Loaded(m, c))
      /\ SameControl(Loaded(l, c), Loaded(m, c))
  BY <1>1 DEF WellFormed, LocalType, Loaded, SameControl
<1>3. ASSUME NEW k, NEW j, WellFormed(k), WellFormed(j), SameControl(k, j),
             NEW a \in Nat, NEW b \in Nat
      PROVE  /\ WellFormed([k EXCEPT !.rng = a])
             /\ SameControl([k EXCEPT !.rng = a], [j EXCEPT !.rng = b])
  BY <1>3, ZenonT(60) DEF WellFormed, LocalType, SameControl
<1>4. /\ WellFormed([Loaded(l, c) EXCEPT !.rng = c.rng[r]])
      /\ WellFormed([Loaded(m, c) EXCEPT !.rng = c.rng[s]])
      /\ SameControl([Loaded(l, c) EXCEPT !.rng = c.rng[r]],
                     [Loaded(m, c) EXCEPT !.rng = c.rng[s]])
  BY <1>2, <1>1, <1>3 DEF SameControl
<1> QED BY <1>4, GotoLemma DEF TakeUp

\* Completing a collective, whatever it does to the ranks' locals.
LEMMA CollectiveLemma ==
    ASSUME IndInv, CollectiveDone
    PROVE  RankInv' /\ SelectionAgrees'
<1>1. stream \in Nat /\ AnyFlag \in BOOLEAN BY DEF IndInv, TypeOK, AnyFlag
<1>2. ASSUME FailAll, Leave, NEW place \in Collectives, AllIn(place)
      PROVE  RankInv' /\ SelectionAgrees'
  <2> DEFINE moved == [r \in Rank |-> Goto(local[r], "failed")]
  <2>1. \A r, s \in Rank : Onward(moved[r]) /\ SameControl(moved[r], moved[s]) BY <1>2, InsideLemma, GotoLemma
  <2>2. local' = moved BY <1>2 DEF FailAll
  <2>3. moved = [r \in Rank |-> moved[r]] OBVIOUS
  <2> HIDE DEF moved
  <2> QED BY <1>2, <2>1, <2>2, <2>3, JointLemma
<1>3. CASE SelectDone
  <2> DEFINE moved == [r \in Rank |-> Restored(r)]
  <2>1. \A r, s \in Rank : WellFormed(local[r]) /\ SameControl(local[r], local[s])
    BY <1>3, InsideLemma DEF SelectDone
  <2>2. \A r \in Rank : local[r].pc = "select" /\ local[r].from = ResolveResume
    BY <1>3 DEF SelectDone, AllIn, IndInv, SelectionAgrees
  <2>3. ASSUME NEW r \in Rank, NEW s \in Rank
        PROVE  Onward(Restored(r)) /\ SameControl(Restored(r), Restored(s))
    <3>1. CASE ResolveResume = 0
      <4>2. /\ Onward(Goto(local[r], "configure"))
            /\ SameControl(Goto(local[r], "configure"), Goto(local[s], "configure"))
        BY <2>1, GotoLemma
      <4> QED BY <4>2, <2>2, <3>1 DEF Restored
    <3>2. CASE ResolveResume # 0 BY <2>2, <3>2, SelectedLemma, <2>1, TakeUpLemma DEF Restored
    <3> QED BY <3>1, <3>2
  <2>4. \A r, s \in Rank : Onward(moved[r]) /\ SameControl(moved[r], moved[s]) BY <2>3
  <2>5. local' = moved /\ Leave /\ moved = [r \in Rank |-> moved[r]] BY <1>3 DEF SelectDone
  <2> HIDE DEF moved
  <2> QED BY <2>4, <2>5, JointLemma
<1>4. CASE SelectRefused BY <1>4, <1>2 DEF SelectRefused
<1>5. CASE ConfigureDone
  <2>1. CASE AnyFlag BY <1>5, <1>2, <2>1 DEF ConfigureDone
  <2>2. CASE ~AnyFlag
    <3> DEFINE moved == [r \in Rank |-> LoopHead(local[r])]
    <3>1. \A r, s \in Rank : Onward(moved[r]) /\ SameControl(moved[r], moved[s])
      BY <1>5, InsideLemma, LoopHeadLemma DEF ConfigureDone
    <3>2. local' = moved /\ Leave /\ moved = [r \in Rank |-> moved[r]] BY <1>5, <2>2 DEF ConfigureDone
    <3> HIDE DEF moved
    <3> QED BY <3>1, <3>2, JointLemma
  <2> QED BY <2>1, <2>2
<1>6. ASSUME NEW place \in Polls, PollDone(place)
      PROVE  RankInv' /\ SelectionAgrees'
  <2> DEFINE asked(r) == [local[r] EXCEPT !.requested = AnyFlag]
             moved == [r \in Rank |-> AfterPoll(place, asked(r))]
  <2>1. \A r, s \in Rank : /\ WellFormed(local[r]) /\ local[r].pc = place
                           /\ SameControl(local[r], local[s])
    BY <1>6, InsideLemma DEF PollDone
  <2>2. \A r, s \in Rank : /\ WellFormed(asked(r)) /\ asked(r).pc = place
                           /\ SameControl(asked(r), asked(s))
    BY <1>1, <2>1, RequestLemma
  <2> HIDE DEF asked
  <2>3. \A r, s \in Rank : Onward(moved[r]) /\ SameControl(moved[r], moved[s]) BY <1>6, <2>2, AfterPollLemma
  <2>4. local' = moved /\ Leave /\ moved = [r \in Rank |-> moved[r]] BY <1>6 DEF PollDone, asked
  <2> HIDE DEF moved
  <2> QED BY <2>3, <2>4, JointLemma
<1>7. CASE StepDone
  <2> DEFINE moved == [r \in Rank |-> Updated(local[r])]
  <2>1. \A r, s \in Rank : Onward(moved[r]) /\ SameControl(moved[r], moved[s])
    BY <1>1, <1>7, InsideLemma, StepLemma DEF StepDone
  <2>2. local' = moved /\ Leave /\ moved = [r \in Rank |-> moved[r]] BY <1>7 DEF StepDone
  <2> HIDE DEF moved
  <2> QED BY <2>1, <2>2, JointLemma
<1>8. CASE StepNotFinite
  <2>0. PICK launched \in Supervised : local' = [r \in Rank |-> NonFinite(local[r], launched)]
    BY <1>8 DEF StepNotFinite
  <2> DEFINE moved == [r \in Rank |-> NonFinite(local[r], launched)]
  <2>1. \A r, s \in Rank : Onward(moved[r]) /\ SameControl(moved[r], moved[s])
    BY <1>1, <1>8, InsideLemma, StepLemma DEF StepNotFinite
  <2>2. local' = moved /\ Leave /\ moved = [r \in Rank |-> moved[r]] BY <1>8, <2>0 DEF StepNotFinite
  <2> HIDE DEF moved
  <2> QED BY <2>1, <2>2, JointLemma
<1>9. CASE EvaluateDone
  <2> DEFINE moved == [r \in Rank |-> Goto(local[r], "after validation")]
  <2>1. \A r, s \in Rank : Onward(moved[r]) /\ SameControl(moved[r], moved[s])
    BY <1>9, InsideLemma, GotoLemma DEF EvaluateDone
  <2>2. local' = moved /\ Leave /\ moved = [r \in Rank |-> moved[r]] BY <1>9 DEF EvaluateDone
  <2> HIDE DEF moved
  <2> QED BY <2>1, <2>2, JointLemma
<1>10. ASSUME NEW place \in Inference, InferenceDone(place)
       PROVE  RankInv' /\ SelectionAgrees'
  <2>1. PICK drawn \in [Rank -> {0, 1}] :
          local' = [r \in Rank |-> Goto(Drawn([local[r] EXCEPT !.requested = AnyFlag], drawn[r]),
                                        PollAfter(place))]
    BY <1>10 DEF InferenceDone
  <2> DEFINE asked(r) == [local[r] EXCEPT !.requested = AnyFlag]
             moved == [r \in Rank |-> Goto(Drawn(asked(r), drawn[r]), PollAfter(place))]
  <2>2. \A r, s \in Rank : WellFormed(asked(r)) /\ SameControl(asked(r), asked(s))
    BY <1>1, <1>10, InsideLemma, RequestLemma DEF InferenceDone
  <2>3. local' = moved /\ Leave /\ moved = [r \in Rank |-> moved[r]] BY <1>10, <2>1 DEF InferenceDone
  <2> HIDE DEF asked
  <2>4. \A r, s \in Rank : /\ WellFormed(Drawn(asked(r), drawn[r]))
                           /\ SameControl(Drawn(asked(r), drawn[r]), Drawn(asked(s), drawn[s]))
    BY <2>2, DrawnLemma
  <2>5. PollAfter(place) \in {"after samples", "after benchmarks"} BY DEF PollAfter
  <2>6. \A r, s \in Rank : Onward(moved[r]) /\ SameControl(moved[r], moved[s]) BY <2>4, <2>5, GotoLemma
  <2> HIDE DEF moved
  <2> QED BY <2>3, <2>6, JointLemma
<1>11. ASSUME NEW place \in Inference, InferenceFails(place)
       PROVE  RankInv' /\ SelectionAgrees'
  BY <1>11, <1>2 DEF InferenceFails
<1>12. CASE GatherDone
  <2> DEFINE moved == [r \in Rank |-> Goto(local[r], "publish")]
  <2>1. \A r, s \in Rank : Onward(moved[r]) /\ SameControl(moved[r], moved[s])
    BY <1>12, InsideLemma, GotoLemma DEF GatherDone
  <2>2. local' = moved /\ Leave /\ moved = [r \in Rank |-> moved[r]] BY <1>12 DEF GatherDone
  <2> HIDE DEF moved
  <2> QED BY <2>1, <2>2, JointLemma
<1>13. CASE PublishDone
  <2>1. CASE AnyFlag BY <1>13, <1>2, <2>1 DEF PublishDone
  <2>2. CASE ~AnyFlag
    <3> DEFINE moved == [r \in Rank |-> AfterPublish(local[r])]
    <3>1. \A r, s \in Rank : Onward(moved[r]) /\ SameControl(moved[r], moved[s])
      BY <1>13, InsideLemma, AfterPublishLemma DEF PublishDone
    <3>2. local' = moved /\ Leave /\ moved = [r \in Rank |-> moved[r]] BY <1>13, <2>2 DEF PublishDone
    <3> HIDE DEF moved
    <3> QED BY <3>1, <3>2, JointLemma
  <2> QED BY <2>1, <2>2
<1> QED BY <1>3, <1>4, <1>5, <1>6, <1>7, <1>8, <1>9, <1>10, <1>11, <1>12, <1>13 DEF CollectiveDone

-----------------------------------------------------------------------------
(* What a rank, the main rank's file work or the environment does.         *)

\* A process that has done nothing yet, wherever it is.
LEMMA IdleLemma ==
    ASSUME NEW place \in Places \ {"before step", "step"}
    PROVE  LET l == [Idle EXCEPT !.pc = place]
           IN l \in LocalType /\ l.pc = place /\ WellFormed(l)
<1>2. Idle \in LocalType BY BeginLemma DEF Idle, LocalType
<1>3. [Idle EXCEPT !.pc = place] \in LocalType /\ [Idle EXCEPT !.pc = place].pc = place BY <1>2 DEF LocalType
<1> QED BY <1>3 DEF WellFormed

\* Agreeing is an equivalence.
LEMMA SameControlLemma ==
    ASSUME NEW l, NEW m, NEW n
    PROVE  /\ SameControl(l, l)
           /\ SameControl(l, m) => SameControl(m, l)
           /\ SameControl(l, m) /\ SameControl(m, n) => SameControl(l, n)
BY DEF SameControl

\* Ranks whose locals stay in agreement with what they were still agree.
LEMMA StillAgreeLemma ==
    ASSUME LocalsAgree,
           \A s \in Rank : local'[s].pc # "dead" =>
               local[s].pc # "dead" /\ SameControl(local[s], local'[s])
    PROVE  LocalsAgree'
<1> SUFFICES ASSUME NEW r \in Rank, NEW s \in Rank,
                    local'[r].pc # "dead", local'[s].pc # "dead"
             PROVE  SameControl(local'[r], local'[s])
  BY DEF LocalsAgree
<1> QED BY SameControlLemma DEF LocalsAgree

\* A new attempt starts every rank alike, at the selection.
LEMMA LaunchLemma ==
    ASSUME IndInv, NEW mode \in {"fresh", "plain", "explicit"}, NEW path,
           Launch(mode, path),
           mode = "explicit" => \E c \in ckpts : c.mtime = path
    PROVE  RankInv' /\ SelectionAgrees'
<1> DEFINE first == [Idle EXCEPT !.pc = "select"]
<1>1. first \in LocalType /\ first.pc = "select" /\ WellFormed(first) BY IdleLemma
<1>2. \A r \in Rank : local'[r] = first /\ entered'[r] = FALSE BY DEF Launch
<1>4. local' \in [Rank -> LocalType] BY <1>1 DEF Launch
<1> HIDE DEF first
<1>6. LocalsAgree' BY <1>2 DEF LocalsAgree, SameControl
<1>7. SelectionAgrees' BY <1>2 DEF SelectionAgrees, Launch
<1> QED BY <1>1, <1>2, <1>4, <1>6, <1>7 DEF RankInv

\* Selecting moves no rank, and selects what every other rank selects.
LEMMA SelectResumeLemma ==
    ASSUME IndInv, NEW r \in Rank, SelectResume(r)
    PROVE  RankInv' /\ SelectionAgrees'
<1>1. /\ local \in [Rank -> LocalType] /\ WellFormed(local[r]) /\ local[r].pc = "select"
      /\ ckpts \subseteq CheckpointType /\ entered \in [Rank -> BOOLEAN]
  BY DEF IndInv, TypeOK, SelectResume
<1>2. ResolveResume \in Nat
  <2>1. attempt.mode \in {"fresh", "plain", "explicit"} /\ attempt.path \in Nat
    BY DEF IndInv, TypeOK, AttemptType
  <2>2. CASE ResolveResume = 0 BY <2>2
  <2>3. CASE ResolveResume # 0 /\ attempt.mode = "plain"
    <3>1. ResolveResume = FindLatest(ckpts) /\ Regular(ckpts) # {} BY <2>3 DEF ResolveResume, FindLatest
    <3>2. \E c \in Regular(ckpts) : \A d \in Regular(ckpts) : d.mtime <= c.mtime
      BY <3>1 DEF IndInv, NewestExists
    <3>3. \E c \in Regular(ckpts) : c.mtime = FindLatest(ckpts) BY <3>1, <3>2 DEF FindLatest
    <3> QED BY <1>1, <3>1, <3>3 DEF Regular, CheckpointType
  <2> QED BY <2>1, <2>2, <2>3 DEF ResolveResume
<1>3. local' = [local EXCEPT ![r].from = ResolveResume] BY DEF SelectResume
<1>4. \A s \in Rank : local'[s] = IF s = r THEN [local[r] EXCEPT !.from = ResolveResume] ELSE local[s]
  BY <1>1, <1>3
<1>5. [local[r] EXCEPT !.from = ResolveResume] \in LocalType BY <1>1, <1>2, ZenonT(60) DEF LocalType
<1>6. local' \in [Rank -> LocalType] BY <1>1, <1>3, <1>4, <1>5
<1>7. \A s \in Rank : /\ local'[s].pc = local[s].pc
                      /\ WellFormed(local'[s])
                      /\ SameControl(local'[s], local[s])
  <2>1. ASSUME NEW s \in Rank PROVE WellFormed(local[s]) /\ SameControl(local[s], local[s])
    BY DEF IndInv, SameControl
  <2>2. LET l == [local[r] EXCEPT !.from = ResolveResume]
        IN l.pc = local[r].pc /\ WellFormed(l) /\ SameControl(l, local[r])
    BY <1>1, <1>2 DEF WellFormed, LocalType, SameControl
  <2> QED BY <1>4, <2>1, <2>2
<1>8. LocalsAgree'
  <2>1. \A s \in Rank : SameControl(local[s], local'[s]) /\ local'[s].pc = local[s].pc
    BY <1>7, SameControlLemma
  <2> QED BY <2>1, StillAgreeLemma DEF IndInv
<1>9. \A s \in Rank : entered'[s] => local'[s].pc \in Collectives
  <2>1. \A s \in Rank : s # r => entered'[s] = entered[s] BY <1>1 DEF SelectResume
  <2> QED BY <1>1, <1>7, <2>1 DEF IndInv
<1>10. SelectionAgrees'
  <2>1. attempt' = attempt /\ ckpts' = ckpts BY DEF SelectResume
  <2>2. ResolveResume' = ResolveResume BY <2>1 DEF ResolveResume
  <2>3. \A s \in Rank : s # r => entered'[s] = entered[s] /\ local'[s] = local[s]
    BY <1>1, <1>4 DEF SelectResume
  <2>4. local'[r].from = ResolveResume BY <1>1, <1>4 DEF LocalType
  <2> QED BY <1>7, <2>1, <2>2, <2>3, <2>4, <1>1 DEF IndInv, SelectionAgrees
<1> QED BY <1>6, <1>7, <1>8, <1>9 , <1>10 DEF RankInv

\* Entering a collective moves no rank either.
LEMMA EnterLemma ==
    ASSUME IndInv, NEW r \in Rank, Enter(r)
    PROVE  RankInv' /\ SelectionAgrees'
<1>1. /\ local' = local /\ attempt' = attempt /\ ckpts' = ckpts
      /\ \A s \in Rank : entered'[s] => entered[s] \/ s = r
      /\ local[r].pc \in Collectives \ {"select"}
  BY DEF Enter, IndInv, TypeOK
<1>2. RankInv' BY <1>1 DEF RankInv, IndInv, TypeOK, LocalsAgree
<1>3. ResolveResume' = ResolveResume BY <1>1 DEF ResolveResume
<1> QED BY <1>1, <1>2, <1>3 DEF IndInv, SelectionAgrees

\* Any rank that dies, whether alone or with the others, is out of it.
LEMMA DeadLemma ==
    ASSUME IndInv, attempt' = attempt, ckpts' = ckpts,
           local' = [s \in Rank |-> local'[s]],
           \A s \in Rank : /\ \/ local'[s] = local[s]
                              \/ local'[s] = [Idle EXCEPT !.pc = "dead"]
                           /\ entered'[s] => entered[s] /\ local'[s] = local[s]
    PROVE  RankInv' /\ SelectionAgrees'
<1> DEFINE gone == [Idle EXCEPT !.pc = "dead"]
<1>1. gone.pc = "dead" /\ WellFormed(gone) /\ gone \in LocalType BY IdleLemma
<1>2. \A s \in Rank : local'[s] = local[s] \/ local'[s] = gone OBVIOUS
<1> HIDE DEF gone
<1>3. \A s \in Rank : local'[s] \in LocalType /\ WellFormed(local'[s]) BY <1>1, <1>2 DEF IndInv, TypeOK
<1>7. local' \in [Rank -> LocalType] BY <1>3
<1>4. LocalsAgree' BY <1>1, <1>2 DEF IndInv, LocalsAgree
<1>5. ResolveResume' = ResolveResume BY DEF ResolveResume
<1>6. SelectionAgrees' BY <1>1, <1>2, <1>5 DEF IndInv, SelectionAgrees
<1> QED BY <1>1, <1>2, <1>3, <1>4, <1>6, <1>7 DEF IndInv, RankInv

\* Leaving train(): the ranks close one by one, after the last collective.
LEMMA CloseLemma ==
    ASSUME IndInv, NEW r \in Rank, Close(r)
    PROVE  RankInv' /\ SelectionAgrees'
<1>1. /\ local \in [Rank -> LocalType] /\ WellFormed(local[r]) /\ local[r].pc = "close"
      /\ entered' = entered /\ attempt' = attempt /\ ckpts' = ckpts
      /\ local' = [local EXCEPT ![r].pc = "closed"]
  BY DEF IndInv, TypeOK, Close
<1>2. \A s \in Rank : local'[s] = IF s = r THEN Goto(local[r], "closed") ELSE local[s] BY <1>1 DEF Goto
<1>3. /\ Onward(Goto(local[r], "closed")) /\ Goto(local[r], "closed").pc = "closed"
      /\ SameControl(local[r], Goto(local[r], "closed"))
  BY <1>1 DEF Onward, WellFormed, LocalType, Goto, SameControl
<1>4. local' \in [Rank -> LocalType] /\ \A s \in Rank : WellFormed(local'[s])
  BY <1>1, <1>2, <1>3 DEF IndInv, Onward, WellFormed
<1>5. LocalsAgree'
  <2>1. \A s \in Rank : local[s].pc # "dead" \/ local'[s].pc = "dead" BY <1>1, <1>2
  <2>2. \A s \in Rank : SameControl(local[s], local'[s]) BY <1>2, <1>3, SameControlLemma
  <2> QED BY <2>1, <2>2, StillAgreeLemma DEF IndInv
<1>6. \A s \in Rank : entered'[s] => local'[s].pc \in Collectives BY <1>1, <1>2 DEF IndInv
<1>7. ResolveResume' = ResolveResume BY <1>1 DEF ResolveResume
<1>8. SelectionAgrees' BY <1>1, <1>2, <1>3, <1>7 DEF IndInv, SelectionAgrees
<1> QED BY <1>4, <1>5, <1>6, <1>8 DEF RankInv

\* While the main rank works, no rank is still selecting a checkpoint that
\* its file work could replace.
LEMMA MainWorkLemma ==
    ASSUME IndInv, MainWork
    PROVE  RankInv' /\ SelectionAgrees'
<1>1. /\ local' = local /\ entered' = entered /\ attempt'.mode = attempt.mode
      /\ attempt'.path = attempt.path
  <2>1. attempt \in AttemptType BY DEF IndInv, TypeOK
  <2> QED BY <2>1 DEF AttemptType, MainWork, PublishRunConfig, PublishModelConfig,
                      FinishConfiguration, PublishCheckpoint, WriteCheckpoint, MainWorkFails, Publishing
<1>2. RankInv' BY <1>1 DEF RankInv, IndInv, TypeOK, LocalsAgree
<1>3. local[Main].pc \in {"configure", "publish"}
  BY DEF MainWork, PublishRunConfig, PublishModelConfig, FinishConfiguration,
         PublishCheckpoint, WriteCheckpoint, MainWorkFails, Publishing
<1>4. \A r \in Rank : local[r].pc # "select" BY <1>3, RankAssumption DEF IndInv, LocalsAgree, SameControl
<1> QED BY <1>2, <1>1, <1>4 DEF SelectionAgrees

\* A checkpoint is either replaced by a newer one, or left alone.
LEMMA NewestLemma ==
    ASSUME IndInv, Next
    PROVE  NewestExists'
<1>1. CASE ckpts' = ckpts /\ clock' = clock BY <1>1 DEF IndInv, NewestExists
<1>2. ASSUME NEW outcome \in {"ok", "error"}, WriteCheckpoint(outcome)
      PROVE  NewestExists'
  <2> DEFINE c == Snapshot(local[Main])
             kept == {d \in ckpts : d.step # c.step \/ d.failed # c.failed}
  <2>1. ckpts' = kept \union {c} /\ clock' = clock + 1 BY <1>2 DEF WriteCheckpoint
  <2>2. clock \in Nat /\ \A d \in ckpts : d.mtime \in Nat /\ d.mtime <= clock
    BY DEF IndInv, TypeOK, NewestExists, CheckpointType
  <2>3. c.mtime = clock + 1 /\ c.failed \in BOOLEAN BY DEF Snapshot
  <2> HIDE DEF c
  <2>4. \A d \in ckpts' : d.mtime <= clock' BY <2>1, <2>2, <2>3
  <2>5. CASE ~c.failed BY <2>1, <2>5, <2>3, <2>4 DEF Regular, NewestExists
  <2>6. CASE c.failed
    <3>1. \A d \in ckpts : d.failed \in BOOLEAN BY DEF IndInv, TypeOK, CheckpointType
    <3>2. Regular(ckpts') = Regular(ckpts) BY <2>1, <2>3, <2>6, <3>1 DEF Regular
    <3> QED BY <2>4, <3>2 DEF IndInv, NewestExists
  <2> QED BY <2>3, <2>4, <2>5, <2>6
<1>3. CASE Start BY <1>1, <1>3 DEF Start, Launch
<1>4. ASSUME NEW r \in Rank, RankStep(r) \/ Signal(r) \/ Die(r)
      PROVE  NewestExists'
  BY <1>1, <1>4 DEF RankStep, SelectResume, Enter, Close, Signal, Die
<1>5. CASE CollectiveDone
  BY <1>1, <1>5 DEF CollectiveDone, SelectDone, SelectRefused, ConfigureDone, PollDone, StepDone,
      StepNotFinite, EvaluateDone, InferenceDone, InferenceFails, GatherDone, PublishDone
<1>6. CASE MainWork
  BY <1>1, <1>2, <1>6 DEF MainWork, PublishRunConfig, PublishModelConfig, FinishConfiguration,
      PublishCheckpoint, MainWorkFails
<1>7. CASE LauncherKill \/ Done BY <1>1, <1>7 DEF LauncherKill, Done, vars
<1> QED BY <1>3, <1>4, <1>5, <1>6, <1>7 DEF Next

-----------------------------------------------------------------------------
(* Types.                                                                  *)

\* The attempt's record under the changes the actions make to it.
LEMMA AttemptLemma ==
    ASSUME NEW a \in AttemptType, NEW n \in Nat
    PROVE  /\ [a EXCEPT !.origin = n] \in AttemptType
           /\ [a EXCEPT !.base = n] \in AttemptType
           /\ [a EXCEPT !.durable = n] \in AttemptType
           /\ [a EXCEPT !.late = n] \in AttemptType
           /\ a.late \in Nat /\ a.n \in Nat /\ a.origin \in Nat
BY DEF AttemptType

LEMMA ConfigLemma ==
    ASSUME NEW c \in ConfigType, NEW n \in Nat,
           NEW report \in [attempt : Nat, step : Nat, stopped : BOOLEAN, origin : Nat]
    PROVE  /\ [c EXCEPT !.run = n] \in ConfigType
           /\ [c EXCEPT !.model = n] \in ConfigType
           /\ [c EXCEPT !.resumes = @ \union {n}] \in ConfigType
           /\ [c EXCEPT !.report = report] \in ConfigType
BY DEF ConfigType

\* What the main rank writes is a checkpoint.
LEMMA SnapshotLemma ==
    ASSUME TypeOK, local[Main].step \in 0..TotalSteps
    PROVE  Snapshot(local[Main]) \in CheckpointType
<1>1. /\ local[Main].trained \in Seq(Nat) /\ gathered \in [Rank -> Nat] /\ stream \in Nat
      /\ clock + 1 \in Nat /\ attempt.origin \in Nat
  <2>1. local[Main] \in LocalType BY RankAssumption DEF TypeOK
  <2>3. local[Main].trained \in Seq(Nat) BY <2>1 DEF LocalType
  <2> QED BY <2>3 DEF TypeOK, AttemptType
<1> QED BY <1>1 DEF Snapshot, CheckpointType

\* Given the ranks' locals, every step keeps the other variables in type.
LEMMA TypeLemma ==
    ASSUME IndInv, Next, local' \in [Rank -> LocalType]
    PROVE  TypeOK'
<1>1. TypeOK /\ Main \in Rank BY RankAssumption DEF IndInv
<1>2. /\ ckpts \subseteq CheckpointType /\ config \in ConfigType /\ attempt \in AttemptType
      /\ clock \in Nat /\ stream \in Nat /\ entered \in [Rank -> BOOLEAN]
      /\ flag \in [Rank -> BOOLEAN] /\ gathered \in [Rank -> Nat] /\ skipped \subseteq Nat
  BY <1>1 DEF TypeOK
<1>3. \A r \in Rank : /\ local[r].step \in 0..TotalSteps /\ local[r].step \in Nat
                      /\ local[r].rng \in Nat /\ local[r].requested \in BOOLEAN
  <2> TAKE r \in Rank
  <2>1. local[r] \in LocalType BY <1>1 DEF TypeOK
  <2>2. local[r].step \in 0..TotalSteps /\ local[r].rng \in Nat /\ local[r].requested \in BOOLEAN
    BY <2>1 DEF LocalType
  <2> QED BY <2>2, ScheduleAssumption
<1>4. ASSUME Leave PROVE entered' \in [Rank -> BOOLEAN] /\ flag' \in [Rank -> BOOLEAN] /\ sig' = sig
  BY <1>4 DEF Leave
<1>5. CASE Start
  <2>1. PICK mode \in {"fresh", "plain", "explicit"}, path \in Nat : Launch(mode, path)
    BY <1>2, <1>5 DEF CheckpointType, Start
  <2>2. attempt' \in AttemptType BY <1>2, <2>1 DEF Launch, AttemptType
  <2> QED BY <1>1, <2>1, <2>2 DEF Launch, TypeOK
<1>6. ASSUME NEW r \in Rank, SelectResume(r)
      PROVE  TypeOK'
  BY <1>2, <1>6, <1>1 DEF SelectResume, TypeOK
<1>7. ASSUME NEW r \in Rank, Enter(r)
      PROVE  TypeOK'
  <2>1. Contribution(r) \in BOOLEAN BY <1>1, <1>3 DEF Contribution, TypeOK
  <2>2. flag' \in [Rank -> BOOLEAN] /\ entered' \in [Rank -> BOOLEAN] BY <1>2, <1>7, <2>1 DEF Enter
  <2> QED BY <1>1, <1>7, <2>2 DEF Enter, TypeOK
<1>8. ASSUME NEW r \in Rank, Close(r)
      PROVE  TypeOK'
  <2> DEFINE report == [attempt |-> attempt.n, step |-> local[r].step,
                        stopped |-> local[r].requested /\ local[r].step < TotalSteps,
                        origin |-> attempt.origin]
  <2>1. report \in [attempt : Nat, step : Nat, stopped : BOOLEAN, origin : Nat]
    <3>1. attempt.n \in Nat /\ attempt.origin \in Nat BY <1>2, AttemptLemma
    <3> QED BY <1>3, <3>1
  <2>2. config' = config \/ config' = [config EXCEPT !.report = report] BY <1>8 DEF Close
  <2> HIDE DEF report
  <2>3. config' \in ConfigType BY <1>2, <2>1, <2>2, ConfigLemma
  <2> QED BY <1>1, <1>8, <2>3 DEF Close, TypeOK
<1>9. ASSUME NEW r \in Rank, Signal(r) \/ Die(r)
      PROVE  TypeOK'
  BY <1>1, <1>9 DEF Signal, Die, TypeOK
<1>10. CASE LauncherKill \/ Done BY <1>1, <1>10 DEF LauncherKill, Done, vars, TypeOK
<1>11. CASE CollectiveDone
  <2>1. CASE SelectDone
    <3>1. CASE local[Main].from = 0
      <4>1. attempt' \in AttemptType BY <1>2, <2>1, <3>1, AttemptLemma DEF SelectDone
      <4> QED BY <1>1, <1>4, <2>1, <3>1, <4>1 DEF SelectDone, TypeOK
    <3>2. CASE local[Main].from # 0
      <4> DEFINE c == FileOf(local[Main].from)
      <4>1. local[Main].pc = "select" /\ local[Main].from = ResolveResume
        BY <1>1, <2>1 DEF SelectDone, AllIn, IndInv, SelectionAgrees
      <4>3. c.stream \in Nat /\ c.origin \in Nat /\ c.step \in Nat
        BY ScheduleAssumption, <1>1, <3>2, <4>1, SelectedLemma DEF CheckpointType
      <4>4. /\ stream' = c.stream
            /\ skipped' = IF c.failed /\ attempt.mode = "explicit" THEN skipped \union {c.stream}
                          ELSE skipped
            /\ attempt' = [attempt EXCEPT !.origin = c.origin, !.base = c.step, !.durable = c.step]
            /\ Leave /\ UNCHANGED <<gathered, work, ckpts, config, cut, clock>>
        BY <2>1, <3>2 DEF SelectDone
      <4> HIDE DEF c
      <4>5. attempt' \in AttemptType BY <1>2, <4>3, <4>4 DEF AttemptType
      <4> QED BY <1>1, <1>4, <4>3, <4>4, <4>5, <1>2 DEF TypeOK
    <3> QED BY <3>1, <3>2
  <2>2. CASE StepDone
    <3>1. attempt.late + (IF \E r \in Rank : sig[r] THEN 1 ELSE 0) \in Nat
      <4>1. attempt.late \in Nat BY <1>2, AttemptLemma
      <4>2. CASE \E r \in Rank : sig[r] BY <4>1, <4>2
      <4>3. CASE ~ \E r \in Rank : sig[r] BY <4>1, <4>3
      <4> QED BY <4>2, <4>3
    <3>2. attempt' \in AttemptType BY <1>2, <2>2, <3>1, AttemptLemma DEF StepDone
    <3> QED BY <1>1, <1>2, <1>4, <2>2, <3>2 DEF StepDone, TypeOK
  <2>3. CASE StepNotFinite BY <1>1, <1>4, <2>3 DEF StepNotFinite, TypeOK
  <2>4. CASE GatherDone BY <1>3, <2>4, <1>1, <1>4 DEF GatherDone, TypeOK
  <2>5. ASSUME \/ SelectRefused \/ ConfigureDone \/ EvaluateDone \/ PublishDone
               \/ \E place \in Polls : PollDone(place)
               \/ \E place \in Inference : InferenceDone(place) \/ InferenceFails(place)
        PROVE  TypeOK'
    <3>1. /\ Leave /\ work' \in {work, "todo"}
          /\ UNCHANGED <<stream, gathered, ckpts, config, attempt, cut, skipped, clock>>
      BY <2>5 DEF SelectRefused, ConfigureDone, EvaluateDone, PublishDone, PollDone,
                  InferenceDone, InferenceFails
    <3> QED BY <1>1, <1>4, <3>1 DEF TypeOK
  <2> QED BY <1>11, <2>1, <2>2, <2>3, <2>4, <2>5 DEF CollectiveDone
<1>12. CASE MainWork
  <2>1. CASE PublishRunConfig \/ PublishModelConfig
    <3>1. attempt.origin \in Nat BY <1>2, AttemptLemma
    <3>3. config' \in ConfigType BY <1>2, <3>1, <2>1 DEF ConfigType, PublishRunConfig, PublishModelConfig
    <3> QED BY <1>1, <2>1, <3>3 DEF PublishRunConfig, PublishModelConfig, Publishing, TypeOK
  <2>2. CASE FinishConfiguration
    <3>1. attempt.n \in Nat BY <1>2, AttemptLemma
    <3> QED BY <1>1, <2>2, <1>2, <1>3, <3>1 DEF FinishConfiguration, Publishing, TypeOK, ConfigType
  <2>3. ASSUME NEW outcome \in {"ok", "error"}, WriteCheckpoint(outcome)
        PROVE  TypeOK'
    <3> DEFINE c == Snapshot(local[Main])
    <3>1. c \in CheckpointType BY <1>1, <1>3, SnapshotLemma
    <3>2. c.step \in Nat BY <3>1, ScheduleAssumption DEF CheckpointType
    <3>3. /\ ckpts' = {d \in ckpts : d.step # c.step \/ d.failed # c.failed} \union {c}
          /\ attempt' = IF c.failed THEN attempt ELSE [attempt EXCEPT !.durable = c.step]
      BY <2>3 DEF WriteCheckpoint
    <3> HIDE DEF c
    <3>5. attempt' \in AttemptType BY <1>2, <3>2, <3>3, AttemptLemma
    <3> QED BY <1>1, <1>2, <2>3, <3>5, <3>1, <3>3 DEF WriteCheckpoint, Publishing, TypeOK
  <2>4. CASE MainWorkFails BY <1>1, <2>4 DEF MainWorkFails, Publishing, TypeOK
  <2> QED BY <1>12, <2>1, <2>2, <2>3, <2>4 DEF MainWork, PublishCheckpoint
<1> QED BY <1>5, <1>6, <1>7, <1>8, <1>9, <1>10, <1>11, <1>12 DEF Next, RankStep

-----------------------------------------------------------------------------
(* The theorems.                                                           *)

\* The directory is empty and no rank runs.
LEMMA InitLemma == Init => IndInv
<1> SUFFICES ASSUME Init PROVE IndInv OBVIOUS
<1>1. Idle \in LocalType /\ WellFormed(Idle) /\ Idle.pc = "down" BY BeginLemma DEF Idle, LocalType, WellFormed
<1>2. \A r \in Rank : local[r] = Idle /\ entered[r] = FALSE BY DEF Init
<1>3. local \in [Rank -> LocalType] /\ \A r \in Rank : WellFormed(local[r]) BY <1>1 DEF Init
<1>4. TypeOK BY ScheduleAssumption, <1>3 DEF NoReport, Init, ConfigType, AttemptType, TypeOK
<1>5. LocalsAgree BY <1>2, SameControlLemma DEF LocalsAgree
<1>6. SelectionAgrees BY <1>1, <1>2 DEF SelectionAgrees
<1> QED BY <1>2, <1>3, <1>4, <1>5, <1>6 DEF IndInv, Init, NewestExists, Regular

\* Every action keeps the ranks in agreement.
LEMMA StepInvLemma ==
    ASSUME IndInv, Next
    PROVE  RankInv' /\ SelectionAgrees'
<1>1. CASE Start BY LaunchLemma, <1>1 DEF Start
<1>2. ASSUME NEW r \in Rank, RankStep(r)
      PROVE  RankInv' /\ SelectionAgrees'
  BY <1>2, SelectResumeLemma, EnterLemma, CloseLemma DEF RankStep
<1>3. ASSUME NEW r \in Rank, Signal(r)
      PROVE  RankInv' /\ SelectionAgrees'
  <2>1. local' = local /\ entered' = entered /\ attempt' = attempt /\ ckpts' = ckpts BY <1>3 DEF Signal
  <2>2. ResolveResume' = ResolveResume BY <2>1 DEF ResolveResume
  <2> QED BY <2>1, <2>2 DEF IndInv, TypeOK, RankInv, LocalsAgree, SelectionAgrees
<1>4. ASSUME NEW r \in Rank, Die(r)
      PROVE  RankInv' /\ SelectionAgrees'
  <2>1. /\ local \in [Rank -> LocalType] /\ entered \in [Rank -> BOOLEAN]
        /\ attempt' = attempt /\ ckpts' = ckpts
        /\ local' = [local EXCEPT ![r] = [Idle EXCEPT !.pc = "dead"]]
        /\ entered' = [entered EXCEPT ![r] = FALSE]
    BY <1>4 DEF Die, IndInv, TypeOK
  <2>2. local' = [s \in Rank |-> local'[s]] BY <2>1
  <2> QED BY <2>1, <2>2, DeadLemma
<1>5. CASE LauncherKill BY <1>5, DeadLemma DEF LauncherKill
<1>6. CASE Done
  <2>1. local' = local /\ entered' = entered /\ attempt' = attempt /\ ckpts' = ckpts BY <1>6 DEF Done, vars
  <2>2. ResolveResume' = ResolveResume BY <2>1 DEF ResolveResume
  <2> QED BY <2>1, <2>2 DEF IndInv, TypeOK, RankInv, LocalsAgree, SelectionAgrees
<1> QED BY <1>1, <1>2, <1>3, <1>4, <1>5, <1>6, CollectiveLemma, MainWorkLemma DEF Next

\* The inductive invariant holds in every reachable state.
THEOREM Invariance == Spec => []IndInv
<1>1. Init => IndInv BY InitLemma
<1>2. IndInv /\ [Next]_vars => IndInv'
  <2>1. ASSUME IndInv, Next PROVE IndInv'
    <3>1. RankInv' /\ SelectionAgrees' BY <2>1, StepInvLemma
    <3>2. TypeOK' BY <2>1, <3>1, TypeLemma DEF RankInv
    <3>3. NewestExists' BY <2>1, NewestLemma
    <3> QED BY <3>1, <3>2, <3>3 DEF RankInv, IndInv
  <2>2. ASSUME IndInv, UNCHANGED vars PROVE IndInv'
    <3>1. ResolveResume' = ResolveResume BY <2>2 DEF vars, ResolveResume
    <3>2. TypeOK' BY <2>2 DEF vars, IndInv, TypeOK
    <3> QED BY <2>2, <3>1, <3>2 DEF vars, IndInv, LocalsAgree, SelectionAgrees, NewestExists
  <2> QED BY <2>1, <2>2
<1> QED BY <1>1, <1>2, PTL DEF Spec

\* Every variable of every reachable state is in its type, for any number of
\* ranks, steps and attempts.
THEOREM TypeCorrect == Spec => []TypeOK
<1>1. IndInv => TypeOK BY DEF IndInv
<1> QED BY <1>1, Invariance, PTL

\* No stop request, failure or refusal ever leaves two ranks of one attempt in
\* different collectives (stopping.py, execution/*.py), for any world size.
THEOREM CollectivesAlwaysMatch == Spec => []CollectivesMatch
<1>1. IndInv => CollectivesMatch BY DEF IndInv, LocalsAgree, SameControl, CollectivesMatch
<1> QED BY <1>1, Invariance, PTL

-----------------------------------------------------------------------------
(* What a run leaves on disk.  The invariants below strengthen IndInv: how *)
(* far a rank's locals tell what it did (Flow), that the main rank votes   *)
(* what its work came to (Votes), what file times mean (Times), where the  *)
(* files come from (Origins), what the ranks and files were trained on     *)
(* (Data), when the state in memory is on disk (Saves), how old it may be  *)
(* (Recent) and what follows a step that a stop request overlapped (Late). *)

\* The places at which no checkpoint of the state in memory counts as fresh.
Stale == {"select", "configure", "step", "after step", "evaluate", "after validation",
          "gather", "publish", "samples", "benchmarks"}

\* The locals of a rank follow from where it is: it saves for a reason, the
\* last save is one that was asked for, the export has all its steps behind
\* it, and only a finished or a stopped run closes.
Flow(l) ==
    /\ l.pc \in Stale => ~l.fresh
    /\ l.pc \in {"gather", "publish"} => l.saving # "no"
    /\ l.pc \in (Collectives \ {"gather", "publish"}) \union {"close"} => l.saving = "no"
    /\ l.saving = "final" => l.requested
    /\ l.pc = "before export" => l.step = TotalSteps
    /\ l.pc \in {"close", "closed"} => l.requested \/ l.step = TotalSteps
    /\ l.pc \in {"select", "configure"} => ~l.requested
    /\ l.pc = "select" => l.step = 0 /\ l.trained = <<>> /\ l.rng = 0

Flows == \A r \in Rank : Flow(local[r])

\* The main rank's vote is the outcome of its work.
Votes ==
    entered[Main] /\ local[Main].pc \in {"configure", "publish"} =>
        /\ work # "todo"
        /\ flag[Main] = (work = "error")

\* File times are those of the clock and name one file each.  What a plain
\* resume left behind is older than what it took or written by the attempt.
Times ==
    /\ \A c \in ckpts : c.mtime # 0 /\ c.mtime <= clock
    /\ \A c, d \in ckpts : c.mtime = d.mtime => c = d
    /\ attempt.at <= clock
    /\ attempt.mode = "plain" /\ local[Main].from # 0 =>
           \A c \in Regular(ckpts) : c.mtime <= local[Main].from \/ c.mtime > attempt.at

Running == (Collectives \ {"select"}) \union {"close"}

\* The files of the directory have one origin, that of the attempt under way;
\* both configuration files are there once training began.
Origins ==
    /\ config.model \in {0, config.run}
    /\ \A c \in ckpts : c.origin = config.run
    /\ ckpts # {} => config.run # 0 /\ config.model = config.run
    /\ config.report # NoReport => config.run # 0 /\ config.report.origin = config.run
    /\ local[Main].pc = "select" => attempt.n > 0 /\ work = "todo"
    /\ local[Main].pc = "select" /\ entered[Main] /\ ~flag[Main] /\ local[Main].from = 0 => ~Established
    /\ local[Main].pc \in Running => attempt.origin # 0 /\ config.run \in {0, attempt.origin}
    /\ local[Main].pc = "configure" /\ work = "ok" => config.run # 0 /\ config.model = config.run
    /\ local[Main].pc \in Running \ {"configure"} => config.run # 0 /\ config.model = config.run

\* One pass over the stream, none of it from ahead of the stream; before the
\* first step nothing was read.
OnePass(trained, step, read, givenUp) ==
    /\ TrainedOn(trained, step, read, givenUp)
    /\ \A i \in 1..Len(trained) : trained[i] <= read
    /\ step = 0 => read = 0

RankData(r) ==
    local[r].pc \in Collectives \ {"select"} =>
        OnePass(local[r].trained, local[r].step, stream,
                skipped \union IF local[r].saving = "failed" THEN {stream} ELSE {})

FileData(c) ==
    OnePass(c.trained, c.step, c.stream, skipped \union IF c.failed THEN {c.stream} ELSE {})

Data ==
    /\ \A r \in Rank : RankData(r)
    /\ \A c \in ckpts : FileData(c)
    /\ \A r \in Rank : local[r].pc = "select" => stream = 0

\* The checkpoint the next plain resume takes is the state in memory.
OnDisk ==
    /\ FindLatest(ckpts) # 0
    /\ LET c == FileOf(FindLatest(ckpts)) IN
       /\ c.step = local[Main].step
       /\ c.trained = local[Main].trained
       /\ c.stream = stream
       /\ \A r \in Rank : local[r].pc # "dead" => c.rng[r] = local[r].rng

\* What is gathered is the generators' state; what is published, or still
\* fresh, and what a stopped run ends with, is on disk.
Saves ==
    /\ local[Main].pc = "publish" =>
           \A r \in Rank : local[r].pc # "dead" => gathered[r] = local[r].rng
    /\ local[Main].fresh => OnDisk
    /\ local[Main].pc \in {"close", "closed"} /\ local[Main].requested => OnDisk
    /\ local[Main].pc = "publish" /\ work = "ok" /\ local[Main].saving # "failed" => OnDisk

\* The interval of saves has no multiple in from + 1 .. to.
NoSaveDue(from, to) == \A k \in 1..TotalSteps : from < k /\ k <= to => k % SaveInterval # 0

\* The places between a step and the save that may be due after it.
Unsaved == {"after step", "evaluate", "after validation", "gather", "publish"}

\* A save of the attempt is the checkpoint that the next plain resume takes.
SavedIsLatest ==
    attempt.durable > attempt.base =>
        FindLatest(ckpts) # 0 /\ FileOf(FindLatest(ckpts)).step = attempt.durable

\* No step at which a save was due lies behind what is durable, except the
\* last one while its save is still to come.
Recent ==
    /\ local[Main].pc = "select" => attempt.durable = attempt.base
    /\ SaveInterval > 0 /\ local[Main].pc \in Collectives \ {"select"} =>
        /\ \A k \in 1..TotalSteps :
               attempt.durable < k /\ k < local[Main].step => k % SaveInterval # 0
        /\ local[Main].pc \notin Unsaved => NoSaveDue(attempt.durable, local[Main].step)
        /\ local[Main].pc = "publish" /\ work = "ok" /\ local[Main].saving # "failed" =>
               attempt.durable = local[Main].step
        /\ SavedIsLatest

\* A step that a request overlapped is the last one: the poll after it sees
\* the request, and from there the ranks only save and close.
Late ==
    /\ attempt.late <= 1
    /\ attempt.late = 1 => \A r \in Rank :
        \/ local[r].pc \in Ended \union {"close"}
        \/ local[r].pc \in {"gather", "publish"} /\ local[r].saving = "final"
        \/ /\ local[r].pc = "after step"
           /\ \E s \in Rank : sig[s] /\ (entered[s] => flag[s])

\* Among SaveInterval consecutive steps one is a multiple of the interval.
LEMMA MultipleLemma ==
    ASSUME NEW a \in Nat, NEW d \in Nat \ {0}
    PROVE  \E k \in Nat : a < k /\ k <= a + d /\ k % d = 0
<1>1. a % d \in 0..(d - 1) /\ a = d * (a \div d) + (a % d) /\ a \div d \in Nat OBVIOUS
<1> DEFINE k == d * ((a \div d) + 1)
<1>3. k % d = 0 BY <1>1
<1> QED BY <1>1, <1>3

\* Where the loop's control flow leads a rank from l, between two collectives:
\* only its place, the reason of a save and the freshness change.
Kept(l, m) ==
    /\ m \in LocalType
    /\ m.step = l.step /\ m.trained = l.trained /\ m.rng = l.rng
    /\ m.from = l.from /\ m.requested = l.requested

\* With a stop request the loop saves what is not on disk yet, and closes.
Finishes(l, m) ==
    \/ m.pc = "gather" /\ m.saving = "final" /\ l.requested /\ ~l.fresh /\ ~m.fresh
    \/ m.pc = "close" /\ m.saving = l.saving /\ m.fresh = l.fresh /\ (l.requested => l.fresh)

\* Without one it goes on, to inference or the next step, or to the export.
Continues(l, m) ==
    /\ m.saving = l.saving
    /\ m.fresh => l.fresh
    /\ ~l.requested
    /\ \/ m.pc = "before export" /\ l.step = TotalSteps
       \/ m.pc = "before step"
       \/ m.pc \in {"samples", "benchmarks"} /\ ~m.fresh

SavesDue(l, m) ==
    m.pc = "gather" /\ m.saving = "due" /\ m.fresh = l.fresh /\ ~l.requested

LEMMA SaveAndCloseLeads ==
    ASSUME NEW l \in LocalType
    PROVE  Kept(l, SaveAndClose(l)) /\ Finishes(l, SaveAndClose(l))
<1>1. CASE l.requested /\ ~l.fresh BY <1>1 DEF SaveAndClose, Save, LocalType, Kept, Finishes
<1>2. CASE ~(l.requested /\ ~l.fresh) BY <1>2 DEF SaveAndClose, Goto, LocalType, Kept, Finishes
<1> QED BY <1>1, <1>2

\* The head of the loop.
LEMMA LoopHeadLeads ==
    ASSUME NEW l \in LocalType
    PROVE  /\ Kept(l, LoopHead(l))
           /\ IF l.requested /\ l.step >= TotalSteps THEN Finishes(l, LoopHead(l))
              ELSE ~l.requested => Continues(l, LoopHead(l))
<1>1. l.step \in 0..TotalSteps /\ TotalSteps \in Nat /\ l.requested \in BOOLEAN
  BY ScheduleAssumption DEF LocalType
<1>2. CASE l.step < TotalSteps
  <2>1. LoopHead(l) = Goto(l, "before step") /\ ~(l.step >= TotalSteps) BY <1>1, <1>2 DEF LoopHead
  <2>2. /\ Kept(l, Goto(l, "before step"))
        /\ ~l.requested => Continues(l, Goto(l, "before step"))
    BY DEF Goto, LocalType, Kept, Continues
  <2> QED BY <2>1, <2>2
<1>3. CASE l.step >= TotalSteps /\ l.requested
  <2>1. ~(l.step < TotalSteps) BY <1>1, <1>3
  <2> QED BY <1>3, SaveAndCloseLeads, <2>1 DEF LoopHead, FinishLoop
<1>4. CASE l.step >= TotalSteps /\ ~l.requested
  <2>1. l.step = TotalSteps BY <1>1, <1>4
  <2> QED BY <1>1, <1>4, <2>1 DEF LoopHead, FinishLoop, Goto, LocalType, Kept, Continues
<1> QED BY <1>1, <1>2, <1>3, <1>4

\* Optional inference, or the head of the loop.
LEMMA BenchmarksLeads ==
    ASSUME NEW l \in LocalType, ~l.requested
    PROVE  Kept(l, BenchmarksIfDue(l)) /\ Continues(l, BenchmarksIfDue(l))
<1>1. CASE l.step \in BenchmarkSteps BY <1>1 DEF BenchmarksIfDue, LocalType, Kept, Continues
<1>2. CASE l.step \notin BenchmarkSteps BY <1>2, LoopHeadLeads DEF BenchmarksIfDue
<1> QED BY <1>1, <1>2

LEMMA SamplesLeads ==
    ASSUME NEW l \in LocalType, ~l.requested
    PROVE  Kept(l, RunScheduledInference(l)) /\ Continues(l, RunScheduledInference(l))
<1>1. CASE l.step \in SampleSteps BY <1>1 DEF RunScheduledInference, LocalType, Kept, Continues
<1>2. CASE l.step \notin SampleSteps BY <1>2, BenchmarksLeads DEF RunScheduledInference
<1> QED BY <1>1, <1>2

\* After a completed step: a requested stop ends the loop; otherwise a save
\* that is due comes first.
LEMMA AfterStepLeads ==
    ASSUME NEW l \in LocalType
    PROVE  /\ Kept(l, AfterStep(l))
           /\ IF l.requested THEN Finishes(l, AfterStep(l))
              ELSE IF CheckpointDue(l.step) THEN SavesDue(l, AfterStep(l))
              ELSE Continues(l, AfterStep(l))
<1>1. CASE l.requested BY <1>1, SaveAndCloseLeads DEF AfterStep, FinishLoop
<1>2. CASE ~l.requested /\ CheckpointDue(l.step)
  BY <1>2 DEF AfterStep, SaveIfDue, Save, LocalType, Kept, SavesDue
<1>3. CASE ~l.requested /\ ~CheckpointDue(l.step)
  <2> DEFINE k == [l EXCEPT !.fresh = FALSE]
  <2>1. k \in LocalType /\ ~k.requested /\ Kept(l, k) /\ k.saving = l.saving /\ ~k.fresh
    BY <1>3 DEF LocalType, Kept
  <2>2. AfterStep(l) = RunScheduledInference(k) BY <1>3 DEF AfterStep, SaveIfDue
  <2> HIDE DEF k
  <2>3. Kept(k, AfterStep(l)) /\ Continues(k, AfterStep(l)) BY <2>1, <2>2, SamplesLeads
  <2>5. Continues(l, AfterStep(l)) BY <1>3, <2>1, <2>3 DEF Kept, Continues
  <2> QED BY <1>3, <2>5, <2>1, <2>3 DEF Kept
<1> QED BY <1>1, <1>2, <1>3

\* What every poll leads to.
Leads(place, l, m) ==
    \/ /\ l.requested \/ place = "before export"
       /\ Finishes(l, m)
    \/ Continues(l, m) /\ (place \in {"after step", "after validation"} => ~CheckpointDue(l.step))
    \/ SavesDue(l, m) /\ place \in {"after step", "after validation"}
    \/ m.pc = "step" /\ m.saving = l.saving /\ ~m.fresh /\ ~l.requested /\ place = "before step"
    \/ m.pc = "evaluate" /\ m.saving = l.saving /\ m.fresh = l.fresh /\ ~l.requested /\ place = "after step"

LEMMA AfterPollLeads ==
    ASSUME NEW l \in LocalType, NEW place \in Polls
    PROVE  Kept(l, AfterPoll(place, l)) /\ Leads(place, l, AfterPoll(place, l))
<1>1. CASE place = "before step"
  <2>1. AfterPoll(place, l) = IF l.requested THEN SaveAndClose(l) ELSE StartStep(l)
    BY <1>1 DEF AfterPoll, FinishLoop
  <2>2. ~l.requested => Kept(l, StartStep(l)) /\ Leads(place, l, StartStep(l))
    BY <1>1 DEF StartStep, LocalType, Kept, Leads
  <2> QED BY <2>1, <2>2, SaveAndCloseLeads DEF Leads
<1>2. CASE place = "after step"
  <2>1. AfterPoll(place, l) = IF ~l.requested /\ EvaluationDue(l.step) THEN Goto(l, "evaluate")
                              ELSE AfterStep(l)
    BY <1>2 DEF AfterPoll
  <2>2. ~l.requested => Kept(l, Goto(l, "evaluate")) /\ Leads(place, l, Goto(l, "evaluate"))
    BY <1>2 DEF Goto, LocalType, Kept, Leads
  <2>3. Kept(l, AfterStep(l)) /\ Leads(place, l, AfterStep(l)) BY <1>2, AfterStepLeads DEF Leads
  <2> QED BY <2>1, <2>2, <2>3
<1>3. CASE place = "after validation"
  <2>1. AfterPoll(place, l) = AfterStep(l) BY <1>3 DEF AfterPoll
  <2> QED BY <1>3, <2>1, AfterStepLeads DEF Leads
<1>4. CASE place = "after checkpoint"
  <2>1. AfterPoll(place, l) = IF l.requested THEN SaveAndClose(l) ELSE RunScheduledInference(l)
    BY <1>4 DEF AfterPoll, FinishLoop
  <2> QED BY <1>4, <2>1, SaveAndCloseLeads, SamplesLeads DEF Leads
<1>5. CASE place = "after samples"
  <2>1. AfterPoll(place, l) = IF l.requested THEN SaveAndClose(l) ELSE BenchmarksIfDue(l)
    BY <1>5 DEF AfterPoll, FinishLoop
  <2> QED BY <1>5, <2>1, SaveAndCloseLeads, BenchmarksLeads DEF Leads
<1>6. CASE place = "after benchmarks"
  <2>1. AfterPoll(place, l) = IF l.requested THEN SaveAndClose(l) ELSE LoopHead(l)
    BY <1>6 DEF AfterPoll, FinishLoop
  <2> QED BY <1>6, <2>1, SaveAndCloseLeads, LoopHeadLeads DEF Leads
<1>7. CASE place = "before export"
  <2>1. AfterPoll(place, l) = SaveAndClose(l) BY <1>7 DEF AfterPoll
  <2> QED BY <1>7, <2>1, SaveAndCloseLeads DEF Leads
<1> QED BY <1>1, <1>2, <1>3, <1>4, <1>5, <1>6, <1>7

\* What a step and a published checkpoint leave in the locals.
LEMMA StepFields ==
    ASSUME NEW l \in LocalType, stream \in Nat
    PROVE  /\ Updated(l).pc = "after step" /\ Updated(l).step = l.step + 1
           /\ Updated(l).rng = l.rng + 1
           /\ Updated(l).trained = (IF l.step > 0 THEN Append(l.trained, stream + 1) ELSE l.trained)
           /\ Updated(l).saving = l.saving /\ Updated(l).fresh = l.fresh
           /\ Updated(l).requested = l.requested /\ Updated(l).from = l.from
<1>1. DOMAIN l = {"pc", "step", "requested", "fresh", "saving", "trained", "rng", "from"} BY DEF LocalType
<1> QED BY <1>1 DEF LocalType, Updated, Advanced, Learned, Drawn, Goto

LEMMA AfterPublishFields ==
    ASSUME NEW l \in LocalType, l.pc = "publish", l.saving # "no"
    PROVE  LET m == AfterPublish(l) IN
           /\ m.step = l.step /\ m.trained = l.trained /\ m.rng = l.rng /\ m.from = l.from
           /\ m.requested = l.requested /\ m.saving = "no"
           /\ \/ l.saving = "due" /\ m.pc = "after checkpoint" /\ m.fresh
              \/ l.saving = "final" /\ m.pc = "close" /\ m.fresh = l.fresh
              \/ l.saving = "failed" /\ m.pc = "failed" /\ m.fresh = l.fresh
<1>1. l.saving \in {"due", "final", "failed"} BY DEF LocalType
<1>2. CASE l.saving = "due" BY <1>2 DEF LocalType, AfterPublish
<1>3. CASE l.saving = "final" BY <1>3 DEF LocalType, AfterPublish
<1>4. CASE l.saving = "failed" BY <1>4 DEF LocalType, AfterPublish
<1> QED BY <1>1, <1>2, <1>3, <1>4

\* Going to a place, and drawing on the way, changes nothing else.
LEMMA GotoFields ==
    ASSUME NEW l \in LocalType, NEW place, NEW m, m = Goto(l, place)
    PROVE  /\ m.pc = place /\ m.step = l.step /\ m.trained = l.trained /\ m.rng = l.rng
           /\ m.from = l.from /\ m.requested = l.requested /\ m.fresh = l.fresh
           /\ m.saving = l.saving
BY DEF LocalType, Goto

LEMMA InferredFields ==
    ASSUME NEW l \in LocalType, NEW place, NEW n \in Nat, NEW b \in BOOLEAN,
           NEW m, m = Goto(Drawn([l EXCEPT !.requested = b], n), place)
    PROVE  /\ m.pc = place /\ m.step = l.step /\ m.trained = l.trained /\ m.rng = l.rng + n
           /\ m.from = l.from /\ m.requested = b /\ m.fresh = l.fresh /\ m.saving = l.saving
BY DEF LocalType, Goto, Drawn

LEMMA TakeUpFields ==
    ASSUME NEW l \in LocalType, NEW c, NEW r, NEW m, m = TakeUp(l, c, r)
    PROVE  /\ m.pc = "configure" /\ m.step = c.step /\ m.trained = c.trained
           /\ m.rng = c.rng[r] /\ m.from = l.from /\ m.requested = l.requested
           /\ m.fresh = l.fresh /\ m.saving = l.saving
BY DEF LocalType, TakeUp, Loaded, Goto

\* A process that has not begun.
LEMMA IdleFields ==
    ASSUME NEW place
    PROVE  LET m == [Idle EXCEPT !.pc = place] IN
           /\ m.pc = place /\ m.step = 0 /\ ~m.requested /\ ~m.fresh /\ m.saving = "no"
           /\ m.trained = <<>> /\ m.rng = 0 /\ m.from = 0
BY DEF Idle

\* The locals with the request that was just reduced.
Asked(l, b) == [l EXCEPT !.requested = b]

\* A rank that polled in place and goes on with m.
Polled(place, l, b, m) ==
    /\ m \in LocalType /\ m.requested = b
    /\ m.step = l.step /\ m.trained = l.trained /\ m.rng = l.rng /\ m.from = l.from
    /\ Leads(place, Asked(l, b), m)
    /\ Asked(l, b).requested = b /\ Asked(l, b).fresh = l.fresh
    /\ Asked(l, b).step = l.step /\ Asked(l, b).saving = "no"

\* Polling keeps to the flow.
LEMMA PollFlow ==
    ASSUME NEW l \in LocalType, NEW place \in Polls, Flow(l), l.pc = place, NEW b \in BOOLEAN
    PROVE  /\ Polled(place, l, b, AfterPoll(place, Asked(l, b)))
           /\ Flow(AfterPoll(place, Asked(l, b)))
<1> DEFINE k == Asked(l, b)
           m == AfterPoll(place, k)
<1>1. /\ k \in LocalType /\ k.pc = place /\ k.step = l.step /\ k.trained = l.trained
      /\ k.rng = l.rng /\ k.from = l.from /\ k.requested = b /\ k.fresh = l.fresh
      /\ k.saving = "no"
  BY DEF LocalType, Flow, Asked
<1>2. l.fresh \in BOOLEAN BY DEF LocalType
<1>3. Kept(k, m) /\ Leads(place, k, m) BY <1>1, AfterPollLeads
<1> HIDE DEF k, m
<1>4. /\ place = "before export" => l.step = TotalSteps
      /\ place \in {"after step", "after validation"} => ~l.fresh
  BY DEF Flow, Stale
<1>5. Flow(m)
  <2>1. CASE Finishes(k, m) /\ (b \/ place = "before export")
    BY <1>1, <1>2, <1>3, <1>4, <2>1 DEF Kept, Finishes, Flow, Stale
  <2>2. CASE Continues(k, m) BY <1>1, <1>2, <1>3, <1>4, <2>2 DEF Kept, Continues, Flow, Stale
  <2>3. CASE SavesDue(k, m) /\ place \in {"after step", "after validation"}
    BY <1>1, <1>2, <1>3, <1>4, <2>3 DEF Kept, SavesDue, Flow, Stale
  <2>4. CASE m.pc = "step" /\ m.saving = k.saving /\ ~m.fresh
    BY <1>1, <1>2, <1>3, <1>4, <2>4 DEF Kept, Flow, Stale
  <2>5. CASE m.pc = "evaluate" /\ m.saving = k.saving /\ m.fresh = k.fresh /\ place = "after step"
    BY <1>1, <1>2, <1>3, <1>4, <2>5 DEF Kept, Flow, Stale
  <2> QED BY <1>1, <1>3, <2>1, <2>2, <2>3, <2>4, <2>5 DEF Leads
<1> QED BY <1>1, <1>3, <1>5 DEF Kept, Polled, k, m

\* The loop's head right after the configuration.
LEMMA ConfiguredFlow ==
    ASSUME NEW l \in LocalType, Flow(l), l.pc = "configure"
    PROVE  Kept(l, LoopHead(l)) /\ Continues(l, LoopHead(l)) /\ Flow(LoopHead(l))
<1> DEFINE m == LoopHead(l)
<1>1. ~l.fresh /\ l.saving = "no" /\ ~l.requested BY DEF Flow, Stale
<1>2. Kept(l, m) /\ Continues(l, m) BY <1>1, LoopHeadLeads
<1> HIDE DEF m
<1>3. Flow(m) BY <1>1, <1>2 DEF Kept, Continues, Flow, Stale
<1> QED BY <1>2, <1>3 DEF m

\* Moving on to the next place keeps to the flow.
LEMMA GotoFlow ==
    ASSUME NEW l \in LocalType, Flow(l)
    PROVE  /\ l.pc = "close" => Flow(Goto(l, "closed"))
           /\ l.pc = "gather" => Flow(Goto(l, "publish"))
           /\ l.pc = "evaluate" => Flow(Goto(l, "after validation"))
<1> DEFINE Moved(m) == /\ m.step = l.step /\ m.requested = l.requested
                       /\ m.fresh = l.fresh /\ m.saving = l.saving
<1>1. ASSUME NEW m, Moved(m), m.pc \in {"closed", "publish", "after validation"}
      PROVE  \/ l.pc = "close" /\ m.pc = "closed"
             \/ l.pc = "gather" /\ m.pc = "publish"
             \/ l.pc = "evaluate" /\ m.pc = "after validation"
             => Flow(m)
  BY <1>1 DEF Flow, Stale
<1>2. Goto(l, "closed").pc = "closed" /\ Moved(Goto(l, "closed")) BY DEF Goto, LocalType
<1>3. Goto(l, "publish").pc = "publish" /\ Moved(Goto(l, "publish")) BY DEF Goto, LocalType
<1>4. Goto(l, "after validation").pc = "after validation" /\ Moved(Goto(l, "after validation"))
  BY DEF Goto, LocalType
<1> HIDE DEF Moved
<1> QED BY <1>1, <1>2, <1>3, <1>4

-----------------------------------------------------------------------------
(* Every step keeps the ranks to the flow.                                 *)

\* What is known of the ranks' locals before a step.
LEMMA LocalFacts ==
    ASSUME IndInv
    PROVE  /\ local \in [Rank -> LocalType] /\ Main \in Rank
           /\ \A r \in Rank : local[r] \in LocalType
           /\ stream \in Nat /\ AnyFlag \in BOOLEAN
           /\ \A place \in Collectives : AllIn(place) => \A r \in Rank : local[r].pc = place
BY RankAssumption DEF IndInv, TypeOK, AnyFlag, AllIn

\* The locals after a collective that fails, for whatever reason.
LEMMA FailFields ==
    ASSUME IndInv, FailAll, NEW r \in Rank
    PROVE  /\ local'[r].pc = "failed" /\ local'[r].step = local[r].step
           /\ local'[r].trained = local[r].trained /\ local'[r].rng = local[r].rng
           /\ local'[r].from = local[r].from /\ local'[r].requested = local[r].requested
           /\ local'[r].fresh = local[r].fresh /\ local'[r].saving = local[r].saving
<1>2. local[r] \in LocalType BY LocalFacts
<1> QED BY <1>2, GotoFields DEF FailAll

\* Collectives that only lead to another place.
LEMMA PlacesLemma ==
    ASSUME IndInv, NEW r \in Rank
    PROVE  /\ EvaluateDone => local'[r] = Goto(local[r], "after validation")
           /\ GatherDone => local'[r] = Goto(local[r], "publish")
           /\ StepDone => local'[r] = Updated(local[r])
           /\ SelectDone => local'[r] = Restored(r)
           /\ ConfigureDone /\ ~AnyFlag => local'[r] = LoopHead(local[r])
           /\ PublishDone /\ ~AnyFlag => local'[r] = AfterPublish(local[r])
           /\ \A place \in Polls : PollDone(place) =>
                local'[r] = AfterPoll(place, Asked(local[r], AnyFlag))
BY DEF EvaluateDone, GatherDone, StepDone, SelectDone, ConfigureDone, PublishDone, PollDone, Asked

\* A step that is not finite: the rank draws, and fails or saves, whichever way
\* the attempt was launched.
LEMMA NotFiniteLemma ==
    ASSUME IndInv, NEW r \in Rank, StepNotFinite
    PROVE  LET l == local[r]
               m == local'[r]
           IN /\ m.step = l.step /\ m.rng = l.rng + 1 /\ m.trained = l.trained
              /\ m.fresh = l.fresh /\ m.requested = l.requested /\ m.from = l.from
              /\ \/ m.pc = "failed" /\ m.saving = l.saving
                 \/ m.pc = "gather" /\ m.saving = "failed" /\ l.step # 0
<1> DEFINE l == local[r]
<1>1. l \in LocalType BY LocalFacts
<1>2. PICK launched \in Supervised : local'[r] = NonFinite(l, launched) BY DEF StepNotFinite
<1> HIDE DEF l
<1>3. DOMAIN l = {"pc", "step", "requested", "fresh", "saving", "trained", "rng", "from"}
  BY <1>1 DEF LocalType
<1> QED BY <1>1, <1>2, <1>3 DEF LocalType, Drawn, NonFinite, Goto, Save, l

\* Inference draws some number of times, at most once in the model, on each rank.
LEMMA InferredLemma ==
    ASSUME IndInv, NEW place \in Inference, InferenceDone(place)
    PROVE  \E drawn \in [Rank -> {0, 1}] : \A r \in Rank :
             /\ local'[r].pc \in {"after samples", "after benchmarks"}
             /\ local'[r].step = local[r].step /\ local'[r].trained = local[r].trained
             /\ local'[r].rng = local[r].rng + drawn[r] /\ local'[r].from = local[r].from
             /\ local'[r].requested = AnyFlag /\ local'[r].fresh = local[r].fresh
             /\ local'[r].saving = local[r].saving
<1>1. PICK drawn \in [Rank -> {0, 1}] :
        local' = [r \in Rank |-> Goto(Drawn([local[r] EXCEPT !.requested = AnyFlag], drawn[r]),
                                      PollAfter(place))]
  BY DEF InferenceDone
<1>2. PollAfter(place) \in {"after samples", "after benchmarks"} BY DEF PollAfter
<1>3. ASSUME NEW r \in Rank
      PROVE  /\ local'[r].pc = PollAfter(place)
             /\ local'[r].step = local[r].step /\ local'[r].trained = local[r].trained
             /\ local'[r].rng = local[r].rng + drawn[r] /\ local'[r].from = local[r].from
             /\ local'[r].requested = AnyFlag /\ local'[r].fresh = local[r].fresh
             /\ local'[r].saving = local[r].saving
  <2>2. local[r] \in LocalType /\ AnyFlag \in BOOLEAN BY LocalFacts
  <2> QED BY <2>2, InferredFields, <1>1
<1> QED BY <1>2, <1>3

\* What every rank restores: the state a run begins with, or that of the file.
LEMMA RestoredLemma ==
    ASSUME IndInv, SelectDone, NEW r \in Rank
    PROVE  LET m == local'[r]
               c == FileOf(local[r].from)
           IN  /\ local[r].pc = "select" /\ local[r].from = ResolveResume
               /\ local[r].from = local[Main].from
               /\ m.pc = "configure" /\ m.from = local[r].from /\ m.requested = local[r].requested
               /\ m.fresh = local[r].fresh /\ m.saving = local[r].saving
               /\ IF local[r].from = 0
                  THEN m.step = local[r].step /\ m.trained = local[r].trained /\ m.rng = local[r].rng
                  ELSE /\ c \in ckpts /\ c \in CheckpointType /\ c.mtime = local[r].from
                       /\ m.step = c.step /\ m.trained = c.trained /\ m.rng = c.rng[r]
<1>1. \A s \in Rank : local[s].pc = "select" /\ local[s].from = ResolveResume
  BY DEF SelectDone, AllIn, IndInv, SelectionAgrees
<1>2. local'[r] = Restored(r) /\ local[r] \in LocalType /\ Main \in Rank BY PlacesLemma, LocalFacts
<1>3. CASE local[r].from = 0 BY <1>2, <1>3, <1>1, GotoFields DEF Restored
<1>4. CASE local[r].from # 0 BY <1>1, <1>4, SelectedLemma, <1>2, TakeUpFields DEF Restored
<1> QED BY <1>3, <1>4

\* Every action keeps each rank to the flow.
LEMMA FlowsLemma ==
    ASSUME IndInv, Flows, Next
    PROVE  Flows'
<1> SUFFICES ASSUME NEW r \in Rank
             PROVE  Flow(local'[r])
  BY DEF Flows
<1>1. /\ local \in [Rank -> LocalType] /\ local[r] \in LocalType /\ Flow(local[r])
      /\ stream \in Nat /\ AnyFlag \in BOOLEAN
  BY LocalFacts DEF Flows
<1>2. CASE local'[r] = local[r] BY <1>1, <1>2
<1>3. ASSUME NEW place \in {"select", "dead"}, local'[r] = [Idle EXCEPT !.pc = place]
      PROVE  Flow(local'[r])
  <2>1. /\ local'[r].pc = place /\ local'[r].step = 0 /\ ~local'[r].requested
        /\ ~local'[r].fresh /\ local'[r].saving = "no"
        /\ local'[r].trained = <<>> /\ local'[r].rng = 0
    BY <1>3, IdleFields
  <2> QED BY <1>3, <2>1 DEF Flow, Stale, Collectives
<1>4. CASE FailAll BY <1>1, <1>4, FailFields DEF Flow, Stale
<1>5. CASE Start BY <1>3, <1>5 DEF Start, Launch
<1>6. ASSUME NEW s \in Rank, RankStep(s) \/ Signal(s) \/ Die(s)
      PROVE  Flow(local'[r])
  <2>1. CASE SelectResume(s)
    <3>1. \/ local'[r] = local[r]
          \/ local'[r] = [local[r] EXCEPT !.from = ResolveResume]
      BY <1>1, <2>1 DEF SelectResume
    <3> QED BY <1>1, <3>1 DEF Flow, LocalType
  <2>2. CASE Close(s)
    <3>2. local[r].pc = "close" => Flow(Goto(local[r], "closed")) BY <1>1, GotoFlow
    <3> QED BY <1>1, <3>2, <2>2 DEF Close, Goto
  <2>3. CASE Die(s) BY <1>1, <1>3, <2>3 DEF Die
  <2> QED BY <1>2, <1>6, <2>1, <2>2, <2>3 DEF RankStep, Enter, Signal
<1>7. CASE CollectiveDone
  <2>1. CASE SelectDone BY <1>1, <2>1, RestoredLemma DEF Flow, Stale
  <2>2. CASE ConfigureDone
    <3>1. local[r].pc = "configure" BY <2>2, LocalFacts DEF ConfigureDone
    <3>2. ~AnyFlag => local'[r] = LoopHead(local[r]) BY <2>2, PlacesLemma
    <3> QED BY <1>1, <1>4, <2>2, <3>1, <3>2, ConfiguredFlow DEF ConfigureDone
  <2>3. ASSUME NEW place \in Polls, PollDone(place) PROVE Flow(local'[r])
    <3>1. local[r].pc = place BY <2>3, LocalFacts DEF PollDone
    <3>2. local'[r] = AfterPoll(place, Asked(local[r], AnyFlag)) BY <2>3, PlacesLemma
    <3>3. Flow(AfterPoll(place, Asked(local[r], AnyFlag))) BY <1>1, <3>1, PollFlow
    <3> QED BY <3>2, <3>3
  <2>4. CASE StepDone \/ StepNotFinite
    <3>1. local[r].pc = "step" BY <2>4, LocalFacts DEF StepDone, StepNotFinite
    <3>2. CASE StepDone BY <1>1, <3>1, <3>2, PlacesLemma, StepFields DEF Flow, Stale
    <3>3. CASE StepNotFinite BY <1>1, <3>1, <3>3, NotFiniteLemma DEF Flow, Stale
    <3> QED BY <2>4, <3>2, <3>3
  <2>5. CASE EvaluateDone
    <3>1. local[r].pc = "evaluate" BY <2>5, LocalFacts DEF EvaluateDone
    <3>2. local'[r] = Goto(local[r], "after validation") BY <2>5, PlacesLemma
    <3> QED BY <1>1, <3>1, <3>2, GotoFlow
  <2>6. ASSUME NEW place \in Inference, InferenceDone(place) PROVE Flow(local'[r])
    <3>1. local[r].pc = place BY <2>6, LocalFacts DEF InferenceDone
    <3> QED BY <1>1, <2>6, <3>1, InferredLemma DEF Flow, Stale
  <2>7. CASE GatherDone
    <3>1. local[r].pc = "gather" BY <2>7, LocalFacts DEF GatherDone
    <3>2. local'[r] = Goto(local[r], "publish") BY <2>7, PlacesLemma
    <3> QED BY <1>1, <3>1, <3>2, GotoFlow
  <2>8. CASE PublishDone
    <3>1. local[r].pc = "publish" BY <2>8, LocalFacts DEF PublishDone
    <3>2. local[r].saving # "no" BY <1>1, <3>1 DEF Flow
    <3>3. ~AnyFlag => local'[r] = AfterPublish(local[r]) BY <2>8, PlacesLemma
    <3>4. Flow(AfterPublish(local[r])) BY <1>1, <3>1, <3>2, AfterPublishFields DEF Flow, Stale
    <3> QED BY <1>4, <2>8, <3>3, <3>4 DEF PublishDone
  <2> QED BY <1>4, <1>7, <2>1, <2>2, <2>3, <2>4, <2>5, <2>6, <2>7, <2>8
          DEF CollectiveDone, SelectRefused, InferenceFails
<1>8. CASE MainWork
  BY <1>2, <1>8 DEF MainWork, PublishRunConfig, PublishModelConfig, FinishConfiguration,
      PublishCheckpoint, WriteCheckpoint, MainWorkFails, Publishing
<1>9. CASE LauncherKill \/ Done BY <1>2, <1>3, <1>9 DEF LauncherKill, Done, vars
<1> QED BY <1>5, <1>6, <1>7, <1>8, <1>9 DEF Next

-----------------------------------------------------------------------------
(* What an attempt keeps, and the main rank's votes.                       *)

\* The steps that leave the files, the clock and the attempt alone.
LEMMA QuietLemma ==
    ASSUME NEW r \in Rank, RankStep(r) \/ Signal(r) \/ Die(r) \/ LauncherKill \/ Done
    PROVE  UNCHANGED <<stream, gathered, work, ckpts, attempt, cut, skipped, clock>>
BY DEF RankStep, SelectResume, Enter, Close, Signal, Die, LauncherKill, Done, vars

LEMMA CollectiveFrame ==
    ASSUME CollectiveDone
    PROVE  UNCHANGED <<ckpts, config, cut, clock>> /\ Leave /\ work' \in {work, "todo"}
BY DEF CollectiveDone, SelectDone, SelectRefused, ConfigureDone, PollDone, StepDone,
       StepNotFinite, EvaluateDone, InferenceDone, InferenceFails, GatherDone, PublishDone

LEMMA MainWorkFrame ==
    ASSUME MainWork
    PROVE  /\ UNCHANGED <<local, entered, flag, sig, stream, gathered, skipped>>
           /\ ~entered[Main] /\ work = "todo"
           /\ local[Main].pc = "publish" \/ UNCHANGED <<ckpts, attempt, clock>>
           /\ local[Main].pc = "configure" \/ UNCHANGED <<config, cut>>
           /\ local[Main].pc \in {"configure", "publish"}
BY DEF MainWork, PublishRunConfig, PublishModelConfig, FinishConfiguration,
       PublishCheckpoint, WriteCheckpoint, MainWorkFails, Publishing

\* How an attempt was started stays; where it began is settled by the
\* selection.
LEMMA AttemptFrame ==
    ASSUME IndInv, NEW r \in Rank,
           \/ RankStep(r) \/ Signal(r) \/ Die(r)
           \/ CollectiveDone \/ MainWork \/ LauncherKill \/ Done
    PROVE  /\ attempt'.n = attempt.n /\ attempt'.mode = attempt.mode
           /\ attempt'.path = attempt.path /\ attempt'.at = attempt.at
           /\ ~SelectDone => attempt'.origin = attempt.origin /\ attempt'.base = attempt.base
           /\ ~SelectDone /\ ~PublishCheckpoint => attempt'.durable = attempt.durable
           /\ ~StepDone => attempt'.late = attempt.late
<1>1. attempt \in AttemptType BY DEF IndInv, TypeOK
<1>2. CASE attempt' = attempt BY <1>2
<1>3. CASE SelectDone BY <1>1, <1>3 DEF SelectDone, AttemptType, StepDone, AllIn
<1>4. CASE StepDone BY <1>1, <1>4 DEF StepDone, AttemptType
<1>5. CASE PublishCheckpoint BY <1>1, <1>5 DEF PublishCheckpoint, WriteCheckpoint, AttemptType
<1>6. CASE CollectiveDone
  BY <1>2, <1>3, <1>4, <1>6 DEF CollectiveDone, SelectRefused, ConfigureDone, PollDone,
     StepNotFinite, EvaluateDone, InferenceDone, InferenceFails, GatherDone, PublishDone
<1>7. CASE MainWork
  BY <1>2, <1>5, <1>7 DEF MainWork, PublishRunConfig, PublishModelConfig, FinishConfiguration,
     MainWorkFails
<1> QED BY <1>2, <1>6, <1>7, QuietLemma

\* No rank changes its selection within an attempt, and none that is on its
\* way returns to it.
LEMMA CollectiveKeeps ==
    ASSUME IndInv, Flows, CollectiveDone, NEW r \in Rank
    PROVE  /\ local'[r].from = local[r].from /\ local'[r].pc # "select"
           /\ local[r].pc \in Collectives
           /\ local[r].pc = "select" => local'[r].pc \in {"configure", "failed"}
           /\ local'[r].pc = "configure" => SelectDone
<1>1. local[r] \in LocalType /\ Flow(local[r]) /\ AnyFlag \in BOOLEAN /\ stream \in Nat
  BY LocalFacts DEF Flows
<1>2. ASSUME NEW place \in Collectives, AllIn(place) PROVE local[r].pc = place BY <1>2, LocalFacts
<1>3. CASE FailAll
  <2>1. \E place \in Collectives : AllIn(place)
    BY DEF CollectiveDone, SelectDone, SelectRefused, ConfigureDone, PollDone, StepDone,
       StepNotFinite, EvaluateDone, InferenceDone, InferenceFails, GatherDone, PublishDone
  <2> QED BY <1>2, <1>3, <2>1, FailFields
<1>4. CASE SelectDone BY <1>1, <1>4, RestoredLemma
<1>5. CASE ConfigureDone /\ ~AnyFlag
  <2>1. local[r].pc = "configure" /\ local'[r] = LoopHead(local[r])
    BY <1>2, <1>5, PlacesLemma DEF ConfigureDone
  <2>2. Kept(local[r], local'[r]) /\ Continues(local[r], local'[r]) BY <1>1, <2>1, ConfiguredFlow
  <2> QED BY <2>1, <2>2 DEF Kept, Continues
<1>6. ASSUME NEW place \in Polls, PollDone(place)
      PROVE  /\ local'[r].from = local[r].from /\ local'[r].pc \notin {"select", "configure"}
             /\ local[r].pc = place
  <2>1. local[r].pc = place BY <1>2, <1>6 DEF PollDone
  <2>2. local'[r] = AfterPoll(place, Asked(local[r], AnyFlag)) BY <1>6, PlacesLemma
  <2>3. Polled(place, local[r], AnyFlag, local'[r]) BY <1>1, <2>1, <2>2, PollFlow, Zenon
  <2> QED BY <2>1, <2>3 DEF Polled, Leads, Finishes, Continues, SavesDue
<1>7. CASE StepDone \/ StepNotFinite
  <2>1. local[r].pc = "step" BY <1>2, <1>7 DEF StepDone, StepNotFinite
  <2>2. CASE StepDone
    <3>1. Updated(local[r]).pc = "after step" /\ Updated(local[r]).from = local[r].from BY <1>1, StepFields
    <3> QED BY <2>1, <2>2, <3>1, PlacesLemma
  <2>3. CASE StepNotFinite
    <3>1. local'[r].pc \in {"failed", "gather"} /\ local'[r].from = local[r].from BY <2>3, NotFiniteLemma
    <3> QED BY <2>1, <3>1
  <2> QED BY <1>7, <2>2, <2>3
<1>8. CASE EvaluateDone
  <2>1. local[r].pc = "evaluate" BY <1>2, <1>8 DEF EvaluateDone
  <2>2. local'[r] = Goto(local[r], "after validation") BY <1>8, PlacesLemma
  <2> QED BY <1>1, <2>1, <2>2 DEF Goto, LocalType
<1>9. ASSUME NEW place \in Inference, InferenceDone(place)
      PROVE  /\ local'[r].from = local[r].from /\ local'[r].pc \notin {"select", "configure"}
             /\ local[r].pc = place
  <2>1. local[r].pc = place BY <1>2, <1>9 DEF InferenceDone
  <2> QED BY <1>9, <2>1, InferredLemma
<1>10. CASE GatherDone
  <2>1. local[r].pc = "gather" /\ local'[r] = Goto(local[r], "publish")
    BY <1>2, <1>10, PlacesLemma DEF GatherDone
  <2> QED BY <1>1, <2>1, GotoFields
<1>11. CASE PublishDone /\ ~AnyFlag
  <2>1. local[r].pc = "publish" /\ local'[r] = AfterPublish(local[r])
    BY <1>2, <1>11, PlacesLemma DEF PublishDone
  <2>2. local[r].saving # "no" BY <1>1, <2>1 DEF Flow
  <2> QED BY <1>1, <2>1, <2>2, AfterPublishFields
<1> QED BY <1>3, <1>4, <1>5, <1>6, <1>7, <1>8, <1>9, <1>10, <1>11
        DEF CollectiveDone, SelectRefused, ConfigureDone, InferenceFails, PublishDone

\* The main rank enters the vote on its work only with the outcome.
LEMMA VotesLemma ==
    ASSUME IndInv, Votes, Next
    PROVE  Votes'
<1>1. /\ local \in [Rank -> LocalType] /\ Main \in Rank
      /\ entered \in [Rank -> BOOLEAN] /\ flag \in [Rank -> BOOLEAN]
  BY RankAssumption DEF IndInv, TypeOK
<1>2. CASE entered'[Main] = FALSE BY <1>2 DEF Votes
<1>3. CASE Start BY <1>1, <1>2, <1>3 DEF Start, Launch
<1>4. ASSUME NEW r \in Rank, RankStep(r) \/ Signal(r) \/ Die(r)
      PROVE  Votes'
  <2>1. work' = work BY <1>4, QuietLemma
  <2>2. CASE r # Main
    <3>1. /\ entered'[Main] = entered[Main] /\ flag'[Main] = flag[Main]
          /\ local'[Main] = local[Main]
      BY <1>1, <1>4, <2>2 DEF RankStep, SelectResume, Enter, Close, Signal, Die
    <3> QED BY <2>1, <3>1 DEF Votes
  <2>3. CASE r = Main /\ SelectResume(r)
    <3>1. local'[Main].pc = "select" BY <1>1, <2>3 DEF SelectResume, LocalType
    <3> QED BY <3>1 DEF Votes
  <2>4. CASE r = Main /\ Enter(r)
    <3>1. local' = local /\ Ready(Main) /\ flag'[Main] = Contribution(Main) BY <1>1, <2>4 DEF Enter
    <3> QED BY <2>1, <3>1 DEF Votes, Ready, Contribution
  <2>5. CASE r = Main /\ Close(r)
    <3>1. local'[Main].pc = "closed" BY <1>1, <2>5 DEF Close, LocalType
    <3> QED BY <3>1 DEF Votes
  <2>6. CASE r = Main /\ (Signal(r) \/ Die(r)) BY <1>1, <1>2, <2>1, <2>6 DEF Votes, Signal, Die
  <2> QED BY <1>4, <2>2, <2>3, <2>4, <2>5, <2>6 DEF RankStep
<1>5. CASE CollectiveDone BY <1>1, <1>2, <1>5, CollectiveFrame DEF Leave
<1>6. CASE MainWork BY <1>2, <1>6, <1>1, MainWorkFrame
<1>7. CASE LauncherKill BY <1>1, <1>2, <1>7 DEF LauncherKill
<1>8. CASE Done BY <1>8 DEF Done, vars, Votes
<1> QED BY <1>3, <1>4, <1>5, <1>6, <1>7, <1>8 DEF Next

-----------------------------------------------------------------------------
(* File times.                                                             *)

\* The checkpoint the main rank publishes, and the files it leaves.
LEMMA PublishedFacts ==
    ASSUME IndInv, NEW outcome \in {"ok", "error"}, WriteCheckpoint(outcome),
           NEW c, c = Snapshot(local[Main])
    PROVE  /\ c \in CheckpointType
           /\ c.step = local[Main].step /\ c.failed = (local[Main].saving = "failed")
           /\ c.trained = local[Main].trained /\ c.stream = stream /\ c.rng = gathered
           /\ c.mtime = clock + 1 /\ c.origin = attempt.origin
           /\ ckpts' = {d \in ckpts : d.step # c.step \/ d.failed # c.failed} \union {c}
           /\ clock' = clock + 1 /\ work' = outcome /\ local[Main].pc = "publish"
           /\ attempt' = IF c.failed THEN attempt ELSE [attempt EXCEPT !.durable = c.step]
           /\ UNCHANGED <<local, stream, gathered, config, cut, skipped>>
<1>1. local[Main].step \in 0..TotalSteps
  <2>1. local[Main] \in LocalType BY LocalFacts
  <2> QED BY <2>1 DEF LocalType
<1>2. c \in CheckpointType BY <1>1, SnapshotLemma DEF IndInv
<1>4. /\ clock' = clock + 1 /\ work' = outcome /\ local[Main].pc = "publish"
      /\ UNCHANGED <<local, stream, gathered, config, cut, skipped>>
  BY DEF WriteCheckpoint, Publishing
<1> QED BY <1>2, <1>4 DEF Snapshot, WriteCheckpoint

\* What a plain resume takes is the newest of the regular checkpoints.
LEMMA LatestLemma ==
    ASSUME IndInv, Times, Regular(ckpts) # {}
    PROVE  /\ FindLatest(ckpts) # 0
           /\ FileOf(FindLatest(ckpts)) \in Regular(ckpts)
           /\ FileOf(FindLatest(ckpts)).mtime = FindLatest(ckpts)
           /\ \A d \in Regular(ckpts) : d.mtime <= FindLatest(ckpts)
<1>1. PICK c \in Regular(ckpts) :
        FindLatest(ckpts) = c.mtime /\ \A d \in Regular(ckpts) : d.mtime <= c.mtime
  <2>1. \E c \in Regular(ckpts) : \A d \in Regular(ckpts) : d.mtime <= c.mtime BY DEF IndInv, NewestExists
  <2> QED BY <2>1 DEF FindLatest
<1> QED BY <1>1 DEF Times, FileOf, Regular

\* Only a regular checkpoint changes which one that is.
LEMMA SameLatestLemma ==
    ASSUME IndInv, Times, IndInv', Times', Regular(ckpts') = Regular(ckpts)
    PROVE  /\ FindLatest(ckpts)' = FindLatest(ckpts)
           /\ FindLatest(ckpts) # 0 => FileOf(FindLatest(ckpts))' = FileOf(FindLatest(ckpts))
<1>1. FindLatest(ckpts)' = FindLatest(ckpts) BY DEF FindLatest
<1>2. ASSUME FindLatest(ckpts) # 0
      PROVE  FileOf(FindLatest(ckpts))' = FileOf(FindLatest(ckpts))
  BY <1>2, LatestLemma, <1>1 DEF FindLatest, Regular, Times, FileOf
<1> QED BY <1>1, <1>2

LEMMA TimesLemma ==
    ASSUME IndInv, Flows, Times, Next
    PROVE  Times'
<1>1. /\ local \in [Rank -> LocalType] /\ Main \in Rank /\ clock \in Nat /\ attempt.at \in Nat
      /\ ckpts \subseteq CheckpointType /\ attempt.mode \in {"fresh", "plain", "explicit"}
      /\ \A c \in ckpts : c.mtime \in Nat
  BY RankAssumption DEF IndInv, TypeOK, AttemptType, CheckpointType
<1>2. ASSUME ckpts' = ckpts, clock' = clock, attempt'.at = attempt.at,
             attempt'.mode = attempt.mode,
             local'[Main].from = local[Main].from \/ local'[Main].from = 0
      PROVE  Times'
  BY <1>2, SMTT(30) DEF Times, Regular
<1>3. CASE Start
  <2>1. /\ ckpts' = ckpts /\ clock' = clock /\ attempt'.at = clock
        /\ local'[Main] = [Idle EXCEPT !.pc = "select"]
    BY <1>1, <1>3, SMTT(30) DEF Start, Launch
  <2> QED BY <1>1, <2>1, IdleFields DEF Times
<1>4. ASSUME NEW r \in Rank, RankStep(r) \/ Signal(r) \/ Die(r)
      PROVE  Times'
  <2>1. UNCHANGED <<ckpts, clock, attempt>> BY <1>4, QuietLemma
  <2>2. CASE SelectResume(r) /\ r = Main
    <3>1. local'[Main].from = ResolveResume BY <1>1, <2>2 DEF SelectResume, LocalType
    <3>2. ASSUME attempt.mode = "plain", ResolveResume # 0, NEW c \in Regular(ckpts)
          PROVE  c.mtime <= ResolveResume
      BY <3>2, LatestLemma DEF ResolveResume
    <3> QED BY <2>1, <3>1, <3>2 DEF Times
  <2>3. CASE SelectResume(r) /\ r # Main BY <1>1, <2>3, <1>2, <2>1 DEF SelectResume
  <2>4. CASE Enter(r) \/ Close(r) \/ Signal(r)
    <3>1. local' = local \/ local' = [local EXCEPT ![r].pc = "closed"] BY <2>4 DEF Enter, Close, Signal
    <3>2. local[Main] \in LocalType /\ local[r] \in LocalType BY <1>1
    <3>3. local'[Main] = local[Main] \/ local'[Main] = [local[Main] EXCEPT !.pc = "closed"] BY <1>1, <3>1
    <3>4. local'[Main].from = local[Main].from BY <3>2, <3>3 DEF LocalType
    <3> QED BY <1>2, <2>1, <3>4
  <2>5. CASE Die(r) BY <1>1, <2>5, <1>2, <2>1 DEF Die, Idle
  <2> QED BY <1>4, <2>2, <2>3, <2>4, <2>5 DEF RankStep
<1>5. CASE CollectiveDone
  <2>3. local'[Main].from = local[Main].from BY <1>1, <1>5, CollectiveKeeps
  <2> QED BY <1>2, <2>3, <1>5, CollectiveFrame, <1>1, AttemptFrame
<1>6. CASE MainWork
  <2>1. local' = local /\ attempt'.at = attempt.at /\ attempt'.mode = attempt.mode
    BY <1>1, <1>6, MainWorkFrame, AttemptFrame
  <2>2. CASE UNCHANGED <<ckpts, clock>> BY <1>2, <2>1, <2>2
  <2>3. CASE PublishCheckpoint BY <2>3, PublishedFacts, <1>1, <2>1 DEF PublishCheckpoint, Times, Regular
  <2> QED BY <1>6, <2>2, <2>3 DEF MainWork, PublishRunConfig, PublishModelConfig, FinishConfiguration,
          MainWorkFails
<1>7. CASE LauncherKill BY <1>1, <1>7, QuietLemma, <1>2 DEF LauncherKill, Idle
<1>8. CASE Done BY <1>2, <1>8 DEF Done, vars
<1> QED BY <1>3, <1>4, <1>5, <1>6, <1>7, <1>8 DEF Next

-----------------------------------------------------------------------------
(* One run per directory.                                                  *)

\* The files of one origin, whatever the ranks do.
FilesOrigin ==
    /\ config.model \in {0, config.run}
    /\ \A c \in ckpts : c.origin = config.run
    /\ ckpts # {} => config.run # 0 /\ config.model = config.run
    /\ config.report # NoReport => config.run # 0 /\ config.report.origin = config.run

LEMMA OriginsSplit ==
    Origins <=>
        /\ FilesOrigin
        /\ local[Main].pc = "select" => attempt.n > 0 /\ work = "todo"
        /\ local[Main].pc = "select" /\ entered[Main] /\ ~flag[Main] /\ local[Main].from = 0 => ~Established
        /\ local[Main].pc \in Running => attempt.origin # 0 /\ config.run \in {0, attempt.origin}
        /\ local[Main].pc = "configure" /\ work = "ok" => config.run # 0 /\ config.model = config.run
        /\ local[Main].pc \in Running \ {"configure"} => config.run # 0 /\ config.model = config.run
BY DEF Origins, FilesOrigin

\* A rank's own steps, and the environment's.
LEMMA OriginsRankLemma ==
    ASSUME IndInv, Origins, NEW r \in Rank,
           RankStep(r) \/ Signal(r) \/ Die(r) \/ LauncherKill \/ Done
    PROVE  Origins'
<1>1. /\ local \in [Rank -> LocalType] /\ Main \in Rank /\ entered \in [Rank -> BOOLEAN]
      /\ flag \in [Rank -> BOOLEAN] /\ config \in ConfigType
      /\ UNCHANGED <<work, ckpts, attempt>>
  BY QuietLemma, RankAssumption DEF IndInv, TypeOK
<1>2. ASSUME config' = config,
             \/ local'[Main].pc \in {"closed", "dead"}
             \/ /\ local'[Main] = local[Main]
                /\ entered'[Main] => entered[Main] /\ flag'[Main] = flag[Main]
      PROVE  Origins'
  BY <1>1, <1>2 DEF Origins, Established, Running
<1>3. CASE SelectResume(r) /\ r = Main
  <2>1. /\ local'[Main].from = ResolveResume /\ local'[Main].pc = "select" /\ local[Main].pc = "select"
        /\ flag'[Main] = (ResolveResume = 0 /\ Established) /\ config' = config
    BY <1>1, <1>3 DEF SelectResume, LocalType
  <2> QED BY <1>1, <2>1 DEF Origins, Established, Running
<1>4. CASE Enter(r) /\ r = Main
  <2>1. local' = local /\ local[Main].pc # "select" /\ config' = config BY <1>4 DEF Enter
  <2> QED BY <1>1, <2>1 DEF Origins, Running
<1>5. CASE Close(r) /\ r = Main
  <2> DEFINE report == [attempt |-> attempt.n, step |-> local[r].step,
                        stopped |-> local[r].requested /\ local[r].step < TotalSteps,
                        origin |-> attempt.origin]
  <2>1. /\ local[Main].pc = "close" /\ local'[Main].pc = "closed"
        /\ config' = [config EXCEPT !.report = report]
    BY <1>1, <1>5 DEF Close, LocalType
  <2>2. report.origin = attempt.origin OBVIOUS
  <2> HIDE DEF report
  <2> QED BY <1>1, <2>1, <2>2 DEF Origins, Running, ConfigType
<1>6. CASE Die(r) /\ r = Main BY <1>1, <1>6, <1>2 DEF Die, Idle
<1>7. CASE r # Main /\ (RankStep(r) \/ Die(r))
  <2>1. /\ local'[Main] = local[Main] /\ entered'[Main] = entered[Main]
        /\ flag'[Main] = flag[Main] /\ config' = config
    BY <1>1, <1>7 DEF RankStep, SelectResume, Enter, Close, Die
  <2> QED BY <1>2, <2>1
<1>8. CASE Signal(r) \/ Done BY <1>8, <1>2 DEF Signal, Done, vars
<1>9. CASE LauncherKill BY <1>1, <1>9, <1>2 DEF LauncherKill, Idle
<1> QED BY <1>3, <1>4, <1>5, <1>6, <1>7, <1>8, <1>9 DEF RankStep

\* A collective that completes: the selection settles the origin, and the
\* configuration is written before training begins.
LEMMA OriginsCollectiveLemma ==
    ASSUME IndInv, Flows, Votes, Origins, CollectiveDone
    PROVE  Origins'
<1>1. /\ Main \in Rank /\ UNCHANGED <<config, ckpts>> /\ entered'[Main] = FALSE
      /\ work' \in {work, "todo"} /\ local'[Main].pc # "select" /\ local[Main].pc \in Collectives
      /\ local'[Main].pc = "configure" => SelectDone
  BY CollectiveFrame, CollectiveKeeps, RankAssumption DEF Leave
<1>2. FilesOrigin /\ FilesOrigin' BY <1>1, OriginsSplit DEF FilesOrigin
<1>3. CASE local'[Main].pc = "failed" BY <1>1, <1>2, <1>3 DEF Origins, FilesOrigin, Running
<1>4. CASE local[Main].pc \in Running \ {"configure"}
  <2>1. ~SelectDone BY <1>1, <1>4 DEF SelectDone, AllIn, Running
  <2>2. attempt'.origin = attempt.origin BY <1>1, <2>1, AttemptFrame
  <2> QED BY <1>1, <1>2, <1>4, <2>1, <2>2 DEF Origins, FilesOrigin
<1>5. CASE local[Main].pc = "configure" /\ local'[Main].pc # "failed"
  <2>1. ConfigureDone /\ ~AnyFlag
    <3>1. ASSUME NEW place \in Collectives, AllIn(place) PROVE place = "configure"
      BY <1>1, <1>5, <3>1 DEF AllIn
    <3>2. ConfigureDone
      BY <3>1 DEF CollectiveDone, SelectDone, SelectRefused, PollDone, StepDone, StepNotFinite,
                  EvaluateDone, InferenceDone, InferenceFails, GatherDone, PublishDone
    <3> QED BY <1>1, <1>5, <3>2, FailFields DEF ConfigureDone
  <2>2. entered[Main] /\ ~flag[Main] BY <1>1, <2>1 DEF ConfigureDone, AllIn, AnyFlag
  <2>3. work = "ok"
    <3>1. work \in {"todo", "ok", "error"} BY DEF IndInv, TypeOK
    <3> QED BY <1>5, <2>2, <3>1 DEF Votes
  <2>4. ~SelectDone BY <1>1, <1>5 DEF SelectDone, AllIn
  <2>5. attempt'.origin = attempt.origin BY <1>1, <2>4, AttemptFrame
  <2> QED BY <1>1, <1>2, <1>5, <2>3, <2>4, <2>5 DEF Origins, FilesOrigin, Running
<1>6. CASE local[Main].pc = "select" /\ local'[Main].pc # "failed"
  <2>1. SelectDone /\ ~AnyFlag
    <3>1. local'[Main].pc = "configure" BY <1>1, <1>6, CollectiveKeeps
    <3> QED BY <1>1, <3>1 DEF SelectDone
  <2>2. entered[Main] /\ ~flag[Main] /\ work' = work BY <1>1, <2>1 DEF SelectDone, AllIn, AnyFlag
  <2>3. attempt \in AttemptType BY DEF IndInv, TypeOK
  <2>4. CASE local[Main].from = 0
    <3>3. local'[Main].pc = "configure" /\ work' = "todo" BY <1>1, <1>6, <2>2, CollectiveKeeps DEF Origins
    <3>4. attempt'.origin # 0 /\ config'.run = 0
      BY <1>1, <1>6, <2>1, <2>3, <2>4, <2>2 DEF SelectDone, AttemptType, Origins, Established
    <3> QED BY <1>1, <1>2, <3>3, <3>4 DEF Origins, FilesOrigin, Running
  <2>5. CASE local[Main].from # 0
    <3> DEFINE c == FileOf(local[Main].from)
    <3>1. attempt'.origin = c.origin /\ c \in ckpts
      BY <1>1, <2>1, <2>3, <2>5, RestoredLemma DEF SelectDone, AttemptType
    <3> HIDE DEF c
    <3>2. attempt'.origin = config.run /\ config.run # 0 BY <1>2, <3>1 DEF FilesOrigin
    <3>3. local'[Main].pc = "configure" /\ work' = "todo" BY <1>1, <1>6, <2>2, CollectiveKeeps DEF Origins
    <3> QED BY <1>1, <1>2, <3>2, <3>3 DEF Origins, FilesOrigin, Running
  <2> QED BY <2>4, <2>5
<1> QED BY <1>1, <1>3, <1>4, <1>5, <1>6 DEF Running

\* The main rank's work: each file once, and never after another origin's.
LEMMA OriginsWorkLemma ==
    ASSUME IndInv, Origins, MainWork
    PROVE  Origins'
<1>1. /\ config \in ConfigType /\ attempt \in AttemptType /\ Main \in Rank
  BY RankAssumption DEF IndInv, TypeOK
<1>2. /\ UNCHANGED <<local, entered, flag>> /\ local[Main].pc \in {"configure", "publish"}
      /\ attempt'.origin = attempt.origin
  BY <1>1, MainWorkFrame, AttemptFrame DEF SelectDone, AllIn
<1>3. CASE PublishRunConfig
  <2> QED BY <1>2, <1>1, <1>3 DEF Origins, Running, PublishRunConfig, Publishing, ConfigType
<1>4. CASE PublishModelConfig
  <2> QED BY <1>2, <1>1, <1>4 DEF Origins, Running, PublishModelConfig, Publishing, ConfigType
<1>5. CASE FinishConfiguration
  <2> QED BY <1>2, <1>1, <1>5 DEF Origins, Running, FinishConfiguration, Publishing, ConfigType
<1>6. ASSUME NEW outcome \in {"ok", "error"}, WriteCheckpoint(outcome)
      PROVE  Origins'
  <2> DEFINE c == Snapshot(local[Main])
  <2>1. /\ c.origin = attempt.origin /\ config' = config /\ local[Main].pc = "publish"
        /\ \A d \in ckpts' : d \in ckpts \/ d = c
    BY <1>6, PublishedFacts
  <2> HIDE DEF c
  <2> QED BY <1>2, <2>1 DEF Origins, Running
<1>7. CASE MainWorkFails
  <2>1. UNCHANGED <<config, ckpts>> /\ work' = "error" BY <1>7 DEF MainWorkFails
  <2> QED BY <1>2, <2>1 DEF Origins, Running
<1> QED BY <1>3, <1>4, <1>5, <1>6, <1>7 DEF MainWork, PublishCheckpoint

LEMMA OriginsLemma ==
    ASSUME IndInv, Flows, Votes, Origins, Next
    PROVE  Origins'
<1>1. CASE Start
  <2>1. /\ local'[Main].pc = "select" /\ entered'[Main] = FALSE /\ work' = "todo"
        /\ attempt'.n = attempt.n + 1 /\ UNCHANGED <<config, ckpts>>
    BY <1>1, RankAssumption DEF Start, Launch, Idle
  <2>2. attempt.n \in Nat BY DEF IndInv, TypeOK, AttemptType
  <2>3. attempt'.n > 0 BY <2>1, <2>2
  <2>4. FilesOrigin' BY <2>1, OriginsSplit DEF FilesOrigin
  <2> QED BY <2>1, <2>3, <2>4 DEF Origins, FilesOrigin, Running
<1> QED BY <1>1, OriginsRankLemma, OriginsCollectiveLemma, OriginsWorkLemma, RankAssumption DEF Next

-----------------------------------------------------------------------------
(* One pass over the data.                                                 *)

LEMMA OnePassEmpty == ASSUME NEW given PROVE OnePass(<<>>, 0, 0, given)
<1> QED BY DEF OnePass, TrainedOn

\* Giving up more positions does not break it.
LEMMA OnePassMore ==
    ASSUME NEW trained, NEW step, NEW read, NEW given, NEW more, given \subseteq more,
           OnePass(trained, step, read, given)
    PROVE  OnePass(trained, step, read, more)
<1> QED BY DEF OnePass, TrainedOn

\* A step trains on the next position, the first one on none.
LEMMA OnePassStep ==
    ASSUME NEW trained \in Seq(Nat), NEW step \in Nat, NEW read \in Nat, NEW given,
           OnePass(trained, step, read, given)
    PROVE  OnePass(IF step > 0 THEN Append(trained, read + 1) ELSE trained,
                   step + 1, read + 1, given)
<1>1. /\ Len(trained) = IF step = 0 THEN 0 ELSE step - 1
      /\ \A i, j \in 1..Len(trained) : i < j => trained[i] < trained[j]
      /\ 1..read \ {trained[i] : i \in 1..Len(trained)} \subseteq {1} \union given
      /\ \A i \in 1..Len(trained) : trained[i] <= read
      /\ step = 0 => read = 0
  BY DEF OnePass, TrainedOn
<1>2. CASE step = 0 BY <1>1, <1>2 DEF OnePass, TrainedOn
<1>3. CASE step > 0
  <2> DEFINE longer == Append(trained, read + 1)
  <2>1. /\ Len(longer) = Len(trained) + 1 /\ longer[Len(trained) + 1] = read + 1
        /\ \A i \in 1..Len(trained) : longer[i] = trained[i]
        /\ Len(trained) \in Nat
        /\ \A i \in 1..Len(trained) : trained[i] \in Nat
    OBVIOUS
  <2> HIDE DEF longer
  <2>3. \A i \in 1..Len(longer) : longer[i] <= read + 1 /\ (i <= Len(trained) => longer[i] <= read)
    <3> TAKE i \in 1..Len(longer)
    <3>1. CASE i = Len(trained) + 1 BY <2>1, <3>1
    <3>2. CASE i \in 1..Len(trained) BY <1>1, <2>1, <3>2, SMTT(30)
    <3> QED BY <2>1, <3>1, <3>2, SMTT(30)
  <2>4. \A i, j \in 1..Len(longer) : i < j => longer[i] < longer[j]
    <3> SUFFICES ASSUME NEW i \in 1..Len(longer), NEW j \in 1..Len(longer), i < j
                 PROVE  longer[i] < longer[j]
      OBVIOUS
    <3>1. i \in 1..Len(trained) BY <2>1
    <3>2. CASE j = Len(trained) + 1 BY <1>1, <2>1, <3>1, <3>2, SMTT(30)
    <3>3. CASE j \in 1..Len(trained) BY <1>1, <2>1, <3>1, <3>3
    <3> QED BY <2>1, <3>2, <3>3, SMTT(30)
  <2>5. 1..(read + 1) \ {longer[i] : i \in 1..Len(longer)} \subseteq {1} \union given
    <3> SUFFICES ASSUME NEW p \in 1..(read + 1), \A i \in 1..Len(longer) : longer[i] # p
                 PROVE  p \in {1} \union given
      OBVIOUS
    <3>2. p \in 1..read BY <2>1
    <3>3. \A i \in 1..Len(trained) : trained[i] # p BY <2>1
    <3> QED BY <1>1, <3>2, <3>3
  <2>7. OnePass(longer, step + 1, read + 1, given)
    BY <2>3, <2>4, <2>5, <1>1, <1>3, <2>1 DEF OnePass, TrainedOn
  <2> QED BY <1>3, <2>7 DEF longer
<1> QED BY <1>2, <1>3

\* A step that failed read its position all the same.
LEMMA OnePassFailed ==
    ASSUME NEW trained \in Seq(Nat), NEW step \in Nat, NEW read \in Nat, NEW given,
           step > 0, OnePass(trained, step, read, given)
    PROVE  OnePass(trained, step, read + 1, given \union {read + 1})
<1>3. step # 0 OBVIOUS
<1> QED BY <1>3 DEF OnePass, TrainedOn

\* What a rank's data depends on.
LEMMA SameRankData ==
    ASSUME NEW r \in Rank, RankData(r), stream' = stream, skipped' = skipped,
           \/ local'[r].pc \notin Collectives \ {"select"}
           \/ /\ local[r].pc \in Collectives \ {"select"}
              /\ local'[r].step = local[r].step /\ local'[r].trained = local[r].trained
              /\ (local'[r].saving = "failed") <=> (local[r].saving = "failed")
    PROVE  RankData(r)'
BY DEF RankData

\* Completing a collective keeps every rank's data to one pass.
LEMMA DataCollectiveLemma ==
    ASSUME IndInv, Flows, Times, Data, CollectiveDone, NEW r \in Rank
    PROVE  RankData(r)'
<1>1. /\ local[r] \in LocalType /\ Flow(local[r]) /\ stream \in Nat /\ AnyFlag \in BOOLEAN
      /\ local[r].trained \in Seq(Nat) /\ local[r].step \in Nat
  <2>1. local[r] \in LocalType BY LocalFacts
  <2>2. local[r].step \in 0..TotalSteps /\ local[r].trained \in Seq(Nat) BY <2>1 DEF LocalType
  <2>3. local[r].step \in Nat BY <2>2, ScheduleAssumption
  <2> QED BY <2>1, <2>2, <2>3, LocalFacts DEF Flows
<1>2. RankData(r) BY DEF Data
<1>3. CASE FailAll
  <2>1. local'[r].pc = "failed" BY <1>3, FailFields
  <2> QED BY <2>1 DEF RankData
<1>4. CASE SelectDone
  <2>1. /\ local[r].pc = "select" /\ local'[r].saving = "no" /\ stream = 0
        /\ local[r].step = 0 /\ local[r].trained = <<>>
        /\ local[r].from = local[Main].from /\ local[r].from = ResolveResume
    BY <1>1, <1>4, RestoredLemma DEF Flow, Data
  <2>2. local'[r].saving # "failed" BY <2>1
  <2>3. CASE local[r].from = 0
    <3>1. stream' = 0 /\ local'[r].step = 0 /\ local'[r].trained = <<>>
      BY <1>4, <2>1, <2>3, RestoredLemma DEF SelectDone
    <3> QED BY <2>2, <3>1, OnePassEmpty DEF RankData
  <2>4. CASE local[r].from # 0
    <3> DEFINE c == FileOf(local[r].from)
    <3>1. c \in ckpts /\ local'[r].step = c.step /\ local'[r].trained = c.trained BY <1>4, <2>4, RestoredLemma
    <3>2. /\ stream' = c.stream
          /\ skipped' = IF c.failed /\ attempt.mode = "explicit" THEN skipped \union {c.stream} ELSE skipped
      BY <1>4, <2>1, <2>4 DEF SelectDone
    <3>3. c.failed => attempt.mode = "explicit"
      <4>1. attempt.mode \in {"fresh", "plain", "explicit"} BY DEF IndInv, TypeOK, AttemptType
      <4>2. ASSUME attempt.mode = "plain" PROVE ~c.failed
        BY <2>1, <2>4, <4>2, LatestLemma DEF ResolveResume, FindLatest, Regular
      <4> QED BY <2>1, <2>4, <4>1, <4>2 DEF ResolveResume
    <3> HIDE DEF c
    <3>6. OnePass(c.trained, c.step, c.stream, skipped') BY OnePassMore, <3>2, <3>3, <3>1 DEF FileData, Data
    <3>7. skipped' \union (IF local'[r].saving = "failed" THEN {stream'} ELSE {}) = skipped' BY <2>2
    <3> QED BY <3>1, <3>2, <3>6, <3>7 DEF RankData
  <2> QED BY <2>3, <2>4
<1>5. CASE ConfigureDone /\ ~AnyFlag
  <2>1. local[r].pc = "configure" BY <1>5, LocalFacts DEF ConfigureDone
  <2>2. local'[r] = LoopHead(local[r]) BY <1>5, PlacesLemma
  <2>3. Kept(local[r], local'[r]) /\ Continues(local[r], local'[r]) BY <1>1, <2>1, <2>2, ConfiguredFlow
  <2>4. stream' = stream /\ skipped' = skipped BY <1>5 DEF ConfigureDone
  <2> QED BY <1>2, <2>1, <2>3, <2>4, SameRankData DEF Kept, Continues
<1>6. ASSUME NEW place \in Polls, PollDone(place)
      PROVE  RankData(r)'
  <2>1. local[r].pc = place BY <1>6, LocalFacts DEF PollDone
  <2>2. local'[r] = AfterPoll(place, Asked(local[r], AnyFlag)) BY <1>6, PlacesLemma
  <2>3. Polled(place, local[r], AnyFlag, local'[r]) BY <1>1, <2>1, <2>2, PollFlow, Zenon
  <2>4. local[r].saving = "no" /\ local'[r].saving # "failed"
    BY <1>1, <2>1, <2>3 DEF Polled, Leads, Finishes, Continues, SavesDue, Flow
  <2>5. stream' = stream /\ skipped' = skipped BY <1>6 DEF PollDone
  <2>6. local'[r].step = local[r].step /\ local'[r].trained = local[r].trained BY <2>3 DEF Polled
  <2> QED BY <1>2, <2>1, <2>4, <2>5, <2>6, SameRankData
<1>7. CASE StepDone
  <2>1. local[r].pc = "step" /\ local[r].saving = "no"
    <3>1. local[r].pc = "step" BY <1>7, LocalFacts DEF StepDone
    <3> QED BY <1>1, <3>1 DEF Flow
  <2>2. local'[r] = Updated(local[r]) /\ stream' = stream + 1 /\ skipped' = skipped
    BY <1>7, PlacesLemma DEF StepDone
  <2>3. /\ local'[r].step = local[r].step + 1 /\ local'[r].saving = "no"
        /\ local'[r].trained = IF local[r].step > 0 THEN Append(local[r].trained, stream + 1)
                               ELSE local[r].trained
    <3>1. /\ Updated(local[r]).step = local[r].step + 1
          /\ Updated(local[r]).saving = local[r].saving
          /\ Updated(local[r]).trained = IF local[r].step > 0 THEN Append(local[r].trained, stream + 1)
                                         ELSE local[r].trained
      BY <1>1, StepFields
    <3> QED BY <2>1, <2>2, <3>1
  <2>5. OnePass(local'[r].trained, local'[r].step, stream', skipped \union {})
    BY <1>1, <2>2, <2>3, OnePassStep, <1>2, <2>1 DEF RankData
  <2>6. (IF local'[r].saving = "failed" THEN {stream'} ELSE {}) = {} BY <2>3
  <2> QED BY <2>2, <2>5, <2>6 DEF RankData
<1>8. CASE StepNotFinite
  <2>1. local[r].pc = "step" /\ local[r].saving = "no"
    <3>1. local[r].pc = "step" BY <1>8, LocalFacts DEF StepNotFinite
    <3> QED BY <1>1, <3>1 DEF Flow
  <2>2. stream' = stream + 1 /\ skipped' = skipped BY <1>8 DEF StepNotFinite
  <2>3. /\ local'[r].step = local[r].step /\ local'[r].trained = local[r].trained
        /\ \/ local'[r].pc = "failed"
           \/ local'[r].pc = "gather" /\ local'[r].saving = "failed" /\ local[r].step # 0
    BY <1>8, NotFiniteLemma
  <2>4. CASE local'[r].pc = "failed" BY <2>4 DEF RankData
  <2>5. CASE local'[r].saving = "failed" /\ local[r].step # 0
    <3>3. OnePass(local[r].trained, local[r].step, stream + 1, skipped \union {stream + 1})
      BY <1>1, OnePassFailed, <2>5, <1>2, <2>1 DEF RankData
    <3> QED BY <2>2, <2>3, <2>5, <3>3 DEF RankData
  <2> QED BY <2>3, <2>4, <2>5
<1>9. CASE EvaluateDone \/ GatherDone
  <2>1. local[r].pc \in {"evaluate", "gather"} BY <1>9, LocalFacts DEF EvaluateDone, GatherDone
  <2>2. \/ local'[r] = Goto(local[r], "after validation")
        \/ local'[r] = Goto(local[r], "publish")
    BY <1>9, PlacesLemma
  <2>3. /\ local'[r].step = local[r].step /\ local'[r].trained = local[r].trained
        /\ local'[r].saving = local[r].saving
    BY <1>1, <2>2 DEF Goto, LocalType
  <2>4. stream' = stream /\ skipped' = skipped BY <1>9 DEF EvaluateDone, GatherDone
  <2> QED BY <1>2, <2>1, <2>3, <2>4, SameRankData
<1>10. ASSUME NEW place \in Inference, InferenceDone(place)
       PROVE  RankData(r)'
  <2>1. local[r].pc = place BY <1>10, LocalFacts DEF InferenceDone
  <2>2. /\ local'[r].step = local[r].step /\ local'[r].trained = local[r].trained
        /\ local'[r].saving = local[r].saving
    BY <1>10, InferredLemma
  <2>3. stream' = stream /\ skipped' = skipped BY <1>10 DEF InferenceDone
  <2> QED BY <1>2, <2>1, <2>2, <2>3, SameRankData
<1>11. CASE PublishDone /\ ~AnyFlag
  <2>1. local[r].pc = "publish" /\ local[r].saving # "no" BY <1>1, <1>11, LocalFacts DEF PublishDone, Flow
  <2>2. local'[r] = AfterPublish(local[r]) BY <1>11, PlacesLemma
  <2>3. /\ local'[r].step = local[r].step /\ local'[r].trained = local[r].trained
        /\ local'[r].saving = "no" /\ (local[r].saving = "failed" => local'[r].pc = "failed")
    BY <1>1, <2>1, <2>2, AfterPublishFields
  <2>4. stream' = stream /\ skipped' = skipped BY <1>11 DEF PublishDone
  <2> QED BY <1>2, <2>1, <2>3, <2>4, SameRankData
<1> QED BY <1>3, <1>4, <1>5, <1>6, <1>7, <1>8, <1>9, <1>10, <1>11
        DEF CollectiveDone, SelectRefused, ConfigureDone, InferenceFails, PublishDone

\* Every action keeps ranks and checkpoints to one pass over the stream.
LEMMA DataLemma ==
    ASSUME IndInv, Flows, Times, Data, Next
    PROVE  Data'
<1>1. local \in [Rank -> LocalType] /\ Main \in Rank BY LocalFacts
<1>2. ASSUME ckpts' = ckpts, skipped \subseteq skipped'
      PROVE  \A c \in ckpts' : FileData(c)'
  <2> SUFFICES ASSUME NEW c \in ckpts PROVE FileData(c)' BY <1>2
  <2>1. OnePass(c.trained, c.step, c.stream, skipped \union IF c.failed THEN {c.stream} ELSE {})
    BY DEF Data, FileData
  <2> QED BY <1>2, <2>1, OnePassMore DEF FileData
<1>3. ASSUME UNCHANGED <<ckpts, stream, skipped>>,
             \A r \in Rank : \/ local'[r].pc \notin Collectives
                             \/ /\ local'[r].pc = local[r].pc
                                /\ local'[r].step = local[r].step
                                /\ local'[r].trained = local[r].trained
                                /\ local'[r].saving = local[r].saving
      PROVE  Data'
  <2>1. ASSUME NEW r \in Rank PROVE RankData(r)' BY <1>3 DEF Data, RankData
  <2> QED BY <1>2, <1>3, <2>1 DEF Data
<1>4. CASE Start
  <2>1. \A r \in Rank : local'[r].pc = "select" BY <1>4 DEF Start, Launch, Idle
  <2>2. stream' = 0 /\ ckpts' = ckpts /\ skipped' = skipped BY <1>4 DEF Start, Launch
  <2> QED BY <1>2, <2>1, <2>2 DEF Data, RankData
<1>5. ASSUME NEW s \in Rank, RankStep(s) \/ Signal(s) \/ Die(s)
      PROVE  Data'
  <2>1. UNCHANGED <<ckpts, stream, skipped>> BY <1>5, QuietLemma
  <2>2. CASE Enter(s) \/ Signal(s) BY <1>3, <2>1, <2>2 DEF Enter, Signal
  <2>3. CASE SelectResume(s)
    <3>1. ASSUME NEW r \in Rank
          PROVE  local'[r] = local[r] \/ local'[r] = [local[r] EXCEPT !.from = ResolveResume]
      BY <1>1, <2>3 DEF SelectResume
    <3>2. ASSUME NEW r \in Rank
          PROVE  /\ local'[r].pc = local[r].pc /\ local'[r].step = local[r].step
                 /\ local'[r].trained = local[r].trained /\ local'[r].saving = local[r].saving
      <4>1. local[r] \in LocalType BY <1>1
      <4>2. LET m == [local[r] EXCEPT !.from = ResolveResume] IN
            /\ m.pc = local[r].pc /\ m.step = local[r].step
            /\ m.trained = local[r].trained /\ m.saving = local[r].saving
        BY <4>1 DEF LocalType
      <4> QED BY <3>1, <4>2
    <3> QED BY <1>3, <2>1, <3>2
  <2>4. CASE Close(s)
    <3>1. \A r \in Rank : local'[r] = local[r] \/ local'[r].pc = "closed" BY <1>1, <2>4 DEF Close, LocalType
    <3> QED BY <1>3, <2>1, <3>1
  <2>5. CASE Die(s)
    <3>1. \A r \in Rank : local'[r] = local[r] \/ local'[r].pc = "dead" BY <1>1, <2>5 DEF Die, Idle
    <3> QED BY <1>3, <2>1, <3>1
  <2> QED BY <1>5, <2>2, <2>3, <2>4, <2>5 DEF RankStep
<1>6. CASE CollectiveDone
  <2>1. \A r \in Rank : RankData(r)' /\ local'[r].pc # "select" BY <1>6, DataCollectiveLemma, CollectiveKeeps
  <2>3. skipped \subseteq skipped'
    BY <1>6 DEF CollectiveDone, SelectDone, SelectRefused, ConfigureDone, PollDone, StepDone,
       StepNotFinite, EvaluateDone, InferenceDone, InferenceFails, GatherDone, PublishDone
  <2> QED BY <1>2, <2>1, <2>3, <1>6, CollectiveFrame DEF Data
<1>7. CASE MainWork
  <2>1. UNCHANGED <<local, stream, skipped>> BY <1>7, MainWorkFrame
  <2>2. CASE ckpts' = ckpts BY <1>3, <2>1, <2>2
  <2>3. ASSUME NEW outcome \in {"ok", "error"}, WriteCheckpoint(outcome)
        PROVE  Data'
    <3> DEFINE c == Snapshot(local[Main])
    <3>1. /\ c.step = local[Main].step /\ c.failed = (local[Main].saving = "failed")
          /\ c.trained = local[Main].trained /\ c.stream = stream /\ local[Main].pc = "publish"
          /\ \A d \in ckpts' : d \in ckpts \/ d = c
      BY <2>3, PublishedFacts
    <3> HIDE DEF c
    <3>2. RankData(Main) BY <1>1 DEF Data
    <3>3. FileData(c) BY <3>1, <3>2 DEF RankData, FileData
    <3>6. \A r \in Rank : RankData(r)' BY <2>1 DEF Data, RankData
    <3> QED BY <2>1, <3>6, <3>1, <3>3 DEF Data, FileData
  <2> QED BY <1>7, <2>2, <2>3 DEF MainWork, PublishRunConfig, PublishModelConfig, FinishConfiguration,
          PublishCheckpoint, MainWorkFails
<1>8. CASE LauncherKill
  <2>1. \A r \in Rank : local'[r] = local[r] \/ local'[r].pc = "dead" BY <1>1, <1>8 DEF LauncherKill, Idle
  <2>2. UNCHANGED <<ckpts, stream, skipped>> BY <1>1, <1>8, QuietLemma
  <2> QED BY <1>3, <2>1, <2>2
<1>9. CASE Done BY <1>3, <1>9 DEF Done, vars
<1> QED BY <1>4, <1>5, <1>6, <1>7, <1>8, <1>9 DEF Next

-----------------------------------------------------------------------------
(* The state in memory that is on disk.                                    *)

\* The checkpoint on disk stays the state in memory.
LEMMA OnDiskKept ==
    ASSUME IndInv, Times, IndInv', Times', OnDisk, ckpts' = ckpts, stream' = stream,
           local'[Main].step = local[Main].step, local'[Main].trained = local[Main].trained,
           \A r \in Rank : local'[r].pc # "dead" =>
               local[r].pc # "dead" /\ local'[r].rng = local[r].rng
    PROVE  OnDisk'
<1> DEFINE c == FileOf(FindLatest(ckpts))
<1>4. /\ c.step = local[Main].step /\ c.trained = local[Main].trained /\ c.stream = stream
      /\ \A r \in Rank : local[r].pc # "dead" => c.rng[r] = local[r].rng
  BY DEF OnDisk
<1> HIDE DEF c
<1> QED BY <1>4, SameLatestLemma DEF OnDisk, c

\* A regular checkpoint, once written, is the one a plain resume takes.
LEMMA WrittenIsLatest ==
    ASSUME IndInv, Times, IndInv', Times', NEW outcome \in {"ok", "error"},
           WriteCheckpoint(outcome), local[Main].saving # "failed"
    PROVE  /\ FindLatest(ckpts)' # 0
           /\ FileOf(FindLatest(ckpts))' = Snapshot(local[Main])
<1> DEFINE c == Snapshot(local[Main])
<1>1. /\ c.mtime = clock + 1 /\ ~c.failed /\ c \in ckpts' /\ clock' = clock + 1 BY PublishedFacts
<1> HIDE DEF c
<1>2. c \in Regular(ckpts') BY <1>1 DEF Regular
<1>3. ckpts' \subseteq CheckpointType /\ clock \in Nat BY DEF IndInv, TypeOK
<1>4. \A d \in Regular(ckpts') : d.mtime \in Nat /\ d.mtime <= c.mtime
  BY <1>1, <1>3 DEF Times, Regular, CheckpointType
<1>6. PICK d \in Regular(ckpts') :
        /\ FindLatest(ckpts') = d.mtime
        /\ \A e \in Regular(ckpts') : e.mtime <= d.mtime
  BY <1>2, <1>4 DEF FindLatest
<1> QED BY <1>1, <1>3, <1>6, <1>2, <1>4 DEF FileOf, c, Times

\* Steps that keep what the ranks hold: some may have died, none is further.
LEMMA SavesKept ==
    ASSUME IndInv, Times, IndInv', Times', Saves,
           UNCHANGED <<ckpts, stream, gathered, work>>,
           \A r \in Rank : local'[r].pc # "dead" =>
               local[r].pc # "dead" /\ local'[r].rng = local[r].rng,
           \/ ~local'[Main].fresh /\ local'[Main].pc \notin {"publish", "close", "closed"}
           \/ /\ local'[Main].step = local[Main].step /\ local'[Main].trained = local[Main].trained
              /\ local'[Main].fresh = local[Main].fresh
              /\ local'[Main].requested = local[Main].requested
              /\ local'[Main].saving = local[Main].saving
              /\ \/ local'[Main].pc = local[Main].pc
                 \/ local'[Main].pc = "failed"
                 \/ local'[Main].pc = "closed" /\ local[Main].pc = "close"
    PROVE  Saves'
<1>1. CASE ~local'[Main].fresh /\ local'[Main].pc \notin {"publish", "close", "closed"} BY <1>1 DEF Saves
<1>2. CASE /\ local'[Main].step = local[Main].step /\ local'[Main].trained = local[Main].trained
           /\ local'[Main].fresh = local[Main].fresh
           /\ local'[Main].requested = local[Main].requested
           /\ local'[Main].saving = local[Main].saving
           /\ \/ local'[Main].pc = local[Main].pc
              \/ local'[Main].pc = "failed"
              \/ local'[Main].pc = "closed" /\ local[Main].pc = "close"
  BY <1>2, OnDiskKept DEF Saves
<1> QED BY <1>1, <1>2

\* A collective that completes saves, or leaves memory and disk as they were.
LEMMA SavesCollectiveLemma ==
    ASSUME IndInv, Flows, Votes, Times, Saves, IndInv', Times', CollectiveDone
    PROVE  Saves'
<1> DEFINE l == local[Main]
           m == local'[Main]
<1>1. /\ Main \in Rank /\ \A r \in Rank : local[r] \in LocalType /\ Flow(local[r])
      /\ stream \in Nat /\ AnyFlag \in BOOLEAN
  BY LocalFacts DEF Flows
<1>2. ckpts' = ckpts BY CollectiveFrame
<1>3. ASSUME ~m.fresh, m.pc \notin {"publish", "close", "closed"}
      PROVE  Saves'
  BY <1>3 DEF Saves
<1>4. \A r \in Rank : local[r].pc # "dead" BY CollectiveKeeps
<1>5. CASE FailAll /\ stream' = stream BY <1>5, FailFields, <1>1, <1>2, <1>4, OnDiskKept DEF Saves
<1>6. CASE SelectDone
  <2>1. l.pc = "select" /\ m.pc = "configure" /\ m.fresh = l.fresh BY <1>1, <1>6, RestoredLemma
  <2> QED BY <1>1, <1>3, <2>1 DEF Flow, Stale
<1>7. CASE ConfigureDone /\ ~AnyFlag
  <2>1. l.pc = "configure" /\ m = LoopHead(l) BY <1>1, <1>7, PlacesLemma, LocalFacts DEF ConfigureDone
  <2>2. Continues(l, m) /\ ~l.fresh BY <1>1, <2>1, ConfiguredFlow DEF Flow, Stale
  <2> QED BY <1>3, <2>2 DEF Continues
<1>8. ASSUME NEW place \in Polls, PollDone(place)
      PROVE  Saves'
  <2>1. ASSUME NEW r \in Rank
        PROVE  Polled(place, local[r], AnyFlag, local'[r])
    <3>1. local[r].pc = place BY <1>8, LocalFacts DEF PollDone
    <3>2. local'[r] = AfterPoll(place, Asked(local[r], AnyFlag)) BY <1>8, PlacesLemma
    <3> QED BY <1>1, <3>1, <3>2, PollFlow, Zenon
  <2>2. \A r \in Rank : local'[r].rng = local[r].rng BY <2>1 DEF Polled
  <2>3. m.step = l.step /\ m.trained = l.trained BY <1>1, <2>1 DEF Polled
  <2>4. /\ m.pc \notin {"publish", "closed"} /\ (m.fresh => l.fresh)
        /\ m.pc = "close" /\ m.requested => l.fresh
    <3>1. Polled(place, l, AnyFlag, m) BY <1>1, <2>1
    <3>2. l.fresh \in BOOLEAN /\ m.fresh \in BOOLEAN /\ m.requested \in BOOLEAN
      BY <1>1, <3>1 DEF Polled, LocalType
    <3> HIDE DEF l, m
    <3> QED BY <3>1, <3>2 DEF Polled, Leads, Finishes, Continues, SavesDue
  <2>5. stream' = stream BY <1>8 DEF PollDone
  <2>6. OnDisk => OnDisk' BY <1>2, <1>4, <2>2, <2>3, <2>5, OnDiskKept
  <2> QED BY <2>4, <2>6 DEF Saves
<1>9. CASE StepDone \/ StepNotFinite
  <2>1. l.pc = "step" BY <1>1, <1>9, LocalFacts DEF StepDone, StepNotFinite
  <2>2. ASSUME StepDone PROVE m.pc = "after step" /\ m.fresh = l.fresh
    <3>1. m = Updated(l) BY <1>1, <2>2, PlacesLemma
    <3>2. Updated(l).pc = "after step" /\ Updated(l).fresh = l.fresh BY <1>1, StepFields
    <3> QED BY <3>1, <3>2
  <2>3. StepNotFinite => m.pc \in {"failed", "gather"} /\ m.fresh = l.fresh BY <1>1, NotFiniteLemma
  <2>4. ~l.fresh BY <1>1, <2>1 DEF Flow, Stale
  <2> QED BY <1>3, <1>9, <2>2, <2>3, <2>4
<1>10. CASE EvaluateDone
  <2>1. l.pc = "evaluate" /\ m = Goto(l, "after validation")
    BY <1>1, <1>10, PlacesLemma, LocalFacts DEF EvaluateDone
  <2>2. m.pc = "after validation" /\ m.fresh = l.fresh BY <1>1, <2>1 DEF Goto, LocalType
  <2> QED BY <1>1, <1>3, <2>1, <2>2 DEF Flow, Stale
<1>11. ASSUME NEW place \in Inference, InferenceDone(place)
       PROVE  Saves'
  <2>1. l.pc = place BY <1>1, <1>11, LocalFacts DEF InferenceDone
  <2>2. m.pc \in {"after samples", "after benchmarks"} /\ m.fresh = l.fresh BY <1>1, <1>11, InferredLemma
  <2> QED BY <1>1, <1>3, <2>1, <2>2 DEF Flow, Stale
<1>12. CASE GatherDone
  <2>1. ASSUME NEW r \in Rank
        PROVE  /\ local[r].pc = "gather" /\ local'[r].pc = "publish"
               /\ local'[r].rng = local[r].rng /\ local'[r].fresh = local[r].fresh
    <3>1. local[r].pc = "gather" BY <1>12, LocalFacts DEF GatherDone
    <3>2. local'[r] = Goto(local[r], "publish") BY <1>12, PlacesLemma
    <3> QED BY <1>1, <3>1, <3>2, GotoFields
  <2>3. ~m.fresh /\ m.pc = "publish" BY <1>1, <2>1 DEF Flow, Stale
  <2> QED BY <2>1, <2>3, <1>12 DEF Saves, GatherDone
<1>13. CASE PublishDone /\ ~AnyFlag
  <2>1. ASSUME NEW r \in Rank
        PROVE  /\ local[r].pc = "publish" /\ local[r].saving # "no"
               /\ local'[r] = AfterPublish(local[r])
    <3>1. local[r].pc = "publish" BY <1>13, LocalFacts DEF PublishDone
    <3>2. local'[r] = AfterPublish(local[r]) BY <1>13, PlacesLemma
    <3> QED BY <1>1, <3>1, <3>2 DEF Flow
  <2>2. \A r \in Rank : local'[r].rng = local[r].rng BY <1>1, <2>1, AfterPublishFields, ZenonT(60)
  <2>3. /\ m.step = l.step /\ m.trained = l.trained
        /\ \/ l.saving = "due" /\ m.pc = "after checkpoint"
           \/ l.saving = "final" /\ m.pc = "close"
           \/ l.saving = "failed" /\ m.pc = "failed" /\ m.fresh = l.fresh
    <3>1. l \in LocalType /\ l.pc = "publish" /\ l.saving # "no" /\ m = AfterPublish(l) BY <1>1, <2>1
    <3> HIDE DEF l, m
    <3> QED BY <3>1, AfterPublishFields
  <2>4. work = "ok" /\ ~l.fresh /\ l.pc = "publish"
    <3>1. entered[Main] /\ ~flag[Main] BY <1>1, <1>13 DEF PublishDone, AllIn, AnyFlag
    <3>2. work \in {"todo", "ok", "error"} BY DEF IndInv, TypeOK
    <3> QED BY <1>1, <2>1, <3>1, <3>2 DEF Votes, Flow, Stale
  <2>5. stream' = stream BY <1>13 DEF PublishDone
  <2>6. OnDisk => OnDisk' BY <1>2, <1>4, <2>2, <2>3, <2>5, OnDiskKept
  <2>7. l.saving # "failed" => OnDisk BY <2>4 DEF Saves
  <2> QED BY <2>3, <2>4, <2>6, <2>7 DEF Saves
<1> QED BY <1>5, <1>6, <1>7, <1>8, <1>9, <1>10, <1>11, <1>12, <1>13
        DEF CollectiveDone, SelectRefused, ConfigureDone, InferenceFails, PublishDone

\* A stopped run's state, and what counts as fresh, is on disk after every
\* action.
LEMMA SavesLemma ==
    ASSUME IndInv, Flows, Votes, Times, Saves, IndInv', Times', Next
    PROVE  Saves'
<1>1. /\ Main \in Rank /\ local \in [Rank -> LocalType]
      /\ \A r \in Rank : local[r] \in LocalType
  BY LocalFacts
<1>2. CASE Start
  <2>1. local'[Main] = [Idle EXCEPT !.pc = "select"] BY <1>1, <1>2 DEF Start, Launch
  <2> QED BY <2>1, IdleFields DEF Saves
<1>3. ASSUME NEW s \in Rank, RankStep(s) \/ Signal(s) \/ Die(s)
      PROVE  Saves'
  <2>1. UNCHANGED <<ckpts, stream, gathered, work>> BY <1>3, QuietLemma
  <2>2. CASE Enter(s) \/ Signal(s)
    <3>1. local' = local BY <2>2 DEF Enter, Signal
    <3> QED BY <2>1, <3>1, SavesKept
  <2>3. CASE SelectResume(s) \/ Close(s)
    <3>1. ASSUME NEW r \in Rank
          PROVE  \/ local'[r] = local[r]
                 \/ local'[r] = [local[r] EXCEPT !.from = ResolveResume]
                 \/ local[r].pc = "close" /\ local'[r] = [local[r] EXCEPT !.pc = "closed"]
      BY <1>1, <2>3 DEF SelectResume, Close
    <3>2. ASSUME NEW r \in Rank
          PROVE  /\ local'[r].step = local[r].step /\ local'[r].trained = local[r].trained
                 /\ local'[r].fresh = local[r].fresh /\ local'[r].rng = local[r].rng
                 /\ local'[r].requested = local[r].requested
                 /\ local'[r].saving = local[r].saving
                 /\ \/ local'[r].pc = local[r].pc
                    \/ local'[r].pc = "closed" /\ local[r].pc = "close"
      <4>1. local[r] \in LocalType BY <1>1
      <4>2. LET m == [local[r] EXCEPT !.from = ResolveResume]
                n == [local[r] EXCEPT !.pc = "closed"]
            IN  /\ m.pc = local[r].pc /\ m.step = local[r].step /\ m.trained = local[r].trained
                /\ m.fresh = local[r].fresh /\ m.rng = local[r].rng
                /\ m.requested = local[r].requested /\ m.saving = local[r].saving
                /\ n.pc = "closed" /\ n.step = local[r].step /\ n.trained = local[r].trained
                /\ n.fresh = local[r].fresh /\ n.rng = local[r].rng
                /\ n.requested = local[r].requested /\ n.saving = local[r].saving
        BY <4>1 DEF LocalType
      <4> QED BY <3>1, <4>2
    <3> QED BY <1>1, <2>1, <3>2, SavesKept
  <2>4. CASE Die(s) BY <1>1, <2>4, IdleFields, <2>1, SavesKept DEF Die
  <2> QED BY <1>3, <2>2, <2>3, <2>4 DEF RankStep
<1>4. CASE CollectiveDone BY <1>4, SavesCollectiveLemma
<1>5. CASE MainWork
  <2>1. UNCHANGED <<local, stream, gathered>> /\ local[Main].pc \in {"configure", "publish"}
    BY <1>5, MainWorkFrame
  <2>3. CASE ckpts' = ckpts /\ (local[Main].pc = "publish" => work' = "error")
    BY <2>1, <2>3, OnDiskKept DEF Saves
  <2>4. ASSUME NEW outcome \in {"ok", "error"}, WriteCheckpoint(outcome)
        PROVE  Saves'
    <3> DEFINE c == Snapshot(local[Main])
               latest == FileOf(FindLatest(ckpts))
    <3>1. /\ c.step = local[Main].step /\ c.trained = local[Main].trained
          /\ c.stream = stream /\ c.rng = gathered /\ local[Main].pc = "publish"
      BY <2>4, PublishedFacts
    <3>2. local[Main].saving # "failed" => FindLatest(ckpts)' # 0 /\ latest' = c BY <2>4, WrittenIsLatest
    <3> HIDE DEF c, latest
    <3>3. \A r \in Rank : local[r].pc # "dead" => gathered[r] = local[r].rng BY <3>1 DEF Saves
    <3>5. ~local[Main].fresh BY <1>1, <3>1 DEF Flows, Flow, Stale
    <3> QED BY <2>1, <3>1, <3>3, <3>5, <3>2 DEF Saves, OnDisk, latest
  <2> QED BY <1>5, <2>1, <2>3, <2>4 DEF MainWork, PublishRunConfig, PublishModelConfig,
          FinishConfiguration, PublishCheckpoint, MainWorkFails, Publishing
<1>6. CASE LauncherKill BY <1>1, <1>6, IdleFields, QuietLemma, SavesKept DEF LauncherKill
<1>7. CASE Done BY <1>7, SavesKept DEF Done, vars
<1> QED BY <1>2, <1>3, <1>4, <1>5, <1>6, <1>7 DEF Next

-----------------------------------------------------------------------------
(* How old the state on disk may be.                                       *)

\* The steps up to a step at which no save is due.
LEMMA NoSaveDueYet ==
    ASSUME NEW from \in Nat, NEW to \in Nat, to % SaveInterval # 0,
           \A k \in 1..TotalSteps : from < k /\ k < to => k % SaveInterval # 0
    PROVE  NoSaveDue(from, to)
<1> SUFFICES ASSUME NEW k \in 1..TotalSteps, from < k, k <= to
             PROVE  k % SaveInterval # 0
  BY DEF NoSaveDue
<1> QED OBVIOUS

\* Steps that leave the main rank where it is, or take it out of the loop.
LEMMA RecentKept ==
    ASSUME IndInv, Times, IndInv', Times', Recent, UNCHANGED <<ckpts, attempt>>,
           \/ local'[Main].pc \notin Collectives
           \/ local'[Main].pc = "select" /\ local[Main].pc = "select"
           \/ /\ local'[Main].pc = local[Main].pc /\ local'[Main].step = local[Main].step
              /\ local'[Main].saving = local[Main].saving
              /\ work' = work \/ local[Main].pc # "publish" \/ work' # "ok"
    PROVE  Recent'
<1>1. Regular(ckpts') = Regular(ckpts) OBVIOUS
<1>2. SavedIsLatest => SavedIsLatest' BY <1>1, SameLatestLemma DEF SavedIsLatest
<1> QED BY <1>2 DEF Recent, NoSaveDue

\* A collective that completes.
LEMMA RecentCollectiveLemma ==
    ASSUME IndInv, Flows, Votes, Times, Recent, IndInv', Times', CollectiveDone
    PROVE  Recent'
<1> DEFINE l == local[Main]
           m == local'[Main]
<1>1. /\ Main \in Rank /\ l \in LocalType /\ Flow(l) /\ stream \in Nat /\ AnyFlag \in BOOLEAN
      /\ attempt \in AttemptType /\ m.pc # "select"
  BY CollectiveKeeps, LocalFacts DEF Flows, IndInv, TypeOK
<1>2. /\ l.step \in Nat /\ attempt.durable \in Nat /\ attempt.base \in Nat
      /\ SaveInterval \in Nat /\ TotalSteps \in Nat
  <2>1. l.step \in 0..TotalSteps /\ TotalSteps \in Nat BY <1>1, ScheduleAssumption DEF LocalType
  <2> QED BY <1>1, <2>1, ScheduleAssumption DEF AttemptType
<1>3. /\ ckpts' = ckpts
      /\ ~SelectDone => attempt'.durable = attempt.durable /\ attempt'.base = attempt.base
  <2>1. ckpts' = ckpts /\ clock' = clock /\ clock \in Nat BY CollectiveFrame DEF IndInv, TypeOK
  <2> QED BY <1>1, <2>1, AttemptFrame DEF PublishCheckpoint, WriteCheckpoint
<1>4. ASSUME m.pc \notin Collectives
      PROVE  Recent'
  BY <1>4 DEF Recent
<1>5. ASSUME ~SelectDone, SavedIsLatest
      PROVE  SavedIsLatest'
  BY <1>3, <1>5, SameLatestLemma DEF SavedIsLatest
<1>6. ASSUME ~SelectDone, l.pc \in Collectives \ {"select"}, m.step = l.step, m.pc # "publish",
             \/ m.pc \in Unsaved \/ l.pc \notin Unsaved
             \/ ~CheckpointDue(l.step)
      PROVE  Recent'
  <2> SUFFICES ASSUME SaveInterval > 0
               PROVE  /\ \A k \in 1..TotalSteps :
                            attempt.durable < k /\ k < l.step => k % SaveInterval # 0
                      /\ m.pc \notin Unsaved => NoSaveDue(attempt.durable, l.step)
                      /\ SavedIsLatest
    BY <1>1, <1>3, <1>5, <1>6 DEF Recent, NoSaveDue
  <2>1. /\ \A k \in 1..TotalSteps :
                attempt.durable < k /\ k < l.step => k % SaveInterval # 0
        /\ l.pc \notin Unsaved => NoSaveDue(attempt.durable, l.step)
        /\ SavedIsLatest
    BY <1>6 DEF Recent
  <2>2. ~CheckpointDue(l.step) => l.step % SaveInterval # 0 BY DEF CheckpointDue
  <2>3. ~CheckpointDue(l.step) => NoSaveDue(attempt.durable, l.step) BY <1>2, <2>1, <2>2, NoSaveDueYet
  <2> QED BY <1>6, <2>1, <2>3
<1>7. CASE FailAll
  <2>1. m.pc = "failed" BY <1>1, <1>7, FailFields
  <2> QED BY <1>4, <2>1
<1>8. CASE SelectDone
  <2>1. /\ l.pc = "select" /\ m.pc = "configure" /\ l.step = 0
        /\ IF l.from = 0 THEN m.step = l.step ELSE m.step = FileOf(l.from).step
    BY <1>1, <1>8, RestoredLemma DEF Flow
  <2>2. CASE l.from = 0
    <3> QED BY <2>1, <1>2, <2>2, <1>1, <1>8 DEF Recent, NoSaveDue, SavedIsLatest, SelectDone, AttemptType
  <2>3. CASE l.from # 0
    <3>1. attempt'.durable = m.step /\ attempt'.base = m.step
      BY <1>1, <1>8, <2>1, <2>3 DEF SelectDone, AttemptType
    <3>2. m.step \in Nat
      <4>1. m \in LocalType BY <1>1 DEF IndInv, TypeOK
      <4>2. m.step \in 0..TotalSteps BY <4>1 DEF LocalType
      <4> QED BY <1>2, <4>2
    <3> QED BY <2>1, <3>1, <3>2 DEF Recent, NoSaveDue, SavedIsLatest
  <2> QED BY <2>2, <2>3
<1>9. ASSUME ~(l.pc = "select") PROVE ~SelectDone BY <1>1, <1>9 DEF SelectDone, AllIn
<1>10. CASE ConfigureDone /\ ~AnyFlag
  <2>1. l.pc = "configure" /\ m = LoopHead(l) BY <1>1, <1>10, PlacesLemma, LocalFacts DEF ConfigureDone
  <2>2. Kept(l, m) /\ Continues(l, m) BY <1>1, <2>1, ConfiguredFlow
  <2>3. m.step = l.step /\ m.pc # "publish" /\ l.pc \notin Unsaved BY <2>1, <2>2 DEF Kept, Continues, Unsaved
  <2> QED BY <1>6, <1>9, <2>1, <2>3
<1>11. ASSUME NEW place \in Polls, PollDone(place)
       PROVE  Recent'
  <2>1. l.pc = place BY <1>1, <1>11, LocalFacts DEF PollDone
  <2>2. m = AfterPoll(place, Asked(l, AnyFlag)) BY <1>1, <1>11, PlacesLemma
  <2>3. Polled(place, l, AnyFlag, m) BY <1>1, <2>1, <2>2, PollFlow, Zenon
  <2> HIDE DEF l, m
  <2>4. /\ m.step = l.step /\ m.pc # "publish"
        /\ \/ m.pc = "close"
           \/ m.pc \in Unsaved \/ l.pc \notin Unsaved
           \/ ~CheckpointDue(l.step)
    BY <2>1, <2>3 DEF Polled, Leads, Finishes, Continues, SavesDue, Unsaved
  <2> QED BY <1>4, <1>6, <1>9, <2>1, <2>4
<1>12. CASE StepDone
  <2>1. l.pc = "step" BY <1>1, <1>12, LocalFacts DEF StepDone
  <2>2. m = Updated(l) BY <1>1, <1>12, PlacesLemma
  <2>3. m.pc = "after step" /\ m.step = l.step + 1 BY <1>1, <2>2, StepFields
  <2>4. ~SelectDone BY <1>9, <2>1
  <2> SUFFICES ASSUME SaveInterval > 0
               PROVE  /\ \A k \in 1..TotalSteps :
                            attempt.durable < k /\ k < l.step + 1 => k % SaveInterval # 0
                      /\ SavedIsLatest
    BY <1>3, <1>5, <2>3, <2>4 DEF Recent, Unsaved
  <2> QED BY <2>1, <1>2 DEF NoSaveDue, Recent, Unsaved
<1>13. CASE StepNotFinite
  <2>1. l.pc = "step" BY <1>1, <1>13, LocalFacts DEF StepNotFinite
  <2>3. m.pc \in {"failed", "gather"} /\ m.step = l.step BY <1>1, <1>13, NotFiniteLemma
  <2> QED BY <1>4, <1>6, <1>9, <2>1, <2>3 DEF Unsaved
<1>14. CASE EvaluateDone
  <2>1. l.pc = "evaluate" /\ m = Goto(l, "after validation")
    BY <1>1, <1>14, PlacesLemma, LocalFacts DEF EvaluateDone
  <2>2. m.pc = "after validation" /\ m.step = l.step BY <1>1, <2>1 DEF Goto, LocalType
  <2> QED BY <1>6, <1>9, <2>1, <2>2 DEF Unsaved
<1>15. ASSUME NEW place \in Inference, InferenceDone(place)
       PROVE  Recent'
  <2>1. l.pc = place BY <1>1, <1>15, LocalFacts DEF InferenceDone
  <2>2. m.pc \in {"after samples", "after benchmarks"} /\ m.step = l.step BY <1>1, <1>15, InferredLemma
  <2> QED BY <1>6, <1>9, <2>1, <2>2 DEF Unsaved
<1>16. CASE GatherDone
  <2>1. l.pc = "gather" /\ m = Goto(l, "publish") BY <1>1, <1>16, PlacesLemma, LocalFacts DEF GatherDone
  <2>2. m.pc = "publish" /\ m.step = l.step BY <1>1, <2>1 DEF Goto, LocalType
  <2> SUFFICES ASSUME SaveInterval > 0
               PROVE  /\ \A k \in 1..TotalSteps :
                            attempt.durable < k /\ k < l.step => k % SaveInterval # 0
                      /\ SavedIsLatest
    BY <1>3, <1>5, <2>2, <1>9, <1>16, <2>1 DEF Recent, Unsaved, GatherDone
  <2> QED BY <2>1 DEF Recent
<1>17. CASE PublishDone /\ ~AnyFlag
  <2>1. l.pc = "publish" /\ l.saving # "no" /\ m = AfterPublish(l)
    BY <1>1, <1>17, PlacesLemma, LocalFacts DEF PublishDone, Flow
  <2>2. /\ m.step = l.step
        /\ \/ m.pc = "after checkpoint" /\ l.saving = "due"
           \/ m.pc \in {"close", "failed"}
    <3> HIDE DEF l, m
    <3> QED BY <1>1, <2>1, AfterPublishFields
  <2>3. work = "ok"
    <3>1. entered[Main] /\ ~flag[Main] BY <1>1, <1>17 DEF PublishDone, AllIn, AnyFlag
    <3>2. work \in {"todo", "ok", "error"} BY DEF IndInv, TypeOK
    <3> QED BY <2>1, <3>1, <3>2 DEF Votes
  <2>4. CASE m.pc = "after checkpoint" /\ l.saving = "due"
    <3>1. ~SelectDone BY <1>9, <2>1
    <3> SUFFICES ASSUME SaveInterval > 0
                 PROVE  /\ \A k \in 1..TotalSteps :
                              attempt.durable < k /\ k < l.step => k % SaveInterval # 0
                        /\ NoSaveDue(attempt.durable, l.step)
                        /\ SavedIsLatest
      BY <1>3, <1>5, <2>2, <2>4, <3>1 DEF Recent, NoSaveDue
    <3>2. attempt.durable = l.step /\ SavedIsLatest BY <2>1, <2>3, <2>4 DEF Recent
    <3> QED BY <3>2, <1>2 DEF NoSaveDue
  <2> QED BY <1>4, <2>2, <2>4
<1> QED BY <1>7, <1>8, <1>10, <1>11, <1>12, <1>13, <1>14, <1>15, <1>16, <1>17
        DEF CollectiveDone, SelectRefused, ConfigureDone, InferenceFails, PublishDone

LEMMA RecentLemma ==
    ASSUME IndInv, Flows, Votes, Times, Recent, IndInv', Times', Next
    PROVE  Recent'
<1>1. /\ Main \in Rank /\ local \in [Rank -> LocalType] /\ local[Main] \in LocalType BY LocalFacts
<1>2. CASE Start
  <2>1. /\ local'[Main] = [Idle EXCEPT !.pc = "select"]
        /\ attempt'.durable = 0 /\ attempt'.base = 0
    BY <1>1, <1>2 DEF Start, Launch
  <2>2. local'[Main].pc = "select" BY <2>1, IdleFields
  <2> QED BY <2>1, <2>2 DEF Recent
<1>3. ASSUME NEW s \in Rank, RankStep(s) \/ Signal(s) \/ Die(s)
      PROVE  Recent'
  <2>1. UNCHANGED <<ckpts, attempt, work>> BY <1>3, QuietLemma
  <2>2. \/ local'[Main] = local[Main]
        \/ local'[Main] = [local[Main] EXCEPT !.from = ResolveResume] /\ local[Main].pc = "select"
        \/ local'[Main] = [local[Main] EXCEPT !.pc = "closed"]
        \/ local'[Main] = [Idle EXCEPT !.pc = "dead"]
    BY <1>1, <1>3 DEF RankStep, SelectResume, Enter, Close, Signal, Die
  <2>3. /\ [Idle EXCEPT !.pc = "dead"].pc = "dead"
        /\ [local[Main] EXCEPT !.pc = "closed"].pc = "closed"
        /\ [local[Main] EXCEPT !.from = ResolveResume].pc = local[Main].pc
    BY <1>1, IdleFields DEF LocalType
  <2> QED BY <2>1, <2>2, <2>3, RecentKept
<1>4. CASE CollectiveDone BY <1>4, RecentCollectiveLemma
<1>5. CASE MainWork
  <2>1. local' = local /\ local[Main].pc \in {"configure", "publish"} BY <1>5, MainWorkFrame
  <2>2. CASE UNCHANGED <<ckpts, attempt>> /\ (local[Main].pc = "publish" => work' = "error")
    BY <2>1, <2>2, RecentKept
  <2>3. ASSUME NEW outcome \in {"ok", "error"}, WriteCheckpoint(outcome)
        PROVE  Recent'
    <3> DEFINE c == Snapshot(local[Main])
    <3>1. /\ c.step = local[Main].step /\ c.failed = (local[Main].saving = "failed")
          /\ ckpts' = {d \in ckpts : d.step # c.step \/ d.failed # c.failed} \union {c}
          /\ attempt' = IF c.failed THEN attempt ELSE [attempt EXCEPT !.durable = c.step]
          /\ local[Main].pc = "publish" /\ c \in CheckpointType
      BY <2>3, PublishedFacts
    <3>2. local[Main].saving # "failed" =>
            FindLatest(ckpts)' # 0 /\ FileOf(FindLatest(ckpts))' = c
      BY <2>3, WrittenIsLatest
    <3> HIDE DEF c
    <3>3. attempt \in AttemptType /\ ckpts \subseteq CheckpointType /\ local[Main].step \in Nat
      <4>1. local[Main].step \in 0..TotalSteps /\ TotalSteps \in Nat BY <1>1, ScheduleAssumption DEF LocalType
      <4>2. local[Main].step \in Nat BY <4>1
      <4> QED BY <4>2 DEF IndInv, TypeOK
    <3>4. CASE local[Main].saving = "failed"
      <4> QED BY <2>1, <3>1, <3>4, SameLatestLemma, <3>3 DEF Recent, NoSaveDue, SavedIsLatest, Regular, CheckpointType
    <3>5. CASE local[Main].saving # "failed"
      <4>1. attempt'.durable = local[Main].step BY <3>1, <3>3, <3>5 DEF AttemptType
      <4> QED BY <2>1, <3>1, <4>1, <3>3, <3>2, <3>5 DEF Recent, NoSaveDue, SavedIsLatest
    <3> QED BY <3>4, <3>5
  <2> QED BY <1>5, <2>1, <2>2, <2>3 DEF MainWork, PublishRunConfig, PublishModelConfig,
          FinishConfiguration, PublishCheckpoint, MainWorkFails, Publishing
<1>6. CASE LauncherKill
  <2>1. local'[Main] = local[Main] \/ local'[Main] = [Idle EXCEPT !.pc = "dead"]
    BY <1>1, <1>6 DEF LauncherKill
  <2>2. [Idle EXCEPT !.pc = "dead"].pc = "dead" BY IdleFields
  <2>3. UNCHANGED <<ckpts, attempt, work>> BY <1>1, <1>6, QuietLemma
  <2> QED BY <2>1, <2>2, <2>3, RecentKept
<1>7. CASE Done BY <1>7, RecentKept DEF Done, vars
<1> QED BY <1>2, <1>3, <1>4, <1>5, <1>6, <1>7 DEF Next

-----------------------------------------------------------------------------
(* How late a stop request is noticed.                                     *)

\* A rank that does not train again in this attempt.
LateRank(r) ==
    \/ local[r].pc \in Ended \union {"close"}
    \/ local[r].pc \in {"gather", "publish"} /\ local[r].saving = "final"
    \/ /\ local[r].pc = "after step"
       /\ \E s \in Rank : sig[s] /\ (entered[s] => flag[s])

\* Ranks that stay where they are, or end.
LEMMA LateKept ==
    ASSUME Late, attempt'.late = attempt.late,
           \A r \in Rank : \/ local'[r].pc \in Ended \union {"close"}
                           \/ /\ local'[r].pc = local[r].pc /\ local'[r].saving = local[r].saving
                              /\ \A s \in Rank : sig[s] => sig'[s]
                              /\ \A s \in Rank : sig[s] /\ (entered[s] => flag[s]) =>
                                                 (entered'[s] => flag'[s])
    PROVE  Late'
BY DEF Late

LEMMA LateCollectiveLemma ==
    ASSUME IndInv, Flows, Votes, Late, CollectiveDone
    PROVE  Late'
<1>1. /\ Main \in Rank /\ \A r \in Rank : local[r] \in LocalType /\ Flow(local[r])
      /\ stream \in Nat /\ AnyFlag \in BOOLEAN /\ attempt \in AttemptType
  BY LocalFacts DEF Flows, IndInv, TypeOK
<1>2. ~StepDone => attempt'.late = attempt.late BY <1>1, AttemptFrame
<1>3. CASE StepDone
  <2>1. \A r \in Rank : local[r].pc = "step" BY <1>3, LocalFacts DEF StepDone
  <2>2. attempt.late = 0
    <3>2. attempt.late # 1 BY <1>1, <2>1 DEF Late
    <3>3. attempt.late <= 1 BY DEF Late
    <3> QED BY <3>2, <3>3, <1>1 DEF AttemptType
  <2>3. attempt'.late = IF \E r \in Rank : sig[r] THEN 1 ELSE 0 BY <1>1, <1>3, <2>2 DEF StepDone, AttemptType
  <2>4. /\ \A r \in Rank : local'[r].pc = "after step"
        /\ \A r \in Rank : sig'[r] = sig[r] /\ entered'[r] = FALSE
    <3>1. \A r \in Rank : local'[r] = Updated(local[r]) BY <1>3, PlacesLemma
    <3>2. \A r \in Rank : Updated(local[r]).pc = "after step" BY <1>1, StepFields
    <3>3. sig' = sig /\ entered' = [r \in Rank |-> FALSE] BY <1>3 DEF StepDone, Leave
    <3> QED BY <3>1, <3>2, <3>3
  <2>5. attempt'.late <= 1 BY <2>3
  <2>6. attempt'.late = 1 => \E r \in Rank : sig[r] BY <2>3
  <2> QED BY <2>4, <2>5, <2>6 DEF Late
<1>4. ASSUME ~StepDone, attempt.late # 1
      PROVE  Late'
  BY <1>2, <1>4 DEF Late
<1>5. ASSUME ~StepDone, attempt.late = 1,
             \A r \in Rank : LateRank(r) => LateRank(r)'
      PROVE  Late'
  BY <1>2, <1>5 DEF Late, LateRank
<1>6. ASSUME ~StepDone, attempt.late = 1, NEW r \in Rank, LateRank(r)
      PROVE  LateRank(r)'
  <2>1. CASE FailAll
    <3>1. local'[r].pc = "failed" BY <2>1, FailFields
    <3> QED BY <3>1 DEF LateRank
  <2>2. local[r].pc \in {"gather", "publish", "after step"} BY <1>6, CollectiveKeeps DEF LateRank
  <2>3. CASE local[r].pc = "gather"
    <3>2. GatherDone
      BY <2>3 DEF CollectiveDone, SelectDone, SelectRefused, ConfigureDone, PollDone, StepDone,
         StepNotFinite, EvaluateDone, InferenceDone, InferenceFails, GatherDone, PublishDone, AllIn
    <3>3. local'[r] = Goto(local[r], "publish") BY <3>2, PlacesLemma
    <3>4. local'[r].pc = "publish" /\ local'[r].saving = "final"
      BY <1>1, <3>3, GotoFields, <1>6, <2>3 DEF LateRank
    <3> QED BY <3>4 DEF LateRank
  <2>4. CASE local[r].pc = "publish"
    <3>1. local[r].saving = "final" BY <1>6, <2>4 DEF LateRank
    <3>2. PublishDone
      BY <2>4 DEF CollectiveDone, SelectDone, SelectRefused, ConfigureDone, PollDone, StepDone,
         StepNotFinite, EvaluateDone, InferenceDone, InferenceFails, GatherDone, PublishDone, AllIn
    <3>3. AnyFlag => FailAll BY <3>2 DEF PublishDone
    <3>4. ~AnyFlag => local'[r] = AfterPublish(local[r]) BY <3>2, PlacesLemma
    <3>5. AfterPublish(local[r]).pc = "close" BY <1>1, <2>4, <3>1, AfterPublishFields
    <3> QED BY <2>1, <3>3, <3>4, <3>5 DEF LateRank
  <2>5. CASE local[r].pc = "after step"
    <3>1. PollDone("after step")
      <4>1. \E place \in Polls : PollDone(place)
        BY <2>5 DEF CollectiveDone, SelectDone, SelectRefused, ConfigureDone, StepDone,
           StepNotFinite, EvaluateDone, InferenceDone, InferenceFails, GatherDone, PublishDone, AllIn
      <4> QED BY <2>5, <4>1 DEF PollDone, AllIn
    <3>2. AnyFlag BY <1>6, <2>5, <3>1 DEF LateRank, PollDone, AllIn, AnyFlag
    <3>3. local'[r] = AfterPoll("after step", Asked(local[r], AnyFlag)) BY <3>1, PlacesLemma
    <3>4. Polled("after step", local[r], AnyFlag, local'[r]) BY <1>1, <2>5, <3>3, PollFlow, Zenon
    <3>5. ~local[r].fresh BY <1>1, <2>5 DEF Flow, Stale
    <3>6. \/ local'[r].pc = "gather" /\ local'[r].saving = "final"
          \/ local'[r].pc = "close"
      BY <3>2, <3>4, <3>5 DEF Polled, Leads, Finishes, Continues, SavesDue
    <3> QED BY <3>6 DEF LateRank
  <2> QED BY <2>2, <2>3, <2>4, <2>5
<1> QED BY <1>3, <1>4, <1>5, <1>6

\* At most the step under way is finished after a request.
LEMMA LateLemma ==
    ASSUME IndInv, Flows, Votes, Late, Next
    PROVE  Late'
<1>1. /\ Main \in Rank /\ local \in [Rank -> LocalType] /\ \A r \in Rank : local[r] \in LocalType
      /\ sig \in [Rank -> BOOLEAN] /\ entered \in [Rank -> BOOLEAN] /\ flag \in [Rank -> BOOLEAN]
  BY LocalFacts DEF IndInv, TypeOK
<1>2. CASE Start
  <2>2. attempt'.late <= 1 /\ attempt'.late # 1 BY <1>2 DEF Start, Launch
  <2> QED BY <2>2 DEF Late
<1>3. ASSUME NEW s \in Rank, RankStep(s) \/ Signal(s) \/ Die(s)
      PROVE  Late'
  <2>1. attempt' = attempt BY <1>3, QuietLemma
  <2>2. CASE SelectResume(s)
    <3>1. ASSUME attempt.late = 1 PROVE FALSE BY <2>2, <3>1 DEF Late, SelectResume
    <3>2. attempt.late # 1 BY <3>1
    <3> QED BY <2>1, <3>2 DEF Late
  <2>3. CASE Enter(s)
    <3>1. local' = local /\ sig' = sig BY <2>3 DEF Enter
    <3>2. \A r \in Rank : r # s => entered'[r] = entered[r] /\ flag'[r] = flag[r] BY <1>1, <2>3 DEF Enter
    <3>3. CASE local[s].pc = "after step"
      <4>1. flag'[s] = (local[s].requested \/ sig[s]) BY <1>1, <2>3, <3>3 DEF Enter, Contribution
      <4>2. \A r \in Rank : sig[r] /\ (entered[r] => flag[r]) => (entered'[r] => flag'[r]) BY <3>2, <4>1
      <4> QED BY <2>1, <3>1, <4>2, LateKept
    <3>4. CASE local[s].pc # "after step"
      <4>1. local[s].pc \in Collectives BY <2>3 DEF Enter
      <4>2. \A r \in Rank : local[r].pc = "after step" => local[s].pc = "after step" \/ local[s].pc = "dead"
        BY DEF IndInv, LocalsAgree, SameControl
      <4>3. \A r \in Rank : local[r].pc # "after step" BY <3>4, <4>1, <4>2
      <4> QED BY <2>1, <3>1, <4>3 DEF Late
    <3> QED BY <3>3, <3>4
  <2>4. CASE Close(s)
    <3>2. \A r \in Rank : [local[r] EXCEPT !.pc = "closed"].pc = "closed" BY <1>1 DEF LocalType
    <3> QED BY <2>1, <3>2, LateKept, <1>1, <2>4 DEF Close
  <2>5. CASE Signal(s) BY <1>1, <2>5, <2>1, LateKept DEF Signal
  <2>6. CASE Die(s) BY <1>1, <2>6, IdleFields, <2>1, LateKept DEF Die
  <2> QED BY <1>3, <2>2, <2>3, <2>4, <2>5, <2>6 DEF RankStep
<1>4. CASE MainWork BY <1>4, MainWorkFrame, <1>1, AttemptFrame, LateKept DEF StepDone, AllIn
<1>5. CASE LauncherKill BY <1>1, <1>5, IdleFields, QuietLemma, LateKept DEF LauncherKill
<1>6. CASE Done BY <1>6, LateKept DEF Done, vars
<1> QED BY <1>2, <1>3, <1>4, <1>5, <1>6, LateCollectiveLemma DEF Next

-----------------------------------------------------------------------------
(* The report, and the whole invariant.                                    *)

\* The report is written by a run that ended well, of what it then is.
LEMMA ReportLemma ==
    ASSUME IndInv, Flows, Times, Saves, ReportHonest, Next
    PROVE  ReportHonest'
<1>1. /\ Main \in Rank /\ local \in [Rank -> LocalType] /\ \A r \in Rank : local[r] \in LocalType
      /\ config \in ConfigType /\ ckpts \subseteq CheckpointType
  BY LocalFacts DEF IndInv, TypeOK
<1>2. ASSUME ckpts' = ckpts, config'.report = config.report
      PROVE  ReportHonest'
  BY <1>2 DEF ReportHonest
<1>3. CASE Start \/ CollectiveDone \/ LauncherKill \/ Done
  BY <1>2, <1>3, CollectiveFrame DEF Start, Launch, LauncherKill, Done, vars
<1>4. ASSUME NEW s \in Rank, RankStep(s) \/ Signal(s) \/ Die(s)
      PROVE  ReportHonest'
  <2>1. ckpts' = ckpts BY <1>4, QuietLemma
  <2>2. CASE config' = config BY <1>2, <2>1, <2>2
  <2>3. CASE Close(s) /\ s = Main
    <3> DEFINE l == local[Main]
               report == [attempt |-> attempt.n, step |-> l.step,
                          stopped |-> l.requested /\ l.step < TotalSteps,
                          origin |-> attempt.origin]
    <3>1. l.pc = "close" /\ config' = [config EXCEPT !.report = report] BY <2>3 DEF Close
    <3>2. report.step = l.step /\ report.stopped = (l.requested /\ l.step < TotalSteps) OBVIOUS
    <3> HIDE DEF report
    <3>3. config'.report = report BY <1>1, <3>1 DEF ConfigType
    <3>4. CASE l.requested
      <4>2. FindLatest(ckpts) # 0 /\ FileOf(FindLatest(ckpts)).step = l.step BY <3>1, <3>4 DEF OnDisk, Saves
      <4>6. ~report.stopped => report.step = TotalSteps
        <5>1. l.step \in 0..TotalSteps /\ TotalSteps \in Nat BY <1>1, ScheduleAssumption DEF LocalType
        <5>2. ~(l.step < TotalSteps) => l.step = TotalSteps BY <5>1
        <5> QED BY <3>2, <3>4, <5>2
      <4> QED BY <3>3, <4>6, <2>1, <3>2, <4>2, LatestLemma DEF ReportHonest, FindLatest
    <3>5. CASE ~l.requested
      <4>1. l.step = TotalSteps BY <1>1, <3>1, <3>5 DEF Flows, Flow
      <4> QED BY <3>2, <3>3, <3>5, <4>1 DEF ReportHonest
    <3> QED BY <3>4, <3>5
  <2> QED BY <1>4, <2>2, <2>3 DEF RankStep, SelectResume, Enter, Close, Signal, Die
<1>5. CASE MainWork
  <2>1. ASSUME NEW outcome \in {"ok", "error"}, WriteCheckpoint(outcome)
        PROVE  ReportHonest'
    BY <2>1, PublishedFacts DEF Regular, ReportHonest
  <2>2. CASE ckpts' = ckpts /\ config'.report = config.report BY <1>2, <2>2
  <2>3. PublishRunConfig \/ PublishModelConfig \/ FinishConfiguration \/ MainWorkFails =>
          ckpts' = ckpts /\ config'.report = config.report
    BY <1>1 DEF PublishRunConfig, PublishModelConfig, FinishConfiguration, MainWorkFails, ConfigType
  <2> QED BY <1>5, <2>1, <2>2, <2>3 DEF MainWork, PublishCheckpoint
<1> QED BY <1>3, <1>4, <1>5 DEF Next

\* What every reachable state of a run directory and its ranks satisfies.
RunInv ==
    /\ IndInv
    /\ Flows
    /\ Votes
    /\ Times
    /\ Origins
    /\ Data
    /\ Saves
    /\ Recent
    /\ Late
    /\ ReportHonest

LEMMA RunInitLemma ==
    ASSUME Init
    PROVE  RunInv
<1>1. /\ \A r \in Rank : local[r] = Idle /\ entered[r] = FALSE
      /\ ckpts = {} /\ clock = 0 /\ Main \in Rank
      /\ config.run = 0 /\ config.model = 0 /\ config.report = NoReport
      /\ attempt.at = 0 /\ attempt.mode = "fresh" /\ attempt.late = 0
  BY RankAssumption DEF Init
<1>2. Idle.pc = "down" /\ ~Idle.fresh /\ Idle.saving = "no" BY DEF Idle
<1>3. Flows BY <1>1, <1>2 DEF Flows, Flow, Stale
<1>4. Votes /\ Times /\ Data /\ Saves /\ Recent
  <2>1. Votes /\ Saves /\ Recent BY <1>1, <1>2 DEF Votes, Saves, Recent
  <2>2. Data BY <1>1, <1>2 DEF Data, RankData
  <2> QED BY <2>1, <2>2, <1>1 DEF Times
<1>5. Origins BY <1>1, <1>2 DEF Origins, Running
<1> QED BY <1>3, <1>4, <1>5, InitLemma, <1>1 DEF RunInv, Late, ReportHonest

LEMMA RunStepLemma ==
    ASSUME RunInv, IndInv', Next
    PROVE  RunInv'
<1>1. Flows' /\ Votes' /\ Times' /\ Origins' /\ Data' /\ Late' /\ ReportHonest'
  BY FlowsLemma, VotesLemma, TimesLemma, OriginsLemma, DataLemma, LateLemma, ReportLemma DEF RunInv
<1> QED BY <1>1, SavesLemma, RecentLemma DEF RunInv

LEMMA RunStutterLemma ==
    ASSUME RunInv, IndInv', UNCHANGED vars
    PROVE  RunInv'
<1>1. Flows' /\ Votes' /\ Times' /\ Late' /\ ReportHonest'
  BY DEF RunInv, vars, Flows, Votes, Times, Late, ReportHonest
<1>2. Origins' /\ Data' BY DEF RunInv, vars, Origins, Established, Data, RankData, FileData
<1> QED BY <1>1, <1>2, SavesKept, RecentKept DEF RunInv, vars

\* The whole invariant holds in every reachable state of a run directory, for
\* any number of ranks, steps and attempts.
THEOREM RunInvariance == Spec => []RunInv
<1>1. Init => RunInv BY RunInitLemma
<1>2. RunInv /\ IndInv' /\ [Next]_vars => RunInv' BY RunStepLemma, RunStutterLemma
<1> QED BY <1>1, <1>2, Invariance, PTL DEF Spec

\* A run that a stop request ended left on disk exactly the state it ended in,
\* the generator of every rank included, as the checkpoint the next plain
\* resume takes: loop.py's final save is skipped only if the last thing the
\* run did was to save.
THEOREM StoppedStateAlwaysSaved == Spec => []StoppedStateSaved
<1>1. RunInv => StoppedStateSaved BY DEF RunInv, Saves, OnDisk, StoppedStateSaved
<1> QED BY <1>1, RunInvariance, PTL

\* After a stop request reached any rank at most the step under way is still
\* finished, since StopController.poll after it hands the request to all.
THEOREM AlwaysStopsWithinOneStep == Spec => []StopsWithinOneStep
<1>1. RunInv => StopsWithinOneStep BY DEF RunInv, Late, StopsWithinOneStep
<1> QED BY <1>1, RunInvariance, PTL

\* The configuration files, the report and every checkpoint of a directory
\* stem from one fresh start, wherever an attempt was cut off between them:
\* check_fresh_run_directory refuses a second one.
THEOREM AlwaysOneRunPerDirectory == Spec => []OneRunPerDirectory
<1>1. RunInv => OneRunPerDirectory BY DEF RunInv, Origins, OneRunPerDirectory
<1> QED BY <1>1, RunInvariance, PTL

\* A report that says "stopped" names a step that can be resumed, any other a
\* run that made all its steps, also after later attempts in the directory.
THEOREM ReportAlwaysHonest == Spec => []ReportHonest
<1>1. RunInv => ReportHonest BY DEF RunInv
<1> QED BY <1>1, RunInvariance, PTL

\* Crashes, resumes and failed steps never make a rank or a checkpoint train
\* twice on a position of the stream, out of order, or leave one out that was
\* not given up by resuming a -failed checkpoint explicitly.
THEOREM AlwaysOnePassOverData == Spec => []OnePassOverData
<1>1. RunInv => OnePassOverData BY DEF RunInv, Data, RankData, FileData, OnePass, OnePassOverData
<1> QED BY <1>1, RunInvariance, PTL

\* With a save interval an attempt is never more than the interval ahead of
\* what it restored or saved, and what it saved is what a plain resume takes.
THEOREM LostWorkAlwaysBounded == Spec => []LostWorkBounded
<1>1. ASSUME RunInv, SaveInterval > 0, local[Main].pc \in Collectives \ {"select"}
      PROVE  local[Main].step <= attempt.durable + SaveInterval
  <2>1. local[Main] \in LocalType /\ attempt \in AttemptType BY <1>1, LocalFacts DEF RunInv, IndInv, TypeOK
  <2>2. local[Main].step \in 0..TotalSteps /\ attempt.durable \in Nat BY <2>1 DEF LocalType, AttemptType
  <2>3. TotalSteps \in Nat /\ SaveInterval \in Nat \ {0}
    <3>2. SaveInterval > 0 BY <1>1
    <3> QED BY <3>2, ScheduleAssumption
  <2>4. PICK k \in Nat : attempt.durable < k /\ k <= attempt.durable + SaveInterval /\ k % SaveInterval = 0
    BY <2>2, <2>3, MultipleLemma
  <2>5. ASSUME attempt.durable + SaveInterval < local[Main].step
        PROVE  FALSE
    <3>1. k \in 1..TotalSteps /\ k < local[Main].step BY <2>2, <2>3, <2>4, <2>5
    <3> QED BY <1>1, <2>4, <3>1 DEF RunInv, Recent
  <2> QED BY <2>2, <2>3, <2>5
<1>2. RunInv => LostWorkBounded BY <1>1 DEF RunInv, Recent, SavedIsLatest, LostWorkBounded
<1> QED BY <1>2, RunInvariance, PTL

\* Once an attempt saved after an explicit resume from an older checkpoint, no
\* plain resume takes a checkpoint of the abandoned trajectory.
THEOREM AbandonedGoesWithNextSave == Spec => []AbandonedOnlyUntilNextSave
<1>1. ASSUME RunInv, ResumesAbandoned, NEW c \in Regular(ckpts)
      PROVE  c.mtime <= cut.at \/ c.mtime > attempt.at
  <2>1. PICK d \in ckpts : d.mtime = local[Main].from /\ d.mtime <= cut.at
    BY <1>1 DEF ResumesAbandoned, Abandoned
  <2>3. c.mtime \in Nat /\ d.mtime \in Nat /\ cut.at \in Nat
    BY <1>1 DEF RunInv, IndInv, TypeOK, CheckpointType, Regular
  <2> QED BY <2>1, <2>3, <1>1 DEF RunInv, Times, ResumesAbandoned
<1>2. RunInv => AbandonedOnlyUntilNextSave BY <1>1 DEF AbandonedOnlyUntilNextSave
<1> QED BY <1>2, RunInvariance, PTL

-----------------------------------------------------------------------------
(* The ranks together are one process that saves and restores.             *)

\* The attempt is under way as a whole, or the main rank still publishes.
Together ==
    /\ local[Main].pc \in Running
    /\ (\A r \in Rank : local[r].pc # "dead") \/ local[Main].pc = "publish"

\* The one process' state for what the main rank holds and the generators.
State(l, position, generators) ==
    [step |-> l.step, trained |-> l.trained, stream |-> position, rng |-> generators,
     running |-> TRUE]

Generators == IF local[Main].pc = "publish" THEN gathered ELSE [r \in Rank |-> local[r].rng]

LEMMA WorldLemma ==
    /\ Together => WorldState = State(local[Main], stream, Generators)
    /\ Together' => WorldState' = State(local'[Main], stream', Generators')
    /\ ~Together => WorldState = Abstract!None
    /\ ~Together' => WorldState' = Abstract!None
BY DEF Together, Running, Generators, State, WorldState, Abstract!None

LEMMA StateFields ==
    ASSUME NEW l, NEW position, NEW generators, NEW s, s = State(l, position, generators)
    PROVE  /\ s.step = l.step /\ s.trained = l.trained /\ s.stream = position
           /\ s.rng = generators /\ s # Abstract!None
<1> QED BY DEF State, Abstract!None

\* Other generators make another state.
LEMMA DrawnState ==
    ASSUME NEW l, NEW position, NEW generators, NEW c
    PROVE  [State(l, position, generators) EXCEPT !.rng = c] = State(l, position, c)
<1> DEFINE s == State(l, position, generators)
           e == [s EXCEPT !.rng = c]
<1>1. s \in [step : {l.step}, trained : {l.trained}, stream : {position},
            rng : {generators}, running : {TRUE}]
  BY DEF State
<1>2. e \in [step : {l.step}, trained : {l.trained}, stream : {position}, rng : {c},
            running : {TRUE}]
  <2> HIDE DEF s
  <2> QED BY <1>1
<1> HIDE DEF e, s
<1>3. e = State(l, position, c) BY <1>2 DEF State
<1> QED BY <1>3 DEF e, s

\* Files that stay are states that stay saved.
LEMMA SameSaved == ckpts' = ckpts => SavedStates' = SavedStates
BY DEF SavedStates

\* An attempt that is over, or not together any more, is a process that stops.
LEMMA StopsLemma ==
    ASSUME ckpts' = ckpts, ~Together'
    PROVE  Abstract!AbsNext
BY WorldLemma, SameSaved DEF Abstract!AbsNext, Abstract!Stop

\* Steps that change nothing of what the world is.
LEMMA SameWorldLemma ==
    ASSUME UNCHANGED <<ckpts, stream, gathered>>,
           local'[Main].pc = local[Main].pc, local'[Main].step = local[Main].step,
           local'[Main].trained = local[Main].trained,
           \A r \in Rank : /\ (local'[r].pc = "dead") <=> (local[r].pc = "dead")
                           /\ local'[r].rng = local[r].rng
    PROVE  UNCHANGED <<WorldState, SavedStates>>
<1>2. Generators' = Generators BY DEF Generators
<1>3. State(local'[Main], stream', Generators') = State(local[Main], stream, Generators) BY <1>2 DEF State
<1> QED BY <1>3, WorldLemma, SameSaved DEF Together

\* The ranks go on together, from where none publishes to where none does.
LEMMA OnwardLemma ==
    ASSUME ckpts' = ckpts,
           \A r \in Rank : local[r].pc # "dead" /\ local'[r].pc # "dead",
           local[Main].pc \in Running \ {"publish"},
           local'[Main].pc \in Running \ {"publish"}
    PROVE  /\ WorldState = State(local[Main], stream, [r \in Rank |-> local[r].rng])
           /\ WorldState' = State(local'[Main], stream', [r \in Rank |-> local'[r].rng])
           /\ SavedStates' = SavedStates
<1> QED BY WorldLemma, SameSaved DEF Together, Generators

\* What every rank restores is one saved state, or, in a directory without
\* any, the initial one.
LEMMA BeginRefines ==
    ASSUME RunInv, SelectDone
    PROVE  Abstract!Begin
<1>1. /\ IndInv /\ Main \in Rank /\ ckpts' = ckpts
      /\ \A r \in Rank : Flow(local[r]) /\ local[r].pc = "select" /\ local'[r].pc = "configure"
  BY RestoredLemma, LocalFacts DEF RunInv, Flows, SelectDone
<1>2. WorldState = Abstract!None /\ SavedStates' = SavedStates
  <2>1. ~Together BY <1>1 DEF Together, Running
  <2> QED BY <1>1, <2>1, WorldLemma, SameSaved
<1>3. WorldState' = State(local'[Main], stream', [r \in Rank |-> local'[r].rng])
  <2>1. Together' /\ Generators' = [r \in Rank |-> local'[r].rng] BY <1>1 DEF Together, Running, Generators
  <2> QED BY <2>1, WorldLemma
<1>4. CASE local[Main].from = 0
  <2>1. \A r \in Rank : /\ local'[r].step = 0 /\ local'[r].trained = <<>> /\ local'[r].rng = 0
    <3> SUFFICES ASSUME NEW r \in Rank
                 PROVE  local'[r].step = 0 /\ local'[r].trained = <<>> /\ local'[r].rng = 0
      OBVIOUS
    <3>1. local[r].step = 0 /\ local[r].trained = <<>> /\ local[r].rng = 0 BY <1>1 DEF Flow
    <3> QED BY <1>1, <1>4, <3>1, RestoredLemma
  <2>2. stream' = 0 BY <1>1, <1>4 DEF SelectDone, RunInv, Data
  <2>3. SavedStates = {}
    <3>2. ~Established BY <1>1, <1>4 DEF RunInv, Origins, SelectDone, AllIn, AnyFlag
    <3> QED BY <3>2 DEF Established, SavedStates
  <2>4. [r \in Rank |-> local'[r].rng] = [r \in Rank |-> 0] BY <2>1
  <2>5. WorldState' = Abstract!Initial BY <1>1, <1>3, <2>1, <2>2, <2>4 DEF State, Abstract!Initial
  <2> QED BY <1>2, <2>3, <2>5 DEF Abstract!Begin
<1>5. CASE local[Main].from # 0
  <2> DEFINE c == FileOf(local[Main].from)
  <2>1. c \in ckpts /\ c \in CheckpointType BY <1>1, <1>5, RestoredLemma
  <2>2. \A r \in Rank : /\ local'[r].step = c.step /\ local'[r].trained = c.trained
                        /\ local'[r].rng = c.rng[r]
    BY <1>1, RestoredLemma, <1>5
  <2>3. stream' = c.stream BY <1>5 DEF SelectDone
  <2> HIDE DEF c
  <2>4. [r \in Rank |-> local'[r].rng] = c.rng BY <2>1, <2>2 DEF CheckpointType
  <2>5. WorldState' = State(c, c.stream, c.rng) BY <1>1, <1>3, <2>2, <2>3, <2>4 DEF State
  <2> QED BY <1>2, <2>5, <2>1 DEF Abstract!Begin, State, SavedStates
<1> QED BY <1>4, <1>5

\* A step of all ranks reads one position and trains every copy on it.
LEMMA TrainRefines ==
    ASSUME RunInv, StepDone
    PROVE  Abstract!Train
<1> DEFINE l == local[Main]
           m == local'[Main]
           before == [r \in Rank |-> local[r].rng]
           after == [r \in Rank |-> local'[r].rng]
<1>1. /\ IndInv /\ Main \in Rank /\ ckpts' = ckpts /\ stream' = stream + 1 /\ stream \in Nat
      /\ \A r \in Rank : local[r].pc = "step" /\ local[r] \in LocalType
  BY LocalFacts DEF RunInv, StepDone
<1>2. ASSUME NEW r \in Rank
      PROVE  /\ local'[r].pc = "after step" /\ local'[r].rng = local[r].rng + 1
             /\ local'[r].step = local[r].step + 1
             /\ local'[r].trained = IF local[r].step > 0 THEN Append(local[r].trained, stream + 1)
                                    ELSE local[r].trained
  <2>1. local'[r] = Updated(local[r]) BY <1>1, PlacesLemma
  <2>2. /\ Updated(local[r]).pc = "after step" /\ Updated(local[r]).rng = local[r].rng + 1
        /\ Updated(local[r]).step = local[r].step + 1
        /\ Updated(local[r]).trained = IF local[r].step > 0 THEN Append(local[r].trained, stream + 1)
                                       ELSE local[r].trained
    BY <1>1, StepFields
  <2> QED BY <2>1, <2>2
<1>3. /\ WorldState = State(l, stream, before) /\ WorldState' = State(m, stream', after)
      /\ SavedStates' = SavedStates
  BY <1>1, <1>2, OnwardLemma DEF Running
<1>4. l.step < TotalSteps BY <1>1 DEF IndInv, WellFormed
<1>5. after = [r \in Rank |-> before[r] + 1] BY <1>2
<1>6. /\ m.step = l.step + 1
      /\ m.trained = IF l.step > 0 THEN Append(l.trained, stream + 1) ELSE l.trained
  BY <1>1, <1>2
<1> HIDE DEF l, m, before, after
<1> DEFINE world == State(l, stream, before)
           trained == IF l.step > 0 THEN Append(l.trained, stream + 1) ELSE l.trained
<1>8. /\ world.step = l.step /\ world.stream = stream /\ world.rng = before
      /\ world.trained = l.trained
  BY StateFields
<1>9. State(m, stream + 1, after) =
        [world EXCEPT !.step = l.step + 1, !.stream = stream + 1, !.rng = after,
                      !.trained = trained]
  <2> DEFINE more == l.step + 1
             next == stream + 1
             e == [world EXCEPT !.step = more, !.stream = next, !.rng = after, !.trained = trained]
  <2>1. m.step = more /\ m.trained = trained BY <1>6
  <2>2. world \in [step : {l.step}, trained : {l.trained}, stream : {stream}, rng : {before},
                   running : {TRUE}]
    BY DEF State
  <2> HIDE DEF trained, more, next, world
  <2>3. e \in [step : {more}, trained : {trained}, stream : {next}, rng : {after}, running : {TRUE}] BY <2>2
  <2> HIDE DEF e
  <2>4. e = State(m, next, after) BY <2>1, <2>3 DEF State
  <2> QED BY <2>4 DEF e, more, next
<1> HIDE DEF world
<1>10. /\ WorldState = world /\ WorldState' = State(m, stream + 1, after)
       /\ SavedStates' = SavedStates
  BY <1>1, <1>3 DEF world
<1>11. WorldState' = [WorldState EXCEPT
            !.step = @ + 1, !.stream = @ + 1, !.rng = [r \in Rank |-> @[r] + 1],
            !.trained = IF WorldState.step > 0 THEN Append(@, WorldState.stream + 1) ELSE @]
  BY <1>5, <1>8, <1>9, <1>10, ZenonT(60)
<1> QED BY <1>4, <1>10, <1>11, <1>3, StateFields DEF Abstract!Train

\* A step that fails reads its position and draws, and is not trained on.
LEMMA FailStepRefines ==
    ASSUME RunInv, StepNotFinite
    PROVE  Abstract!FailStep \/ Abstract!AbsNext
<1> DEFINE l == local[Main]
           m == local'[Main]
           before == [r \in Rank |-> local[r].rng]
           after == [r \in Rank |-> local'[r].rng]
<1>1. /\ IndInv /\ Main \in Rank /\ ckpts' = ckpts /\ stream' = stream + 1 /\ stream \in Nat
      /\ \A r \in Rank : local[r].pc = "step" /\ local[r] \in LocalType
  BY LocalFacts DEF RunInv, StepNotFinite
<1>2. ASSUME NEW r \in Rank
      PROVE  /\ local'[r].pc \in {"failed", "gather"} /\ local'[r].rng = local[r].rng + 1
             /\ local'[r].step = local[r].step /\ local'[r].trained = local[r].trained
  BY <1>1, <1>2, NotFiniteLemma
<1>3. CASE m.pc = "failed" BY <1>3, <1>1, StopsLemma DEF Together, Running
<1>4. CASE m.pc = "gather"
  <2>1. /\ WorldState = State(l, stream, before) /\ WorldState' = State(m, stream', after)
        /\ SavedStates' = SavedStates
    BY <1>1, <1>2, <1>4, OnwardLemma DEF Running
  <2>2. l.step < TotalSteps BY <1>1 DEF IndInv, WellFormed
  <2>3. after = [r \in Rank |-> before[r] + 1] BY <1>2
  <2>4. m.step = l.step /\ m.trained = l.trained BY <1>1, <1>2
  <2> HIDE DEF l, m, before, after
  <2> DEFINE world == State(l, stream, before)
  <2>6. world.stream = stream /\ world.rng = before BY StateFields
  <2>7. State(m, stream + 1, after) = [world EXCEPT !.stream = stream + 1, !.rng = after]
    <3> DEFINE next == stream + 1
               e == [world EXCEPT !.stream = next, !.rng = after]
    <3>1. world \in [step : {l.step}, trained : {l.trained}, stream : {stream}, rng : {before},
                     running : {TRUE}]
      BY DEF State
    <3> HIDE DEF next, world
    <3>2. e \in [step : {l.step}, trained : {l.trained}, stream : {next}, rng : {after},
                 running : {TRUE}]
      BY <3>1
    <3> HIDE DEF e
    <3>3. e = State(m, next, after) BY <2>4, <3>2 DEF State
    <3> QED BY <3>3 DEF e, next
  <2> HIDE DEF world
  <2>8. /\ WorldState = world /\ WorldState' = State(m, stream + 1, after)
        /\ SavedStates' = SavedStates
    BY <1>1, <2>1 DEF world
  <2>9. WorldState' = [WorldState EXCEPT !.stream = @ + 1, !.rng = [r \in Rank |-> @[r] + 1]]
    BY <2>3, <2>6, <2>7, <2>8
  <2> QED BY <2>2, <2>8, <2>9, <2>1, StateFields DEF Abstract!FailStep
<1> QED BY <1>1, <1>2, <1>3, <1>4

\* Inference draws from the generators only.
LEMMA DrawRefines ==
    ASSUME RunInv, NEW place \in Inference, InferenceDone(place)
    PROVE  Abstract!Draw
<1> DEFINE l == local[Main]
           m == local'[Main]
           before == [r \in Rank |-> local[r].rng]
           after == [r \in Rank |-> local'[r].rng]
<1>1. /\ IndInv /\ Main \in Rank /\ ckpts' = ckpts /\ stream' = stream
      /\ \A r \in Rank : local[r].pc = place
  BY LocalFacts DEF RunInv, InferenceDone
<1>2. PICK drawn \in [Rank -> {0, 1}] : \A r \in Rank :
             /\ local'[r].pc \in {"after samples", "after benchmarks"}
             /\ local'[r].step = local[r].step /\ local'[r].trained = local[r].trained
             /\ local'[r].rng = local[r].rng + drawn[r]
  BY <1>1, InferredLemma
<1>3. /\ WorldState = State(l, stream, before) /\ WorldState' = State(m, stream', after)
      /\ SavedStates' = SavedStates
  BY <1>1, <1>2, OnwardLemma DEF Running
<1>4. after = [r \in Rank |-> before[r] + drawn[r]] BY <1>2
<1>5. m.step = l.step /\ m.trained = l.trained BY <1>1, <1>2
<1> HIDE DEF l, m, before, after
<1>6. WorldState # Abstract!None BY <1>3, StateFields
<1> DEFINE world == State(l, stream, before)
<1>7. WorldState' = [WorldState EXCEPT !.rng = [r \in Rank |-> @[r] + drawn[r]]]
  BY <1>5, StateFields, DrawnState, <1>1, <1>3, <1>4 DEF State, world
<1>8. drawn \in [Rank -> 0..1] OBVIOUS
<1> QED BY <1>1, <1>3, <1>6, <1>7, <1>8 DEF Abstract!Draw

\* A checkpoint holds the state the world is in, whole.
LEMMA KeepRefines ==
    ASSUME RunInv, NEW outcome \in {"ok", "error"}, WriteCheckpoint(outcome)
    PROVE  Abstract!Keep
<1> DEFINE c == Snapshot(local[Main])
<1>1. /\ c.step = local[Main].step /\ c.trained = local[Main].trained /\ c.stream = stream
      /\ c.rng = gathered /\ local[Main].pc = "publish"
      /\ ckpts' = {d \in ckpts : d.step # c.step \/ d.failed # c.failed} \union {c}
      /\ UNCHANGED <<local, stream, gathered>>
  BY PublishedFacts DEF RunInv
<1> HIDE DEF c
<1>2. Together /\ Generators = gathered /\ Together' /\ Generators' = gathered
  BY <1>1 DEF Together, Generators, Running
<1>3. WorldState = State(c, c.stream, c.rng) /\ WorldState' = WorldState BY <1>1, <1>2, WorldLemma DEF State
<1>4. /\ \A s \in SavedStates : \E d \in ckpts : s = State(d, d.stream, d.rng)
      /\ \A d \in ckpts' : State(d, d.stream, d.rng) \in SavedStates'
      /\ \A s \in SavedStates' : \E d \in ckpts' : s = State(d, d.stream, d.rng)
      /\ \A d \in ckpts : State(d, d.stream, d.rng) \in SavedStates
  BY DEF SavedStates, State
<1>6. WorldState # Abstract!None /\ WorldState.step = c.step BY <1>3, StateFields
<1>7. ASSUME NEW s \in SavedStates
      PROVE  s \in SavedStates' \/ s.step = WorldState.step
  BY <1>4, <1>6, StateFields, <1>1
<1> QED BY <1>3, <1>6, <1>7, <1>1, <1>4 DEF Abstract!Keep

\* Every step of the ranks and of the environment is a step of that process,
\* or none.
LEMMA RefinesLemma ==
    ASSUME RunInv, Next
    PROVE  Abstract!AbsNext \/ UNCHANGED <<WorldState, SavedStates>>
<1> DEFINE l == local[Main]
           m == local'[Main]
<1>1. /\ IndInv /\ Main \in Rank /\ local \in [Rank -> LocalType] /\ AnyFlag \in BOOLEAN
      /\ \A r \in Rank : local[r] \in LocalType /\ Flow(local[r])
  BY LocalFacts DEF RunInv, Flows
<1>2. ASSUME ckpts' = ckpts, m.pc \notin Running
      PROVE  Abstract!AbsNext
  BY <1>2, StopsLemma DEF Together
<1>3. CASE Start
  <2>1. m = [Idle EXCEPT !.pc = "select"] /\ ckpts' = ckpts BY <1>1, <1>3 DEF Start, Launch
  <2> QED BY <1>2, <2>1, IdleFields DEF Running
<1>4. ASSUME NEW s \in Rank, RankStep(s) \/ Signal(s) \/ Die(s)
      PROVE  Abstract!AbsNext \/ UNCHANGED <<WorldState, SavedStates>>
  <2>1. UNCHANGED <<ckpts, stream, gathered>> BY <1>4, QuietLemma
  <2>2. CASE Enter(s) \/ Signal(s)
    <3>1. local' = local BY <2>2 DEF Enter, Signal
    <3> QED BY <2>1, <3>1, SameWorldLemma
  <2>3. CASE SelectResume(s)
    <3>2. \A r \in Rank : LET n == [local[r] EXCEPT !.from = ResolveResume] IN
            n.pc = local[r].pc /\ n.step = local[r].step /\ n.trained = local[r].trained /\ n.rng = local[r].rng
      BY <1>1 DEF LocalType
    <3> QED BY <1>1, <2>1, SameWorldLemma, <3>2, <2>3 DEF SelectResume
  <2>4. CASE Close(s) /\ s # Main
    <3>1. m = l /\ \A r \in Rank : \/ local'[r] = local[r]
                                  \/ /\ local'[r] = [local[r] EXCEPT !.pc = "closed"]
                                     /\ local[r].pc = "close"
      BY <1>1, <2>4 DEF Close
    <3>2. \A r \in Rank : LET n == [local[r] EXCEPT !.pc = "closed"] IN
            n.pc = "closed" /\ n.rng = local[r].rng
      BY <1>1 DEF LocalType
    <3>3. \A r \in Rank : /\ (local'[r].pc = "dead") <=> (local[r].pc = "dead")
                          /\ local'[r].rng = local[r].rng
      BY <3>1, <3>2
    <3> QED BY <2>1, <3>1, <3>3, SameWorldLemma
  <2>5. CASE Close(s) /\ s = Main
    <3>1. m.pc = "closed" BY <1>1, <2>5 DEF Close, LocalType
    <3> QED BY <1>2, <2>1, <3>1 DEF Running
  <2>6. CASE Die(s) /\ s # Main
    <3>1. m = l /\ local'[s] = [Idle EXCEPT !.pc = "dead"] BY <1>1, <2>6 DEF Die
    <3>2. local'[s].pc = "dead" BY <3>1, IdleFields
    <3>3. CASE l.pc = "publish"
      <4>1. Together /\ Together' /\ Generators = gathered /\ Generators' = gathered
        BY <2>1, <3>1, <3>3 DEF Together, Running, Generators
      <4>2. WorldState' = WorldState BY <2>1, <3>1, <4>1, WorldLemma DEF State
      <4> QED BY <2>1, <4>2, SameSaved
    <3>4. CASE l.pc # "publish"
      <4>1. ~Together' BY <3>1, <3>2, <3>4 DEF Together
      <4> QED BY <2>1, <4>1, StopsLemma
    <3> QED BY <3>3, <3>4
  <2>7. CASE Die(s) /\ s = Main BY <1>1, <2>7, IdleFields, <1>2, <2>1 DEF Die, Running
  <2> QED BY <1>4, <2>2, <2>3, <2>4, <2>5, <2>6, <2>7 DEF RankStep
<1>5. CASE CollectiveDone
  <2>1. ckpts' = ckpts BY <1>5, CollectiveFrame
  <2>2. ASSUME \A r \in Rank : /\ local[r].pc # "dead" /\ local'[r].pc # "dead"
                               /\ local'[r].rng = local[r].rng,
               l.pc \in Running \ {"publish"}, m.pc \in Running \ {"publish"},
               m.step = l.step, m.trained = l.trained, stream' = stream
        PROVE  UNCHANGED <<WorldState, SavedStates>>
    <3>3. State(m, stream, [r \in Rank |-> local[r].rng]) = State(l, stream, [r \in Rank |-> local[r].rng])
      BY <2>2 DEF State
    <3> QED BY <2>2, <3>3, <2>1, OnwardLemma
  <2>3. CASE FailAll
    <3>1. m.pc = "failed" BY <1>1, <2>3, FailFields
    <3> QED BY <1>2, <2>1, <3>1 DEF Running
  <2>4. CASE SelectDone BY <2>4, BeginRefines DEF Abstract!AbsNext
  <2>5. CASE ConfigureDone /\ ~AnyFlag
    <3>1. ASSUME NEW r \in Rank
          PROVE  /\ local[r].pc = "configure" /\ Kept(local[r], local'[r])
                 /\ Continues(local[r], local'[r])
      <4>1. local[r].pc = "configure" BY <1>1, <2>5, LocalFacts DEF ConfigureDone
      <4>2. local'[r] = LoopHead(local[r]) BY <1>1, <2>5, PlacesLemma
      <4> QED BY <1>1, <4>1, <4>2, ConfiguredFlow
    <3>2. stream' = stream BY <2>5 DEF ConfigureDone
    <3>3. \A r \in Rank : /\ local[r].pc = "configure"
                          /\ local'[r].pc \in Running \ {"publish"}
                          /\ local'[r].rng = local[r].rng /\ local'[r].step = local[r].step
                          /\ local'[r].trained = local[r].trained
      BY <3>1 DEF Kept, Continues, Running
    <3> QED BY <1>1, <2>2, <3>2, <3>3 DEF Running
  <2>6. ASSUME NEW place \in Polls, PollDone(place)
        PROVE  UNCHANGED <<WorldState, SavedStates>>
    <3>1. ASSUME NEW r \in Rank
          PROVE  local[r].pc = place /\ Polled(place, local[r], AnyFlag, local'[r])
      <4>1. local[r].pc = place BY <1>1, <2>6, LocalFacts DEF PollDone
      <4>2. local'[r] = AfterPoll(place, Asked(local[r], AnyFlag)) BY <1>1, <2>6, PlacesLemma
      <4>3. Polled(place, local[r], AnyFlag, local'[r]) BY <1>1, <4>1, <4>2, PollFlow, Zenon
      <4> QED BY <4>1, <4>3
    <3>2. stream' = stream BY <2>6 DEF PollDone
    <3>3. \A r \in Rank : /\ local[r].pc = place
                          /\ local'[r].rng = local[r].rng /\ local'[r].step = local[r].step
                          /\ local'[r].trained = local[r].trained
      BY <3>1 DEF Polled
    <3>4. \A r \in Rank : local'[r].pc \in Running \ {"publish"}
      BY <3>1 DEF Polled, Leads, Finishes, Continues, SavesDue, Running
    <3> QED BY <1>1, <2>2, <3>2, <3>3, <3>4 DEF Running
  <2>7. CASE StepDone BY <2>7, TrainRefines DEF Abstract!AbsNext
  <2>8. CASE StepNotFinite BY <2>8, FailStepRefines DEF Abstract!AbsNext
  <2>9. CASE EvaluateDone
    <3>1. ASSUME NEW r \in Rank
          PROVE  /\ local[r].pc = "evaluate" /\ local'[r].pc = "after validation"
                 /\ local'[r].rng = local[r].rng /\ local'[r].step = local[r].step
                 /\ local'[r].trained = local[r].trained
      <4>1. local[r].pc = "evaluate" BY <1>1, <2>9, LocalFacts DEF EvaluateDone
      <4>2. local'[r] = Goto(local[r], "after validation") BY <1>1, <2>9, PlacesLemma
      <4> QED BY <1>1, <4>1, <4>2 DEF Goto, LocalType
    <3>2. stream' = stream BY <2>9 DEF EvaluateDone
    <3> QED BY <1>1, <2>2, <3>1, <3>2 DEF Running
  <2>10. ASSUME NEW place \in Inference, InferenceDone(place)
         PROVE  Abstract!AbsNext
    BY <2>10, DrawRefines DEF Abstract!AbsNext
  <2>11. CASE GatherDone
    <3>1. ASSUME NEW r \in Rank
          PROVE  /\ local[r].pc = "gather" /\ local'[r].pc = "publish"
                 /\ local'[r].step = local[r].step /\ local'[r].trained = local[r].trained
      <4>1. local[r].pc = "gather" BY <1>1, <2>11, LocalFacts DEF GatherDone
      <4>2. local'[r] = Goto(local[r], "publish") BY <1>1, <2>11, PlacesLemma
      <4> QED BY <1>1, <4>1, <4>2, GotoFields
    <3>2. stream' = stream /\ gathered' = [r \in Rank |-> local[r].rng] BY <2>11 DEF GatherDone
    <3>3. Together /\ Together' /\ Generators' = Generators
      BY <1>1, <3>1, <3>2 DEF Together, Running, Generators
    <3>4. State(m, stream', Generators') = State(l, stream, Generators) BY <1>1, <3>1, <3>2, <3>3 DEF State
    <3> QED BY <2>1, <3>3, <3>4, WorldLemma, SameSaved
  <2>12. CASE PublishDone /\ ~AnyFlag
    <3>1. ASSUME NEW r \in Rank
          PROVE  /\ local[r].pc = "publish" /\ local[r].saving # "no"
                 /\ local'[r] = AfterPublish(local[r])
      <4>1. local[r].pc = "publish" BY <1>1, <2>12, LocalFacts DEF PublishDone
      <4>2. local'[r] = AfterPublish(local[r]) BY <1>1, <2>12, PlacesLemma
      <4> QED BY <1>1, <4>1, <4>2 DEF Flow
    <3>2. \A r \in Rank : /\ local'[r].rng = local[r].rng /\ local'[r].step = local[r].step
                          /\ local'[r].trained = local[r].trained
                          /\ local'[r].pc \in {"after checkpoint", "close", "failed"}
      <4> SUFFICES ASSUME NEW r \in Rank
                   PROVE  /\ local'[r].rng = local[r].rng /\ local'[r].step = local[r].step
                          /\ local'[r].trained = local[r].trained
                          /\ local'[r].pc \in {"after checkpoint", "close", "failed"}
        OBVIOUS
      <4>1. local[r] \in LocalType /\ local[r].pc = "publish" /\ local[r].saving # "no" BY <1>1, <3>1
      <4>2. LET n == AfterPublish(local[r]) IN
            /\ n.rng = local[r].rng /\ n.step = local[r].step /\ n.trained = local[r].trained
            /\ n.pc \in {"after checkpoint", "close", "failed"}
        BY <4>1, AfterPublishFields
      <4> QED BY <3>1, <4>2
    <3>3. CASE m.pc = "failed" BY <1>2, <2>1, <3>3 DEF Running
    <3>4. CASE m.pc # "failed"
      <4>1. stream' = stream BY <2>12 DEF PublishDone
      <4>2. \A r \in Rank : local'[r].pc # "dead" /\ local[r].pc # "dead" BY <3>1, <3>2
      <4>3. m.pc \in Running /\ m.pc # "publish" BY <1>1, <3>2, <3>4 DEF Running
      <4>4. Together /\ Together' BY <1>1, <3>1, <4>2, <4>3 DEF Together, Running
      <4>5. Generators = gathered /\ Generators' = [r \in Rank |-> local'[r].rng]
        BY <1>1, <3>1, <4>3 DEF Generators
      <4>6. gathered = [r \in Rank |-> local'[r].rng]
        <5>1. gathered \in [Rank -> Nat] BY <1>1 DEF IndInv, TypeOK
        <5>2. \A r \in Rank : gathered[r] = local'[r].rng BY <1>1, <3>1, <3>2, <4>2 DEF RunInv, Saves
        <5> QED BY <5>1, <5>2
      <4>7. State(m, stream', Generators') = State(l, stream, Generators)
        BY <1>1, <3>2, <4>1, <4>5, <4>6 DEF State
      <4> QED BY <2>1, <4>4, <4>7, WorldLemma, SameSaved
    <3> QED BY <3>3, <3>4
  <2> QED BY <1>5, <2>3, <2>4, <2>5, <2>6, <2>7, <2>8, <2>9, <2>10, <2>11, <2>12
          DEF CollectiveDone, SelectRefused, ConfigureDone, InferenceFails, PublishDone
<1>6. CASE MainWork
  <2>2. CASE ckpts' = ckpts BY <2>2, SameWorldLemma, <1>6, MainWorkFrame
  <2>3. ASSUME NEW outcome \in {"ok", "error"}, WriteCheckpoint(outcome)
        PROVE  Abstract!AbsNext
    BY <2>3, KeepRefines DEF Abstract!AbsNext
  <2> QED BY <1>6, <2>2, <2>3 DEF MainWork, PublishRunConfig, PublishModelConfig,
          FinishConfiguration, PublishCheckpoint, MainWorkFails
<1>7. CASE LauncherKill
  <2>1. \/ m = [Idle EXCEPT !.pc = "dead"]
        \/ m = l /\ ~Alive(Main)
    BY <1>1, <1>7 DEF LauncherKill
  <2>2. m.pc \notin Running BY <2>1, IdleFields, ZenonT(60) DEF Alive, Running
  <2> QED BY <1>1, <1>2, <1>7, <2>2, QuietLemma
<1>8. CASE Done BY <1>8, SameWorldLemma DEF Done, vars
<1> QED BY <1>3, <1>4, <1>5, <1>6, <1>7, <1>8 DEF Next

\* The ranks of a run, their collectives, file work, crashes and restarts
\* implement one process that saves whole states and restarts from them.
THEOREM Implementation == Spec => ImplementsResumableRun
<1>1. Init => Abstract!AbsInit
  <2> SUFFICES ASSUME Init PROVE Abstract!AbsInit OBVIOUS
  <2>1. local[Main].pc = "down" /\ ckpts = {} BY RankAssumption DEF Init, Idle
  <2>2. ~Together BY <2>1 DEF Together, Running
  <2> QED BY <2>2, WorldLemma, <2>1 DEF Abstract!AbsInit, SavedStates
<1>2. RunInv /\ [Next]_vars => [Abstract!AbsNext]_(Abstract!absVars)
  BY SameWorldLemma, RefinesLemma DEF vars, Abstract!absVars
<1> QED BY <1>1, <1>2, RunInvariance, PTL DEF Spec, ImplementsResumableRun, Abstract!AbsSpec
=============================================================================
