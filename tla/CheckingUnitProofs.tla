------------------------- MODULE CheckingUnitProofs -------------------------
(***************************************************************************)
(* Proofs about the checking unit, for any number of rounds and calls of   *)
(* Close, any candidates and any amount of movement outside.               *)
(*                                                                         *)
(* The theorems rest on one inductive invariant: who is inside (Gated),    *)
(* what a close that began may assume (Closing) and what its judgments say *)
(* (Judged).  Judged is where the hazard lies: it must hold from the       *)
(* closing read on, through a reobservation that may still refuse, and it  *)
(* stays true only because nobody can append a slot behind a close.        *)
(* The second part of the module is about one record's verdict on its way  *)
(* down the reuse ladder the unit leans on (module Reuse).                 *)
(***************************************************************************)
EXTENDS CheckingUnit, Reuse, TLAPS

\* The gate is held by the one round past it, the unit is busy while a round is
\* inside, and none is once a close has begun.
Gated ==
    /\ \A r \in Rounds : rpc[r] \in Inside \cup {"admit"} <=> gate = r
    /\ busy <=> \E r \in Rounds : rpc[r] \in Inside
    /\ cpc # "idle" => ~busy

\* A close that began found the unit open and left it so to nobody; only the
\* end of the work has an outcome, and only answers close the unit.
Closing ==
    /\ cpc # "idle" => phase # "open"
    /\ cpc \notin {"finish", "done"} => outcome = "none"
    /\ phase = "closed" => outcome = "answers"

\* The closed judgments: a difference some read saw is in them, and a valid one
\* held at the closing read, as long as the tree did not move before it.
Judged ==
    cpc = "reobserve" \/ outcome = "answers" =>
        /\ DOMAIN answers = DOMAIN slots
        /\ \A i \in DOMAIN slots : Demonstrated(slots[i]) => answers[i] = "stale"
        /\ \A i \in DOMAIN slots : answers[i] = "valid" =>
              i \in stood \/ (cpc = "reobserve" /\ treeMoved)

IInv == TypeOK /\ Gated /\ Closing /\ Judged

-----------------------------------------------------------------------------
(* Types.                                                                  *)

LEMMA Stutters ==
    ASSUME TypeOK
    PROVE  /\ UNCHANGED unitVars => UnitType'
           /\ UNCHANGED viewVars => ViewType'
           /\ UNCHANGED roundVars => RoundType'
           /\ UNCHANGED closeVars => CloseType'
           /\ UNCHANGED worldVars => WorldType'
           /\ UNCHANGED stood => (stood \subseteq Nat)'
<1> USE DEF TypeOK
<1>1. UNCHANGED unitVars => UnitType'
    BY DEF UnitType, unitVars
<1>2. UNCHANGED viewVars => ViewType'
    BY DEF ViewType, viewVars
<1>3. UNCHANGED roundVars => RoundType'
    BY DEF RoundType, roundVars
<1>4. UNCHANGED closeVars => CloseType'
    BY DEF CloseType, closeVars
<1>5. UNCHANGED worldVars => WorldType'
    BY DEF WorldType, worldVars
<1> QED
    BY <1>1, <1>2, <1>3, <1>4, <1>5

LEMMA JudgeIsVerdict ==
    ASSUME NEW old, NEW version, NEW current
    PROVE  Judge(old, version, current) \in Verdicts
BY DEF Judge, Verdicts

LEMMA MotionIsVerdict ==
    ASSUME NEW old, NEW verdict \in Verdicts, NEW from, NEW to
    PROVE  Motion(old, verdict, from, to) \in Verdicts
BY DEF Motion, Verdicts

LEMMA AdmissibleIsJob ==
    ASSUME TypeOK, NEW j \in Admissible
    PROVE  j \in Jobs
<1>1. NoJob \in Jobs
    BY CheckingAssumption DEF NoJob, Jobs, Records, Kinds, Verdicts
<1> QED
    BY <1>1, CheckingAssumption DEF Admissible, Jobs

LEMMA RoundKeepsType ==
    ASSUME TypeOK, NEW r \in Rounds, Round(r)
    PROVE  TypeOK'
<1> USE DEF Inside, RoundReturns, Leave
<1>1. CASE RoundEnter(r)
  <2>1. RoundType'
    BY <1>1 DEF RoundEnter, TypeOK, RoundType
  <2> QED
    BY <1>1, <2>1, Stutters DEF RoundEnter, TypeOK
<1>2. CASE RoundAcquire(r)
  <2>1. RoundType' /\ UnitType'
    BY <1>2 DEF RoundAcquire, TypeOK, RoundType, UnitType
  <2> QED
    BY <1>2, <2>1, Stutters DEF RoundAcquire, TypeOK
<1>3. CASE RoundAdmit(r)
  <2>1. job' \in [Rounds -> Jobs]
    BY <1>3, AdmissibleIsJob DEF RoundAdmit, TypeOK, RoundType
  <2>2. rpc' \in [Rounds -> Inside \cup {"idle", "waiting", "admit"} \cup RoundReturns]
    BY <1>3 DEF RoundAdmit, TypeOK, RoundType
  <2>3. RoundType' /\ UnitType'
    BY <1>3, <2>1, <2>2 DEF RoundAdmit, TypeOK, RoundType, UnitType
  <2> QED
    BY <1>3, <2>3, Stutters DEF RoundAdmit, TypeOK
<1>4. CASE RoundBefore(r)
  <2>1. job' \in [Rounds -> Jobs]
    BY <1>4 DEF RoundBefore, TypeOK, RoundType, WorldType, Jobs
  <2>2. RoundType'
    BY <1>4, <2>1 DEF RoundBefore, TypeOK, RoundType
  <2> QED
    BY <1>4, <2>2, Stutters DEF RoundBefore, TypeOK
<1>5. CASE RoundProve(r)
  <2>1. ViewType'
    BY <1>5 DEF RoundProve, TypeOK, ViewType, viewVars, ProofOutcomes
  <2>2. (Selects(job[r].record, job[r].before) /\ proof' = "observable") \in BOOLEAN
    BY DEF Selects
  <2>3. job' \in [Rounds -> Jobs]
    BY <1>5, <2>2, JudgeIsVerdict DEF RoundProve, TypeOK, RoundType, Jobs
  <2>4. RoundType'
    BY <1>5, <2>3 DEF RoundProve, TypeOK, RoundType
  <2> QED
    BY <1>5, <2>1, <2>4, Stutters DEF RoundProve, TypeOK
<1>6. CASE RoundAfter(r)
  <2>1. job[r] \in Jobs /\ job[r].verdict \in Verdicts
    BY DEF TypeOK, RoundType, Jobs
  <2>2. Motion(job[r].record, job[r].verdict, job[r].before, inputs) \in Verdicts
    BY <2>1, MotionIsVerdict
  <2>3. job' \in [Rounds -> Jobs]
    BY <1>6, <2>1, <2>2 DEF RoundAfter, TypeOK, RoundType, WorldType, Jobs
  <2>4. RoundType'
    BY <1>6, <2>3 DEF RoundAfter, TypeOK, RoundType
  <2> QED
    BY <1>6, <2>4, Stutters DEF RoundAfter, TypeOK
<1>7. CASE RoundFails(r)
  <2>1. RoundType'
    BY <1>7 DEF RoundFails, TypeOK, RoundType
  <2> QED
    BY <1>7, <2>1, Stutters DEF RoundFails, TypeOK
<1>8. CASE RoundCommit(r)
  <2>1. slots' \in Seq(Jobs) /\ index' \in [Rounds -> Nat]
    <3>1. slots \in Seq(Jobs) /\ job[r] \in Jobs /\ index \in [Rounds -> Nat]
      BY DEF TypeOK, RoundType, UnitType
    <3>2. Append(slots, job[r]) \in Seq(Jobs) /\ Len(slots) + 1 \in Nat
      BY <3>1
    <3>3. slots' = slots \/ slots' = Append(slots, job[r])
      BY <1>8 DEF RoundCommit
    <3>4. index' = index \/ index' = [index EXCEPT ![r] = Len(slots) + 1]
      BY <1>8 DEF RoundCommit
    <3> QED
      BY <3>1, <3>2, <3>3, <3>4
  <2>2. phase' \in Phases /\ gate' = NoOne /\ busy' \in BOOLEAN /\ workCancelled' \in BOOLEAN
    BY <1>8 DEF RoundCommit, TypeOK, UnitType, Phases
  <2>3. rpc' \in [Rounds -> Inside \cup {"idle", "waiting", "admit"} \cup RoundReturns]
    BY <1>8 DEF RoundCommit, TypeOK, RoundType
  <2>4. RoundType' /\ UnitType'
    BY <1>8, <2>1, <2>2, <2>3 DEF RoundCommit, TypeOK, RoundType, UnitType
  <2> QED
    BY <1>8, <2>4, Stutters DEF RoundCommit, TypeOK
<1> QED
    BY <1>1, <1>2, <1>3, <1>4, <1>5, <1>6, <1>7, <1>8 DEF Round

LEMMA CloseBeginKeepsType ==
    ASSUME TypeOK, NEW c \in Closers, NEW nil \in BOOLEAN, CloseBegin(c, nil)
    PROVE  TypeOK'
<1>1. phase' \in Phases /\ workCancelled' \in BOOLEAN
    BY DEF CloseBegin, TypeOK, UnitType, Phases
<1>2. UnitType'
    BY <1>1 DEF CloseBegin, TypeOK, UnitType
<1>3. result' \in [Closers -> CloseReturns]
    BY DEF CloseBegin, TypeOK, CloseType, CloseReturns
<1>4. CloseType'
    BY <1>3 DEF CloseBegin, TypeOK, CloseType, CloseWorking
<1> QED
    BY <1>2, <1>4, Stutters DEF CloseBegin, TypeOK

LEMMA CloseJudgmentIsVerdict ==
    ASSUME NEW s
    PROVE  CloseJudgment(s) \in Verdicts
BY JudgeIsVerdict, MotionIsVerdict DEF CloseJudgment, Verdicts

LEMMA CloseWorkKeepsType ==
    ASSUME TypeOK, CloseWork
    PROVE  TypeOK'
<1> USE DEF Return, Continue, CloseWorking, CloseOutcomes
<1>1. CASE CloseSeed
  <2>1. CloseType' /\ ViewType'
    BY <1>1 DEF CloseSeed, TypeOK, CloseType, ViewType
  <2> QED
    BY <1>1, <2>1, Stutters DEF CloseSeed, TypeOK
<1>2. CASE CloseBefore
  <2>1. CloseType'
    BY <1>2 DEF CloseBefore, TypeOK, CloseType, WorldType
  <2> QED
    BY <1>2, <2>1, Stutters DEF CloseBefore, TypeOK
<1>3. CASE CloseProve
  <2>1. CloseType' /\ ViewType'
    BY <1>3 DEF CloseProve, TypeOK, CloseType, ViewType
  <2> QED
    BY <1>3, <2>1, Stutters DEF CloseProve, TypeOK
<1>4. CASE CloseAfter
  <2>1. answers' \in Seq(Verdicts)
    BY <1>4, CloseJudgmentIsVerdict DEF CloseAfter, TypeOK, UnitType
  <2>2. CloseType' /\ ViewType'
    BY <1>4, <2>1 DEF CloseAfter, TypeOK, CloseType, ViewType, WorldType
  <2>3. (stood \subseteq Nat)'
    BY <1>4 DEF CloseAfter, TypeOK, UnitType
  <2> QED
    BY <1>4, <2>2, <2>3, Stutters DEF CloseAfter, TypeOK
<1>5. CASE CloseReobserve
  <2>1. CloseType' /\ ViewType'
    BY <1>5 DEF CloseReobserve, TypeOK, CloseType, ViewType
  <2> QED
    BY <1>5, <2>1, Stutters DEF CloseReobserve, TypeOK
<1>6. CASE CloseFails
  <2>1. CloseType'
    BY <1>6 DEF CloseFails, TypeOK, CloseType
  <2> QED
    BY <1>6, <2>1, Stutters DEF CloseFails, TypeOK
<1>7. CASE CloseFinish
  <2>1. Returned \in CloseReturns
    BY DEF Returned, CloseReturns, TypeOK, CloseType
  <2>2. result' \in [Closers -> CloseReturns]
    BY <1>7, <2>1 DEF CloseFinish, TypeOK, CloseType
  <2>3. CloseType' /\ UnitType'
    BY <1>7, <2>2 DEF CloseFinish, TypeOK, CloseType, UnitType, Phases
  <2> QED
    BY <1>7, <2>3, Stutters DEF CloseFinish, TypeOK
<1> QED
    BY <1>1, <1>2, <1>3, <1>4, <1>5, <1>6, <1>7 DEF CloseWork

LEMMA OutsideKeepsType ==
    ASSUME TypeOK,
           \/ Abort
           \/ \E r \in Rounds : CancelRound(r)
           \/ \E c \in Closers : CancelClose(c)
           \/ MoveTree \/ MoveInputs
    PROVE  TypeOK'
<1>1. CASE Abort
  <2>1. UnitType'
    BY <1>1 DEF Abort, TypeOK, UnitType, Phases
  <2> QED
    BY <1>1, <2>1, Stutters DEF Abort, TypeOK
<1>2. CASE \/ \E r \in Rounds : CancelRound(r)
           \/ \E c \in Closers : CancelClose(c)
           \/ MoveTree
  <2>1. WorldType'
    BY <1>2 DEF CancelRound, CancelClose, MoveTree, TypeOK, WorldType
  <2> QED
    BY <1>2, <2>1, Stutters DEF CancelRound, CancelClose, MoveTree, TypeOK
<1>3. CASE MoveInputs
  <2>1. WorldType'
    BY <1>3, CheckingAssumption DEF MoveInputs, TypeOK, WorldType
  <2> QED
    BY <1>3, <2>1, Stutters DEF MoveInputs, TypeOK
<1> QED
    BY <1>1, <1>2, <1>3

LEMMA TypeInit ==
    Init => TypeOK
<1> SUFFICES ASSUME Init PROVE TypeOK
    OBVIOUS
<1>1. NoJob \in Jobs
    BY CheckingAssumption DEF NoJob, Jobs, Records, Kinds, Verdicts
<1>2. UnitType
  <2>1. << >> \in Seq(Jobs)
    OBVIOUS
  <2> QED
    BY <2>1 DEF Init, UnitType, Phases
<1>3. RoundType
    BY <1>1 DEF Init, RoundType
<1>4. CloseType
    BY CheckingAssumption DEF Init, CloseType, CloseOutcomes, CloseReturns
<1>5. WorldType
  <2>1. 0 \in 0..MaxInput /\ 0 \in 0..MaxMoves
    BY CheckingAssumption
  <2> QED
    BY <2>1 DEF Init, WorldType
<1>6. ViewType
    BY DEF Init, ViewType
<1> QED
    BY <1>2, <1>3, <1>4, <1>5, <1>6 DEF TypeOK, Init

LEMMA TypeStep ==
    ASSUME TypeOK, [Next]_vars
    PROVE  TypeOK'
<1>1. CASE UNCHANGED vars
    BY <1>1, Stutters DEF vars, TypeOK
<1> QED
    BY <1>1, RoundKeepsType, CloseBeginKeepsType, CloseWorkKeepsType, OutsideKeepsType
    DEF Next

\* The unit's fields and every call's locals keep the ranges their types and
\* the code's enumerations give them (CheckingUnit).
THEOREM TypeCorrect == Spec => []TypeOK
BY TypeInit, TypeStep, PTL DEF Spec

-----------------------------------------------------------------------------
(* Who is inside.                                                          *)

LEMMA GatedStays ==
    ASSUME Gated, UNCHANGED <<busy, gate, rpc>>, cpc' # "idle" => cpc # "idle"
    PROVE  Gated'
BY DEF Gated

LEMMA RoundKeepsGate ==
    ASSUME TypeOK, Gated, Closing, NEW r \in Rounds, Round(r)
    PROVE  Gated'
<1> USE DEF Inside, Leave
<1>1. rpc \in [Rounds -> Inside \cup {"idle", "waiting", "admit"} \cup RoundReturns]
      /\ NoOne \notin Rounds /\ busy \in BOOLEAN
    BY CheckingAssumption DEF TypeOK, RoundType, UnitType
<1>2. UNCHANGED cpc
    BY DEF Round, RoundEnter, RoundAcquire, RoundAdmit, RoundBefore, RoundProve, RoundAfter,
           RoundFails, RoundCommit, closeVars
<1>3. CASE RoundEnter(r)
    BY <1>1, <1>2, <1>3 DEF RoundEnter, Gated, unitVars
<1>4. CASE RoundAcquire(r)
    BY <1>1, <1>2, <1>4 DEF RoundAcquire, Gated
<1>5. CASE RoundAdmit(r)
    BY <1>1, <1>2, <1>5 DEF RoundAdmit, Gated, Closing
<1>6. CASE RoundBefore(r) \/ RoundProve(r) \/ RoundAfter(r) \/ RoundFails(r)
    BY <1>1, <1>2, <1>6
    DEF RoundBefore, RoundProve, RoundAfter, RoundFails, Gated, unitVars
<1>7. CASE RoundCommit(r)
  <2>1. rpc[r] \in Inside /\ gate = r /\ gate' = NoOne /\ busy' = FALSE
    BY <1>7 DEF RoundCommit, Gated
  <2>2. \E why \in {"cancelled", "aborted", "errUnitClosed", "failed", "checked"} :
            rpc' = [rpc EXCEPT ![r] = why]
    BY <1>7 DEF RoundCommit
  <2> QED
    BY <1>1, <1>2, <2>1, <2>2 DEF Gated
<1> QED
    BY <1>3, <1>4, <1>5, <1>6, <1>7 DEF Round

LEMMA GateStep ==
    ASSUME TypeOK, Gated, Closing, [Next]_vars
    PROVE  Gated'
<1>1. ASSUME NEW c \in Closers, NEW nil \in BOOLEAN, CloseBegin(c, nil)
      PROVE  Gated'
    BY <1>1 DEF CloseBegin, Gated, roundVars
<1>2. CASE CloseWork
  <2>1. cpc # "idle" /\ UNCHANGED <<busy, gate, rpc>>
    BY <1>2 DEF CloseWork, CloseSeed, CloseBefore, CloseProve, CloseAfter, CloseReobserve, CloseFails,
                CloseFinish, CloseWorking, unitVars, roundVars
  <2> QED
    BY <2>1 DEF Gated
<1>3. CASE \/ Abort \/ MoveTree \/ MoveInputs \/ UNCHANGED vars
           \/ \E r \in Rounds : CancelRound(r)
           \/ \E c \in Closers : CancelClose(c)
  <2>1. UNCHANGED <<busy, gate, rpc, cpc>>
    BY <1>3 DEF Abort, MoveTree, MoveInputs, vars, CancelRound, CancelClose, unitVars, roundVars, closeVars
  <2> QED
    BY <2>1, GatedStays
<1> QED
    BY <1>1, <1>2, <1>3, RoundKeepsGate DEF Next

-----------------------------------------------------------------------------
(* What a close may assume.                                                *)

LEMMA RoundLeavesClose ==
    ASSUME NEW r \in Rounds, Round(r)
    PROVE  /\ UNCHANGED <<closeVars, worldVars, stood>>
           /\ phase' = phase \/ phase' = "failed"
           /\ slots' = slots \/ phase = "open"
BY DEF Round, RoundEnter, RoundAcquire, RoundAdmit, RoundBefore, RoundProve, RoundAfter,
       RoundFails, RoundCommit, unitVars

LEMMA ClosingStep ==
    ASSUME TypeOK, Gated, Closing, [Next]_vars
    PROVE  Closing'
<1>1. ASSUME NEW r \in Rounds, Round(r)
      PROVE  Closing'
    BY <1>1, RoundLeavesClose DEF Closing, closeVars
<1>2. ASSUME NEW c \in Closers, NEW nil \in BOOLEAN, CloseBegin(c, nil)
      PROVE  Closing'
    BY <1>2 DEF CloseBegin, Closing
<1>3. CASE CloseSeed \/ CloseBefore \/ CloseProve \/ CloseAfter \/ CloseReobserve \/ CloseFails
  <2>1. cpc \in CloseWorking /\ UNCHANGED phase /\ cpc' # "idle"
    BY <1>3 DEF CloseSeed, CloseBefore, CloseProve, CloseAfter, CloseReobserve, CloseFails,
                CloseWorking, unitVars, Return, Continue
  <2>2. outcome = "none" /\ phase # "open" /\ phase # "closed"
    BY <2>1 DEF Closing, CloseWorking
  <2>3. cpc' \notin {"finish", "done"} => UNCHANGED outcome
    BY <1>3 DEF CloseSeed, CloseBefore, CloseProve, CloseAfter, CloseReobserve, CloseFails,
                Return, Continue
  <2> QED
    BY <2>1, <2>2, <2>3 DEF Closing
<1>4. CASE CloseFinish
    BY <1>4 DEF CloseFinish, Closing, Returned
<1>5. CASE \/ Abort \/ MoveTree \/ MoveInputs \/ UNCHANGED vars
           \/ \E r \in Rounds : CancelRound(r)
           \/ \E c \in Closers : CancelClose(c)
    BY <1>5 DEF Abort, MoveTree, MoveInputs, vars, CancelRound, CancelClose, unitVars, closeVars, Closing
<1> QED
    BY <1>1, <1>2, <1>3, <1>4, <1>5 DEF Next, CloseWork

-----------------------------------------------------------------------------
(* The closed judgments.                                                   *)

LEMMA JudgedStays ==
    ASSUME Judged, UNCHANGED <<slots, cpc, window, windowEnd, answers, outcome, stood>>,
           treeMoved => treeMoved'
    PROVE  Judged'
BY DEF Judged, Demonstrated

\* A slot that any of the four reads found different is judged stale: two reads
\* that agree with the record agree with each other.
LEMMA DifferenceIsStale ==
    ASSUME NEW s, NEW version \in {s.before, s.after, window, inputs},
           Differs(s.record, version)
    PROVE  CloseJudgment(s) = "stale"
<1>1. Reads(s.record) /\ s.record.digest # version
    BY DEF Differs
<1>2. CASE s.verdict = "stale"
    BY <1>2 DEF CloseJudgment
<1>3. CASE s.verdict # "stale" /\ s.record.digest # window
  <2>1. Judge(s.record, window, closeProof) = "stale"
    BY <1>1, <1>3 DEF Judge, Differs
  <2> QED
    BY <1>3, <2>1 DEF CloseJudgment, Motion
<1>4. CASE s.verdict # "stale" /\ s.record.digest = window
    BY <1>1, <1>4 DEF CloseJudgment, Motion
<1> QED
    BY <1>2, <1>3, <1>4

LEMMA CloseAfterJudges ==
    ASSUME TypeOK, CloseAfter
    PROVE  Judged'
<1>1. /\ answers' = [i \in DOMAIN slots |-> CloseJudgment(slots[i])]
      /\ windowEnd' = inputs /\ UNCHANGED <<slots, window, treeMoved>>
      /\ stood' = {i \in DOMAIN slots : ~treeMoved /\ ~Differs(slots[i].record, inputs)}
    BY DEF CloseAfter, unitVars, worldVars
<1>2. cpc' = "reobserve" \/ outcome' # "answers"
    BY DEF CloseAfter, Return, Continue
<1>3. ASSUME NEW i \in DOMAIN slots, Demonstrated(slots[i])'
      PROVE  answers'[i] = "stale"
  <2>1. PICK version \in {slots[i].before, slots[i].after, window, inputs} :
            Differs(slots[i].record, version)
    BY <1>1, <1>3 DEF Demonstrated
  <2>2. CloseJudgment(slots[i]) = "stale"
    BY <2>1, DifferenceIsStale
  <2> QED
    BY <1>1, <2>2
<1>4. ASSUME NEW i \in DOMAIN slots, answers'[i] = "valid"
      PROVE  i \in stood' \/ treeMoved'
  <2>1. ~Differs(slots[i].record, inputs)
    BY <1>1, <1>4, DifferenceIsStale
  <2> QED
    BY <1>1, <2>1
<1>5. CASE cpc' = "reobserve"
    BY <1>1, <1>3, <1>4, <1>5 DEF Judged
<1>6. CASE cpc' # "reobserve" /\ outcome' # "answers"
    BY <1>6 DEF Judged
<1> QED
    BY <1>2, <1>5, <1>6

LEMMA JudgedStep ==
    ASSUME TypeOK, Gated, Closing, Judged, [Next]_vars
    PROVE  Judged'
<1>1. ASSUME NEW r \in Rounds, Round(r)
      PROVE  Judged'
  <2>1. CASE slots' = slots
    BY <1>1, <2>1, RoundLeavesClose, JudgedStays DEF closeVars, worldVars
  <2>2. CASE phase = "open"
    BY <1>1, <2>2, RoundLeavesClose DEF closeVars, Closing, Judged
  <2> QED
    BY <1>1, <2>1, <2>2, RoundLeavesClose
<1>2. ASSUME NEW c \in Closers, NEW nil \in BOOLEAN, CloseBegin(c, nil)
      PROVE  Judged'
  <2>1. CASE UNCHANGED cpc
    BY <1>2, <2>1, JudgedStays DEF CloseBegin, worldVars
  <2>2. CASE phase = "open" /\ cpc' = "seed"
    BY <1>2, <2>2 DEF CloseBegin, Closing, Judged
  <2> QED
    BY <1>2, <2>1, <2>2 DEF CloseBegin
<1>3. CASE CloseSeed \/ CloseBefore \/ CloseProve \/ CloseFails
  <2>1. cpc' # "reobserve" /\ outcome' # "answers"
    BY <1>3 DEF CloseSeed, CloseBefore, CloseProve, CloseFails, CloseWorking, Closing, Return, Continue
  <2> QED
    BY <2>1 DEF Judged
<1>4. CASE CloseAfter
    BY <1>4, CloseAfterJudges
<1>5. CASE CloseReobserve
  <2>1. /\ UNCHANGED <<slots, window, windowEnd, answers, stood, treeMoved>>
        /\ cpc = "reobserve" /\ cpc' = "finish"
        /\ outcome' = "answers" => ~treeMoved
    BY <1>5 DEF CloseReobserve, Return, unitVars, worldVars
  <2> QED
    BY <2>1 DEF Judged, Demonstrated
<1>6. CASE CloseFinish
    BY <1>6 DEF CloseFinish, Judged, Demonstrated
<1>7. CASE \/ Abort \/ MoveTree \/ MoveInputs \/ UNCHANGED vars
           \/ \E r \in Rounds : CancelRound(r)
           \/ \E c \in Closers : CancelClose(c)
  <2>1. UNCHANGED <<slots, cpc, window, windowEnd, answers, outcome, stood>>
        /\ (treeMoved => treeMoved')
    BY <1>7 DEF Abort, MoveTree, MoveInputs, vars, CancelRound, CancelClose, unitVars, closeVars, worldVars
  <2> QED
    BY <2>1, JudgedStays
<1> QED
    BY <1>1, <1>2, <1>3, <1>4, <1>5, <1>6, <1>7 DEF Next, CloseWork

LEMMA Invariant == Spec => []IInv
<1>1. Init => IInv
  <2>1. Init => Gated
    BY CheckingAssumption DEF Init, Gated, Inside
  <2>2. Init => Closing /\ Judged
    BY DEF Init, Closing, Judged
  <2> QED
    BY <2>1, <2>2, TypeInit DEF IInv
<1>2. IInv /\ [Next]_vars => IInv'
    BY TypeStep, GateStep, ClosingStep, JudgedStep DEF IInv
<1> QED
    BY <1>1, <1>2, PTL DEF Spec

\* Rounds exclude each other by the gate, and no close works on the slots while
\* a round is inside (round, Close).
THEOREM WorkersExclude == Spec => []OneWorker
<1>1. IInv => OneWorker
    BY DEF IInv, Gated, OneWorker, CloseWorking
<1> QED
    BY <1>1, Invariant, PTL

\* A difference between a record and the inputs that one of the four reads saw,
\* two in the round and two at closing, is never forgotten by the final answer
\* (runtimeMotion, Close).
THEOREM MotionIsRemembered == Spec => []DemonstratedMotionIsStale
<1>1. IInv => DemonstratedMotionIsStale
    BY DEF IInv, Closing, Judged, DemonstratedMotionIsStale
<1> QED
    BY <1>1, Invariant, PTL

\* Every final valid answer held at the closing read: the record's inputs were
\* the current ones and the tree was the view's (Close).
THEOREM ValidIsTrue == Spec => []FinalValidStood
<1>1. IInv => FinalValidStood
  <2>1. SUFFICES ASSUME IInv, phase = "closed", NEW i \in DOMAIN slots, answers[i] = "valid"
                 PROVE  i \in stood
    BY DEF FinalValidStood
  <2>2. outcome = "answers" /\ cpc # "reobserve"
    BY <2>1 DEF IInv, Closing
  <2> QED
    BY <2>1, <2>2 DEF IInv, Judged
<1> QED
    BY <1>1, Invariant, PTL

-----------------------------------------------------------------------------
(* Reusing one record: the ladder that every judgment of a unit climbs, for  *)
(* every set of contents, every inertness relation and every form of         *)
(* recording.  What a valid or a stale answer means follows from the ladder  *)
(* alone once the record is well typed; that an accepted compartment was     *)
(* reached by inert changes needs the history of the record's extensions as  *)
(* an inductive invariant.                                                   *)

LEMMA ProducedType ==
    ASSUME NEW form \in FormSet, NEW facts \in [Axes -> Content]
    PROVE  Produced(form, facts) \in RecordSet
<1>1. "variants" \in Axes
    BY DEF Axes
<1> QED
    BY <1>1 DEF Produced, FormSet, RecordSet, Content

LEMMA CandidateType ==
    ASSUME RecordTypeOK
    PROVE  Candidate(record) \in RecordSet
<1>1. now["variants"] \in Content
    BY DEF RecordTypeOK, Axes
<1> QED
    BY <1>1 DEF RecordTypeOK, Candidate, RecordSet

\* The type invariant holds in every reachable state.
THEOREM RecordTypeCorrect == LadderSpec => []RecordTypeOK
<1>1. LadderInit => RecordTypeOK
  <2> SUFFICES ASSUME LadderInit PROVE RecordTypeOK
    OBVIOUS
  <2>1. now \in [Axes -> Content] /\ \A a \in Axes \ Fallible : now[a] \in Values
    BY ReuseAssumption DEF LadderInit, Content
  <2>2. record \in RecordSet
    BY <2>1, ProducedType, ReuseAssumption DEF LadderInit
  <2>3. route \in Seq(Content) /\ route # << >>
    <3>1. record.facts["variants"] \in Content
      BY <2>2 DEF RecordSet, Axes
    <3> QED
      BY <3>1 DEF LadderInit
  <2> QED
    BY <2>1, <2>2, <2>3, ReuseAssumption DEF LadderInit, RecordTypeOK
<1>2. RecordTypeOK /\ [LadderNext]_ladderVars => RecordTypeOK'
  <2> SUFFICES ASSUME RecordTypeOK, [LadderNext]_ladderVars PROVE RecordTypeOK'
    OBVIOUS
  <2>1. CASE \E s \in Sessions : Extend(s)
    <3>1. record' \in RecordSet
      BY <2>1, CandidateType DEF Extend
    <3>2. route' \in Seq(Content) /\ route' # << >>
      <4>1. now["variants"] \in Content
        BY DEF RecordTypeOK, Axes
      <4> QED
        BY <2>1, <4>1 DEF Extend, RecordTypeOK
    <3> QED
      BY <2>1, <3>1, <3>2 DEF Extend, RecordTypeOK
  <2>2. ASSUME NEW a \in Axes, Drift(a)
        PROVE  RecordTypeOK'
    BY <2>2, ReuseAssumption DEF Drift, RecordTypeOK, Content
  <2>3. CASE UNCHANGED ladderVars
    BY <2>3 DEF ladderVars, RecordTypeOK
  <2> QED
    BY <2>1, <2>2, <2>3 DEF LadderNext
<1> QED
    BY <1>1, <1>2, PTL DEF LadderSpec

-----------------------------------------------------------------------------
\* No false valid: every axis the record rests on was recorded, is known and
\* has not moved, whatever overrides the session brings (decide).
THEOREM ValidMeansUnmoved == LadderSpec => []ValidIsUnmoved
<1>1. RecordTypeOK => ValidIsUnmoved
  <2> SUFFICES ASSUME RecordTypeOK, NEW s \in Sessions,
                      Verdict(record, s).status = "valid",
                      NEW a \in Required(record)
               PROVE  record.facts[a] # Missing /\ record.facts[a] = now[a]
    BY DEF ValidIsUnmoved
  <2>1. ~CoreFails(record) /\ ~ContentFails(record) /\ ~DynamicFails(record)
    BY DEF Verdict, EvidenceRefusal, Stale, Unverifiable, Valid
  <2>2. ~InputsFail(record, s) /\ ~GuardsFail(record) /\ ~Unknown(record)
    BY DEF Verdict, Stale, Unverifiable, Valid
  <2>3. CASE a \in Compared(record.kind)
    BY <2>2, <2>3 DEF GuardsFail
  <2>4. CASE a = "inputs" /\ record.manifest
    BY <2>2, <2>4 DEF InputsFail
  <2>5. CASE a \in {"core", "content"}
    BY <2>1, <2>2, <2>5 DEF CoreFails, ContentFails, Unknown
  <2>6. CASE a = "dynamic"
    <3>1. now["dynamic"] \in Values
      BY DEF RecordTypeOK, Axes, Fallible
    <3> QED
      BY <2>1, <2>6, <3>1, ReuseAssumption DEF DynamicFails
  <2> QED
    BY <2>3, <2>4, <2>5, <2>6 DEF Required, Compared
<1> QED
    BY <1>1, RecordTypeCorrect, PTL

\* No false stale: a stale answer is demonstrated by an axis the record rests
\* on, by its effective compartment or by its inputs (decide).
THEOREM StaleMeansDemonstrated == LadderSpec => []StaleIsDemonstrated
<1>1. StaleIsDemonstrated
  <2> SUFFICES ASSUME NEW s \in Sessions, Verdict(record, s).status = "stale"
               PROVE  \/ \E a \in Required(record) :
                            record.facts[a] = Missing \/ record.facts[a] # now[a]
                      \/ Effective(record) # now["variants"] \/ Effective(record) = Missing
                      \/ record.licence # "none" /\ ~Recognized(record)
                      \/ record.licence = "inert" /\ record.facts["closure"] # now["closure"]
                      \/ IF record.manifest THEN s.inputs \in {"moved", "unreadable"}
                                            ELSE record.facts["inputs"] # Missing
    BY DEF StaleIsDemonstrated
  <2>1. \/ CoreFails(record) \/ VariantsFail(record) \/ ContentFails(record)
        \/ DynamicFails(record) \/ DerivationFails(record)
        \/ InputsFail(record, s) \/ GuardsFail(record)
    BY DEF Verdict, EvidenceRefusal, Stale, Unverifiable, Valid
  <2>2. CASE CoreFails(record) \/ ContentFails(record) \/ DynamicFails(record)
    BY <2>2 DEF CoreFails, ContentFails, DynamicFails, Required
  <2>3. CASE VariantsFail(record)
    BY <2>3 DEF VariantsFail, Recognized
  <2>4. CASE DerivationFails(record)
    BY <2>4 DEF DerivationFails, Recognized
  <2>5. CASE InputsFail(record, s)
    BY <2>5 DEF InputsFail, Required
  <2>6. CASE GuardsFail(record)
    BY <2>6 DEF GuardsFail, Compared, Required
  <2> QED
    BY <2>1, <2>2, <2>3, <2>4, <2>5, <2>6
<1> QED
    BY <1>1, PTL

-----------------------------------------------------------------------------
\* What the extensions of a record maintain: its producing facts never change,
\* the route starts at the producing compartment and ends at the effective one,
\* and every step of it was licensed.
RouteInv ==
    /\ route[1] = record.facts["variants"]
    /\ record.licence # "unknown" => route[Len(route)] = Effective(record)
    /\ \A i \in 1..(Len(route) - 1) : <<route[i], route[i + 1]>> \in Inert

LEMMA RouteInvariant == LadderSpec => []RouteInv
<1>1. LadderInit => RouteInv
  <2> SUFFICES ASSUME LadderInit PROVE RouteInv
    OBVIOUS
  <2>1. record.licence \in {"none", "unknown"}
    BY ReuseAssumption DEF LadderInit, Produced, FormSet
  <2> QED
    BY <2>1 DEF LadderInit, RouteInv, Effective
<1>2. RecordTypeOK /\ RouteInv /\ [LadderNext]_ladderVars => RouteInv'
  <2> SUFFICES ASSUME RecordTypeOK, RouteInv, [LadderNext]_ladderVars PROVE RouteInv'
    OBVIOUS
  <2>1. ASSUME NEW s \in Sessions, Extend(s)
        PROVE  RouteInv'
    <3>1. /\ record.licence # "unknown"
          /\ <<Effective(record), now["variants"]>> \in Inert
      BY <2>1 DEF Extend, Licensed, Recognized
    <3>2. /\ record'.facts = record.facts /\ record'.licence = "inert"
          /\ record'.endpoint = now["variants"]
      BY <2>1 DEF Extend, Candidate, RecordTypeOK, RecordSet
    <3>3. route \in Seq(Content) /\ Len(route) \in Nat \ {0}
      BY DEF RecordTypeOK
    <3>4. CASE Effective(record) = now["variants"]
      BY <2>1, <3>1, <3>2, <3>4 DEF Extend, RouteInv, Effective
    <3>5. CASE Effective(record) # now["variants"]
      <4>1. route' = Append(route, now["variants"])
        BY <2>1, <3>5 DEF Extend
      <4>2. Len(route') = Len(route) + 1 /\ route'[Len(route) + 1] = now["variants"]
            /\ \A i \in 1..Len(route) : route'[i] = route[i]
        BY <3>3, <4>1
      <4>3. route'[1] = record'.facts["variants"]
        BY <3>2, <3>3, <4>2 DEF RouteInv
      <4>4. route'[Len(route')] = Effective(record')
        BY <3>2, <4>2 DEF Effective
      <4>5. ASSUME NEW i \in 1..(Len(route') - 1)
            PROVE  <<route'[i], route'[i + 1]>> \in Inert
        <5>1. CASE i = Len(route)
          BY <3>1, <3>3, <4>2, <5>1 DEF RouteInv
        <5>2. CASE i # Len(route)
          <6>1. i \in 1..(Len(route) - 1) /\ i + 1 \in 1..Len(route)
            BY <3>3, <4>2, <5>2
          <6> QED
            BY <4>2, <6>1 DEF RouteInv
        <5> QED
          BY <5>1, <5>2
      <4> QED
        BY <3>2, <4>3, <4>4, <4>5 DEF RouteInv, Effective
    <3> QED
      BY <3>4, <3>5
  <2>2. CASE \E a \in Axes : Drift(a)
    BY <2>2 DEF Drift, RouteInv, Effective
  <2>3. CASE UNCHANGED ladderVars
    BY <2>3 DEF ladderVars, RouteInv, Effective
  <2> QED
    BY <2>1, <2>2, <2>3 DEF LadderNext
<1> QED
    BY <1>1, <1>2, RecordTypeCorrect, PTL DEF LadderSpec

\* No false valid: an accepted compartment was reached from the producing one
\* by inert changes only (prepareInertExtension).
THEOREM ValidMeansLicensed == LadderSpec => []ValidIsLicensed
<1>1. RouteInv => ValidIsLicensed
  <2> SUFFICES ASSUME RouteInv, NEW s \in Sessions, Verdict(record, s).status = "valid"
               PROVE  /\ route[1] = record.facts["variants"]
                      /\ route[Len(route)] = now["variants"]
                      /\ \A i \in 1..(Len(route) - 1) : <<route[i], route[i + 1]>> \in Inert
    BY DEF ValidIsLicensed
  <2>1. Recognized(record) /\ Effective(record) = now["variants"]
    BY DEF Verdict, EvidenceRefusal, VariantsFail, Stale, Unverifiable, Valid
  <2>2. record.licence # "unknown"
    BY <2>1 DEF Recognized
  <2> QED
    BY <2>1, <2>2 DEF RouteInv
<1> QED
    BY <1>1, RouteInvariant, PTL
-----------------------------------------------------------------------------
\* The author's word and shared process state are final: whatever a session
\* overrides, a valid subject is not external, and one that shares dynamic
\* state is valid only as a pure one (decideAfterClosureObserved).
THEOREM FinalDirectives == LadderSpec => []DirectivesAreFinal
<1>1. DirectivesAreFinal
  <2> SUFFICES ASSUME NEW s \in Sessions, Verdict(record, s).status = "valid"
               PROVE  ~s.external /\ (s.refusal = "shared" => record.purity /\ s.purity)
    BY DEF DirectivesAreFinal
  <2>1. ~s.external
    BY DEF Verdict, Stale, Unverifiable, Valid
  <2>2. Pure(record, s) \/ s.refusal = "none" \/ Lifted(record, s)
    BY DEF Verdict, Stale, Unverifiable, Valid
  <2> QED
    BY <2>1, <2>2 DEF Pure, Lifted
<1> QED
    BY <1>1, PTL
=============================================================================
