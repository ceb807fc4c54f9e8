---------------------------- MODULE CheckingUnit ----------------------------
(***************************************************************************)
(* The checking unit of gofresh (checking.go): rounds of historical        *)
(* candidates are judged one after the other, each round appends slots,    *)
(* and only Close, which judges every slot again, grants an answer.        *)
(*                                                                         *)
(* Rounds wait for each other at a gate; Close and Abort do not, they only *)
(* take the mutex, so they land anywhere inside a round.  A round here     *)
(* carries one candidate; the code's batches repeat the same steps over a  *)
(* list.  The outside world is the source tree, which the code assumes not *)
(* to be restored between two reads, and the runtime inputs, which may     *)
(* move and return: the code promises to remember such a motion when one   *)
(* of its reads saw it (runtimeMotion).                                    *)
(*                                                                         *)
(* A definition introduced by "Mutant:" is a bug the code could have; it is *)
(* used by no action and shows that a property notices it.                 *)
(***************************************************************************)
EXTENDS Integers, Sequences, SequencesExt

CONSTANTS
    Rounds,      \* calls of CheckBatch and ExtendInertBatch
    Closers,     \* calls of Close
    Candidates,  \* the records a round may ask about
    MaxInput,    \* input versions are 0..MaxInput
    MaxMoves,    \* bound on the moves of the inputs
    NoOne,       \* no call
    NoInputs     \* a record without a runtime-input manifest

\* "plain": the recorded evidence suffices; "lift": valid only with a current
\* observation proof (an inert applicability endpoint); "refused": stale on
\* the recorded-evidence ladder, no input is read for it.
Kinds == {"plain", "lift", "refused"}
Records == [kind : Kinds, digest : 0..MaxInput \cup {NoInputs}]
WellFormed(record) == record.kind = "lift" => record.digest # NoInputs

ASSUME CheckingAssumption ==
    /\ Candidates \subseteq Records /\ \A k \in Candidates : WellFormed(k)
    /\ Rounds \cap Closers = {} /\ NoOne \notin Rounds \cup Closers
    /\ MaxInput \in Nat /\ MaxMoves \in Nat /\ NoInputs \notin Nat

Phases == {"open", "closing", "closed", "failed", "aborted"}
Ended == {"closed", "failed", "aborted"}
Verdicts == {"valid", "stale", "unverifiable"}

VARIABLES
    phase, busy,     \* CheckingUnit.phase, busy
    gate,            \* the round holding the gate, or NoOne
    workCancelled,   \* CheckingUnit.cancel has been called on the running work
    slots,           \* CheckingUnit.slots
    proof,           \* Snapshot.observable of the unit's view
    cut,             \* a held cut of the unit's view or the closing view
    rpc, job, index, \* each round: where it stands, its locals, what it returned
    closer, cpc,     \* the call of Close at work and where it stands
    window, windowEnd, \* the inputs its check window opened and ended on
    closeProof,      \* Snapshot.observable of the seeded closing view
    answers,         \* the closed judgment of each slot
    outcome, result, \* its pending return; what each call of Close returned
    dead,            \* calls whose context is cancelled
    treeMoved, inputs, moves, \* the outside world
    stood            \* history: slots whose evidence stood at the closing read

unitVars == <<phase, busy, gate, workCancelled, slots>>
viewVars == <<proof, cut>>
roundVars == <<rpc, job, index>>
closeVars == <<closer, cpc, window, windowEnd, closeProof, answers, outcome, result>>
worldVars == <<dead, treeMoved, inputs, moves>>
vars == <<unitVars, viewVars, roundVars, closeVars, worldVars, stood>>

NoJob == [record |-> [kind |-> "refused", digest |-> NoInputs], extension |-> FALSE,
          before |-> 0, after |-> 0, verdict |-> "stale", selected |-> FALSE]

Init ==
    /\ phase = "open" /\ busy = FALSE /\ gate = NoOne /\ workCancelled = FALSE
    /\ slots = << >> /\ proof = "none" /\ cut = FALSE
    /\ rpc = [r \in Rounds |-> "idle"] /\ job = [r \in Rounds |-> NoJob]
    /\ index = [r \in Rounds |-> 0]
    /\ closer = NoOne /\ cpc = "idle" /\ window = 0 /\ windowEnd = 0 /\ closeProof = "none"
    /\ answers = << >> /\ outcome = "none" /\ result = [c \in Closers |-> "none"]
    /\ dead = {} /\ treeMoved = FALSE /\ inputs = 0 /\ moves = 0 /\ stood = {}

-----------------------------------------------------------------------------
(* The kernel of a check (checkRecords).                                   *)

Evaluated(record) == record.kind # "refused"
Reads(record) == Evaluated(record) /\ record.digest # NoInputs

\* A read of the inputs differs from what the record was made under.
Differs(record, version) == Reads(record) /\ record.digest # version

\* Only a record that the inputs leave undecided asks for a current proof.
Selects(record, version) == record.kind = "lift" /\ ~Differs(record, version)

Judge(record, version, current) ==
    IF ~Evaluated(record) \/ Differs(record, version) THEN "stale"
    ELSE IF Selects(record, version) /\ current # "observable" THEN "unverifiable"
    ELSE "valid"

\* Mutant: a motion between two reads is ignored.
MotionIgnored(record, verdict, from, to) == verdict

\* runtimeMotion: inputs that moved between two reads stale the record.
Motion(record, verdict, from, to) ==
    IF Reads(record) /\ from # to THEN "stale" ELSE verdict

\* What an analysis under a budget can say of the proof.
ProofOutcomes == {"observable", "unavailable", "refused"}

-----------------------------------------------------------------------------
(* A round.                                                                *)

RoundEnter(r) ==
    /\ rpc[r] = "idle"
    /\ rpc' = [rpc EXCEPT ![r] = IF r \in dead THEN "cancelled" ELSE "waiting"]
    /\ UNCHANGED <<unitVars, viewVars, job, index, closeVars, worldVars, stood>>

\* select: the gate, or the caller's cancellation.
RoundAcquire(r) ==
    /\ rpc[r] = "waiting"
    /\ \/ gate = NoOne /\ gate' = r /\ rpc' = [rpc EXCEPT ![r] = "admit"]
       \/ r \in dead /\ rpc' = [rpc EXCEPT ![r] = "cancelled"] /\ UNCHANGED gate
    /\ UNCHANGED <<phase, busy, workCancelled, slots, viewVars, job, index, closeVars,
                   worldVars, stood>>

\* Mutant: a round returns without passing the gate on.
LeaveShut(r, why) == UNCHANGED gate /\ rpc' = [rpc EXCEPT ![r] = why]

\* Every return of a round leaves the gate.
Leave(r, why) == gate' = NoOne /\ rpc' = [rpc EXCEPT ![r] = why]

\* CheckBatch admits a candidate as it is; ExtendInertBatch copies an earlier
\* slot's record into a separately licensed one, or refuses the license.
Admissible ==
    {[NoJob EXCEPT !.record = k] : k \in Candidates}
    \cup {[NoJob EXCEPT !.extension = TRUE, !.record = k] :
              k \in {k \in Records : \E s \in ToSet(slots) : k.digest = s.record.digest}}

\* The first critical section: cancellation, the phase, then the input
\* refusals, which append nothing and leave the unit open.
RoundAdmit(r) ==
    /\ rpc[r] = "admit"
    /\ \/ r \in dead /\ Leave(r, "cancelled") /\ UNCHANGED <<busy, workCancelled, job>>
       \/ /\ r \notin dead /\ phase # "open"
          /\ Leave(r, "errUnitClosed") /\ UNCHANGED <<busy, workCancelled, job>>
       \/ /\ r \notin dead /\ phase = "open"
          /\ Leave(r, "refused") /\ UNCHANGED <<busy, workCancelled, job>>
       \/ /\ r \notin dead /\ phase = "open"
          /\ \E j \in Admissible : WellFormed(j.record) /\ job' = [job EXCEPT ![r] = j]
          /\ busy' = TRUE /\ workCancelled' = FALSE
          /\ rpc' = [rpc EXCEPT ![r] = "before"] /\ UNCHANGED gate
    /\ UNCHANGED <<phase, slots, viewVars, index, closeVars, worldVars, stood>>

RoundCancelled(r) == r \in dead \/ workCancelled

RoundBefore(r) ==
    /\ rpc[r] = "before" /\ ~RoundCancelled(r)
    /\ job' = [job EXCEPT ![r].before = inputs]
    /\ rpc' = [rpc EXCEPT ![r] = "prove"]
    /\ UNCHANGED <<unitVars, viewVars, index, closeVars, worldVars, stood>>

\* ensureObservable proves a subject once per view; its bracket closes with an
\* observation of the tree that refuses drift and holds a budget cut.
RoundProve(r) ==
    /\ rpc[r] = "prove" /\ ~RoundCancelled(r)
    /\ IF Selects(job[r].record, job[r].before) /\ proof = "none"
       THEN ~treeMoved /\ proof' \in ProofOutcomes /\ cut' \in {cut, TRUE}
       ELSE UNCHANGED viewVars
    /\ LET j == job[r]
       IN job' = [job EXCEPT ![r].verdict = Judge(j.record, j.before, proof'),
                             ![r].selected = Selects(j.record, j.before)
                                             /\ proof' = "observable"]
    /\ rpc' = [rpc EXCEPT ![r] = "after"]
    /\ UNCHANGED <<unitVars, index, closeVars, worldVars, stood>>

RoundAfter(r) ==
    /\ rpc[r] = "after" /\ ~RoundCancelled(r)
    /\ LET j == job[r]
           verdict == Motion(j.record, j.verdict, j.before, inputs)
       IN job' = [job EXCEPT ![r] = [j EXCEPT !.after = inputs, !.verdict = verdict,
                                              !.selected = @ /\ verdict = "valid"]]
    /\ rpc' = [rpc EXCEPT ![r] = "commit"]
    /\ UNCHANGED <<unitVars, viewVars, index, closeVars, worldVars, stood>>

\* Any operation of the round may fail; a cancelled round does.
RoundFails(r) ==
    /\ rpc[r] \in {"before", "prove", "after"}
    /\ rpc' = [rpc EXCEPT ![r] = "commitError"]
    /\ UNCHANGED <<unitVars, viewVars, job, index, closeVars, worldVars, stood>>

\* finishWork, under the mutex: the caller's cancellation ends the unit even
\* when an abort or a close came first; then the unit's phase; then the error.
RoundCommit(r) ==
    /\ rpc[r] \in {"commit", "commitError"}
    /\ busy' = FALSE /\ workCancelled' = FALSE
    /\ \/ /\ r \in dead
          /\ phase' = "failed" /\ Leave(r, "cancelled") /\ UNCHANGED <<slots, index>>
       \/ /\ r \notin dead /\ phase # "open"
          /\ Leave(r, IF phase = "aborted" THEN "aborted" ELSE "errUnitClosed")
          /\ UNCHANGED <<phase, slots, index>>
       \/ /\ r \notin dead /\ phase = "open" /\ rpc[r] = "commitError"
          /\ phase' = "failed" /\ Leave(r, "failed") /\ UNCHANGED <<slots, index>>
       \/ /\ r \notin dead /\ phase = "open" /\ rpc[r] = "commit"
          /\ slots' = Append(slots, job[r])
          /\ index' = [index EXCEPT ![r] = Len(slots) + 1]
          /\ Leave(r, "checked") /\ UNCHANGED phase
    /\ UNCHANGED <<viewVars, job, closeVars, worldVars, stood>>

Round(r) == \/ RoundEnter(r) \/ RoundAcquire(r) \/ RoundAdmit(r) \/ RoundBefore(r)
            \/ RoundProve(r) \/ RoundAfter(r) \/ RoundFails(r) \/ RoundCommit(r)

-----------------------------------------------------------------------------
Abort ==
    /\ phase \in {"open", "closing"}
    /\ phase' = "aborted"
    /\ workCancelled' = (workCancelled \/ busy \/ phase = "closing")
    /\ UNCHANGED <<busy, gate, slots, viewVars, roundVars, closeVars, worldVars, stood>>

\* Mutant: Close does not wait for a round to be over.
CloseBeginBusy(c, nil) ==
    /\ result[c] = "none" /\ closer # c
    /\ phase = "open" /\ ~nil /\ c \notin dead
    /\ phase' = "closing" /\ workCancelled' = FALSE
    /\ closer' = c /\ cpc' = "seed"
    /\ UNCHANGED <<result, busy, gate, slots, viewVars, roundVars, window, windowEnd,
                   closeProof, answers, outcome, worldVars, stood>>

\* Close freezes the slots, unless a round is running: it then cancels the
\* round and refuses, and the unit has failed.
CloseBegin(c, nil) ==
    /\ result[c] = "none" /\ closer # c
    /\ \/ /\ phase # "open"
          /\ result' = [result EXCEPT ![c] = "errUnitClosed"]
          /\ UNCHANGED <<phase, workCancelled, closer, cpc>>
       \/ /\ phase = "open" /\ (nil \/ c \in dead \/ busy)
          /\ phase' = "failed" /\ workCancelled' = busy
          /\ result' = [result EXCEPT ![c] = IF nil THEN "nilContext"
                                               ELSE IF c \in dead THEN "cancelled"
                                               ELSE "incomplete"]
          /\ UNCHANGED <<closer, cpc>>
       \/ /\ phase = "open" /\ ~nil /\ c \notin dead /\ ~busy
          /\ phase' = "closing" /\ workCancelled' = FALSE
          /\ closer' = c /\ cpc' = "seed"
          /\ UNCHANGED result
    /\ UNCHANGED <<busy, gate, slots, viewVars, roundVars, window, windowEnd, closeProof, answers,
                   outcome, worldVars, stood>>

CloseCancelled == closer \in dead \/ workCancelled
Return(o) == cpc' = "finish" /\ outcome' = o
Continue(p) == cpc' = p /\ UNCHANGED outcome

\* newSeededValidationView compares a fresh observation with the view's facts.
CloseSeed ==
    /\ cpc = "seed" /\ ~CloseCancelled
    /\ \/ treeMoved /\ Return("viewChanged") /\ UNCHANGED cut
       \/ ~treeMoved /\ Continue("before") /\ cut' \in {cut, TRUE}
    /\ UNCHANGED <<unitVars, proof, roundVars, closer, window, windowEnd, closeProof, answers, result,
                   worldVars, stood>>

CloseBefore ==
    /\ cpc = "before" /\ ~CloseCancelled
    /\ window' = inputs
    /\ Continue("prove")
    /\ UNCHANGED <<unitVars, viewVars, roundVars, closer, windowEnd, closeProof, answers,
                   result, worldVars, stood>>

\* The seeded view inherits no proof: every selected slot needs a new one.
CloseProve ==
    /\ cpc = "prove" /\ ~CloseCancelled
    /\ LET needed == \E s \in ToSet(slots) : Selects(s.record, window)
       IN \/ needed /\ treeMoved /\ Return("viewChanged") /\ UNCHANGED <<closeProof, cut>>
          \/ /\ needed /\ ~treeMoved
             /\ closeProof' \in ProofOutcomes /\ cut' \in {cut, TRUE} /\ Continue("after")
          \/ ~needed /\ Continue("after") /\ UNCHANGED <<closeProof, cut>>
    /\ UNCHANGED <<unitVars, proof, roundVars, closer, window, windowEnd, answers, result, worldVars,
                   stood>>

\* The closed judgment of a slot: demonstrated staleness is kept; otherwise
\* the new judgment, staled by a motion within the closing window or between
\* the round's reads and the closing ones.
CloseJudgment(s) ==
    IF s.verdict = "stale" THEN "stale"
    ELSE LET fresh == Motion(s.record, Judge(s.record, window, closeProof), window, inputs)
         IN Motion(s.record, Motion(s.record, fresh, s.before, window), s.after, inputs)

\* A lift or an extension the round granted must still stand, except that an
\* analysis that is merely unavailable is held until everything else closed.
Downgraded(s, verdict) ==
    (s.selected \/ (s.extension /\ s.verdict = "valid")) /\ verdict # "valid"
Unavailable(s, verdict) ==
    verdict = "unverifiable" /\ Selects(s.record, window) /\ closeProof = "unavailable"

CloseAfter ==
    /\ cpc = "after" /\ ~CloseCancelled
    /\ answers' = [i \in DOMAIN slots |-> CloseJudgment(slots[i])]
    /\ windowEnd' = inputs
    /\ stood' = {i \in DOMAIN slots : ~treeMoved /\ ~Differs(slots[i].record, inputs)}
    /\ LET lost == {i \in DOMAIN slots : Downgraded(slots[i], answers'[i])}
       IN \/ /\ \E i \in lost : ~Unavailable(slots[i], answers'[i])
             /\ Return("viewChanged") /\ UNCHANGED cut
          \/ /\ \A i \in lost : Unavailable(slots[i], answers'[i])
             /\ cut' = (cut \/ lost # {}) /\ Continue("reobserve")
    /\ UNCHANGED <<unitVars, proof, roundVars, closer, window, closeProof, result,
                   worldVars>>

\* Mutant: the closing does not look at the tree again.
CloseReobserveNothing ==
    /\ cpc = "reobserve" /\ ~CloseCancelled
    /\ Return(IF cut THEN "unavailable" ELSE "answers")
    /\ UNCHANGED <<unitVars, viewVars, roundVars, closer, window, windowEnd, closeProof, answers,
                   result, worldVars, stood>>

\* closeValidationReobservation, then the held unavailability resolves.
CloseReobserve ==
    /\ cpc = "reobserve" /\ ~CloseCancelled
    /\ \/ treeMoved /\ Return("viewChanged") /\ UNCHANGED cut
       \/ ~treeMoved /\ cut' \in {cut, TRUE} /\ Return(IF cut' THEN "unavailable" ELSE "answers")
    /\ UNCHANGED <<unitVars, proof, roundVars, closer, window, windowEnd, closeProof, answers, result,
                   worldVars, stood>>

CloseWorking == {"seed", "before", "prove", "after", "reobserve"}

CloseFails ==
    /\ cpc \in CloseWorking /\ Return("failed")
    /\ UNCHANGED <<unitVars, viewVars, roundVars, closer, window, windowEnd, closeProof, answers, result,
                   worldVars, stood>>

\* finishWork ...
Returned == IF closer \in dead THEN "cancelled"
            ELSE IF phase = "aborted" THEN "aborted" ELSE outcome

\* ... then the terminal transition.
CloseFinish ==
    /\ cpc = "finish"
    /\ result' = [result EXCEPT ![closer] = Returned]
    /\ phase' = IF Returned = "aborted" THEN phase
                ELSE IF Returned = "answers" THEN "closed" ELSE "failed"
    /\ cpc' = "done" /\ workCancelled' = FALSE
    /\ UNCHANGED <<busy, gate, slots, viewVars, roundVars, closer, window, windowEnd, closeProof, answers,
                   outcome, worldVars, stood>>

CloseWork == \/ CloseSeed \/ CloseBefore \/ CloseProve \/ CloseAfter \/ CloseReobserve
             \/ CloseFails \/ CloseFinish

-----------------------------------------------------------------------------
(* The environment.                                                        *)

CancelRound(r) ==
    /\ r \notin dead
    /\ rpc[r] \in {"idle", "waiting", "admit", "before", "prove", "after", "commit", "commitError"}
    /\ dead' = dead \cup {r}
    /\ UNCHANGED <<unitVars, viewVars, roundVars, closeVars, treeMoved, inputs, moves, stood>>

CancelClose(c) ==
    /\ c \notin dead /\ result[c] = "none"
    /\ dead' = dead \cup {c}
    /\ UNCHANGED <<unitVars, viewVars, roundVars, closeVars, treeMoved, inputs, moves, stood>>

MoveTree ==
    /\ ~treeMoved /\ treeMoved' = TRUE
    /\ UNCHANGED <<unitVars, viewVars, roundVars, closeVars, dead, inputs, moves, stood>>

MoveInputs ==
    /\ moves < MaxMoves /\ moves' = moves + 1
    /\ inputs' \in 0..MaxInput \ {inputs}
    /\ UNCHANGED <<unitVars, viewVars, roundVars, closeVars, dead, treeMoved, stood>>

Next == \/ \E r \in Rounds : Round(r)
        \/ \E c \in Closers, nil \in BOOLEAN : CloseBegin(c, nil)
        \/ CloseWork
        \/ Abort
        \/ \E r \in Rounds : CancelRound(r)
        \/ \E c \in Closers : CancelClose(c)
        \/ MoveTree \/ MoveInputs

\* A started call runs on; nobody owes a call, a cancellation or a motion.
Fairness == /\ \A r \in Rounds : WF_vars(Round(r) /\ rpc[r] # "idle")
            /\ WF_vars(CloseWork)

Spec == Init /\ [][Next]_vars /\ Fairness
-----------------------------------------------------------------------------
Inside == {"before", "prove", "after", "commit", "commitError"}
Jobs == [record : Records, extension : BOOLEAN, before : 0..MaxInput, after : 0..MaxInput,
         verdict : Verdicts, selected : BOOLEAN]
RoundReturns == {"cancelled", "errUnitClosed", "refused", "aborted", "failed", "checked"}
CloseOutcomes == {"none", "viewChanged", "unavailable", "answers", "failed"}
CloseReturns == CloseOutcomes \cup {"errUnitClosed", "nilContext", "cancelled", "incomplete", "aborted"}

UnitType == /\ phase \in Phases /\ busy \in BOOLEAN /\ workCancelled \in BOOLEAN
            /\ gate \in Rounds \cup {NoOne} /\ slots \in Seq(Jobs)
ViewType == proof \in ProofOutcomes \cup {"none"} /\ cut \in BOOLEAN
RoundType == /\ rpc \in [Rounds -> Inside \cup {"idle", "waiting", "admit"} \cup RoundReturns]
             /\ job \in [Rounds -> Jobs] /\ index \in [Rounds -> Nat]
CloseType == /\ closer \in Closers \cup {NoOne} /\ cpc \in CloseWorking \cup {"idle", "finish", "done"}
             /\ cpc # "idle" => closer \in Closers
             /\ window \in 0..MaxInput /\ windowEnd \in 0..MaxInput
             /\ closeProof \in ProofOutcomes \cup {"none"} /\ answers \in Seq(Verdicts)
             /\ outcome \in CloseOutcomes /\ result \in [Closers -> CloseReturns]
WorldType == /\ dead \subseteq Rounds \cup Closers /\ treeMoved \in BOOLEAN
             /\ inputs \in 0..MaxInput /\ moves \in 0..MaxMoves

\* The type invariant.
TypeOK == UnitType /\ ViewType /\ RoundType /\ CloseType /\ WorldType /\ stood \subseteq Nat

\* One worker at a time: rounds exclude each other, and closing never works
\* on the slots while a round is anywhere inside (gate, busy, Close).
OneWorker ==
    /\ \A r \in Rounds : rpc[r] \in Inside \cup {"admit"} <=> gate = r
    /\ busy <=> \E r \in Rounds : rpc[r] \in Inside
    /\ cpc \in CloseWorking \cup {"finish"} => ~busy

\* A difference between a record and the inputs that any read demonstrated,
\* in its round or at closing, makes the final answer stale, even when the
\* inputs have returned to the recorded value (runtimeMotion, Close).
Demonstrated(s) == \E version \in {s.before, s.after, window, windowEnd} :
                      Differs(s.record, version)
DemonstratedMotionIsStale ==
    phase = "closed" =>
        \A i \in DOMAIN slots : Demonstrated(slots[i]) => answers[i] = "stale"

\* No false valid: a final valid answer was true at one instant, the closing
\* read: the inputs were the recorded ones and the tree the view's.
FinalValidStood ==
    phase = "closed" => \A i \in DOMAIN slots : answers[i] = "valid" => i \in stood

\* Nobody works for ever: again and again every round that started and the
\* closing that began have returned, whatever else ended meanwhile.
AtWork == \/ \E r \in Rounds : rpc[r] \in Inside \cup {"waiting", "admit"}
          \/ \E c \in Closers : closer = c /\ result[c] = "none"
WorkReturns == []<>~AtWork
=============================================================================
