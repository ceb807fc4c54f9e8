-------------------------------- MODULE Unit --------------------------------
(***************************************************************************)
(* The producing unit of gofresh (unit.go) over its private view (view.go). *)
(*                                                                         *)
(* One Unit owns one contributing test process.  Register prepares the     *)
(* obligation before the process runs (it captures the runtime-input       *)
(* bracket and, when some subject needs it, an observation proof), Submit  *)
(* records how the process ended, Close turns the log into evidence and    *)
(* validates the view, Abort ends the unit.  The four are called by        *)
(* different goroutines: Register and Close do their long work with the    *)
(* unit's mutex released, so every step below is one critical section or   *)
(* one read of the outside world, and steps of different callers           *)
(* interleave.                                                             *)
(*                                                                         *)
(* The outside world is two version counters: the source tree with the     *)
(* code guards, and the runtime inputs the process reads.  They only grow: *)
(* a change undone between two reads is outside the contract of the code   *)
(* (view.go:1492, "a mutation-and-restore interval between agreeing        *)
(* observations is not guaranteed detectable").                            *)
(*                                                                         *)
(* A definition introduced by "Mutant:" is a bug the code could have; it is *)
(* used by no action and shows that a property notices it.                 *)
(***************************************************************************)
EXTENDS Naturals, FiniteSets

CONSTANTS
    Registrars,  \* calls of Register
    Closers,     \* calls of Close
    Subjects,    \* the unit's roster
    Pure,        \* subjects under a purity assertion or directive
    Source,      \* other subjects whose closure is verifiable from source
    MaxTree,     \* bound on the moves of the source tree
    MaxInput,    \* bound on the moves of the runtime inputs
    NoOne,       \* no call
    NoFiles      \* digest of an observation that reads no file

ASSUME UnitAssumption ==
    /\ Registrars \cap Closers = {}
    /\ NoOne \notin Registrars \cup Closers
    /\ Pure \subseteq Subjects /\ Source \subseteq Subjects \ Pure
    /\ MaxTree \in Nat /\ MaxInput \in Nat
    /\ NoFiles \notin Nat

Callers == Registrars \cup Closers
\* Subjects the closure refuses as open-world; the other refusals of the ladder
\* (external directive, shared dynamic state) are in Reuse.
Open == Subjects \ (Pure \cup Source)

Phases == {"open", "closing", "closed", "failed", "aborted"}
Terminals == {"normal", "abnormal", "neverStarted"}
\* What the observability analysis says of the roster: "supported" also
\* admits the immutable-environment outcome method (internal/outcome).
Proofs == {"none", "unavailable", "refused", "effectFree", "supported"}

Versions == 0..MaxInput  \* of the inputs

\* Evidence finalized from the process: what runtimeinput.State carries,
\* and the producer's own account of an incomplete capture.
Observations == [incomplete : BOOLEAN, support : BOOLEAN, unverifiable : BOOLEAN,
                 moved : BOOLEAN, digest : Versions \cup {NoFiles}]
Nothing == [incomplete |-> TRUE, support |-> FALSE, unverifiable |-> TRUE,
            moved |-> FALSE, digest |-> NoFiles]
IncompleteObservation == Nothing

VARIABLES
    phase,        \* Unit.phase
    execution,    \* the reserved call of Register, or NoOne
    ready,        \* unitExecution.ready
    terminal,     \* unitExecution.terminal, "none" until submitted
    observed,     \* unitExecution.observed
    frame,        \* inputs version in the frame's bracket; NoFiles: no bracket
    recorded,     \* unitExecution.observation is set
    observation,  \* the finalized observation (meaningful once digested)
    identityOnly, \* Unit.identityOnly
    capture,      \* a test-log capture path was declared
    proof,        \* Snapshot.observable of the roster
    captured,     \* Snapshot.capturedObserved of the roster (all or none)
    sealed,       \* Snapshot.sealed
    attached,     \* Snapshot.attachedObservations of the roster
    cut,          \* a held cut (cutUnavailable) of either view
    rpc,          \* where each call of Register stands, or what it returned
    closer,       \* the call of Close that does the closing work
    cpc,          \* where it stands
    before,       \* the inputs its check window opened on
    outcome,      \* its pending return
    verdict,      \* the verdict of each subject
    result,       \* what each call of Close returned
    dead,         \* callers whose context is cancelled
    prepareCancelled, closeCancelled, \* the unit's own cancel functions
    tree, inputs, \* the outside world
    stood         \* history: what had not moved at the last tree comparison

unitVars == <<phase, execution, ready, terminal, observed, frame, recorded>>
viewVars == <<proof, captured, sealed, attached, cut>>
closeVars == <<closer, cpc, before, outcome, verdict, result, observation>>
optionVars == <<identityOnly, capture>>
worldVars == <<tree, inputs>>
vars == <<unitVars, viewVars, closeVars, optionVars, worldVars, rpc, dead,
          prepareCancelled, closeCancelled, stood>>

-----------------------------------------------------------------------------
Init ==
    /\ phase = "open" /\ execution = NoOne /\ ready = FALSE
    /\ terminal = "none" /\ observed = {} /\ frame = NoFiles
    /\ recorded = FALSE /\ observation = Nothing
    /\ identityOnly \in BOOLEAN /\ capture \in BOOLEAN
    /\ proof = "none" /\ captured = FALSE /\ sealed = FALSE
    /\ attached = FALSE /\ cut = FALSE
    /\ rpc = [r \in Registrars |-> "idle"]
    /\ closer = NoOne /\ cpc = "idle" /\ before = NoFiles
    /\ outcome = "none" /\ verdict = [s \in Subjects |-> "none"]
    /\ result = [c \in Closers |-> "none"]
    /\ dead = {} /\ prepareCancelled = FALSE /\ closeCancelled = FALSE
    /\ tree = 0 /\ inputs = 0 /\ stood = {}

\* The view was constructed at version 0 of the tree.
TreeMoved == tree # 0

-----------------------------------------------------------------------------
\* Register: the caller's context, the build binding and the process
\* description are checked before the mutex is taken.
RegisterEnter(r) ==
    /\ rpc[r] = "idle"
    /\ \/ r \in dead /\ rpc' = [rpc EXCEPT ![r] = "cancelled"]
       \/ r \notin dead /\ \E p \in {"entered", "refused"} : rpc' = [rpc EXCEPT ![r] = p]
    /\ UNCHANGED <<unitVars, viewVars, closeVars, optionVars, worldVars, dead,
                   prepareCancelled, closeCancelled, stood>>

\* The one reservation: a second contributor is refused, not dropped.
RegisterReserve(r) ==
    /\ rpc[r] = "entered"
    /\ \/ /\ phase # "open"
          /\ rpc' = [rpc EXCEPT ![r] = "errUnitClosed"]
          /\ UNCHANGED execution
       \/ /\ phase = "open" /\ execution # NoOne
          /\ rpc' = [rpc EXCEPT ![r] = "refused"]
          /\ UNCHANGED execution
       \/ /\ phase = "open" /\ execution = NoOne
          /\ execution' = r
          /\ rpc' = [rpc EXCEPT ![r] = "frame"]
    /\ UNCHANGED <<phase, ready, terminal, observed, frame, recorded, viewVars,
                   closeVars, optionVars, worldVars, dead, prepareCancelled,
                   closeCancelled, stood>>

\* CaptureProducerFrame fingerprints the bracket roots; it never fails, a
\* directory it cannot frame leaves a frame with no bracket.  The capture of
\* the roster's fingerprints after it can.
RegisterFrame(r) ==
    /\ rpc[r] = "frame"
    /\ frame' \in {inputs, NoFiles}
    /\ \E p \in {IF identityOnly \/ Open = {} THEN "commit" ELSE "prove", "commitError"} :
          rpc' = [rpc EXCEPT ![r] = p]
    /\ UNCHANGED <<phase, execution, ready, terminal, observed, recorded, viewVars,
                   closeVars, optionVars, worldVars, dead, prepareCancelled,
                   closeCancelled, stood>>

\* prepareOutcomeSupport: one shared analysis for the whole roster, closed
\* by an observation of the tree; a moved tree or a cancellation fails it.
RegisterProve(r) ==
    /\ rpc[r] = "prove"
    /\ \/ /\ ~TreeMoved /\ ~sealed
          /\ ~(r \in dead \/ prepareCancelled)
          /\ proof' \in Proofs \ {"none"}
          /\ cut' \in BOOLEAN
          /\ captured' = TRUE
          /\ rpc' = [rpc EXCEPT ![r] = "commit"]
       \/ /\ rpc' = [rpc EXCEPT ![r] = "commitError"]
          /\ UNCHANGED <<proof, cut, captured>>
    /\ UNCHANGED <<unitVars, sealed, attached, closeVars, optionVars, worldVars, dead,
                   prepareCancelled, closeCancelled, stood>>

\* The second critical section: the caller's cancellation first, then the
\* unit's phase, then the preparation's own error or that of binding the
\* frame to the process.
RegisterCommit(r) ==
    /\ rpc[r] \in {"commit", "commitError"}
    /\ \/ /\ r \in dead
          /\ phase' = IF phase = "open" THEN "failed" ELSE phase
          /\ rpc' = [rpc EXCEPT ![r] = "cancelled"]
          /\ UNCHANGED <<ready, observed>>
       \/ /\ r \notin dead /\ phase # "open"
          /\ rpc' = [rpc EXCEPT ![r] = "errUnitClosed"]
          /\ UNCHANGED <<phase, ready, observed>>
       \/ /\ r \notin dead /\ phase = "open"
          /\ phase' = "failed"
          /\ rpc' = [rpc EXCEPT ![r] = "failed"]
          /\ UNCHANGED <<ready, observed>>
       \/ /\ r \notin dead /\ phase = "open"
          /\ rpc[r] = "commit" /\ ~prepareCancelled
          /\ ready' = TRUE
          /\ observed' = IF captured THEN Open ELSE {}
          /\ rpc' = [rpc EXCEPT ![r] = "contribution"]
          /\ UNCHANGED phase
    /\ UNCHANGED <<execution, terminal, frame, recorded, viewVars, closeVars, optionVars,
                   worldVars, dead, prepareCancelled, closeCancelled, stood>>

Register(r) == \/ RegisterEnter(r) \/ RegisterReserve(r) \/ RegisterFrame(r)
               \/ RegisterProve(r) \/ RegisterCommit(r)

-----------------------------------------------------------------------------
\* The executor runs the process after Register returned and then submits;
\* refused calls leave the unit as it is.
Submit(r, t) ==
    /\ phase = "open"
    /\ rpc[r] = "contribution" /\ execution = r /\ ready
    /\ terminal = "none"
    /\ terminal' = t
    /\ UNCHANGED <<phase, execution, ready, observed, frame, recorded, viewVars, closeVars,
                   optionVars, worldVars, rpc, dead, prepareCancelled,
                   closeCancelled, stood>>

Abort ==
    /\ phase \in {"open", "closing"}
    /\ phase' = "aborted"
    /\ prepareCancelled' = (prepareCancelled \/ execution # NoOne)
    /\ closeCancelled' = (closeCancelled \/ phase = "closing")
    /\ UNCHANGED <<execution, ready, terminal, observed, frame, recorded, viewVars, closeVars,
                   optionVars, worldVars, rpc, dead, stood>>

-----------------------------------------------------------------------------
\* Close.  The roster freezes in the first critical section.
CloseBegin(c, nil) ==
    /\ result[c] = "none" /\ closer # c
    /\ IF phase # "open"
       THEN /\ result' = [result EXCEPT ![c] = "errUnitClosed"]
            /\ UNCHANGED <<phase, closer, cpc, outcome, prepareCancelled>>
       ELSE /\ phase' = "closing"
            /\ closer' = c
            /\ cpc' = IF nil THEN "finish" ELSE "admit"
            /\ outcome' = IF nil THEN "nilContext" ELSE "none"
            /\ prepareCancelled' = (execution # NoOne)
            /\ UNCHANGED result
    /\ UNCHANGED <<execution, ready, terminal, observed, frame, recorded, viewVars, before,
                   verdict, observation, optionVars, worldVars, rpc, dead,
                   closeCancelled, stood>>

Cancelled == closer \in dead \/ closeCancelled

\* Leave the closing work with a pending return.
Return(o) == cpc' = "finish" /\ outcome' = o
Continue(p) == cpc' = p /\ UNCHANGED outcome

\* Whether this close finalizes an observation at all.
Observes == observed # {} \/ identityOnly \/ capture \/ terminal # "normal"

\* Mutant: a reserved contributor is taken for a prepared and submitted one.
CloseAdmitReserved ==
    /\ cpc = "admit"
    /\ IF Cancelled THEN Return("cancelled")
       ELSE IF execution = NoOne THEN Return("incomplete")
       ELSE IF terminal = "neverStarted" THEN Return("neverStarted")
       ELSE Continue(IF Observes THEN "digest" ELSE "attach")
    /\ UNCHANGED <<unitVars, viewVars, closer, before, verdict, result, observation,
                   optionVars, worldVars, rpc, dead, prepareCancelled,
                   closeCancelled, stood>>

\* Mutant: a process that never started is taken for one that ended badly.
CloseAdmitNeverStarted ==
    /\ cpc = "admit"
    /\ IF Cancelled THEN Return("cancelled")
       ELSE IF ~ready \/ terminal = "none" THEN Return("incomplete")
       ELSE Continue(IF Observes THEN "digest" ELSE "attach")
    /\ UNCHANGED <<unitVars, viewVars, closer, before, verdict, result, observation,
                   optionVars, worldVars, rpc, dead, prepareCancelled,
                   closeCancelled, stood>>

CloseAdmit ==
    /\ cpc = "admit"
    /\ IF Cancelled THEN Return("cancelled")
       ELSE IF ~ready \/ terminal = "none" THEN Return("incomplete")
       ELSE IF terminal = "neverStarted" THEN Return("neverStarted")
       ELSE Continue(IF Observes THEN "digest" ELSE "attach")
    /\ UNCHANGED <<unitVars, viewVars, closer, before, verdict, result, observation,
                   optionVars, worldVars, rpc, dead, prepareCancelled,
                   closeCancelled, stood>>

\* Outcome support was prepared and not refused (outcomeReason = "").
Supports == observed # {} /\ proof = "supported"

\* ProducerFrame.observe: an abnormal end, an absent or foreign capture or a
\* frame with no bracket fails closed to an incomplete observation; otherwise
\* the manifest digest reads the inputs.  An outcome-supported log names
\* environment reads only.
CloseDigest ==
    /\ cpc = "digest" /\ ~Cancelled
    /\ \/ observation' = IncompleteObservation /\ Continue("record")
       \/ /\ terminal = "normal" /\ capture /\ frame # NoFiles
          /\ \E u \in BOOLEAN, d \in IF Supports THEN {NoFiles} ELSE {inputs, NoFiles} :
                observation' = [incomplete |-> FALSE, support |-> Supports,
                                unverifiable |-> u, moved |-> FALSE, digest |-> d]
          /\ Continue("bracket")
    /\ UNCHANGED <<unitVars, viewVars, closer, before, verdict, result, optionVars,
                   worldVars, rpc, dead, prepareCancelled, closeCancelled, stood>>

\* Bracket.revalidate, strictly after the digest's last input read.  Roots that
\* cannot be compared confer neither agreement nor movement.
CloseBracket ==
    /\ cpc = "bracket" /\ ~Cancelled
    /\ \/ inputs = frame /\ UNCHANGED observation
       \/ /\ inputs # frame
          /\ observation' = [observation EXCEPT !.moved = TRUE, !.unverifiable = TRUE]
       \/ observation' = [observation EXCEPT !.unverifiable = TRUE]
    /\ Continue("record")
    /\ UNCHANGED <<unitVars, viewVars, closer, before, verdict, result, optionVars,
                   worldVars, rpc, dead, prepareCancelled, closeCancelled, stood>>

\* recordObservation takes the mutex whatever the phase is by now.
CloseRecord ==
    /\ cpc = "record"
    /\ recorded' = TRUE
    /\ Continue("attach")
    /\ UNCHANGED <<phase, execution, ready, terminal, observed, frame, viewVars, closer,
                   before, verdict, result, observation, optionVars, worldVars, rpc, dead,
                   prepareCancelled, closeCancelled, stood>>

CloseAttach ==
    /\ cpc = "attach"
    /\ ~sealed /\ (observed # {} => captured)
    /\ attached' = recorded
    /\ Continue("check")
    /\ UNCHANGED <<unitVars, proof, captured, sealed, cut, closer, before, verdict, result,
                   observation, optionVars, worldVars, rpc, dead, prepareCancelled,
                   closeCancelled, stood>>

\* Re-deriving a recorded state reproduces it exactly when no file it names
\* moved (stateFromManifest).
Agrees(version) == attached => observation.digest \in {version, NoFiles}

\* checkMap opens its runtime window ...
CloseCheckBefore ==
    /\ cpc = "check" /\ ~Cancelled
    /\ before' = inputs
    /\ Continue("recheck")
    /\ UNCHANGED <<unitVars, viewVars, closer, verdict, result, observation, optionVars,
                   worldVars, rpc, dead, prepareCancelled, closeCancelled, stood>>

\* Mutant: a proof admits whatever it did not refuse.
AdmittedUnlessRefused == proof # "refused"

\* Admitted observation authority of an open subject (admittedObservation).
\* Absent an inert extension the proof's own form decides.
Admitted == \/ proof = "supported" /\ observation.support
            \/ proof = "effectFree"

\* The ladder of decideAfterClosureObserved on the unit's own fingerprints:
\* their code guards are the view's, so only the inputs can differ.
JudgeSubject(s) ==
    IF attached /\ (observation.moved \/ ~Agrees(before) \/ ~Agrees(inputs)) THEN "stale"
    ELSE IF s \in Pure THEN "valid"
    ELSE IF attached /\ observation.unverifiable THEN "unverifiable"
    ELSE IF s \in Source \/ (s \in observed /\ attached /\ Admitted) THEN "valid"
    ELSE "unverifiable"

\* ... and closes it; runtimeMotion stales a record whose inputs moved.
CloseCheckAfter ==
    /\ cpc = "recheck" /\ ~Cancelled
    /\ verdict' = [s \in Subjects |-> JudgeSubject(s)]
    /\ Continue("seal")
    /\ UNCHANGED <<unitVars, viewVars, closer, before, result, observation, optionVars,
                   worldVars, rpc, dead, prepareCancelled, closeCancelled, stood>>

\* Validate seals the view before it reads anything.
CloseSeal ==
    /\ cpc = "seal"
    /\ sealed' = TRUE
    /\ IF Cancelled THEN Return("cancelled")
       ELSE Continue(IF captured THEN "seed" ELSE "observe")
    /\ UNCHANGED <<unitVars, proof, captured, attached, cut, closer, before, verdict, result,
                   observation, optionVars, worldVars, rpc, dead, prepareCancelled,
                   closeCancelled, stood>>

\* What has not moved since the unit looked: the tree since the view was
\* constructed, the inputs since the frame was captured.
Standing == (IF TreeMoved THEN {} ELSE {"tree"}) \cup (IF inputs = frame THEN {"inputs"} ELSE {})

\* One comparison pass over the tree.  A budget cut that alone separates the
\* two observations is held, a moved tree refuses at once.
ComparePass(next) ==
    IF TreeMoved
    THEN Return("viewChanged") /\ UNCHANGED cut
    ELSE cut' \in {cut, TRUE} /\ Continue(next)

\* The plain arm of Validate: no proof was captured.
CloseObserve ==
    /\ cpc = "observe" /\ ~Cancelled
    /\ ComparePass("identity")
    /\ stood' = Standing
    /\ UNCHANGED <<unitVars, proof, captured, sealed, attached, closer, before, verdict,
                   result, observation, optionVars, worldVars, rpc, dead,
                   prepareCancelled, closeCancelled>>

\* The observed arm: newSeededValidationView ...
CloseSeed ==
    /\ cpc = "seed" /\ ~Cancelled
    /\ IF attached THEN ComparePass("first") ELSE Return("failed") /\ UNCHANGED cut
    /\ UNCHANGED <<unitVars, proof, captured, sealed, attached, closer, before, verdict,
                   result, observation, optionVars, worldVars, rpc, dead,
                   prepareCancelled, closeCancelled, stood>>

\* ... compareAttachedObservations before the proof is re-established ...
CloseFirstComparison ==
    /\ cpc = "first" /\ ~Cancelled
    /\ IF Agrees(inputs) THEN Continue("reprove") ELSE Return("viewChanged")
    /\ UNCHANGED <<unitVars, viewVars, closer, before, verdict, result, observation,
                   optionVars, worldVars, rpc, dead, prepareCancelled,
                   closeCancelled, stood>>

\* ... ensureObservable on the seeded view, whose bracket closes with another
\* observation of the tree; an analysis that cannot re-establish the proof is
\* unavailable, never drift ...
CloseReprove ==
    /\ cpc = "reprove" /\ ~Cancelled
    /\ ComparePass("second")
    /\ stood' = Standing
    /\ UNCHANGED <<unitVars, proof, captured, sealed, attached, closer, before, verdict,
                   result, observation, optionVars, worldVars, rpc, dead,
                   prepareCancelled, closeCancelled>>

\* Mutant: the movement of the bracket is left to the verdicts.
JudgedDespiteMotion == IF cut THEN "unavailable" ELSE "evidence"

\* What Close returns once validation is through: demonstrated movement of
\* the bracket outranks an unavailable analysis.
Judged == IF observation.moved /\ attached THEN "span"
          ELSE IF cut THEN "unavailable" ELSE "evidence"

\* ... and the second comparison, after which held unavailability resolves.
CloseSecondComparison ==
    /\ cpc = "second" /\ ~Cancelled
    /\ IF Agrees(inputs) THEN Return(Judged) ELSE Return("viewChanged")
    /\ UNCHANGED <<unitVars, viewVars, closer, before, verdict, result, observation,
                   optionVars, worldVars, rpc, dead, prepareCancelled,
                   closeCancelled, stood>>

\* Identity-only attachments close after the source comparison.
CloseIdentityComparison ==
    /\ cpc = "identity" /\ ~Cancelled
    /\ IF Agrees(inputs) THEN Return(Judged) ELSE Return("viewChanged")
    /\ UNCHANGED <<unitVars, viewVars, closer, before, verdict, result, observation,
                   optionVars, worldVars, rpc, dead, prepareCancelled,
                   closeCancelled, stood>>

\* Any step of the work may fail; a cancelled one must.
Working == {"digest", "bracket", "record", "attach", "check", "recheck", "observe", "seed",
            "first", "reprove", "second", "identity"}

CloseFails ==
    /\ cpc \in Working
    /\ Return("failed")
    /\ UNCHANGED <<unitVars, viewVars, closer, before, verdict, result, observation,
                   optionVars, worldVars, rpc, dead, prepareCancelled,
                   closeCancelled, stood>>

\* Mutant: evidence goes out to a caller that has given up.
ReturnedDespiteCancel == IF phase = "aborted" THEN "aborted" ELSE outcome

\* The deferred critical section decides: the caller's cancellation, then an
\* abort, then the pending error; only otherwise does evidence escape.
Returned == IF closer \in dead /\ outcome # "nilContext" THEN "cancelled"
            ELSE IF phase = "aborted" THEN "aborted" ELSE outcome

CloseFinish ==
    /\ cpc = "finish"
    /\ result' = [result EXCEPT ![closer] = Returned]
    /\ phase' = IF Returned = "evidence" THEN "closed"
                ELSE IF phase = "aborted" THEN "aborted" ELSE "failed"
    /\ cpc' = "done" /\ outcome' = "none"
    /\ UNCHANGED <<execution, ready, terminal, observed, frame, recorded, viewVars, closer,
                   before, verdict, observation, optionVars, worldVars, rpc, dead,
                   prepareCancelled, closeCancelled, stood>>

CloseWork == \/ CloseAdmit \/ CloseDigest \/ CloseBracket \/ CloseRecord \/ CloseAttach
             \/ CloseCheckBefore \/ CloseCheckAfter \/ CloseSeal \/ CloseObserve \/ CloseSeed
             \/ CloseFirstComparison \/ CloseReprove \/ CloseSecondComparison
             \/ CloseIdentityComparison \/ CloseFails \/ CloseFinish

-----------------------------------------------------------------------------
\* The environment: contexts die, the tree and the inputs move.
CancelCaller(p) ==
    /\ p \notin dead
    /\ p \in Registrars => rpc[p] \in {"idle", "entered", "frame", "prove", "commit", "commitError"}
    /\ p \in Closers => result[p] = "none"
    /\ dead' = dead \cup {p}
    /\ UNCHANGED <<unitVars, viewVars, closeVars, optionVars, worldVars, rpc,
                   prepareCancelled, closeCancelled, stood>>

MoveTree ==
    /\ tree < MaxTree
    /\ tree' = tree + 1
    /\ UNCHANGED <<unitVars, viewVars, closeVars, optionVars, inputs, rpc, dead,
                   prepareCancelled, closeCancelled, stood>>

MoveInputs ==
    /\ inputs < MaxInput
    /\ inputs' = inputs + 1
    /\ UNCHANGED <<unitVars, viewVars, closeVars, optionVars, tree, rpc, dead,
                   prepareCancelled, closeCancelled, stood>>

World == MoveTree \/ MoveInputs \/ \E p \in Callers : CancelCaller(p)

Next == \/ \E r \in Registrars : Register(r)
        \/ \E r \in Registrars, t \in Terminals : Submit(r, t)
        \/ \E c \in Closers, nil \in BOOLEAN : CloseBegin(c, nil)
        \/ CloseWork
        \/ Abort
        \/ World

\* Go runs every started call to its end; nobody owes a call, a cancellation
\* or a change of the outside world.
Fairness == /\ \A r \in Registrars : WF_vars(Register(r) /\ rpc[r] # "idle")
            /\ WF_vars(CloseWork)

Spec == Init /\ [][Next]_vars /\ Fairness
-----------------------------------------------------------------------------
RegisterSteps == {"idle", "entered", "frame", "prove", "commit", "commitError"}
RegisterReturns == {"contribution", "cancelled", "refused", "failed", "errUnitClosed"}
CloseReturns == {"evidence", "cancelled", "aborted", "incomplete", "neverStarted", "failed",
                 "viewChanged", "span", "unavailable", "nilContext"}
Ended == {"closed", "failed", "aborted"}

UnitType ==
    /\ phase \in Phases /\ execution \in Registrars \cup {NoOne} /\ ready \in BOOLEAN
    /\ terminal \in Terminals \cup {"none"} /\ observed \subseteq Subjects
    /\ frame \in Versions \cup {NoFiles} /\ recorded \in BOOLEAN
ViewType ==
    /\ proof \in Proofs /\ captured \in BOOLEAN /\ sealed \in BOOLEAN
    /\ attached \in BOOLEAN /\ cut \in BOOLEAN
RegisterType == rpc \in [Registrars -> RegisterSteps \cup RegisterReturns]
CloseType ==
    /\ closer \in Closers \cup {NoOne}
    /\ cpc \in Working \cup {"idle", "admit", "seal", "finish", "done"}
    /\ before \in Versions \cup {NoFiles}
    /\ outcome \in CloseReturns \cup {"none"}
    /\ verdict \in [Subjects -> {"none", "valid", "stale", "unverifiable"}]
    /\ result \in [Closers -> CloseReturns \cup {"none", "errUnitClosed"}]
    /\ observation \in Observations
OutsideType ==
    /\ identityOnly \in BOOLEAN /\ capture \in BOOLEAN
    /\ dead \subseteq Callers
    /\ prepareCancelled \in BOOLEAN /\ closeCancelled \in BOOLEAN
    /\ tree \in 0..MaxTree /\ inputs \in Versions
    /\ stood \subseteq {"tree", "inputs"}

\* The type invariant.
TypeOK == UnitType /\ ViewType /\ RegisterType /\ CloseType /\ OutsideType

\* Evidence escapes from Close exactly when the unit closed, to the one caller
\* whose context outlived the work: an abort or a cancellation that wins before
\* the commit suppresses it (Abort, and the deferred section of Close).
EvidenceOnlyIfClosed ==
    \A c \in Closers :
        result[c] = "evidence" <=> (phase = "closed" /\ closer = c /\ c \notin dead)

\* The finalized evidence was true at one instant after the process ended: at
\* the last comparison the tree was still the one the view was built on, and,
\* when the evidence names files it vouches for, so were the inputs since before
\* the process started.  Evidence that says it is unverifiable, an incomparable
\* bracket's, vouches for none; a bracket that moved leaves no evidence at all
\* (Close, Validate, Bracket.revalidate).
EvidenceWasCoherent ==
    phase = "closed" =>
        /\ "tree" \in stood
        /\ attached => ~observation.moved
        /\ attached /\ observation.digest # NoFiles /\ ~observation.unverifiable
              => "inputs" \in stood

\* No false valid: a closed unit calls a subject valid that neither source nor
\* purity supports only on a normally ended process, observed completely under
\* a captured bracket that did not move, with a proof that admits it.
ObservedValidIsSupported ==
    phase = "closed" =>
        \A s \in Open : verdict[s] = "valid" =>
            /\ terminal = "normal" /\ ready /\ captured /\ attached
            /\ frame # NoFiles /\ ~observation.incomplete /\ ~observation.moved
            /\ proof = "effectFree" \/ (proof = "supported" /\ observation.support)

\* The view is a producer transaction of one goroutine at a time: the closing
\* work uses it only after the one registration has returned its contribution.
ViewIsExclusive ==
    cpc \in Working \cup {"seal"} =>
        /\ \A r \in Registrars : rpc[r] \notin {"frame", "prove", "commit", "commitError"}
        /\ \E r \in Registrars : r = execution /\ rpc[r] = "contribution"

\* An ended unit stays as it ended, whatever call is still running.
EndIsFinal == [][(phase \in Ended) => (phase' = phase)]_vars

\* Account only ever gains facts: preparation, the submitted terminal and the
\* finalized observation are never withdrawn or replaced, by a refusal least.
AccountGrows ==
    [][/\ ready => ready'
       /\ execution # NoOne => execution' = execution
       /\ terminal # "none" => terminal' = terminal
       /\ recorded => recorded' /\ observation' = observation]_vars

-----------------------------------------------------------------------------
\* The refinement mapping onto the unit's contract.
Status == IF phase \in {"failed", "aborted"} THEN "ended" ELSE phase
Contributor == IF execution = NoOne THEN "none"
               ELSE IF ~ready THEN "reserved"
               ELSE IF terminal = "none" THEN "prepared"
               ELSE IF terminal = "neverStarted" THEN "never" ELSE "ran"

UC == INSTANCE UnitContract WITH status <- Status, contributor <- Contributor

\* The unit implements its contract, the end of every closing included.
ImplementsContract == UC!Contract
=============================================================================
