------------------------------ MODULE UnitProofs ------------------------------
(***************************************************************************)
(* Proofs about the producing unit, for any number of callers of Register  *)
(* and Close, any roster and any amount of movement outside.               *)
(*                                                                         *)
(* The safety theorems rest on one inductive invariant, IInv: who closes   *)
(* and how far (Closing), what was granted (Granted), what the one         *)
(* registration reached (Registering) and what the closing work relies on  *)
(* (Worked).  None of the properties is inductive alone: that an ended     *)
(* unit stays ended, for instance, needs to know that a close at work      *)
(* finds the unit closing or aborted and nothing else.  That the unit's    *)
(* steps are steps of its contract rests on the same invariant.            *)
(***************************************************************************)
EXTENDS Unit, TLAPS

LEMMA Stutters ==
    ASSUME TypeOK
    PROVE  /\ UNCHANGED unitVars => UnitType'
           /\ UNCHANGED viewVars => ViewType'
           /\ UNCHANGED rpc => RegisterType'
           /\ UNCHANGED closeVars => CloseType'
           /\ UNCHANGED <<optionVars, worldVars, dead, prepareCancelled, closeCancelled, stood>>
                  => OutsideType'
<1> USE DEF TypeOK
<1>1. UNCHANGED unitVars => UnitType'
    BY DEF UnitType, unitVars
<1>2. UNCHANGED viewVars => ViewType'
    BY DEF ViewType, viewVars
<1>3. UNCHANGED rpc => RegisterType'
    BY DEF RegisterType
<1>4. UNCHANGED closeVars => CloseType'
    BY DEF CloseType, closeVars
<1>5. UNCHANGED <<optionVars, worldVars, dead, prepareCancelled, closeCancelled, stood>>
          => OutsideType'
    BY DEF OutsideType, optionVars, worldVars
<1> QED
    BY <1>1, <1>2, <1>3, <1>4, <1>5

LEMMA RegisterKeepsType ==
    ASSUME TypeOK, NEW r \in Registrars, Register(r)
    PROVE  TypeOK'
<1> USE DEF RegisterSteps, RegisterReturns
<1>1. CASE RegisterEnter(r)
  <2>1. RegisterType'
    BY <1>1 DEF RegisterEnter, TypeOK, RegisterType
  <2> QED
    BY <1>1, <2>1, Stutters DEF RegisterEnter, TypeOK
<1>2. CASE RegisterReserve(r)
  <2>1. RegisterType'
    BY <1>2 DEF RegisterReserve, TypeOK, RegisterType
  <2>2. UnitType'
    BY <1>2 DEF RegisterReserve, TypeOK, UnitType
  <2> QED
    BY <1>2, <2>1, <2>2, Stutters DEF RegisterReserve, TypeOK
<1>3. CASE RegisterFrame(r)
  <2>1. RegisterType'
    BY <1>3 DEF RegisterFrame, TypeOK, RegisterType
  <2>2. UnitType'
    BY <1>3 DEF RegisterFrame, TypeOK, UnitType, OutsideType
  <2> QED
    BY <1>3, <2>1, <2>2, Stutters DEF RegisterFrame, TypeOK
<1>4. CASE RegisterProve(r)
  <2>1. RegisterType'
    BY <1>4 DEF RegisterProve, TypeOK, RegisterType
  <2>2. ViewType'
    BY <1>4 DEF RegisterProve, TypeOK, ViewType
  <2> QED
    BY <1>4, <2>1, <2>2, Stutters DEF RegisterProve, TypeOK
<1>5. CASE RegisterCommit(r)
  <2>1. RegisterType'
    BY <1>5 DEF RegisterCommit, TypeOK, RegisterType
  <2>2. UnitType'
    BY <1>5 DEF RegisterCommit, TypeOK, UnitType, Phases, Open
  <2> QED
    BY <1>5, <2>1, <2>2, Stutters DEF RegisterCommit, TypeOK
<1> QED
    BY <1>1, <1>2, <1>3, <1>4, <1>5 DEF Register

LEMMA CloseWorkKeepsType ==
    ASSUME TypeOK, CloseWork
    PROVE  TypeOK'
<1> USE DEF Return, Continue, Working, CloseReturns
<1>1. CASE CloseAdmit
  <2>1. CloseType'
    BY <1>1 DEF CloseAdmit, TypeOK, CloseType
  <2> QED
    BY <1>1, <2>1, Stutters DEF CloseAdmit, TypeOK
<1>2. CASE CloseDigest
  <2>1. observation' \in Observations
    <3>1. CASE observation' = IncompleteObservation
      BY <3>1 DEF IncompleteObservation, Nothing, Observations
    <3>2. CASE \E u \in BOOLEAN, d \in IF Supports THEN {NoFiles} ELSE {inputs, NoFiles} :
                 observation' = [incomplete |-> FALSE, support |-> Supports,
                                 unverifiable |-> u, moved |-> FALSE, digest |-> d]
      <4>1. Supports \in BOOLEAN
        BY DEF Supports
      <4>2. inputs \in Versions
        BY DEF TypeOK, OutsideType
      <4> QED
        BY <3>2, <4>1, <4>2 DEF Observations
    <3> QED
      BY <1>2, <3>1, <3>2 DEF CloseDigest
  <2>2. CloseType'
    BY <1>2, <2>1 DEF CloseDigest, TypeOK, CloseType
  <2> QED
    BY <1>2, <2>2, Stutters DEF CloseDigest, TypeOK
<1>3. CASE CloseBracket
  <2>1. observation' \in Observations
    BY <1>3 DEF CloseBracket, Observations, TypeOK, CloseType
  <2>2. CloseType'
    BY <1>3, <2>1 DEF CloseBracket, TypeOK, CloseType
  <2> QED
    BY <1>3, <2>2, Stutters DEF CloseBracket, TypeOK
<1>4. CASE CloseRecord
  <2>1. CloseType' /\ UnitType'
    BY <1>4 DEF CloseRecord, TypeOK, CloseType, UnitType
  <2> QED
    BY <1>4, <2>1, Stutters DEF CloseRecord, TypeOK
<1>5. CASE CloseAttach
  <2>1. CloseType' /\ ViewType'
    BY <1>5 DEF CloseAttach, TypeOK, CloseType, UnitType, ViewType
  <2> QED
    BY <1>5, <2>1, Stutters DEF CloseAttach, TypeOK
<1>6. CASE CloseCheckBefore
  <2>1. CloseType'
    BY <1>6 DEF CloseCheckBefore, TypeOK, CloseType, OutsideType
  <2> QED
    BY <1>6, <2>1, Stutters DEF CloseCheckBefore, TypeOK
<1>7. CASE CloseCheckAfter
  <2>1. \A s \in Subjects : JudgeSubject(s) \in {"valid", "stale", "unverifiable"}
    BY DEF JudgeSubject
  <2>2. CloseType'
    BY <1>7, <2>1 DEF CloseCheckAfter, TypeOK, CloseType
  <2> QED
    BY <1>7, <2>2, Stutters DEF CloseCheckAfter, TypeOK
<1>8. CASE CloseSeal
  <2>1. CloseType' /\ ViewType'
    BY <1>8 DEF CloseSeal, TypeOK, CloseType, ViewType
  <2> QED
    BY <1>8, <2>1, Stutters DEF CloseSeal, TypeOK
<1>9. CASE CloseObserve \/ CloseReprove
  <2>1. CloseType' /\ ViewType'
    BY <1>9 DEF CloseObserve, CloseReprove, ComparePass, TypeOK, CloseType, ViewType
  <2>2. OutsideType'
    BY <1>9 DEF CloseObserve, CloseReprove, Standing, TypeOK, OutsideType, optionVars, worldVars
  <2> QED
    BY <1>9, <2>1, <2>2, Stutters DEF CloseObserve, CloseReprove, TypeOK
<1>10. CASE CloseSeed
  <2>1. CloseType' /\ ViewType'
    BY <1>10 DEF CloseSeed, ComparePass, TypeOK, CloseType, ViewType
  <2> QED
    BY <1>10, <2>1, Stutters DEF CloseSeed, TypeOK
<1>11. CASE CloseFirstComparison \/ CloseSecondComparison \/ CloseIdentityComparison
  <2>1. Judged \in CloseReturns
    BY DEF Judged
  <2>2. CloseType'
    BY <1>11, <2>1 DEF CloseFirstComparison, CloseSecondComparison, CloseIdentityComparison,
                       TypeOK, CloseType
  <2> QED
    BY <1>11, <2>2, Stutters DEF CloseFirstComparison, CloseSecondComparison,
                                 CloseIdentityComparison, TypeOK
<1>12. CASE CloseFails
  <2>1. CloseType'
    BY <1>12 DEF CloseFails, TypeOK, CloseType
  <2> QED
    BY <1>12, <2>1, Stutters DEF CloseFails, TypeOK
<1>13. CASE CloseFinish
  <2>1. Returned \in CloseReturns \cup {"none"}
    BY DEF Returned, TypeOK, CloseType
  <2>2. CloseType' /\ UnitType'
    BY <1>13, <2>1 DEF CloseFinish, TypeOK, CloseType, UnitType, Phases
  <2> QED
    BY <1>13, <2>2, Stutters DEF CloseFinish, TypeOK
<1> QED
    BY <1>1, <1>2, <1>3, <1>4, <1>5, <1>6, <1>7, <1>8, <1>9, <1>10, <1>11, <1>12, <1>13
    DEF CloseWork

LEMMA InitType == Init => TypeOK
<1> SUFFICES ASSUME Init PROVE TypeOK
  OBVIOUS
<1>1. UnitType
  BY DEF Init, UnitType, Phases
<1>2. ViewType
  BY DEF Init, ViewType, Proofs
<1>3. RegisterType
  BY DEF Init, RegisterType, RegisterSteps
<1>4. CloseType
  BY DEF Init, CloseType, Observations, Nothing
<1>5. OutsideType
  <2>1. tree \in 0..MaxTree /\ inputs \in Versions
    BY UnitAssumption DEF Init, Versions
  <2> QED
    BY <2>1 DEF Init, OutsideType
<1> QED
  BY <1>1, <1>2, <1>3, <1>4, <1>5 DEF TypeOK

LEMMA NextKeepsType == TypeOK /\ [Next]_vars => TypeOK'
<1> SUFFICES ASSUME TypeOK, [Next]_vars PROVE TypeOK'
  OBVIOUS
<1>1. CASE \E r \in Registrars : Register(r)
  BY <1>1, RegisterKeepsType
<1>2. ASSUME NEW r \in Registrars, NEW t \in Terminals, Submit(r, t)
      PROVE  TypeOK'
  <2>1. UnitType'
    BY <1>2 DEF Submit, TypeOK, UnitType
  <2> QED
    BY <1>2, <2>1, Stutters DEF Submit, TypeOK
<1>3. ASSUME NEW c \in Closers, NEW nil \in BOOLEAN, CloseBegin(c, nil)
      PROVE  TypeOK'
  <2>1. UnitType'
    BY <1>3 DEF CloseBegin, TypeOK, UnitType, Phases
  <2>2. CloseType'
    BY <1>3 DEF CloseBegin, TypeOK, CloseType, CloseReturns
  <2>3. OutsideType'
    BY <1>3 DEF CloseBegin, TypeOK, OutsideType, optionVars, worldVars
  <2> QED
    BY <1>3, <2>1, <2>2, <2>3, Stutters DEF CloseBegin, TypeOK
<1>4. CASE CloseWork
  BY <1>4, CloseWorkKeepsType
<1>5. CASE Abort
  <2>1. UnitType' /\ OutsideType'
    BY <1>5 DEF Abort, TypeOK, UnitType, OutsideType, Phases, optionVars, worldVars
  <2> QED
    BY <1>5, <2>1, Stutters DEF Abort, TypeOK
<1>6. CASE World
  <2>1. tree' \in 0..MaxTree /\ inputs' \in Versions
    <3>1. tree \in 0..MaxTree /\ inputs \in Versions
      BY DEF TypeOK, OutsideType
    <3> QED
      BY <1>6, <3>1, UnitAssumption
      DEF World, MoveTree, MoveInputs, CancelCaller, Versions, worldVars
  <2>2. dead' \subseteq Callers
    BY <1>6 DEF World, MoveTree, MoveInputs, CancelCaller, TypeOK, OutsideType
  <2>3. OutsideType'
    BY <1>6, <2>1, <2>2
    DEF World, MoveTree, MoveInputs, CancelCaller, TypeOK, OutsideType, optionVars
  <2> QED
    BY <1>6, <2>3, Stutters DEF World, MoveTree, MoveInputs, CancelCaller, TypeOK
<1>7. CASE UNCHANGED vars
  BY <1>7, Stutters DEF vars, TypeOK
<1> QED
  BY <1>1, <1>2, <1>3, <1>4, <1>5, <1>6, <1>7 DEF Next

\* The type invariant holds in every reachable state.
THEOREM TypeCorrect == Spec => []TypeOK
    BY InitType, NextKeepsType, PTL DEF Spec

-----------------------------------------------------------------------------
(* The inductive invariant.                                                *)

Preparing == {"frame", "prove", "commit", "commitError"}

\* The one close at work finds the unit closing or aborted; before it begins
\* nothing closes, and after it ends nothing is closing.
Closing ==
    /\ closer = NoOne => cpc = "idle" /\ phase \in {"open", "failed", "aborted"}
    /\ closer # NoOne => cpc # "idle" /\ phase # "open"
    /\ cpc \notin {"idle", "done"} => phase \in {"closing", "aborted"} /\ result[closer] = "none"
    /\ cpc = "done" => phase \in Ended

\* Evidence is out exactly when the unit closed.
Granted ==
    /\ \A c \in Closers : result[c] = "evidence" =>
          phase = "closed" /\ closer = c /\ c \notin dead
    /\ phase = "closed" => result[closer] = "evidence"

\* The registration that holds the reservation is the only one past it, and a
\* prepared unit is one whose registration returned its contribution.
Registering ==
    /\ \A r \in Registrars : rpc[r] \in Preparing => execution = r /\ ~ready
    /\ ready => execution \in Registrars /\ rpc[execution] = "contribution"
    /\ terminal # "none" => ready

\* Past its admission the closing work has a prepared, terminated contributor.
Worked ==
    cpc \in Working \cup {"seal"} \/ outcome = "evidence" =>
        ready /\ terminal \in {"normal", "abnormal"}

IInv == TypeOK /\ Closing /\ Granted /\ Registering /\ Worked

LEMMA RegisterKeepsIInv ==
    ASSUME IInv, NEW r \in Registrars, Register(r)
    PROVE  Closing' /\ Granted' /\ Registering' /\ Worked'
<1> USE DEF IInv, TypeOK, Register
<1>1. /\ UNCHANGED <<closeVars, terminal, dead>>
      /\ \/ UNCHANGED phase
         \/ phase = "open" /\ phase' = "failed"
  <2>1. CASE RegisterEnter(r) \/ RegisterProve(r)
    BY <2>1 DEF RegisterEnter, RegisterProve, unitVars
  <2>2. CASE RegisterReserve(r) \/ RegisterFrame(r) \/ RegisterCommit(r)
    BY <2>2 DEF RegisterReserve, RegisterFrame, RegisterCommit
  <2> QED
    BY <2>1, <2>2
<1>2. Closing'
    BY <1>1 DEF Closing, closeVars, Ended
<1>3. Granted'
    BY <1>1 DEF Granted, Closing, closeVars
<1>4. Registering'
  <2> USE DEF Registering, RegisterType, Preparing
  <2>1. CASE RegisterEnter(r)
    <3>1. PICK p \in {"cancelled", "entered", "refused"} : rpc' = [rpc EXCEPT ![r] = p]
      BY <2>1 DEF RegisterEnter
    <3>2. UNCHANGED <<execution, ready, terminal>> /\ rpc[r] = "idle"
      BY <2>1 DEF RegisterEnter, unitVars
    <3> QED
      BY <3>1, <3>2
  <2>2. CASE RegisterReserve(r)
    <3>1. UNCHANGED <<ready, terminal>> /\ rpc[r] = "entered"
      BY <2>2 DEF RegisterReserve
    <3>2. CASE execution = NoOne
      <4>1. ~ready /\ terminal = "none" /\ \A other \in Registrars : rpc[other] \notin Preparing
        BY <3>2, UnitAssumption
      <4>2. \/ execution' = r /\ rpc' = [rpc EXCEPT ![r] = "frame"]
            \/ rpc' = [rpc EXCEPT ![r] = "errUnitClosed"]
        BY <2>2, <3>2 DEF RegisterReserve
      <4> QED
        BY <3>1, <4>1, <4>2
    <3>3. CASE execution # NoOne
      <4>1. PICK p \in {"errUnitClosed", "refused"} : rpc' = [rpc EXCEPT ![r] = p]
        BY <2>2, <3>3 DEF RegisterReserve
      <4>2. UNCHANGED execution
        BY <2>2, <3>3 DEF RegisterReserve
      <4> QED
        BY <3>1, <4>1, <4>2
    <3> QED
      BY <3>2, <3>3
  <2>3. CASE RegisterFrame(r)
    BY <2>3 DEF RegisterFrame
  <2>4. CASE RegisterProve(r)
    BY <2>4 DEF RegisterProve, unitVars
  <2>5. CASE RegisterCommit(r)
    <3>1. execution = r /\ ~ready /\ terminal = "none" /\ UNCHANGED <<execution, terminal>>
      BY <2>5 DEF RegisterCommit
    <3>2. \A other \in Registrars : other # r => rpc[other] \notin Preparing
      BY <3>1
    <3>3. PICK p \in {"cancelled", "errUnitClosed", "failed", "contribution"} :
              rpc' = [rpc EXCEPT ![r] = p] /\ (ready' => p = "contribution")
      BY <2>5, <3>1 DEF RegisterCommit
    <3> QED
      BY <3>1, <3>2, <3>3
  <2> QED
    BY <2>1, <2>2, <2>3, <2>4, <2>5
<1>5. Worked'
  <2>1. CASE RegisterEnter(r) \/ RegisterReserve(r) \/ RegisterFrame(r) \/ RegisterProve(r)
    BY <1>1, <2>1
    DEF RegisterEnter, RegisterReserve, RegisterFrame, RegisterProve, unitVars, Worked, closeVars
  <2>2. CASE RegisterCommit(r)
    <3>1. ready \in BOOLEAN /\ (UNCHANGED ready \/ ready' = TRUE)
      BY <2>2 DEF RegisterCommit, UnitType
    <3> QED
      BY <1>1, <3>1 DEF Worked, closeVars
  <2> QED
    BY <2>1, <2>2
<1> QED
    BY <1>2, <1>3, <1>4, <1>5

LEMMA CloseWorkKeepsIInv ==
    ASSUME IInv, CloseWork
    PROVE  Closing' /\ Granted' /\ Registering' /\ Worked'
<1> USE DEF IInv, TypeOK
<1>1. UNCHANGED <<rpc, execution, ready, terminal, dead, closer>>
  <2>1. CASE CloseRecord \/ CloseFinish
    BY <2>1 DEF CloseRecord, CloseFinish
  <2>2. CASE ~(CloseRecord \/ CloseFinish)
    <3>1. UNCHANGED <<unitVars, rpc, dead, closer>>
      BY <2>2 DEF CloseWork, CloseAdmit, CloseDigest, CloseBracket, CloseAttach,
                  CloseCheckBefore, CloseCheckAfter, CloseSeal, CloseObserve, CloseSeed,
                  CloseFirstComparison, CloseReprove, CloseSecondComparison,
                  CloseIdentityComparison, CloseFails
    <3> QED
      BY <3>1 DEF unitVars
  <2> QED
    BY <2>1, <2>2
<1>2. Registering'
    BY <1>1 DEF Registering
<1>3. CASE CloseFinish
  <2>1. closer \in Closers /\ phase \in {"closing", "aborted"} /\ result[closer] = "none"
    BY <1>3 DEF CloseFinish, Closing, CloseType
  <2>2. /\ result' = [result EXCEPT ![closer] = Returned]
        /\ phase' = IF Returned = "evidence" THEN "closed"
                    ELSE IF phase = "aborted" THEN "aborted" ELSE "failed"
        /\ cpc' = "done" /\ outcome' = "none"
    BY <1>3 DEF CloseFinish
  <2>3. Returned = "evidence" => closer \notin dead /\ phase = "closing"
    BY <2>1 DEF Returned
  <2>4. Closing'
    BY <1>1, <2>1, <2>2, UnitAssumption DEF Closing, Ended
  <2>5. \A c \in Closers : result[c] # "evidence"
    BY <2>1 DEF Granted
  <2>6. Granted'
    BY <1>1, <2>1, <2>2, <2>3, <2>5 DEF Granted, CloseType
  <2>7. Worked'
    BY <2>2 DEF Worked, Working
  <2> QED
    BY <1>2, <2>4, <2>6, <2>7
<1>4. CASE ~CloseFinish
  <2>1. /\ UNCHANGED <<phase, result>>
        /\ cpc \in Working \cup {"admit", "seal"} /\ cpc' \in Working \cup {"seal", "finish"}
    BY <1>4
    DEF CloseWork, CloseAdmit, CloseDigest, CloseBracket, CloseRecord, CloseAttach,
        CloseCheckBefore, CloseCheckAfter, CloseSeal, CloseObserve, CloseSeed,
        CloseFirstComparison, CloseReprove, CloseSecondComparison, CloseIdentityComparison,
        CloseFails, unitVars, Return, Continue, ComparePass, Working
  <2>2. Closing'
    BY <1>1, <2>1 DEF Closing, Working
  <2>3. Granted'
    BY <1>1, <2>1 DEF Granted
  <2>4. Worked'
    <3>1. CASE CloseAdmit
      BY <1>1, <3>1 DEF CloseAdmit, Return, Continue, Worked, Working, UnitType, Terminals
    <3>2. CASE ~CloseAdmit
      <4>1. cpc \in Working \cup {"seal"}
        BY <1>4, <3>2
        DEF CloseWork, CloseDigest, CloseBracket, CloseRecord, CloseAttach,
            CloseCheckBefore, CloseCheckAfter, CloseSeal, CloseObserve, CloseSeed,
            CloseFirstComparison, CloseReprove, CloseSecondComparison, CloseIdentityComparison,
            CloseFails, Working
      <4> QED
        BY <1>1, <4>1 DEF Worked
    <3> QED
      BY <3>1, <3>2
  <2> QED
    BY <1>2, <2>2, <2>3, <2>4
<1> QED
    BY <1>3, <1>4

LEMMA Inductive == Spec => []IInv
<1>1. Init => IInv
  <2> SUFFICES ASSUME Init PROVE Closing /\ Granted /\ Registering /\ Worked
    BY InitType DEF IInv
  <2> QED
    BY DEF Init, Closing, Granted, Registering, Worked, Working, Preparing
<1>2. IInv /\ [Next]_vars => IInv'
  <2> SUFFICES ASSUME IInv, [Next]_vars PROVE Closing' /\ Granted' /\ Registering' /\ Worked'
    BY NextKeepsType DEF IInv
  <2> USE DEF IInv
  <2>1. CASE \E r \in Registrars : Register(r)
    BY <2>1, RegisterKeepsIInv
  <2>2. CASE CloseWork
    BY <2>2, CloseWorkKeepsIInv
  <2>3. ASSUME NEW r \in Registrars, NEW t \in Terminals, Submit(r, t)
        PROVE  Closing' /\ Granted' /\ Registering' /\ Worked'
    BY <2>3 DEF Submit, Closing, Granted, Registering, Worked, Working, closeVars
  <2>4. ASSUME NEW c \in Closers, NEW nil \in BOOLEAN, CloseBegin(c, nil)
        PROVE  Closing' /\ Granted' /\ Registering' /\ Worked'
    <3>1. Registering'
      BY <2>4 DEF CloseBegin, Registering
    <3>2. CASE phase # "open"
      <4>1. /\ UNCHANGED <<phase, closer, cpc, outcome, dead, ready, terminal>>
            /\ result' = [result EXCEPT ![c] = "errUnitClosed"]
            /\ result[c] = "none" /\ closer # c
        BY <2>4, <3>2 DEF CloseBegin
      <4>2. Closing'
        BY <4>1 DEF Closing, TypeOK, CloseType
      <4>3. Granted'
        BY <4>1 DEF Granted, TypeOK, CloseType
      <4> QED
        BY <3>1, <4>1, <4>2, <4>3 DEF Worked
    <3>3. CASE phase = "open"
      <4>1. /\ phase' = "closing" /\ closer' = c /\ cpc' \in {"finish", "admit"}
            /\ outcome' \in {"nilContext", "none"}
            /\ UNCHANGED <<result, dead, ready, terminal>> /\ result[c] = "none"
        BY <2>4, <3>3 DEF CloseBegin
      <4>2. Closing'
        BY <4>1, UnitAssumption DEF Closing
      <4>3. Granted'
        BY <3>3, <4>1 DEF Granted
      <4>4. Worked'
        BY <4>1 DEF Worked, Working
      <4> QED
        BY <3>1, <4>2, <4>3, <4>4
    <3> QED
      BY <3>2, <3>3
  <2>5. CASE Abort
    BY <2>5 DEF Abort, Closing, Granted, Registering, Worked, closeVars, Ended
  <2>6. CASE World
    <3>1. /\ UNCHANGED <<unitVars, closeVars, rpc>>
          /\ \A c \in Closers : result[c] = "evidence" /\ c \notin dead => c \notin dead'
      BY <2>6 DEF World, MoveTree, MoveInputs, CancelCaller
    <3> QED
      BY <3>1 DEF Closing, Granted, Registering, Worked, unitVars, closeVars
  <2>7. CASE UNCHANGED vars
    BY <2>7 DEF vars, unitVars, closeVars, Closing, Granted, Registering, Worked
  <2> QED
    BY <2>1, <2>2, <2>3, <2>4, <2>5, <2>6, <2>7 DEF Next
<1> QED
    BY <1>1, <1>2, PTL DEF Spec

-----------------------------------------------------------------------------
\* Evidence escapes from Close exactly when the unit closed, to the one caller
\* whose context outlived the work, for any interleaving of calls, aborts and
\* cancellations (the deferred section of Close).
THEOREM EvidenceIsGuarded == Spec => []EvidenceOnlyIfClosed
<1>1. IInv => EvidenceOnlyIfClosed
    BY DEF IInv, Granted, EvidenceOnlyIfClosed
<1> QED
    BY <1>1, Inductive, PTL

\* The closing work uses the view only after the one registration returned its
\* contribution: the view is never in two goroutines' hands (Register, Close).
THEOREM ViewIsNeverShared == Spec => []ViewIsExclusive
<1>1. IInv => ViewIsExclusive
    BY DEF IInv, Registering, Worked, ViewIsExclusive, Preparing, TypeOK, UnitType
<1> QED
    BY <1>1, Inductive, PTL

\* A closed, failed or aborted unit stays as it ended, whatever call still runs
\* (Register's and Close's last critical sections, Abort).
THEOREM EndsOnce == Spec => EndIsFinal
<1>1. IInv /\ [Next]_vars => [(phase \in Ended) => (phase' = phase)]_vars
  <2> SUFFICES ASSUME IInv, [Next]_vars, phase \in Ended
               PROVE  phase' = phase
    OBVIOUS
  <2>1. CASE \E r \in Registrars : Register(r)
    BY <2>1 DEF Register, RegisterEnter, RegisterReserve, RegisterFrame, RegisterProve,
                RegisterCommit, unitVars, Ended
  <2>2. CASE CloseFinish
    BY <2>2 DEF CloseFinish, Returned, IInv, Closing, Ended
  <2>3. CASE CloseWork /\ ~CloseFinish
    BY <2>3 DEF CloseWork, CloseAdmit, CloseDigest, CloseBracket, CloseRecord, CloseAttach,
                CloseCheckBefore, CloseCheckAfter, CloseSeal, CloseObserve, CloseSeed,
                CloseFirstComparison, CloseReprove, CloseSecondComparison,
                CloseIdentityComparison, CloseFails, unitVars
  <2>4. CASE \E r \in Registrars, t \in Terminals : Submit(r, t)
    BY <2>4 DEF Submit
  <2>5. CASE \E c \in Closers, nil \in BOOLEAN : CloseBegin(c, nil)
    BY <2>5 DEF CloseBegin, Ended
  <2>6. CASE Abort
    BY <2>6 DEF Abort, IInv, Closing, Ended
  <2>7. CASE World
    BY <2>7 DEF World, MoveTree, MoveInputs, CancelCaller, unitVars
  <2>8. CASE UNCHANGED vars
    BY <2>8 DEF vars, unitVars
  <2> QED
    BY <2>1, <2>2, <2>3, <2>4, <2>5, <2>6, <2>7, <2>8 DEF Next
<1> QED
    BY <1>1, Inductive, PTL DEF Spec, EndIsFinal
-----------------------------------------------------------------------------
\* The finalized observation is recorded once the work on it is over.
Unrecorded == cpc \in {"idle", "admit", "digest", "bracket", "record"} => ~recorded

LEMMA RecordedLast == Spec => []Unrecorded
<1>1. Init => Unrecorded
    BY DEF Init, Unrecorded
<1>2. IInv /\ Unrecorded /\ [Next]_vars => Unrecorded'
  <2> SUFFICES ASSUME IInv, Unrecorded, [Next]_vars PROVE Unrecorded'
    OBVIOUS
  <2> USE DEF Unrecorded
  <2>1. CASE \E r \in Registrars : Register(r)
    <3>1. UNCHANGED <<recorded, cpc>>
      BY <2>1 DEF Register, RegisterEnter, RegisterReserve, RegisterFrame, RegisterProve,
                  RegisterCommit, unitVars, closeVars
    <3> QED
      BY <3>1
  <2>2. CASE CloseWork
    <3>1. CASE CloseAdmit \/ CloseDigest \/ CloseBracket
      BY <2>2, <3>1 DEF CloseAdmit, CloseDigest, CloseBracket, unitVars, Return, Continue
    <3>2. CASE ~(CloseAdmit \/ CloseDigest \/ CloseBracket)
      <4>1. cpc' \in (Working \cup {"seal", "finish", "done"}) \ {"digest", "bracket", "record"}
        BY <2>2, <3>2
        DEF CloseWork, CloseRecord, CloseAttach, CloseCheckBefore, CloseCheckAfter,
            CloseSeal, CloseObserve, CloseSeed, CloseFirstComparison, CloseReprove,
            CloseSecondComparison, CloseIdentityComparison, CloseFails, CloseFinish,
            Return, Continue, ComparePass, Working
      <4> QED
        BY <4>1 DEF Working
    <3> QED
      BY <3>1, <3>2
  <2>3. CASE \E r \in Registrars, t \in Terminals : Submit(r, t)
    BY <2>3 DEF Submit, closeVars
  <2>4. CASE \E c \in Closers, nil \in BOOLEAN : CloseBegin(c, nil)
    BY <2>4 DEF CloseBegin, IInv, Closing
  <2>5. CASE Abort
    BY <2>5 DEF Abort, closeVars
  <2>6. CASE World
    BY <2>6 DEF World, MoveTree, MoveInputs, CancelCaller, unitVars, closeVars
  <2>7. CASE UNCHANGED vars
    BY <2>7 DEF vars, unitVars, closeVars
  <2> QED
    BY <2>1, <2>2, <2>3, <2>4, <2>5, <2>6, <2>7 DEF Next
<1> QED
    BY <1>1, <1>2, Inductive, PTL DEF Spec

\* What Account reports is never withdrawn or replaced: the preparation, the
\* one reservation, the submitted terminal and the finalized observation stay
\* whatever call is refused or fails afterwards (Register, Submit, Close).
THEOREM AccountOnlyGrows == Spec => AccountGrows
<1> DEFINE Grows == /\ ready => ready'
                    /\ execution # NoOne => execution' = execution
                    /\ terminal # "none" => terminal' = terminal
                    /\ recorded => recorded' /\ observation' = observation
<1>1. IInv /\ Unrecorded /\ [Next]_vars => [Grows]_vars
  <2> SUFFICES ASSUME IInv, Unrecorded, [Next]_vars PROVE Grows
    OBVIOUS
  <2>1. CASE \E r \in Registrars : Register(r)
    <3>1. UNCHANGED <<terminal, recorded, observation>>
      BY <2>1 DEF Register, RegisterEnter, RegisterReserve, RegisterFrame, RegisterProve,
                  RegisterCommit, unitVars, closeVars
    <3>2. (UNCHANGED ready \/ ready' = TRUE) /\ (execution # NoOne => UNCHANGED execution)
      BY <2>1 DEF Register, RegisterEnter, RegisterReserve, RegisterFrame, RegisterProve,
                  RegisterCommit, unitVars
    <3> QED
      BY <3>1, <3>2
  <2>2. CASE CloseWork
    <3>1. UNCHANGED <<ready, execution, terminal>>
      BY <2>2
      DEF CloseWork, CloseAdmit, CloseDigest, CloseBracket, CloseRecord, CloseAttach,
          CloseCheckBefore, CloseCheckAfter, CloseSeal, CloseObserve, CloseSeed,
          CloseFirstComparison, CloseReprove, CloseSecondComparison,
          CloseIdentityComparison, CloseFails, CloseFinish, unitVars
    <3>2. CASE CloseDigest \/ CloseBracket \/ CloseRecord
      BY <3>1, <3>2 DEF CloseDigest, CloseBracket, CloseRecord, Unrecorded
    <3>3. CASE ~(CloseDigest \/ CloseBracket \/ CloseRecord)
      <4>1. UNCHANGED <<recorded, observation>>
        BY <2>2, <3>3
        DEF CloseWork, CloseAdmit, CloseAttach, CloseCheckBefore, CloseCheckAfter,
            CloseSeal, CloseObserve, CloseSeed, CloseFirstComparison, CloseReprove,
            CloseSecondComparison, CloseIdentityComparison, CloseFails, CloseFinish, unitVars
      <4> QED
        BY <3>1, <4>1
    <3> QED
      BY <3>2, <3>3
  <2>3. CASE \E r \in Registrars, t \in Terminals : Submit(r, t)
    BY <2>3 DEF Submit, closeVars
  <2>4. CASE \E c \in Closers, nil \in BOOLEAN : CloseBegin(c, nil)
    BY <2>4 DEF CloseBegin
  <2>5. CASE Abort
    BY <2>5 DEF Abort, closeVars
  <2>6. CASE World
    BY <2>6 DEF World, MoveTree, MoveInputs, CancelCaller, unitVars, closeVars
  <2>7. CASE UNCHANGED vars
    BY <2>7 DEF vars, unitVars, closeVars
  <2> QED
    BY <2>1, <2>2, <2>3, <2>4, <2>5, <2>6, <2>7 DEF Next
<1> QED
    BY <1>1, Inductive, RecordedLast, PTL DEF Spec, AccountGrows

-----------------------------------------------------------------------------
\* The unit implements its contract: one contributor, prepared before it is
\* terminated and terminated once, one closing, and evidence granted only by
\* that closing for a contributor that ran.  The end of every closing, the
\* contract's liveness, is left to the model checker.
THEOREM KeepsItsContract == Spec => UC!ContractInit /\ [][UC!ContractNext]_(UC!contract)
<1> USE DEF UC!contract, Status, Contributor
<1>1. Init => UC!ContractInit
    BY DEF Init, UC!ContractInit
<1>2. IInv /\ [Next]_vars => [UC!ContractNext]_(UC!contract)
  <2> SUFFICES ASSUME IInv, [Next]_vars PROVE [UC!ContractNext]_(UC!contract)
    OBVIOUS
  <2> USE DEF IInv, UC!ContractNext
  <2>1. ASSUME NEW r \in Registrars, Register(r)
        PROVE  [UC!ContractNext]_(UC!contract)
    <3>1. CASE RegisterEnter(r) \/ RegisterFrame(r) \/ RegisterProve(r)
      BY <3>1 DEF RegisterEnter, RegisterFrame, RegisterProve, unitVars
    <3>2. CASE RegisterReserve(r)
      BY <3>2, UnitAssumption DEF RegisterReserve, Registering, UC!Reserve
    <3>3. CASE RegisterCommit(r)
      <4>1. /\ execution = r /\ ~ready /\ terminal = "none" /\ r # NoOne
            /\ UNCHANGED <<execution, terminal>>
        BY <3>3, UnitAssumption DEF RegisterCommit, Registering, Preparing
      <4>2. \/ UNCHANGED <<phase, ready>>
            \/ phase = "open" /\ phase' = "failed" /\ UNCHANGED ready
            \/ phase = "open" /\ UNCHANGED phase /\ ready'
        BY <3>3 DEF RegisterCommit
      <4> QED
        BY <4>1, <4>2 DEF UC!Prepare, UC!EndWithoutEvidence
    <3> QED
      BY <2>1, <3>1, <3>2, <3>3 DEF Register
  <2>2. CASE CloseFinish
    <3>1. phase \in {"closing", "aborted"} /\ UNCHANGED <<execution, ready, terminal>>
      BY <2>2 DEF CloseFinish, Closing
    <3>2. CASE Returned = "evidence"
      <4>1. phase = "closing" /\ phase' = "closed" /\ outcome = "evidence"
        BY <2>2, <3>1, <3>2 DEF CloseFinish, Returned
      <4>2. ready /\ terminal \in {"normal", "abnormal"} /\ execution # NoOne
        BY <4>1, UnitAssumption DEF Worked, Registering
      <4> QED
        BY <3>1, <4>1, <4>2 DEF UC!Grant
    <3>3. CASE Returned # "evidence"
      BY <2>2, <3>1, <3>3 DEF CloseFinish, UC!EndWithoutEvidence
    <3> QED
      BY <3>2, <3>3
  <2>3. CASE CloseWork /\ ~CloseFinish
    <3>1. UNCHANGED <<phase, execution, ready, terminal>>
      BY <2>3
      DEF CloseWork, CloseAdmit, CloseDigest, CloseBracket, CloseRecord, CloseAttach,
          CloseCheckBefore, CloseCheckAfter, CloseSeal, CloseObserve, CloseSeed,
          CloseFirstComparison, CloseReprove, CloseSecondComparison,
          CloseIdentityComparison, CloseFails, unitVars
    <3> QED
      BY <3>1
  <2>4. ASSUME NEW r \in Registrars, NEW t \in Terminals, Submit(r, t)
        PROVE  [UC!ContractNext]_(UC!contract)
    BY <2>4, UnitAssumption DEF Submit, UC!Terminate, Terminals
  <2>5. CASE \E c \in Closers, nil \in BOOLEAN : CloseBegin(c, nil)
    BY <2>5 DEF CloseBegin, UC!Freeze
  <2>6. CASE Abort
    BY <2>6 DEF Abort, UC!EndWithoutEvidence
  <2>7. CASE World
    BY <2>7 DEF World, MoveTree, MoveInputs, CancelCaller, unitVars
  <2>8. CASE UNCHANGED vars
    BY <2>8 DEF vars, unitVars
  <2> QED
    BY <2>1, <2>2, <2>3, <2>4, <2>5, <2>6, <2>7, <2>8 DEF Next
<1> QED
    BY <1>1, <1>2, Inductive, PTL DEF Spec

-----------------------------------------------------------------------------
(* What the finalized evidence rests on.                                   *)

\* What a finalized observation says was so when it was made: a complete one is
\* of a normally ended process under a captured bracket, and its digest lies
\* between the bracket and now.
Vouched ==
    /\ frame # NoFiles => frame <= inputs
    /\ ~observation.incomplete => ready /\ terminal = "normal" /\ frame # NoFiles
    /\ observation.incomplete => observation.unverifiable /\ observation.digest = NoFiles
    /\ observation.digest # NoFiles => frame <= observation.digest /\ observation.digest <= inputs
    /\ cpc \in {"idle", "admit", "digest"} => observation.incomplete

\* What evidence must be coherent with.
Coherent ==
    /\ "tree" \in stood
    /\ attached => ~observation.moved
    /\ attached /\ observation.digest # NoFiles /\ ~observation.unverifiable
          => "inputs" \in stood

\* Once its bracket is compared, a digest that vouches for files is the
\* bracket's version; when a pass over the tree is done, inputs that are still
\* the bracket's were so during the pass, for they only move on.
Compared == (Working \cup {"seal"}) \ {"digest", "bracket"}
Bracketed ==
    /\ cpc \in Compared /\ observation.digest # NoFiles /\ ~observation.unverifiable
          => observation.digest = frame
    /\ cpc \in {"second", "identity"} =>
          "tree" \in stood /\ (inputs = frame => "inputs" \in stood)
    /\ outcome = "evidence" => cpc = "finish"
    /\ outcome = "evidence" \/ phase = "closed" => Coherent

\* A subject without support of its own is judged valid only on what stays.
Unjudged == {"idle", "admit", "digest", "bracket", "record", "attach", "check", "recheck"}
Supported ==
    /\ observed # {} => captured
    /\ cpc \in Unjudged => \A s \in Subjects : verdict[s] = "none"
    /\ \A s \in Open : verdict[s] = "valid" =>
          /\ ready /\ captured /\ attached /\ ~observation.incomplete /\ ~observation.moved
          /\ proof = "effectFree" \/ (proof = "supported" /\ observation.support)

VInv == Vouched /\ Bracketed /\ Supported

LEMMA VouchedStays ==
    ASSUME Vouched, UNCHANGED <<frame, inputs, observation, ready, terminal>>,
           cpc' \in {"idle", "admit", "digest"} => cpc \in {"idle", "admit", "digest"}
    PROVE  Vouched'
BY DEF Vouched

\* Coherence survives what leaves its terms alone.
LEMMA CoherentStays ==
    ASSUME Coherent, UNCHANGED <<observation, attached, stood>>
    PROVE  Coherent'
BY DEF Coherent

LEMMA SupportedStays ==
    ASSUME Supported, UNCHANGED <<observed, captured, verdict, ready, attached, observation, proof>>,
           cpc' \in Unjudged => cpc \in Unjudged
    PROVE  Supported'
BY DEF Supported

\* A registration at work has prepared nothing yet, so nothing rests on what it
\* changes.
LEMMA RegisterKeepsEvidence ==
    ASSUME IInv, VInv, NEW r \in Registrars, Register(r)
    PROVE  VInv'
<1> USE DEF IInv, VInv
<1>1. /\ UNCHANGED <<closeVars, terminal, inputs, stood, attached>>
      /\ \/ UNCHANGED phase
         \/ phase = "open" /\ phase' = "failed"
      /\ UNCHANGED ready \/ ready' = TRUE
  BY DEF Register, RegisterEnter, RegisterReserve, RegisterFrame, RegisterProve, RegisterCommit,
         unitVars, viewVars, worldVars
<1>2. rpc[r] \in Preparing => ~ready /\ observation.incomplete
  BY DEF Registering, Vouched
<1>3. UNCHANGED frame \/ (rpc[r] \in Preparing /\ frame' \in {inputs, NoFiles})
  BY DEF Register, RegisterEnter, RegisterReserve, RegisterFrame, RegisterProve, RegisterCommit,
         unitVars, Preparing
<1>4. UNCHANGED <<proof, captured, cut>> \/ (rpc[r] \in Preparing /\ captured')
  BY DEF Register, RegisterEnter, RegisterReserve, RegisterFrame, RegisterProve, RegisterCommit,
         viewVars, Preparing
<1>5. UNCHANGED observed \/ (rpc[r] \in Preparing /\ UNCHANGED captured /\ (observed' # {} => captured))
  BY DEF Register, RegisterEnter, RegisterReserve, RegisterFrame, RegisterProve, RegisterCommit,
         unitVars, viewVars, Preparing
<1>t. inputs \in Nat /\ ready \in BOOLEAN
  BY DEF TypeOK, UnitType, OutsideType, Versions
<1>6. Vouched'
  BY <1>1, <1>2, <1>3, <1>t DEF Vouched, closeVars
<1>7. Bracketed'
  <2>1. cpc \in Compared \cup {"second", "identity"} => ready
    BY DEF Worked, Compared, Working
  <2>2. cpc \in Compared \cup {"second", "identity"} => UNCHANGED frame
    BY <1>2, <1>3, <2>1
  <2>3. outcome = "evidence" \/ phase = "closed" => Coherent'
    BY <1>1, CoherentStays DEF Bracketed, closeVars
  <2> QED
    BY <1>1, <2>2, <2>3 DEF Bracketed, closeVars
<1>8. Supported'
  <2>1. observed' # {} => captured'
    BY <1>4, <1>5 DEF Supported
  <2>2. ASSUME NEW s \in Open, verdict[s] = "valid"
        PROVE  /\ ready' /\ captured' /\ attached /\ ~observation.incomplete /\ ~observation.moved
               /\ proof' = "effectFree" \/ (proof' = "supported" /\ observation.support)
    <3>1. ready /\ rpc[r] \notin Preparing
      BY <1>2, <2>2 DEF Supported
    <3> QED
      BY <1>1, <1>4, <2>2, <3>1 DEF Supported
  <2> QED
    BY <1>1, <2>1, <2>2 DEF Supported, closeVars
<1> QED
  BY <1>6, <1>7, <1>8

\* The steps that make the observation.
LEMMA ObservingKeepsEvidence ==
    ASSUME IInv, VInv, CloseDigest \/ CloseBracket
    PROVE  VInv'
<1> USE DEF IInv, VInv
<1>1. /\ UNCHANGED <<unitVars, viewVars, verdict, inputs, stood>>
      /\ cpc \in {"digest", "bracket"} /\ cpc' \in {"bracket", "record"} /\ outcome' = outcome
      /\ cpc = "bracket" => cpc' = "record"
  BY DEF CloseDigest, CloseBracket, Continue, worldVars
<1>2. ready /\ phase # "closed" /\ outcome # "evidence"
  BY <1>1 DEF Worked, Working, Closing, Bracketed
<1>t. inputs \in Nat /\ frame \in Nat \cup {NoFiles} /\ observation \in Observations
      /\ observation'.digest \in Nat \cup {NoFiles} /\ NoFiles \notin Nat
  <2>1. CloseType'
    BY CloseWorkKeepsType DEF TypeOK, CloseWork
  <2> QED
    BY <2>1, UnitAssumption DEF TypeOK, UnitType, OutsideType, CloseType, Versions, Observations
<1>3. CASE observation' = IncompleteObservation
  <2>1. Vouched'
    BY <1>1, <1>3 DEF Vouched, IncompleteObservation, Nothing, unitVars
  <2>2. Bracketed'
    BY <1>1, <1>2, <1>3 DEF Bracketed, IncompleteObservation, Nothing, unitVars
  <2> QED
    BY <1>1, <1>3, <2>1, <2>2 DEF Supported, Unjudged, Open, unitVars, viewVars
<1>4. CASE CloseDigest /\ observation' # IncompleteObservation
  <2>1. /\ terminal = "normal" /\ frame # NoFiles /\ cpc' = "bracket"
        /\ ~observation'.incomplete /\ observation'.digest \in {inputs, NoFiles}
    BY <1>4 DEF CloseDigest, Continue
  <2>2. Vouched'
    BY <1>1, <1>2, <1>t, <2>1 DEF Vouched, unitVars
  <2>3. Bracketed'
    BY <1>1, <1>2, <2>1 DEF Bracketed, Compared, unitVars
  <2> QED
    BY <1>1, <2>2, <2>3 DEF Supported, Unjudged, Open, unitVars, viewVars
<1>5. CASE CloseBracket
  <2>1. /\ observation'.digest = observation.digest
        /\ observation'.incomplete = observation.incomplete
        /\ observation.unverifiable => observation'.unverifiable
        /\ inputs = frame \/ observation'.unverifiable
        /\ cpc' = "record"
    BY <1>5, <1>t DEF CloseBracket, Continue, Observations
  <2>2. Vouched'
    BY <1>1, <2>1 DEF Vouched, unitVars
  <2>3. Bracketed'
    <3>1. observation.digest # NoFiles /\ ~observation'.unverifiable => observation.digest = frame
      BY <1>t, <2>1 DEF Vouched
    <3> QED
      BY <1>1, <1>2, <2>1, <3>1 DEF Bracketed, unitVars
  <2> QED
    BY <1>1, <2>2, <2>3 DEF Supported, Unjudged, Open, unitVars, viewVars
<1> QED
  BY <1>3, <1>4, <1>5

\* The steps before the comparisons: the record, the attachment, the verdicts.
LEMMA CheckingKeepsEvidence ==
    ASSUME IInv, VInv, CloseAdmit \/ CloseRecord \/ CloseAttach \/ CloseCheckBefore \/ CloseCheckAfter
                       \/ CloseSeal
    PROVE  VInv'
<1> USE DEF IInv, VInv
<1>1. /\ UNCHANGED <<frame, inputs, observation, ready, terminal, observed, captured, proof, stood,
                     phase>>
      /\ cpc \in {"admit", "record", "attach", "check", "recheck", "seal"}
      /\ cpc' \in {"digest", "attach", "check", "recheck", "seal", "seed", "observe", "finish"}
      /\ cpc \in {"record", "attach", "check", "recheck"} =>
            cpc' \in {"attach", "check", "recheck", "seal"}
      /\ cpc = "seal" => cpc' \in {"seed", "observe", "finish"}
      /\ cpc = "admit" => cpc' \in {"digest", "attach", "finish"}
      /\ outcome' # "evidence"
      /\ UNCHANGED verdict \/ CloseCheckAfter
      /\ UNCHANGED attached \/ cpc = "attach"
  BY DEF CloseAdmit, CloseRecord, CloseAttach, CloseCheckBefore, CloseCheckAfter, CloseSeal, Return,
         Continue, unitVars, viewVars, worldVars, Bracketed
<1>2. phase # "closed" /\ outcome # "evidence"
  BY <1>1 DEF Closing, Bracketed
<1>3. Vouched'
  BY <1>1, VouchedStays
<1>4. Bracketed'
  BY <1>1, <1>2 DEF Bracketed, Vouched, Compared, Working
<1>5. CASE ~CloseCheckAfter
  <2>1. cpc \in Unjudged => UNCHANGED verdict
    BY <1>1, <1>5
  <2>2. CASE UNCHANGED attached
    <3>1. cpc' \in Unjudged => cpc \in Unjudged
      BY <1>1 DEF Unjudged
    <3> QED
      BY <1>1, <1>3, <1>4, <1>5, <2>2, <3>1, SupportedStays
  <2>3. CASE cpc = "attach"
    BY <1>1, <1>3, <1>4, <1>5, <2>3 DEF Supported, Unjudged, Open
  <2> QED
    BY <1>1, <2>2, <2>3
<1>6. CASE CloseCheckAfter
  <2>1. verdict' = [s \in Subjects |-> JudgeSubject(s)] /\ cpc' = "seal" /\ UNCHANGED attached
    BY <1>6 DEF CloseCheckAfter, Continue, viewVars
  <2>2. ready
    BY <1>6 DEF CloseCheckAfter, Worked, Working
  <2>3. ASSUME NEW s \in Open, JudgeSubject(s) = "valid"
        PROVE  /\ captured /\ attached /\ ~observation.incomplete /\ ~observation.moved
               /\ proof = "effectFree" \/ (proof = "supported" /\ observation.support)
    <3>1. s \in observed /\ attached /\ Admitted /\ ~observation.moved /\ ~observation.unverifiable
      BY <2>3 DEF JudgeSubject, Open
    <3> QED
      BY <3>1 DEF Supported, Vouched, Admitted
  <2>4. Supported'
    BY <1>1, <2>1, <2>2, <2>3 DEF Supported, Unjudged, Open
  <2> QED
    BY <1>3, <1>4, <2>4
<1> QED
  BY <1>5, <1>6

\* The comparisons and the end of the closing.
LEMMA ComparingKeepsEvidence ==
    ASSUME IInv, VInv, CloseObserve \/ CloseSeed \/ CloseFirstComparison \/ CloseReprove
                       \/ CloseSecondComparison \/ CloseIdentityComparison \/ CloseFails
    PROVE  VInv'
<1> USE DEF IInv, VInv
<1>1. /\ UNCHANGED <<frame, inputs, observation, ready, terminal, observed, captured, proof,
                     attached, verdict, phase, tree>>
      /\ cpc \in Working
      /\ cpc' \in {"identity", "first", "reprove", "second", "finish"}
      /\ cpc' # "finish" => cpc \in {"observe", "seed", "first", "reprove"}
      /\ outcome' = "evidence" => cpc' = "finish" /\ cpc \in {"second", "identity"}
  BY DEF CloseObserve, CloseSeed, CloseFirstComparison, CloseReprove, CloseSecondComparison,
         CloseIdentityComparison, CloseFails, ComparePass, Return, Continue, unitVars, viewVars,
         worldVars, Bracketed, Working
<1>2. phase # "closed" /\ outcome # "evidence"
  BY <1>1 DEF Closing, Bracketed, Working
<1>3. Vouched'
  BY <1>1, VouchedStays
<1>4. Supported'
  BY <1>1, SupportedStays DEF Unjudged
<1>5. cpc' \in {"second", "identity"} => "tree" \in stood' /\ (inputs = frame => "inputs" \in stood')
  BY DEF CloseObserve, CloseSeed, CloseFirstComparison, CloseReprove, CloseSecondComparison,
         CloseIdentityComparison, CloseFails, ComparePass, Return, Continue, Standing
<1>6. ASSUME outcome' = "evidence"
      PROVE  Coherent'
  <2>1. UNCHANGED stood /\ Agrees(inputs) /\ Judged = "evidence"
    BY <1>6, <1>2 DEF CloseObserve, CloseSeed, CloseFirstComparison, CloseReprove,
           CloseSecondComparison, CloseIdentityComparison, CloseFails, ComparePass, Return, Continue
  <2>2. "tree" \in stood /\ (inputs = frame => "inputs" \in stood)
    BY <1>1, <1>6 DEF Bracketed
  <2>3. attached => ~observation.moved
    BY <2>1 DEF Judged
  <2>4. attached /\ observation.digest # NoFiles /\ ~observation.unverifiable => inputs = frame
    <3>1. cpc \in Compared
      BY <1>1, <1>6 DEF Compared, Working
    <3> QED
      BY <2>1, <3>1 DEF Agrees, Bracketed
  <2> QED
    BY <1>1, <2>1, <2>2, <2>3, <2>4 DEF Coherent
<1>7. Bracketed'
  <2>1. cpc' \in Compared => cpc \in Compared
    BY <1>1 DEF Compared, Working
  <2> QED
    BY <1>1, <1>2, <1>5, <1>6, <2>1 DEF Bracketed
<1> QED
  BY <1>3, <1>4, <1>7
LEMMA FinishKeepsEvidence ==
    ASSUME IInv, VInv, CloseFinish
    PROVE  VInv'
<1> USE DEF IInv, VInv
<1>1. /\ UNCHANGED <<frame, inputs, observation, ready, terminal, observed, captured, proof,
                     attached, verdict, stood>>
      /\ cpc = "finish" /\ cpc' = "done" /\ outcome' = "none"
      /\ phase' = "closed" => outcome = "evidence"
  BY DEF CloseFinish, Returned, viewVars, worldVars
<1>2. Vouched'
  BY <1>1, VouchedStays
<1>3. Supported'
  BY <1>1, SupportedStays DEF Unjudged
<1>4. Bracketed'
  BY <1>1, CoherentStays DEF Bracketed, Compared, Working
<1> QED
  BY <1>2, <1>3, <1>4

LEMMA EvidenceInvariant == Spec => []VInv
<1>1. Init => VInv
  BY UnitAssumption DEF Init, VInv, Vouched, Bracketed, Supported, Nothing, Compared, Working, Unjudged, Open
<1>2. IInv /\ VInv /\ [Next]_vars => VInv'
  <2> SUFFICES ASSUME IInv, VInv, [Next]_vars PROVE VInv'
    OBVIOUS
  <2> USE DEF IInv, VInv
  <2>1. CASE \E r \in Registrars : Register(r)
    BY <2>1, RegisterKeepsEvidence
  <2>2. CASE CloseWork
    BY <2>2, ObservingKeepsEvidence, CheckingKeepsEvidence, ComparingKeepsEvidence,
       FinishKeepsEvidence DEF CloseWork
  <2>3. ASSUME NEW r \in Registrars, NEW t \in Terminals, Submit(r, t)
        PROVE  VInv'
    <3>1. /\ UNCHANGED <<frame, inputs, observation, ready, observed, captured, proof,
                         attached, verdict, stood, cpc, phase, outcome>>
          /\ terminal = "none"
      BY <2>3 DEF Submit, viewVars, closeVars, worldVars
    <3>2. Vouched'
      BY <3>1 DEF Vouched
    <3>3. Bracketed'
      BY <3>1, CoherentStays DEF Bracketed
    <3>4. Supported'
      BY <3>1, SupportedStays
    <3> QED
      BY <3>2, <3>3, <3>4
  <2>4. ASSUME NEW c \in Closers, NEW nil \in BOOLEAN, CloseBegin(c, nil)
        PROVE  VInv'
    <3>1. /\ UNCHANGED <<frame, inputs, observation, ready, terminal, observed, captured, proof,
                         attached, verdict, stood>>
          /\ \/ UNCHANGED <<cpc, phase, outcome>>
             \/ /\ phase' = "closing" /\ cpc = "idle" /\ cpc' \in {"finish", "admit"}
                /\ outcome' # "evidence"
      BY <2>4 DEF CloseBegin, viewVars, worldVars, Closing
    <3>2. Vouched'
      BY <3>1, VouchedStays
    <3>3. Bracketed'
      BY <3>1, CoherentStays DEF Bracketed, Compared, Working
    <3>4. Supported'
      BY <3>1, SupportedStays DEF Unjudged
    <3> QED
      BY <3>2, <3>3, <3>4
  <2>5. CASE Abort
    <3>1. /\ UNCHANGED <<frame, inputs, observation, ready, terminal, observed, captured, proof,
                         attached, verdict, stood, cpc, outcome>>
          /\ phase' = "aborted"
      BY <2>5 DEF Abort, viewVars, closeVars, worldVars
    <3>2. Vouched'
      BY <3>1, VouchedStays
    <3>3. Bracketed'
      BY <3>1, CoherentStays DEF Bracketed
    <3>4. Supported'
      BY <3>1, SupportedStays
    <3> QED
      BY <3>2, <3>3, <3>4
  <2>6. CASE World
    <3>1. /\ UNCHANGED <<frame, observation, ready, terminal, observed, captured, proof,
                         attached, verdict, stood, cpc, outcome, phase>>
          /\ inputs' = inputs \/ inputs' = inputs + 1
      BY <2>6 DEF World, MoveTree, MoveInputs, CancelCaller, unitVars, viewVars, closeVars, worldVars
    <3>2. inputs \in Nat /\ frame \in Nat \cup {NoFiles} /\ observation.digest \in Nat \cup {NoFiles}
      BY DEF TypeOK, UnitType, OutsideType, CloseType, Versions, Observations
    <3>3. Vouched'
      BY <3>1, <3>2 DEF Vouched
    <3>4. inputs' = frame => inputs = frame
      BY <3>1, <3>2, UnitAssumption DEF Vouched
    <3>5. Bracketed'
      BY <3>1, <3>4, CoherentStays DEF Bracketed
    <3>6. Supported'
      BY <3>1, SupportedStays
    <3> QED
      BY <3>3, <3>5, <3>6
  <2>7. CASE UNCHANGED vars
    <3>1. UNCHANGED <<frame, inputs, observation, ready, terminal, observed, captured, proof,
                      attached, verdict, stood, cpc, outcome, phase>>
      BY <2>7 DEF vars, unitVars, viewVars, closeVars, worldVars
    <3>2. Vouched'
      BY <3>1, VouchedStays
    <3>3. Bracketed'
      BY <3>1, CoherentStays DEF Bracketed
    <3>4. Supported'
      BY <3>1, SupportedStays
    <3> QED
      BY <3>2, <3>3, <3>4
  <2> QED
    BY <2>1, <2>2, <2>3, <2>4, <2>5, <2>6, <2>7 DEF Next
<1> QED
  BY <1>1, <1>2, Inductive, PTL DEF Spec

\* The finalized evidence was true at one instant after the process ended: the
\* tree at the last comparison, and the inputs it vouches for from before the
\* process until then (Close, Validate, Bracket.revalidate).
THEOREM EvidenceIsCoherent == Spec => []EvidenceWasCoherent
<1>1. VInv => EvidenceWasCoherent
  BY DEF VInv, Bracketed, Coherent, EvidenceWasCoherent
<1> QED
  BY <1>1, EvidenceInvariant, PTL

\* No false valid: a subject without support of its own is valid only on a
\* complete observation of a normally ended process, under a bracket that did
\* not move, with a proof that admits it (decideAfterClosureObserved).
THEOREM ValidIsSupported == Spec => []ObservedValidIsSupported
<1>1. VInv => ObservedValidIsSupported
  BY DEF VInv, Vouched, Supported, ObservedValidIsSupported
<1> QED
  BY <1>1, EvidenceInvariant, PTL
=============================================================================
