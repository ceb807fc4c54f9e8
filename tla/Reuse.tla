------------------------------- MODULE Reuse -------------------------------
(***************************************************************************)
(* Reusing one recorded fingerprint (judgment.go, fingerprint.go and       *)
(* prepareInertExtension of checking.go).                                  *)
(*                                                                         *)
(* A record holds what the producing view captured, one value per axis of  *)
(* evidence; its holder keeps it while the world drifts, asks for verdicts *)
(* and may have it extended over test-variant changes it licenses, again   *)
(* and again.  A verdict changes nothing: it is an operator over the       *)
(* record, the current values and the facts of the checking session.  The  *)
(* values of an axis stand for content: two equal values are equal hashes. *)
(*                                                                         *)
(* A definition introduced by "Mutant:" is a bug the code could have; it is *)
(* used by no action and shows that a property notices it.                 *)
(***************************************************************************)
EXTENDS Naturals, Sequences

CONSTANTS
    Values,    \* contents an axis can have
    First,     \* the one every axis is recorded with: contents are only compared
    Missing,   \* the empty string: never computed, or not recorded
    Inert,     \* pairs of compartments whose ledgers differ inertly for the subject
    Forms,     \* what the recording carries besides the axes
    MaxDrift   \* bound on the drifts of the world

\* Every axis is compared for code results but the measured ones.
Measured == {"machine", "runtimeconfig"}
Guards == {"toolchain", "build"}
Axes == {"core", "variants", "content", "policy", "dynamic", "closure", "inputs"}
        \cup Guards \cup Measured
\* Axes a checking session may fail to compute.
Fallible == {"core", "variants", "content", "policy"}

\* "absent" names an axis an older engine did not record, the manifest of a
\* corrupted recording that kept its digest, or nothing.
FormSet == [kind : {"code", "measurement"}, manifest : BOOLEAN, purity : BOOLEAN,
            proof : {"none", "static", "outcome"}, absent : Axes \cup {"nothing", "manifest"},
            licence : {"none", "unknown"}]

ASSUME ReuseAssumption ==
    /\ First \in Values /\ Missing \notin Values /\ Inert \subseteq Values \X Values
    /\ Forms \subseteq FormSet /\ MaxDrift \in Nat

VARIABLES
    now,     \* the current value of every axis
    record,  \* the recording its holder keeps
    route,   \* history: the compartments from the producing one to the effective one
    drifts   \* how often the world has drifted

ladderVars == <<now, record, route, drifts>>

Content == Values \cup {Missing}

\* fingerprintLocked: a code result carries no measured guard, and the digest
\* comes with the observation attached.
Produced(form, facts) ==
    [facts |-> [a \in Axes |->
                  IF \/ a = form.absent
                     \/ form.kind = "code" /\ a \in Measured
                     \/ a = "inputs" /\ ~form.manifest
                  THEN Missing ELSE facts[a]],
     kind |-> form.kind, manifest |-> form.manifest /\ form.absent # "manifest",
     purity |-> form.purity,
     proof |-> form.proof, licence |-> form.licence,
     endpoint |-> IF form.licence = "none" THEN Missing ELSE facts["variants"]]

LadderInit ==
    /\ now = [a \in Axes |-> First]
    /\ record \in {Produced(form, now) : form \in Forms}
    /\ route = <<record.facts["variants"]>>
    /\ drifts = 0

-----------------------------------------------------------------------------
\* What a checking session knows besides the axes: the author's external
\* directive, the closure's refusal, a purity override, how the recorded
\* inputs re-derive, whether observed checking was asked for and whether the
\* current analysis re-establishes the recorded proof.
Sessions == [external : BOOLEAN, refusal : {"none", "open", "shared"}, purity : BOOLEAN,
             inputs : {"derived", "unverifiable", "moved", "unreadable"},
             observed : BOOLEAN, reproved : BOOLEAN]

Recognized(rec) ==
    \/ rec.licence = "none"
    \/ rec.licence = "inert" /\ rec.endpoint # Missing /\ rec.facts["variants"] # Missing

\* EffectiveTestVariantClosure
Effective(rec) == IF rec.licence = "none" THEN rec.facts["variants"] ELSE rec.endpoint

CoreFails(rec) == rec.facts["core"] = Missing \/ rec.facts["core"] # now["core"]
VariantsFail(rec) == \/ ~Recognized(rec)
                     \/ Effective(rec) = Missing \/ Effective(rec) # now["variants"]
ContentFails(rec) == /\ rec.facts["content"] # Missing /\ now["content"] # Missing
                     /\ rec.facts["content"] # now["content"]
DynamicFails(rec) == rec.facts["dynamic"] # now["dynamic"]
DerivationFails(rec) == rec.licence # "none" /\ rec.facts["closure"] # now["closure"]

\* recordedEvidenceVerdict: the first tier that refuses, or "none".
EvidenceRefusal(rec) ==
    IF CoreFails(rec) THEN "closure"
    ELSE IF VariantsFail(rec) THEN "test variants"
    ELSE IF ContentFails(rec) THEN "toolchain content"
    ELSE IF DynamicFails(rec) THEN "dynamic-state strategy"
    ELSE IF DerivationFails(rec) THEN "closure strategy"
    ELSE "none"

\* runtimeInputVerdict
InputsFail(rec, s) ==
    IF rec.manifest
    THEN \/ s.inputs \in {"moved", "unreadable"}
         \/ rec.facts["inputs"] = Missing \/ rec.facts["inputs"] # now["inputs"]
    ELSE rec.facts["inputs"] # Missing

\* Mutant: the machine is compared for every result.
ComparedAlways(kind) == Guards \cup Measured

\* guard.CompareFacts under the record's kind, which is the view's
\* (validateCandidates).
Compared(kind) == IF kind = "measurement" THEN Guards \cup Measured ELSE Guards

\* Mutant: a guard that was not recorded matches any.
GuardsFailIfRecorded(rec) ==
    \E a \in Compared(rec.kind) : rec.facts[a] # Missing /\ rec.facts[a] # now[a]

GuardsFail(rec) ==
    \E a \in Compared(rec.kind) : rec.facts[a] = Missing \/ rec.facts[a] # now[a]

\* admittedObservation, and for an extended record the current proof that
\* checkRecords asks for.
Admitted(rec, s) ==
    /\ s.observed /\ rec.proof # "none"
    /\ rec.facts["content"] # Missing /\ rec.facts["policy"] # Missing
    /\ rec.facts["policy"] = now["policy"]
    /\ rec.licence # "none" => s.reproved

Unknown(rec) == rec.facts["content"] = Missing \/ now["content"] = Missing
Pure(rec, s) == rec.purity /\ s.purity

\* Mutant: an observation lifts a subject that shares dynamic state.
LiftedShared(rec, s) == Admitted(rec, s) /\ rec.manifest

Lifted(rec, s) == Admitted(rec, s) /\ rec.manifest /\ s.refusal # "shared"

Stale(why) == [status |-> "stale", reason |-> why]
Unverifiable(why) == [status |-> "unverifiable", reason |-> why]
Valid == [status |-> "valid", reason |-> "none"]

\* decideAfterClosureObserved behind recordedEvidenceVerdict (decide).
Verdict(rec, s) ==
    IF EvidenceRefusal(rec) # "none" THEN Stale(EvidenceRefusal(rec))
    ELSE IF InputsFail(rec, s) THEN Stale("runtimeinputs")
    ELSE IF GuardsFail(rec) THEN Stale("guard")
    ELSE IF Unknown(rec) THEN Unverifiable("toolchain content")
    ELSE IF s.external THEN Unverifiable("external directive")
    ELSE IF Pure(rec, s) THEN Valid
    ELSE IF rec.manifest /\ s.inputs = "unverifiable" THEN Unverifiable("runtime inputs")
    ELSE IF s.refusal # "none" /\ ~Lifted(rec, s) THEN Unverifiable("closure")
    ELSE Valid

-----------------------------------------------------------------------------
\* Mutant: an extension is compared with the producing compartment.
LicensedFromProducer(rec) ==
    /\ Recognized(rec) /\ Effective(rec) # Missing
    /\ rec.facts["closure"] = now["closure"]
    /\ <<rec.facts["variants"], now["variants"]>> \in Inert

\* prepareInertExtension: only the effective compartment is waived, and only
\* between ledgers that differ inertly.  Only hashes are recorded: the holder
\* vouches that the prior ledger it presents is the effective compartment's.
Licensed(rec) ==
    /\ Recognized(rec) /\ Effective(rec) # Missing
    /\ rec.facts["closure"] = now["closure"]
    /\ <<Effective(rec), now["variants"]>> \in Inert

Candidate(rec) == [rec EXCEPT !.licence = "inert", !.endpoint = now["variants"]]

\* The holder keeps the extended record exactly when it checks valid.
Extend(s) ==
    /\ Licensed(record)
    /\ Verdict(Candidate(record), s).status = "valid"
    /\ record' = Candidate(record)
    /\ route' = IF Effective(record) = now["variants"] THEN route
                ELSE Append(route, now["variants"])
    /\ UNCHANGED <<now, drifts>>

\* The sources, the toolchain, the machine or the inputs change, or a session
\* cannot compute what another could.
Drift(a) ==
    /\ drifts < MaxDrift /\ drifts' = drifts + 1
    /\ \E v \in (IF a \in Fallible THEN Content ELSE Values) \ {now[a]} :
          now' = [now EXCEPT ![a] = v]
    /\ UNCHANGED <<record, route>>

LadderNext == (\E s \in Sessions : Extend(s)) \/ (\E a \in Axes : Drift(a))

LadderSpec == LadderInit /\ [][LadderNext]_ladderVars
-----------------------------------------------------------------------------
RecordSet == [facts : [Axes -> Content], kind : {"code", "measurement"}, manifest : BOOLEAN,
              purity : BOOLEAN, proof : {"none", "static", "outcome"},
              licence : {"none", "inert", "unknown"}, endpoint : Content]

\* The type invariant; only a fallible axis may be unknown.
RecordTypeOK ==
    /\ now \in [Axes -> Content] /\ \A a \in Axes \ Fallible : now[a] \in Values
    /\ record \in RecordSet
    /\ route \in Seq(Content) /\ route # << >> /\ drifts \in 0..MaxDrift

\* What a verdict must compare for a record, whatever the session believes.
Required(rec) == {"core", "content", "dynamic"} \cup Guards
                 \cup (IF rec.kind = "measurement" THEN Measured ELSE {})
                 \cup (IF rec.manifest THEN {"inputs"} ELSE {})

\* No false valid, first half: whatever overrides a session brings (purity,
\* observation, an extension), a valid answer means that every axis the record
\* rests on was recorded, is known and has not moved (decide).
ValidIsUnmoved ==
    \A s \in Sessions : Verdict(record, s).status = "valid" =>
        \A a \in Required(record) : record.facts[a] # Missing /\ record.facts[a] = now[a]

\* No false valid, second half: the compartment a valid answer accepts was
\* reached from the producing one by inert changes only, each compared with the
\* compartment the record was last valid for (prepareInertExtension).
ValidIsLicensed ==
    \A s \in Sessions : Verdict(record, s).status = "valid" =>
        /\ route[1] = record.facts["variants"] /\ route[Len(route)] = now["variants"]
        /\ \A i \in 1..(Len(route) - 1) : <<route[i], route[i + 1]>> \in Inert

\* No false stale: a stale answer is demonstrated by an axis that moved or was
\* not recorded; what the record does not rest on, such as the machine of a code
\* result, the admission policy or any judgment of the session, never stales it
\* (CompareFacts, decideAfterClosureObserved).
StaleIsDemonstrated ==
    \A s \in Sessions : Verdict(record, s).status = "stale" =>
        \/ \E a \in Required(record) : record.facts[a] = Missing \/ record.facts[a] # now[a]
        \/ Effective(record) # now["variants"] \/ Effective(record) = Missing
        \/ record.licence # "none" /\ ~Recognized(record)
        \/ record.licence = "inert" /\ record.facts["closure"] # now["closure"]
        \/ IF record.manifest THEN s.inputs \in {"moved", "unreadable"}
                              ELSE record.facts["inputs"] # Missing

\* The author's word and shared process state are final: no purity override and
\* no observation lifts an external subject, and no observation one that shares
\* dynamic state (decideAfterClosureObserved).
DirectivesAreFinal ==
    \A s \in Sessions : Verdict(record, s).status = "valid" =>
        ~s.external /\ (s.refusal = "shared" => record.purity /\ s.purity)
=============================================================================
