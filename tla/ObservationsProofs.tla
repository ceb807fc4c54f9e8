-------------------------- MODULE ObservationsProofs --------------------------
(* Proofs about Observations.tla: an observation is a function of its         *)
(* manifest, so a merge is one of the manifests of its inputs (MergeAlgebra); *)
(* and what a run established travels with everything made of it              *)
(* (NothingIsLost, ChangeIsSeen).                                             *)
EXTENDS Observations, TLAPS

-----------------------------------------------------------------------------
(* The invariant. What a state says follows from the digests of its manifest. *)

IsManifest(m) ==
    /\ m = [subjects |-> m.subjects, moved |-> m.moved, reasons |-> m.reasons, inputs |-> m.inputs]
    /\ m.moved \in BOOLEAN
    /\ m.inputs = [id \in DOMAIN m.inputs |->
                      [metadata |-> m.inputs[id].metadata, digest |-> m.inputs[id].digest]]
    /\ \A id \in DOMAIN m.inputs : m.inputs[id].metadata \in BOOLEAN

RefusedIn(m) ==
    {i \in DOMAIN m.inputs : i[1] = "rel" /\ i[2] \in Links /\ m.inputs[i].digest # Missing}
StateOf(m) ==
    LET refused == {<<"external", id>> : id \in RefusedIn(m)} IN
    [manifest |-> m, moved |-> m.moved,
     unverifiable |-> m.reasons # {} \/ refused # {},
     reason |-> IF m.reasons # {} THEN First(m.reasons) ELSE First(refused)]

IsObservation(o) ==
    /\ o = [state |-> o.state, records |-> o.records]
    /\ IsManifest(o.state.manifest) /\ o.state = StateOf(o.state.manifest)
    /\ Encodes(o.state.manifest)
    /\ o.records = {} => o.state.manifest.subjects = {} /\ DOMAIN o.state.manifest.inputs = {}

(* What a state keeps of a run.                                               *)
Keeps(r, s) ==
    /\ r.moved => s.moved
    /\ s.manifest.subjects # {} => r.subjects # {} /\ r.subjects \subseteq s.manifest.subjects
    /\ \A id \in DOMAIN r.read : \E i \in DOMAIN s.manifest.inputs :
          i[2] = id[2] /\ (r.stat[id] => s.manifest.inputs[i].metadata)

(* A digest that tells what was read, to the extent the run could tell.        *)
Bound(digest, stat, was) ==
    /\ digest = Missing <=> was = Missing
    /\ was # Missing => Head(digest) = Head(was)
    /\ stat => digest = was
Binds(r, s) ==
    \A id \in DOMAIN r.read : id[2] \notin Dirs =>
        \E i \in DOMAIN s.manifest.inputs :
            /\ i[2] = id[2] /\ (r.stat[id] => s.manifest.inputs[i].metadata)
            /\ Bound(s.manifest.inputs[i].digest, r.stat[id], r.read[id])

IsEntry(e) ==
    /\ e = Entry(e.obs, e.runs, e.torn) /\ e.torn \in BOOLEAN
    /\ IsObservation(e.obs)
    /\ e.obs.records = {} => e.runs = {}
    /\ \A r \in e.runs :
        /\ Keeps(r, e.obs.state)
        /\ ~r.sure /\ ~e.torn => e.obs.state.unverifiable
        /\ ~e.torn /\ ~e.obs.state.unverifiable => Binds(r, e.obs.state)

Pool == \A e \in pool : IsEntry(e)
IsJob(j, entries) ==
    /\ j = [kind |-> j.kind, over |-> j.over, checked |-> j.checked, torn |-> j.torn]
    /\ j.kind \in {"none", "merge", "abs", "rel"} /\ j.torn \in BOOLEAN
    /\ j.over \in Seq(entries) /\ j.checked \in 0..Len(j.over)
    /\ j.kind \in {"abs", "rel"} => Len(j.over) = 1
    /\ j.kind = "none" => j = NoJob
Job == IsJob(job, pool)
(* What was looked at is still so, unless an input moved meanwhile.           *)
Looked ==
    ~job.torn => \A e \in pool : \A i \in 1..job.checked : job.over[i] = e => Unmoved(e.obs)
Inv == Pool /\ Job /\ Looked

(* A check sees every change but of a directory: its listing is not bound by   *)
(* the absolute form.                                                         *)
FileChangeIsSeen ==
    \A e \in pool : ~e.torn /\ Unmoved(e.obs) /\ ~e.obs.state.unverifiable =>
        \A r \in e.runs : \A id \in DOMAIN r.read :
            id[2] \notin Dirs => SameRead(id, r.stat[id], r.read[id])

-----------------------------------------------------------------------------
(* What an evaluation makes of a manifest.                                    *)

(* A link is refused when its digest, in the relative form, is not Missing.    *)
LEMMA RefusedDigest ==
    ASSUME NEW id, NEW b
    PROVE  Refused(id) <=> id[1] = "rel" /\ id[2] \in Links /\ Digest(id, b) # Missing
<1>1. CASE world[id[2]] = Missing
  BY <1>1, SMT DEF Refused, Digest
<1>2. CASE world[id[2]] # Missing /\ id[1] = "rel" /\ id[2] \in Links
  BY <1>2, SMT DEF Refused, Digest, Missing
<1>3. CASE ~(id[1] = "rel" /\ id[2] \in Links)
  BY <1>3, SMT DEF Refused
<1> QED BY <1>1, <1>2, <1>3

(* A manifest with new digests is the same manifest otherwise.                *)
LEMMA DigestedFields ==
    ASSUME NEW m, IsManifest(m)
    PROVE  /\ IsManifest(Digested(m))
           /\ Digested(m).subjects = m.subjects /\ Digested(m).moved = m.moved
           /\ Digested(m).reasons = m.reasons
           /\ DOMAIN Digested(m).inputs = DOMAIN m.inputs
           /\ \A id \in DOMAIN m.inputs :
                /\ Digested(m).inputs[id].metadata = m.inputs[id].metadata
                /\ Digested(m).inputs[id].digest = Digest(id, m.inputs[id].metadata)
<1> DEFINE new == [id \in DOMAIN m.inputs |->
                     [metadata |-> m.inputs[id].metadata,
                      digest |-> Digest(id, m.inputs[id].metadata)]]
<1>1. Digested(m) = [subjects |-> m.subjects, moved |-> m.moved, reasons |-> m.reasons, inputs |-> new]
  BY SMT DEF Digested, IsManifest
<1>2. /\ DOMAIN new = DOMAIN m.inputs
      /\ \A id \in DOMAIN m.inputs : /\ new[id].metadata = m.inputs[id].metadata
                                     /\ new[id].digest = Digest(id, m.inputs[id].metadata)
  OBVIOUS
<1>3. new = [id \in DOMAIN new |-> [metadata |-> new[id].metadata, digest |-> new[id].digest]]
  OBVIOUS
<1>4. m.moved \in BOOLEAN /\ \A id \in DOMAIN m.inputs : m.inputs[id].metadata \in BOOLEAN
  BY DEF IsManifest
<1> HIDE DEF new
<1>5. IsManifest(Digested(m))
  BY <1>1, <1>2, <1>3, <1>4 DEF IsManifest
<1> QED BY <1>1, <1>2, <1>5

(* An evaluation says what the new digests say, and nothing else.             *)
LEMMA EvaluatedIsStateOf ==
    ASSUME NEW m, IsManifest(m)
    PROVE  Evaluated(m) = StateOf(Digested(m))
<1>1. RefusedIn(Digested(m)) = {i \in DOMAIN m.inputs : Refused(i)}
  BY DigestedFields, RefusedDigest DEF RefusedIn
<1>2. Digested(m).moved = m.moved /\ Digested(m).reasons = m.reasons
  BY DigestedFields
<1> HIDE DEF RefusedIn
<1> QED BY <1>1, <1>2 DEF Evaluated, StateOf

LEMMA EvaluatedFields ==
    ASSUME NEW m, IsManifest(m)
    PROVE  /\ Evaluated(m).manifest = Digested(m) /\ Evaluated(m).moved = m.moved
           /\ Evaluated(m).unverifiable \in BOOLEAN
           /\ Evaluated(m).unverifiable <=> m.reasons # {} \/ \E id \in DOMAIN m.inputs : Refused(id)
<1> DEFINE refused == {i \in DOMAIN m.inputs : Refused(i)}
           whys == {<<"external", id>> : id \in refused}
           doubt == m.reasons # {} \/ whys # {}
<1>1. Evaluated(m) = [manifest |-> Digested(m), moved |-> m.moved, unverifiable |-> doubt,
                      reason |-> IF m.reasons # {} THEN First(m.reasons) ELSE First(whys)]
  BY DEF Evaluated
<1>2. whys # {} <=> \E id \in DOMAIN m.inputs : Refused(id)
  OBVIOUS
<1> HIDE DEF doubt
<1>3. /\ Evaluated(m).manifest = Digested(m) /\ Evaluated(m).moved = m.moved
      /\ Evaluated(m).unverifiable = doubt
  BY <1>1
<1> HIDE DEF whys
<1>5. doubt \in BOOLEAN
  BY DEF doubt
<1>6. doubt <=> m.reasons # {} \/ \E id \in DOMAIN m.inputs : Refused(id)
  BY <1>2 DEF doubt
<1>7. Evaluated(m).unverifiable \in BOOLEAN
  BY <1>3, <1>5, Zenon
<1>8. Evaluated(m).unverifiable <=> doubt
  BY <1>3, Zenon
<1> QED BY <1>3, <1>6, <1>7, <1>8, Zenon

(* Only the classes of the inputs count, not the digests they had.            *)
LEMMA EvaluatedSame ==
    ASSUME NEW m, NEW n, IsManifest(m), IsManifest(n),
           m.subjects = n.subjects, m.moved = n.moved, m.reasons = n.reasons,
           DOMAIN m.inputs = DOMAIN n.inputs,
           \A id \in DOMAIN m.inputs : m.inputs[id].metadata = n.inputs[id].metadata
    PROVE  Evaluated(m) = Evaluated(n)
<1> DEFINE new(k) == [id \in DOMAIN k.inputs |->
                        [metadata |-> k.inputs[id].metadata,
                         digest |-> Digest(id, k.inputs[id].metadata)]]
<1>1. new(m) = new(n)
  OBVIOUS
<1>2. Digested(m) = [subjects |-> m.subjects, moved |-> m.moved, reasons |-> m.reasons, inputs |-> new(m)]
  BY SMT DEF Digested, IsManifest
<1>3. Digested(n) = [subjects |-> n.subjects, moved |-> n.moved, reasons |-> n.reasons, inputs |-> new(n)]
  BY SMT DEF Digested, IsManifest
<1> HIDE DEF new
<1>4. Digested(m) = Digested(n)
  BY <1>1, <1>2, <1>3
<1> QED BY <1>4, EvaluatedIsStateOf

LEMMA UnmovedDigests ==
    ASSUME NEW o, IsObservation(o)
    PROVE  /\ IsManifest(o.state.manifest)
           /\ Unmoved(o) <=> Digested(o.state.manifest) = o.state.manifest
           /\ o.state.moved = o.state.manifest.moved
<1> DEFINE m == o.state.manifest
<1>1. IsManifest(m) /\ o.state = StateOf(m)
  BY DEF IsObservation
<1>2. Evaluated(m) = StateOf(Digested(m))
  BY <1>1, EvaluatedIsStateOf
<1>3. StateOf(m).manifest = m /\ StateOf(Digested(m)).manifest = Digested(m) /\ StateOf(m).moved = m.moved
  BY DEF StateOf
<1> HIDE DEF m
<1>4. Unmoved(o) <=> StateOf(Digested(m)) = StateOf(m)
  BY <1>1, <1>2 DEF Unmoved, m
<1>5. o.state.moved = m.moved
  BY <1>1, <1>3 DEF m
<1> QED BY <1>1, <1>3, <1>4, <1>5 DEF m

(* What is unmoved is told apart by what is refused now.                      *)
LEMMA UnmovedDoubt ==
    ASSUME NEW o, IsObservation(o), Unmoved(o)
    PROVE  /\ Evaluated(o.state.manifest) = o.state
           /\ o.state.unverifiable <=> \/ o.state.manifest.reasons # {}
                                       \/ \E id \in DOMAIN o.state.manifest.inputs : Refused(id)
<1>1. IsManifest(o.state.manifest)
  BY UnmovedDigests
<1>2. Evaluated(o.state.manifest) = o.state
  BY DEF Unmoved
<1> QED BY <1>1, <1>2, EvaluatedFields

-----------------------------------------------------------------------------
(* What a union holds of its inputs.                                          *)

Inputs(o) == DOMAIN o.state.manifest.inputs
Stats(o, id) == id \in Inputs(o) /\ o.state.manifest.inputs[id].metadata
(* An observation that a merge does not deny its outcome support.             *)
Carries(o) == o.records # {} => o.state.manifest.subjects # {}

LEMMA UnionFields ==
    ASSUME NEW s
    PROVE  /\ IsManifest(Union(s))
           /\ Union(s).subjects = IF \A i \in DOMAIN s : Carries(s[i])
                                  THEN UNION {s[i].state.manifest.subjects : i \in DOMAIN s} ELSE {}
           /\ Union(s).moved <=> \E i \in DOMAIN s : s[i].state.manifest.moved
           /\ Union(s).reasons = UNION {s[i].state.manifest.reasons : i \in DOMAIN s}
           /\ DOMAIN Union(s).inputs = UNION {Inputs(s[i]) : i \in DOMAIN s}
           /\ \A id \in DOMAIN Union(s).inputs :
                Union(s).inputs[id].metadata <=> \E i \in DOMAIN s : Stats(s[i], id)
<1> DEFINE subjects == IF \A i \in DOMAIN s : Carries(s[i])
                       THEN UNION {s[i].state.manifest.subjects : i \in DOMAIN s} ELSE {}
           moved == \E i \in DOMAIN s : s[i].state.manifest.moved
           reasons == UNION {s[i].state.manifest.reasons : i \in DOMAIN s}
           stats(id) == \E i \in DOMAIN s : Stats(s[i], id)
           domain == UNION {Inputs(s[i]) : i \in DOMAIN s}
           inputs == [id \in domain |-> [metadata |-> stats(id), digest |-> Missing]]
           ms == [i \in DOMAIN s |-> s[i].state.manifest]
<1>1. Upsert(ms) = inputs
  <2>1. UNION {DOMAIN ms[i].inputs : i \in DOMAIN ms} = domain
    BY DEF Inputs
  <2>2. \A id : (\E i \in With(ms, id) : ms[i].inputs[id].metadata) <=> stats(id)
    BY DEF With, Stats, Inputs
  <2>3. \A id : (\E i \in With(ms, id) : ms[i].inputs[id].metadata) = stats(id)
    BY <2>2, Zenon
  <2> DEFINE found(id) == \E i \in With(ms, id) : ms[i].inputs[id].metadata
  <2>4. Upsert(ms) = [id \in domain |-> [metadata |-> found(id), digest |-> Missing]]
    BY <2>1, Zenon DEF Upsert
  <2>5. \A id : found(id) = stats(id)
    BY <2>3, Zenon
  <2> HIDE DEF found, stats, domain
  <2> QED BY <2>4, <2>5, Zenon
<1>2. Union(s) = [subjects |-> subjects, moved |-> moved, reasons |-> reasons, inputs |-> inputs]
  <2>1. Supported(s) <=> \A i \in DOMAIN s : Carries(s[i])
    BY DEF Supported, Carries
  <2>2. (IF Supported(s) THEN UNION {ms[i].subjects : i \in DOMAIN s} ELSE {}) = subjects
    BY <2>1
  <2>3. (\E i \in DOMAIN s : ms[i].moved) <=> moved
    OBVIOUS
  <2>4. UNION {ms[i].reasons : i \in DOMAIN s} = reasons
    OBVIOUS
  <2> DEFINE anyMoved == \E i \in DOMAIN s : ms[i].moved
             allReasons == UNION {ms[i].reasons : i \in DOMAIN s}
             theirs == IF Supported(s) THEN UNION {ms[i].subjects : i \in DOMAIN s} ELSE {}
  <2>5. Union(s) = [subjects |-> theirs, moved |-> anyMoved, reasons |-> allReasons,
                    inputs |-> Upsert(ms)]
    BY Zenon DEF Union
  <2>6. anyMoved = moved /\ theirs = subjects /\ allReasons = reasons
    BY <2>2, <2>3, <2>4, Zenon
  <2> HIDE DEF anyMoved, allReasons, theirs, moved, subjects, reasons, inputs, ms
  <2> QED BY <1>1, <2>5, <2>6, Zenon
<1>3. moved \in BOOLEAN /\ \A id : stats(id) \in BOOLEAN
  OBVIOUS
<1>4. /\ DOMAIN inputs = domain
      /\ \A id \in domain : inputs[id].metadata = stats(id)
      /\ inputs = [id \in DOMAIN inputs |-> [metadata |-> inputs[id].metadata, digest |-> inputs[id].digest]]
  <2> HIDE DEF stats, domain
  <2> QED OBVIOUS
<1> HIDE DEF subjects, moved, reasons, inputs
<1>5. /\ Union(s).subjects = subjects /\ Union(s).moved = moved /\ Union(s).reasons = reasons
      /\ Union(s).inputs = inputs
  BY <1>2
<1>6. \A id \in domain : inputs[id].metadata \in BOOLEAN
  <2> HIDE DEF stats
  <2> QED BY <1>3, <1>4, Zenon
<1>7. IsManifest(Union(s))
  BY <1>2, <1>3, <1>4, <1>5, <1>6 DEF IsManifest
<1>8. Union(s).moved <=> \E i \in DOMAIN s : s[i].state.manifest.moved
  BY <1>5, Zenon DEF moved
<1>9. \A id \in DOMAIN Union(s).inputs :
        Union(s).inputs[id].metadata <=> \E i \in DOMAIN s : Stats(s[i], id)
  BY <1>4, <1>5, Zenon
<1> HIDE DEF domain
<1>10. DOMAIN Union(s).inputs = domain
  BY <1>4, <1>5
<1> QED BY <1>5, <1>7, <1>8, <1>9, <1>10 DEF subjects, reasons, domain

LEMMA PairFields ==
    ASSUME NEW a, NEW b
    PROVE  LET u == Union(<<a, b>>) IN
           /\ IsManifest(u)
           /\ u.subjects = IF Carries(a) /\ Carries(b)
                           THEN a.state.manifest.subjects \cup b.state.manifest.subjects ELSE {}
           /\ u.moved <=> a.state.manifest.moved \/ b.state.manifest.moved
           /\ u.reasons = a.state.manifest.reasons \cup b.state.manifest.reasons
           /\ DOMAIN u.inputs = Inputs(a) \cup Inputs(b)
           /\ \A id \in DOMAIN u.inputs : u.inputs[id].metadata <=> Stats(a, id) \/ Stats(b, id)
           /\ Records(<<a, b>>) = a.records \cup b.records
<1> DEFINE s == <<a, b>>
<1>1. DOMAIN s = {1, 2} /\ s[1] = a /\ s[2] = b
  OBVIOUS
<1> HIDE DEF s
<1>2. (\A i \in DOMAIN s : Carries(s[i])) <=> Carries(a) /\ Carries(b)
  BY <1>1
<1>3. /\ UNION {s[i].state.manifest.subjects : i \in DOMAIN s}
           = a.state.manifest.subjects \cup b.state.manifest.subjects
      /\ UNION {s[i].state.manifest.reasons : i \in DOMAIN s}
           = a.state.manifest.reasons \cup b.state.manifest.reasons
  BY <1>1
<1>4. (\E i \in DOMAIN s : s[i].state.manifest.moved) <=> a.state.manifest.moved \/ b.state.manifest.moved
  BY <1>1
<1>5. UNION {Inputs(s[i]) : i \in DOMAIN s} = Inputs(a) \cup Inputs(b)
  BY <1>1
<1>6. \A id : (\E i \in DOMAIN s : Stats(s[i], id)) <=> Stats(a, id) \/ Stats(b, id)
  BY <1>1
<1>7. Records(s) = a.records \cup b.records
  BY <1>1 DEF Records
<1>8. IsManifest(Union(s))
  BY UnionFields
<1>9. Union(s).subjects = IF Carries(a) /\ Carries(b)
                          THEN a.state.manifest.subjects \cup b.state.manifest.subjects ELSE {}
  BY <1>2, <1>3, UnionFields
<1>10. Union(s).moved <=> a.state.manifest.moved \/ b.state.manifest.moved
  BY <1>4, UnionFields, Zenon
<1>11. Union(s).reasons = a.state.manifest.reasons \cup b.state.manifest.reasons
  BY <1>3, UnionFields
<1>12. DOMAIN Union(s).inputs = Inputs(a) \cup Inputs(b)
  BY <1>5, UnionFields
<1>13. \A id \in DOMAIN Union(s).inputs : Union(s).inputs[id].metadata <=> Stats(a, id) \/ Stats(b, id)
  BY <1>6, UnionFields, Zenon
<1> QED BY <1>7, <1>8, <1>9, <1>10, <1>11, <1>12, <1>13, Zenon DEF s

(* Two merges that gather the same give the same value.                       *)
LEMMA MergedSame ==
    ASSUME NEW s, NEW t, Records(s) = Records(t),
           Union(s).subjects = Union(t).subjects, Union(s).moved <=> Union(t).moved,
           Union(s).reasons = Union(t).reasons, DOMAIN Union(s).inputs = DOMAIN Union(t).inputs,
           \A id \in DOMAIN Union(s).inputs :
              Union(s).inputs[id].metadata <=> Union(t).inputs[id].metadata
    PROVE  Merged(s) = Merged(t)
<1>1. IsManifest(Union(s)) /\ IsManifest(Union(t))
  BY UnionFields
<1>2. Union(s).moved = Union(t).moved
  BY <1>1, Zenon DEF IsManifest
<1>3. \A id \in DOMAIN Union(s).inputs : Union(s).inputs[id].metadata = Union(t).inputs[id].metadata
  BY <1>1, Zenon DEF IsManifest
<1>4. Evaluated(Union(s)) = Evaluated(Union(t))
  BY <1>1, <1>2, <1>3, EvaluatedSame
<1> QED BY <1>4, Zenon DEF Merged

(* What an observation made by a merge passes on is what its inputs had.       *)
LEMMA MergedFields ==
    ASSUME NEW a, NEW b
    PROVE  LET x == Merged(<<a, b>>) IN
           /\ x.records = a.records \cup b.records
           /\ x.state.manifest.subjects
                = IF Carries(a) /\ Carries(b)
                  THEN a.state.manifest.subjects \cup b.state.manifest.subjects ELSE {}
           /\ x.state.manifest.moved <=> a.state.manifest.moved \/ b.state.manifest.moved
           /\ x.state.manifest.reasons = a.state.manifest.reasons \cup b.state.manifest.reasons
           /\ Inputs(x) = Inputs(a) \cup Inputs(b)
           /\ \A id : Stats(x, id) <=> Stats(a, id) \/ Stats(b, id)
           /\ Carries(x) <=> Carries(a) /\ Carries(b)
<1> DEFINE u == Union(<<a, b>>)
           x == Merged(<<a, b>>)
<1>1. IsManifest(u)
  BY PairFields
<1>2. x.records = a.records \cup b.records
  BY PairFields DEF Merged
<1>3. x.state.manifest = Digested(u)
  BY <1>1, EvaluatedFields DEF Merged
<1> HIDE DEF x, u
<1>4. /\ x.state.manifest.subjects = u.subjects /\ x.state.manifest.moved = u.moved
      /\ x.state.manifest.reasons = u.reasons /\ Inputs(x) = DOMAIN u.inputs
  BY <1>1, <1>3, DigestedFields DEF Inputs
<1>5. \A id \in DOMAIN u.inputs : x.state.manifest.inputs[id].metadata = u.inputs[id].metadata
  BY <1>1, <1>3, DigestedFields
<1>6. /\ u.subjects = IF Carries(a) /\ Carries(b)
                      THEN a.state.manifest.subjects \cup b.state.manifest.subjects ELSE {}
      /\ u.reasons = a.state.manifest.reasons \cup b.state.manifest.reasons
      /\ DOMAIN u.inputs = Inputs(a) \cup Inputs(b)
  BY PairFields DEF u
<1>7. u.moved <=> a.state.manifest.moved \/ b.state.manifest.moved
  BY PairFields, Zenon DEF u
<1>8. \A id \in DOMAIN u.inputs : u.inputs[id].metadata <=> Stats(a, id) \/ Stats(b, id)
  BY PairFields, Zenon DEF u
<1>9. Inputs(x) = Inputs(a) \cup Inputs(b)
  BY <1>4, <1>6
<1>10. \A id : Stats(x, id) <=> Stats(a, id) \/ Stats(b, id)
  <2> TAKE id
  <2>1. CASE id \in Inputs(x)
    <3>1. Stats(x, id) <=> x.state.manifest.inputs[id].metadata
      BY <2>1 DEF Stats
    <3>2. x.state.manifest.inputs[id].metadata = u.inputs[id].metadata /\ id \in DOMAIN u.inputs
      BY <1>4, <1>5, <2>1, Zenon
    <3> QED BY <1>8, <3>1, <3>2, Zenon
  <2>2. CASE id \notin Inputs(x)
    BY <1>9, <2>2 DEF Stats
  <2> QED BY <2>1, <2>2
<1>11. x.state.manifest.subjects = IF Carries(a) /\ Carries(b)
                                   THEN a.state.manifest.subjects \cup b.state.manifest.subjects ELSE {}
  BY <1>4, <1>6
<1>12. Carries(x) <=> Carries(a) /\ Carries(b)
  BY <1>2, <1>11 DEF Carries
<1>13. x.state.manifest.moved <=> a.state.manifest.moved \/ b.state.manifest.moved
  BY <1>4, <1>7, Zenon
<1>14. x.state.manifest.reasons = a.state.manifest.reasons \cup b.state.manifest.reasons
  BY <1>4, <1>6
<1> QED BY <1>2, <1>9, <1>10, <1>11, <1>12, <1>13, <1>14, Zenon DEF x

-----------------------------------------------------------------------------
(* The algebra of merges.                                                     *)

LEMMA MergedAlone ==
    ASSUME NEW a, IsObservation(a), Unmoved(a)
    PROVE  Merged(<<a>>) = a /\ Merged(<<a, a>>) = a
<1> DEFINE m == a.state.manifest
<1>1. a = [state |-> a.state, records |-> a.records] /\ IsManifest(m) /\ Evaluated(m) = a.state
  BY UnmovedDoubt DEF IsObservation
<1>2. ~Carries(a) => m.subjects = {}
  BY DEF Carries
<1>3. \A id \in Inputs(a) : Stats(a, id) <=> m.inputs[id].metadata
  BY Zenon DEF Stats
<1>4. Inputs(a) = DOMAIN m.inputs
  BY DEF Inputs
<1>5. ASSUME NEW s, Records(s) = a.records, IsManifest(Union(s)),
             Union(s).subjects = m.subjects, Union(s).moved <=> m.moved,
             Union(s).reasons = m.reasons, DOMAIN Union(s).inputs = Inputs(a),
             \A id \in DOMAIN Union(s).inputs : Union(s).inputs[id].metadata <=> Stats(a, id)
      PROVE  Merged(s) = a
  <2>1. Union(s).moved = m.moved
    BY <1>1, <1>5, Zenon DEF IsManifest
  <2>2. \A id \in DOMAIN Union(s).inputs : Union(s).inputs[id].metadata = m.inputs[id].metadata
    BY <1>1, <1>3, <1>4, <1>5, Zenon DEF IsManifest
  <2> HIDE DEF m
  <2>3. Evaluated(Union(s)) = Evaluated(m)
    BY <1>1, <1>4, <1>5, <2>1, <2>2, EvaluatedSame
  <2> QED BY <1>1, <1>5, <2>3, Zenon DEF Merged
<1>6. Merged(<<a>>) = a
  <2> DEFINE s == <<a>>
  <2>1. DOMAIN s = {1} /\ s[1] = a
    OBVIOUS
  <2> HIDE DEF s, m
  <2>2. (\A i \in DOMAIN s : Carries(s[i])) <=> Carries(a)
    BY <2>1
  <2>3. /\ UNION {s[i].state.manifest.subjects : i \in DOMAIN s} = m.subjects
        /\ UNION {s[i].state.manifest.reasons : i \in DOMAIN s} = m.reasons
    BY <2>1 DEF m
  <2>4. (\E i \in DOMAIN s : s[i].state.manifest.moved) <=> m.moved
    BY <2>1 DEF m
  <2>5. UNION {Inputs(s[i]) : i \in DOMAIN s} = Inputs(a)
    BY <2>1
  <2>6. \A id : (\E i \in DOMAIN s : Stats(s[i], id)) <=> Stats(a, id)
    BY <2>1
  <2>7. Records(s) = a.records
    BY <2>1 DEF Records
  <2>8. IsManifest(Union(s)) /\ Union(s).subjects = m.subjects
    BY <1>2, <2>2, <2>3, UnionFields
  <2>9. Union(s).moved <=> m.moved
    BY <2>4, UnionFields, Zenon
  <2>10. Union(s).reasons = m.reasons /\ DOMAIN Union(s).inputs = Inputs(a)
    BY <2>3, <2>5, UnionFields
  <2>11. \A id \in DOMAIN Union(s).inputs : Union(s).inputs[id].metadata <=> Stats(a, id)
    BY <2>6, UnionFields, Zenon
  <2>12. Merged(s) = a
    BY <1>5, <2>7, <2>8, <2>9, <2>10, <2>11
  <2> QED BY <2>12 DEF s
<1>7. Merged(<<a, a>>) = a
  <2> DEFINE s == <<a, a>>
  <2> DEFINE u == Union(s)
  <2>6. /\ Records(s) = a.records \cup a.records /\ IsManifest(u)
        /\ u.subjects = IF Carries(a) /\ Carries(a) THEN m.subjects \cup m.subjects ELSE {}
        /\ u.reasons = m.reasons \cup m.reasons /\ DOMAIN u.inputs = Inputs(a) \cup Inputs(a)
    BY PairFields, Zenon
  <2>1. Records(s) = a.records /\ IsManifest(Union(s)) /\ Union(s).subjects = m.subjects
    <3> HIDE DEF s, m, u
    <3>1. Records(s) = a.records /\ IsManifest(u) /\ u.subjects = m.subjects
      BY <1>2, <2>6
    <3> QED BY <3>1 DEF u
  <2>2. Union(s).moved <=> m.moved
    BY PairFields, Zenon
  <2>3. Union(s).reasons = m.reasons /\ DOMAIN Union(s).inputs = Inputs(a)
    <3> HIDE DEF s, m, u
    <3>1. u.reasons = m.reasons /\ DOMAIN u.inputs = Inputs(a)
      BY <2>6
    <3> QED BY <3>1 DEF u
  <2>4. \A id \in DOMAIN Union(s).inputs : Union(s).inputs[id].metadata <=> Stats(a, id)
    BY PairFields, Zenon
  <2> HIDE DEF s, m
  <2>5. Merged(s) = a
    BY <1>5, <2>1, <2>2, <2>3, <2>4
  <2> QED BY <2>5 DEF s
<1> QED BY <1>6, <1>7

LEMMA MergedCommutes ==
    ASSUME NEW a, NEW b
    PROVE  Merged(<<b, a>>) = Merged(<<a, b>>)
<1> DEFINE s == <<b, a>>
           t == <<a, b>>
           subjects(x, y) == IF Carries(x) /\ Carries(y)
                             THEN x.state.manifest.subjects \cup y.state.manifest.subjects ELSE {}
           reasons(x, y) == x.state.manifest.reasons \cup y.state.manifest.reasons
           records(x, y) == x.records \cup y.records
           domain(x, y) == Inputs(x) \cup Inputs(y)
<1>5. \A x, y : /\ Records(<<x, y>>) = records(x, y) /\ Union(<<x, y>>).subjects = subjects(x, y)
               /\ Union(<<x, y>>).reasons = reasons(x, y)
               /\ DOMAIN Union(<<x, y>>).inputs = domain(x, y)
  BY PairFields, Zenon
<1>6. \A x, y : /\ records(x, y) = records(y, x) /\ subjects(x, y) = subjects(y, x)
               /\ reasons(x, y) = reasons(y, x) /\ domain(x, y) = domain(y, x)
  OBVIOUS
<1>1. Records(s) = Records(t) /\ Union(s).subjects = Union(t).subjects
  <2>1. /\ Records(s) = records(b, a) /\ Union(s).subjects = subjects(b, a)
        /\ Records(t) = records(a, b) /\ Union(t).subjects = subjects(a, b)
    BY <1>5
  <2> HIDE DEF records, subjects, s, t
  <2> QED BY <1>6, <2>1, Zenon
<1>2. Union(s).moved <=> Union(t).moved
  BY PairFields, Zenon
<1>3. Union(s).reasons = Union(t).reasons /\ DOMAIN Union(s).inputs = DOMAIN Union(t).inputs
  <2>1. /\ Union(s).reasons = reasons(b, a) /\ DOMAIN Union(s).inputs = domain(b, a)
        /\ Union(t).reasons = reasons(a, b) /\ DOMAIN Union(t).inputs = domain(a, b)
    BY <1>5
  <2> HIDE DEF reasons, domain, s, t
  <2> QED BY <1>6, <2>1, Zenon
<1>4. \A id \in DOMAIN Union(s).inputs :
        Union(s).inputs[id].metadata <=> Union(t).inputs[id].metadata
  BY <1>3, PairFields, Zenon
<1> HIDE DEF s, t
<1>7. Merged(s) = Merged(t)
  BY <1>1, <1>2, <1>3, <1>4, MergedSame
<1> QED BY <1>7 DEF s, t

LEMMA MergedAssociates ==
    ASSUME NEW a, NEW b, NEW c
    PROVE  LET s == <<Merged(<<a, b>>), c>>
               t == <<a, Merged(<<b, c>>)>>
           IN  /\ Records(s) = Records(t) /\ Union(s).subjects = Union(t).subjects
               /\ DOMAIN Union(s).inputs = DOMAIN Union(t).inputs
               /\ Merged(s) = Merged(t)
<1> DEFINE x == Merged(<<a, b>>)
           y == Merged(<<b, c>>)
           s == <<x, c>>
           t == <<a, y>>
<1>1. /\ x.records = a.records \cup b.records
      /\ x.state.manifest.subjects
           = IF Carries(a) /\ Carries(b)
             THEN a.state.manifest.subjects \cup b.state.manifest.subjects ELSE {}
      /\ x.state.manifest.reasons = a.state.manifest.reasons \cup b.state.manifest.reasons
      /\ Inputs(x) = Inputs(a) \cup Inputs(b)
  BY MergedFields
<1>2. /\ x.state.manifest.moved <=> a.state.manifest.moved \/ b.state.manifest.moved
      /\ \A id : Stats(x, id) <=> Stats(a, id) \/ Stats(b, id)
      /\ Carries(x) <=> Carries(a) /\ Carries(b)
  BY MergedFields
<1>3. /\ y.records = b.records \cup c.records
      /\ y.state.manifest.subjects
           = IF Carries(b) /\ Carries(c)
             THEN b.state.manifest.subjects \cup c.state.manifest.subjects ELSE {}
      /\ y.state.manifest.reasons = b.state.manifest.reasons \cup c.state.manifest.reasons
      /\ Inputs(y) = Inputs(b) \cup Inputs(c)
  BY MergedFields
<1>4. /\ y.state.manifest.moved <=> b.state.manifest.moved \/ c.state.manifest.moved
      /\ \A id : Stats(y, id) <=> Stats(b, id) \/ Stats(c, id)
      /\ Carries(y) <=> Carries(b) /\ Carries(c)
  BY MergedFields
<1> HIDE DEF x, y
<1>12. /\ Records(s) = x.records \cup c.records
       /\ Union(s).subjects = IF Carries(x) /\ Carries(c)
                              THEN x.state.manifest.subjects \cup c.state.manifest.subjects ELSE {}
       /\ Union(s).reasons = x.state.manifest.reasons \cup c.state.manifest.reasons
       /\ DOMAIN Union(s).inputs = Inputs(x) \cup Inputs(c)
  BY PairFields, Zenon
<1>13. /\ Records(t) = a.records \cup y.records
       /\ Union(t).subjects = IF Carries(a) /\ Carries(y)
                              THEN a.state.manifest.subjects \cup y.state.manifest.subjects ELSE {}
       /\ Union(t).reasons = a.state.manifest.reasons \cup y.state.manifest.reasons
       /\ DOMAIN Union(t).inputs = Inputs(a) \cup Inputs(y)
  BY PairFields, Zenon
<1> HIDE DEF s, t
<1>5. Records(s) = Records(t)
  BY <1>1, <1>3, <1>12, <1>13
<1>6. Union(s).subjects = Union(t).subjects
  BY <1>1, <1>2, <1>3, <1>4, <1>12, <1>13
<1>7. Union(s).reasons = Union(t).reasons
  BY <1>1, <1>3, <1>12, <1>13
<1>8. DOMAIN Union(s).inputs = DOMAIN Union(t).inputs
  BY <1>1, <1>3, <1>12, <1>13
<1>9. Union(s).moved <=> Union(t).moved
  BY <1>2, <1>4, PairFields, Zenon DEF s, t
<1>10. \A id \in DOMAIN Union(s).inputs :
         Union(s).inputs[id].metadata <=> Union(t).inputs[id].metadata
  <2> TAKE id \in DOMAIN Union(s).inputs
  <2>1. Union(s).inputs[id].metadata <=> Stats(x, id) \/ Stats(c, id)
    BY PairFields, Zenon DEF s
  <2>2. Union(t).inputs[id].metadata <=> Stats(a, id) \/ Stats(y, id)
    BY <1>8, PairFields, Zenon DEF t
  <2> QED BY <1>2, <1>4, <2>1, <2>2, Zenon
<1>11. Merged(s) = Merged(t)
  BY <1>5, <1>6, <1>7, <1>8, <1>9, <1>10, MergedSame
<1> QED BY <1>5, <1>6, <1>8, <1>11 DEF s, t, x, y

(* What carries its support to a merge names no path.                         *)
LEMMA CarriesNoPath ==
    ASSUME NEW o, IsObservation(o), Carries(o)
    PROVE  \A id \in Inputs(o) : id[1] = "env"
BY DEF IsObservation, Carries, Encodes, Paths, Inputs

(* If three may be put together in one order, any two of them may.            *)
LEMMA PairsFit ==
    ASSUME NEW a, NEW b, NEW c, IsObservation(a), IsObservation(b), IsObservation(c),
           ~Conflict(<<Merged(<<a, b>>), c>>)
    PROVE  ~Conflict(<<b, c>>)
<1> DEFINE x == Merged(<<a, b>>)
<1>1. Records(<<x, c>>) = x.records \cup c.records
  BY PairFields
<1>2. x.records = a.records \cup b.records
  BY PairFields DEF Merged
<1>3. Records(<<b, c>>) = b.records \cup c.records
  BY PairFields
<1>4. ~Conflict(<<x, c>>)
  OBVIOUS
<1> HIDE DEF x
<1> QED BY <1>1, <1>2, <1>3, <1>4 DEF Conflict

LEMMA PairsEncode ==
    ASSUME NEW a, NEW b, IsObservation(a), IsObservation(b)
    PROVE  Encodes(Union(<<a, b>>))
<1> DEFINE u == Union(<<a, b>>)
<1>1. u.subjects = IF Carries(a) /\ Carries(b)
                   THEN a.state.manifest.subjects \cup b.state.manifest.subjects ELSE {}
  BY PairFields
<1>2. DOMAIN u.inputs = Inputs(a) \cup Inputs(b)
  BY PairFields
<1> SUFFICES Encodes(u)
  OBVIOUS
<1> HIDE DEF u
<1>3. CASE Carries(a) /\ Carries(b)
  BY <1>2, <1>3, CarriesNoPath DEF Encodes, Paths
<1>4. CASE ~(Carries(a) /\ Carries(b))
  BY <1>1, <1>4 DEF Encodes
<1> QED BY <1>3, <1>4

(* A merge of observations that are still so is idempotent, commutative and    *)
(* associative: runtimeinput.Merge gives one value for every order in which    *)
(* the processes of a result are put together (MergeAlgebra).                 *)
LEMMA PoolGivesAlgebra ==
    ASSUME Pool PROVE MergeAlgebra
<1> DEFINE fit == {o \in {e.obs : e \in pool} : Unmoved(o)}
<1>1. \A o \in fit : IsObservation(o) /\ Unmoved(o)
  BY DEF Pool, IsEntry
<1> HIDE DEF fit
<1>2. ASSUME NEW a \in fit
      PROVE  Merged(<<a>>) = a /\ Merged(<<a, a>>) = a
  BY <1>1, MergedAlone, Zenon
<1>3. \A x, y : Conflict(<<x, y>>) <=> Conflict(<<y, x>>)
  <2> TAKE x, y
  <2>1. Records(<<x, y>>) = x.records \cup y.records /\ Records(<<y, x>>) = y.records \cup x.records
    BY PairFields, Zenon
  <2>2. Records(<<x, y>>) = Records(<<y, x>>)
    BY <2>1
  <2> QED BY <2>2, Zenon DEF Conflict
<1>4. ASSUME NEW a \in fit, NEW b \in fit, ~Conflict(<<a, b>>)
      PROVE  /\ ~Conflict(<<b, a>>) /\ Encodes(Union(<<b, a>>))
             /\ Merged(<<b, a>>) = Merged(<<a, b>>)
  BY <1>1, <1>3, <1>4, PairsEncode, MergedCommutes, Zenon
<1>5. ASSUME NEW a \in fit, NEW b \in fit, NEW c \in fit,
             ~Conflict(<<Merged(<<a, b>>), c>>), Encodes(Union(<<Merged(<<a, b>>), c>>))
      PROVE  /\ ~Conflict(<<b, c>>) /\ Encodes(Union(<<b, c>>))
             /\ ~Conflict(<<a, Merged(<<b, c>>)>>) /\ Encodes(Union(<<a, Merged(<<b, c>>)>>))
             /\ Merged(<<Merged(<<a, b>>), c>>) = Merged(<<a, Merged(<<b, c>>)>>)
  <2>1. ~Conflict(<<b, c>>) /\ Encodes(Union(<<b, c>>))
    BY <1>1, <1>5, PairsFit, PairsEncode, Zenon
  <2> DEFINE s == <<Merged(<<a, b>>), c>>
             t == <<a, Merged(<<b, c>>)>>
  <2>2. /\ Records(s) = Records(t) /\ Union(s).subjects = Union(t).subjects
        /\ DOMAIN Union(s).inputs = DOMAIN Union(t).inputs /\ Merged(s) = Merged(t)
    <3> HIDE DEF s, t
    <3>1. Records(s) = Records(t)
      BY MergedAssociates DEF s, t
    <3>2. Union(s).subjects = Union(t).subjects
      BY MergedAssociates DEF s, t
    <3>3. DOMAIN Union(s).inputs = DOMAIN Union(t).inputs
      BY MergedAssociates DEF s, t
    <3>4. Merged(s) = Merged(t)
      BY MergedAssociates DEF s, t
    <3> QED BY <3>1, <3>2, <3>3, <3>4
  <2>3. ~Conflict(s) /\ Encodes(Union(s))
    BY <1>5
  <2> HIDE DEF s, t
  <2>4. ~Conflict(t)
    BY <2>2, <2>3, Zenon DEF Conflict
  <2>5. Encodes(Union(t))
    BY <2>2, <2>3 DEF Encodes, Paths
  <2> QED BY <2>1, <2>2, <2>4, <2>5, Zenon DEF s, t
<1> DEFINE Good(s) == ~Conflict(s) /\ Encodes(Union(s))
<1>6. \A a, b : a \in fit /\ b \in fit /\ Good(<<a, b>>) =>
        Good(<<b, a>>) /\ Merged(<<b, a>>) = Merged(<<a, b>>)
  BY <1>4, Zenon
<1>7. \A a, b, c : a \in fit /\ b \in fit /\ c \in fit /\ Good(<<Merged(<<a, b>>), c>>) =>
        /\ Good(<<b, c>>) /\ Good(<<a, Merged(<<b, c>>)>>)
        /\ Merged(<<Merged(<<a, b>>), c>>) = Merged(<<a, Merged(<<b, c>>)>>)
  BY <1>5, Zenon
<1>8. Idle => \A a \in fit :
        /\ Merged(<<a>>) = a /\ Merged(<<a, a>>) = a
        /\ \A b \in fit \ {a} : Good(<<a, b>>) =>
            LET ab == Merged(<<a, b>>) IN
            /\ Good(<<b, a>>) /\ Merged(<<b, a>>) = ab
            /\ \A c \in fit \ {a, b} : Good(<<ab, c>>) =>
                /\ Good(<<b, c>>) /\ Good(<<a, Merged(<<b, c>>)>>)
                /\ Merged(<<ab, c>>) = Merged(<<a, Merged(<<b, c>>)>>)
  <2> HIDE DEF Good
  <2>1. \A a, b : b \in fit \ {a} => b \in fit
    OBVIOUS
  <2>2. \A a, b, c : c \in fit \ {a, b} => c \in fit
    OBVIOUS
  <2>3. ASSUME NEW a \in fit, NEW b \in fit \ {a}, Good(<<a, b>>)
        PROVE  Good(<<b, a>>) /\ Merged(<<b, a>>) = Merged(<<a, b>>)
    BY <1>6, <2>1, <2>3, Zenon
  <2>4. ASSUME NEW a \in fit, NEW b \in fit \ {a}, NEW c \in fit \ {a, b},
               Good(<<Merged(<<a, b>>), c>>)
        PROVE  /\ Good(<<b, c>>) /\ Good(<<a, Merged(<<b, c>>)>>)
               /\ Merged(<<Merged(<<a, b>>), c>>) = Merged(<<a, Merged(<<b, c>>)>>)
    <3>1. a \in fit /\ b \in fit /\ c \in fit
      OBVIOUS
    <3> QED BY <1>7, <2>4, <3>1
  <2> QED BY <1>2, <2>3, <2>4, Zenon
<1> QED BY <1>8, Zenon DEF MergeAlgebra, fit

-----------------------------------------------------------------------------
(* What a digest tells of a read.                                             *)

LEMMA PlainDigest ==
    ASSUME NEW i, NEW meta, i[2] \notin Dirs, ~Refused(i)
    PROVE  /\ Digest(i, meta) = Missing <=> world[i[2]] = Missing
           /\ world[i[2]] # Missing => Head(Digest(i, meta)) = Head(world[i[2]])
           /\ meta => Digest(i, meta) = world[i[2]]
<1> DEFINE now == world[i[2]]
<1>1. now # Missing => ~(i[2] \in Links /\ i[1] = "rel")
  BY DEF Refused
<1>2. now # Missing => Digest(i, meta) = IF meta THEN now ELSE <<Head(now)>>
  BY <1>1, Zenon DEF Digest
<1>3. now = Missing => Digest(i, meta) = Missing
  BY Zenon DEF Digest
<1> HIDE DEF now
<1>4. <<Head(now)>> # Missing /\ Head(<<Head(now)>>) = Head(now)
  BY DEF Missing
<1>5. CASE now = Missing
  BY <1>3, <1>5 DEF now
<1>6. CASE now # Missing /\ meta
  BY <1>2, <1>6 DEF now
<1>7. CASE now # Missing /\ ~meta
  BY <1>2, <1>4, <1>7 DEF now
<1> QED BY <1>5, <1>6, <1>7

LEMMA DigestTells ==
    ASSUME NEW i, NEW id, NEW meta, NEW stat, NEW was, i[2] = id[2], i[2] \notin Dirs, ~Refused(i),
           stat => meta, Bound(Digest(i, meta), stat, was)
    PROVE  SameRead(id, stat, was)
<1> DEFINE d == Digest(i, meta)
           now == world[id[2]]
<1>1. /\ d = Missing <=> now = Missing
      /\ now # Missing => Head(d) = Head(now)
      /\ meta => d = now
  BY PlainDigest
<1>2. /\ d = Missing <=> was = Missing
      /\ was # Missing => Head(d) = Head(was)
      /\ stat => d = was
  BY DEF Bound
<1> HIDE DEF d, now
<1>3. \/ was = now
      \/ ~stat /\ was # Missing /\ now # Missing /\ Head(was) = Head(now)
  <2>1. CASE stat
    BY <1>1, <1>2, <2>1
  <2>2. CASE ~stat
    BY <1>1, <1>2, <2>2
  <2> QED BY <2>1, <2>2
<1> QED BY <1>3, Zenon DEF SameRead, now

LEMMA DigestBinds ==
    ASSUME NEW i, NEW id, NEW meta, NEW stat, NEW was, i[2] = id[2], i[2] \notin Dirs, ~Refused(i),
           stat => meta, SameRead(id, stat, was)
    PROVE  Bound(Digest(i, meta), stat, was)
<1> DEFINE d == Digest(i, meta)
           now == world[id[2]]
<1>1. /\ d = Missing <=> now = Missing
      /\ now # Missing => Head(d) = Head(now)
      /\ meta => d = now
  BY PlainDigest
<1>2. \/ was = now
      \/ ~stat /\ was # Missing /\ now # Missing /\ Head(was) = Head(now)
  BY Zenon DEF SameRead
<1> HIDE DEF d, now
<1>3. /\ d = Missing <=> was = Missing
      /\ was # Missing => Head(d) = Head(was)
      /\ stat => d = was
  <2>1. CASE stat
    BY <1>1, <1>2, <2>1
  <2>2. CASE ~stat
    BY <1>1, <1>2, <2>2
  <2> QED BY <2>1, <2>2
<1> QED BY <1>3, Zenon DEF Bound, d

(* What a run read is what is there.                                          *)
SameReads(r) ==
    \A id \in DOMAIN r.read : id[2] \notin Dirs => SameRead(id, r.stat[id], r.read[id])

LEMMA BindsTell ==
    ASSUME NEW o, IsObservation(o), Unmoved(o), ~o.state.unverifiable, NEW r, Binds(r, o.state)
    PROVE  SameReads(r)
<1> SUFFICES ASSUME NEW id \in DOMAIN r.read, id[2] \notin Dirs
             PROVE  SameRead(id, r.stat[id], r.read[id])
  BY DEF SameReads
<1> DEFINE m == o.state.manifest
<1>1. PICK i \in DOMAIN m.inputs :
        /\ i[2] = id[2] /\ (r.stat[id] => m.inputs[i].metadata)
        /\ Bound(m.inputs[i].digest, r.stat[id], r.read[id])
  BY Zenon DEF Binds
<1>2. IsManifest(m) /\ Digested(m) = m
  BY UnmovedDigests, Zenon
<1>3. ~Refused(i)
  BY UnmovedDoubt
<1> HIDE DEF m
<1>4. m.inputs[i].digest = Digest(i, m.inputs[i].metadata)
  BY <1>2, DigestedFields
<1>5. i[2] \notin Dirs
  BY <1>1
<1> QED BY <1>1, <1>3, <1>4, <1>5, DigestTells, Zenon

LEMMA ReadsBind ==
    ASSUME NEW m, IsManifest(m), ~Evaluated(m).unverifiable, NEW r, SameReads(r),
           \A id \in DOMAIN r.read : \E i \in DOMAIN m.inputs :
              i[2] = id[2] /\ (r.stat[id] => m.inputs[i].metadata)
    PROVE  Binds(r, Evaluated(m))
<1> DEFINE n == Digested(m)
<1>1. Evaluated(m).manifest = n /\ DOMAIN n.inputs = DOMAIN m.inputs
  BY EvaluatedFields, DigestedFields
<1>2. \A i \in DOMAIN m.inputs : /\ n.inputs[i].metadata = m.inputs[i].metadata
                                 /\ n.inputs[i].digest = Digest(i, m.inputs[i].metadata)
  BY DigestedFields
<1>3. \A i \in DOMAIN m.inputs : ~Refused(i)
  BY EvaluatedFields
<1> HIDE DEF n
<1>4. ASSUME NEW id \in DOMAIN r.read, id[2] \notin Dirs
      PROVE  \E i \in DOMAIN n.inputs :
                /\ i[2] = id[2] /\ (r.stat[id] => n.inputs[i].metadata)
                /\ Bound(n.inputs[i].digest, r.stat[id], r.read[id])
  <2>1. PICK i \in DOMAIN m.inputs : i[2] = id[2] /\ (r.stat[id] => m.inputs[i].metadata)
    OBVIOUS
  <2>2. SameRead(id, r.stat[id], r.read[id])
    BY <1>4, Zenon DEF SameReads
  <2>3. i[2] \notin Dirs
    BY <1>4, <2>1
  <2>4. Bound(Digest(i, m.inputs[i].metadata), r.stat[id], r.read[id])
    BY <1>3, <2>1, <2>2, <2>3, DigestBinds, Zenon
  <2>5. i \in DOMAIN n.inputs
    BY <1>1, Zenon
  <2> QED BY <1>2, <2>1, <2>4, <2>5, Zenon
<1> QED BY <1>1, <1>4, Zenon DEF Binds

-----------------------------------------------------------------------------
(* The entries that the actions make. What an evaluation makes of a manifest   *)
(* is an entry for the runs whose evidence is in the manifest.                *)

(* What a manifest has to hold for a run.                                     *)
Evidence(r, m) ==
    /\ r.moved => m.moved
    /\ m.subjects # {} => r.subjects # {} /\ r.subjects \subseteq m.subjects
    /\ \A id \in DOMAIN r.read : \E i \in DOMAIN m.inputs :
          i[2] = id[2] /\ (r.stat[id] => m.inputs[i].metadata)

LEMMA EvaluatedObservation ==
    ASSUME NEW m, IsManifest(m), Encodes(m), NEW R,
           R = {} => m.subjects = {} /\ DOMAIN m.inputs = {}
    PROVE  IsObservation([state |-> Evaluated(m), records |-> R])
<1> DEFINE o == [state |-> Evaluated(m), records |-> R]
           n == Digested(m)
<1>1. o = [state |-> o.state, records |-> o.records] /\ o.state = Evaluated(m) /\ o.records = R
  OBVIOUS
<1>2. Evaluated(m).manifest = n
  BY EvaluatedFields
<1>3. Evaluated(m) = StateOf(n)
  BY EvaluatedIsStateOf
<1>4. IsManifest(n) /\ n.subjects = m.subjects /\ DOMAIN n.inputs = DOMAIN m.inputs
  BY DigestedFields
<1> HIDE DEF n
<1>5. Encodes(n)
  BY <1>4 DEF Encodes, Paths
<1> HIDE DEF o
<1>6. o.state.manifest = n /\ o.state = StateOf(o.state.manifest)
  BY <1>1, <1>2, <1>3
<1>7. o.records = {} => o.state.manifest.subjects = {} /\ DOMAIN o.state.manifest.inputs = {}
  BY <1>1, <1>4, <1>6
<1>8. IsManifest(o.state.manifest) /\ Encodes(o.state.manifest)
  BY <1>4, <1>5, <1>6, Zenon
<1>9. IsObservation(o)
  BY <1>1, <1>6, <1>7, <1>8, Zenon DEF IsObservation
<1> QED BY <1>9 DEF o

LEMMA EvaluatedEntry ==
    ASSUME NEW m, IsManifest(m), Encodes(m), NEW R, NEW runs, NEW torn \in BOOLEAN,
           R = {} => m.subjects = {} /\ DOMAIN m.inputs = {} /\ runs = {},
           \A r \in runs : /\ Evidence(r, m)
                           /\ ~torn /\ ~r.sure => Evaluated(m).unverifiable
                           /\ ~torn /\ ~Evaluated(m).unverifiable => SameReads(r)
    PROVE  IsEntry(Entry([state |-> Evaluated(m), records |-> R], runs, torn))
<1> DEFINE s == Evaluated(m)
           o == [state |-> s, records |-> R]
           n == Digested(m)
           e == Entry(o, runs, torn)
<1>1. IsObservation(o)
  BY EvaluatedObservation
<1>2. s.manifest = n /\ s.moved = m.moved
  BY EvaluatedFields
<1>3. /\ n.subjects = m.subjects /\ DOMAIN n.inputs = DOMAIN m.inputs
      /\ \A i \in DOMAIN m.inputs : n.inputs[i].metadata = m.inputs[i].metadata
  BY DigestedFields
<1> HIDE DEF s, n
<1>4. ASSUME NEW r \in runs
      PROVE  Keeps(r, s)
  <2>1. Evidence(r, m)
    OBVIOUS
  <2>2. r.moved => s.moved
    BY <1>2, <2>1, Zenon DEF Evidence
  <2>3. n.subjects # {} => r.subjects # {} /\ r.subjects \subseteq n.subjects
    BY <1>3, <2>1 DEF Evidence
  <2>4. \A id \in DOMAIN r.read : \E i \in DOMAIN n.inputs :
          i[2] = id[2] /\ (r.stat[id] => n.inputs[i].metadata)
    BY <1>3, <2>1, Zenon DEF Evidence
  <2> QED BY <1>2, <2>2, <2>3, <2>4, Zenon DEF Keeps
<1>5. ASSUME NEW r \in runs, ~torn, ~s.unverifiable
      PROVE  Binds(r, s)
  <2>1. SameReads(r)
    BY <1>5 DEF s
  <2>2. \A id \in DOMAIN r.read : \E i \in DOMAIN m.inputs :
          i[2] = id[2] /\ (r.stat[id] => m.inputs[i].metadata)
    BY Zenon DEF Evidence
  <2> QED BY <1>5, <2>1, <2>2, ReadsBind, Zenon DEF s
<1>6. \A r \in runs : ~r.sure /\ ~torn => s.unverifiable
  BY DEF s
<1>7. e.obs = o /\ e.runs = runs /\ e.torn = torn /\ o.records = R /\ o.state = s
  BY DEF Entry
<1>8. e = Entry(e.obs, e.runs, e.torn)
  BY <1>7, Zenon
<1>9. o.records = {} => runs = {}
  BY <1>7
<1> HIDE DEF o, e
<1>10. IsObservation(e.obs) /\ (e.obs.records = {} => e.runs = {}) /\ e.torn \in BOOLEAN
  BY <1>1, <1>7, <1>9, Zenon
<1>11. \A r \in e.runs : /\ Keeps(r, e.obs.state)
                         /\ ~r.sure /\ ~e.torn => e.obs.state.unverifiable
                         /\ ~e.torn /\ ~e.obs.state.unverifiable => Binds(r, e.obs.state)
  BY <1>4, <1>5, <1>6, <1>7, Zenon
<1>12. IsEntry(e)
  BY <1>8, <1>10, <1>11, Zenon DEF IsEntry
<1> QED BY <1>12 DEF e, o, s

LEMMA RunSure ==
    ASSUME NEW p, NEW read, NEW stat, NEW moved, NEW sure, NEW subjects
    PROVE  [process |-> p, read |-> read, stat |-> stat, moved |-> moved, sure |-> sure,
            subjects |-> subjects].sure = sure
OBVIOUS

(* A process that ended, in full or not.                                      *)
LEMMA CompleteEntry ==
    ASSUME NEW p, NEW r \in Readings,
           NEW m, m = [subjects |-> r.subjects, moved |-> r.moved,
                       reasons |-> IF r.moved THEN {<<"bracket moved">>} ELSE {},
                       inputs |-> [id \in DOMAIN r.reads |->
                                     [metadata |-> r.reads[id], digest |-> <<>>]]],
           NEW run, run = [process |-> p, read |-> [id \in DOMAIN r.reads |-> world[id[2]]],
                           stat |-> r.reads, moved |-> r.moved,
                           sure |-> ~Evaluated(m).unverifiable, subjects |-> r.subjects],
           Encodes(m)
    PROVE  IsEntry(Entry(Made(Evaluated(m), p, "completed"), {run}, FALSE))
<1>1. r.moved \in BOOLEAN /\ \A id \in DOMAIN r.reads : r.reads[id] \in BOOLEAN
  BY ObservationsAssumption
<1> DEFINE inputs == [id \in DOMAIN r.reads |-> [metadata |-> r.reads[id], digest |-> <<>>]]
<1>2. /\ DOMAIN inputs = DOMAIN r.reads /\ \A id \in DOMAIN r.reads : inputs[id].metadata = r.reads[id]
      /\ inputs = [id \in DOMAIN inputs |-> [metadata |-> inputs[id].metadata, digest |-> inputs[id].digest]]
  OBVIOUS
<1> HIDE DEF inputs
<1>3. m.subjects = r.subjects /\ m.moved = r.moved /\ m.inputs = inputs
  BY DEF inputs
<1>4. m = [subjects |-> m.subjects, moved |-> m.moved, reasons |-> m.reasons, inputs |-> m.inputs]
  OBVIOUS
<1>5. \A id \in DOMAIN m.inputs : m.inputs[id].metadata \in BOOLEAN
  BY <1>1, <1>2, <1>3, Zenon
<1>6. IsManifest(m)
  BY <1>1, <1>2, <1>3, <1>4, <1>5, Zenon DEF IsManifest
<1>7. /\ run.moved = r.moved /\ run.subjects = r.subjects /\ run.stat = r.reads
      /\ DOMAIN run.read = DOMAIN r.reads /\ \A id \in DOMAIN run.read : run.read[id] = world[id[2]]
  OBVIOUS
<1>8. Evidence(run, m)
  <2>1. run.moved => m.moved
    BY <1>3, <1>7, Zenon
  <2>2. m.subjects # {} => run.subjects # {} /\ run.subjects \subseteq m.subjects
    BY <1>3, <1>7, Zenon
  <2>3. \A id \in DOMAIN run.read : id \in DOMAIN m.inputs /\ m.inputs[id].metadata = run.stat[id]
    BY <1>2, <1>3, <1>7, Zenon
  <2> QED BY <2>1, <2>2, <2>3, Zenon DEF Evidence
<1>9. SameReads(run)
  BY <1>7, Zenon DEF SameReads, SameRead
<1>10. ~run.sure => Evaluated(m).unverifiable
  <2>1. run.sure = ~Evaluated(m).unverifiable
    BY RunSure, Zenon
  <2> QED BY <2>1, Zenon
<1> DEFINE state == Evaluated(m)
           origin == <<p, "completed", state.manifest>>
           R == {[process |-> p, origin |-> origin, view |-> origin]}
<1>11. R # {}
  OBVIOUS
<1> HIDE DEF R
<1>12. IsEntry(Entry([state |-> Evaluated(m), records |-> R], {run}, FALSE))
  <2>1. \A x \in {run} : /\ Evidence(x, m)
                         /\ ~FALSE /\ ~x.sure => Evaluated(m).unverifiable
                         /\ ~FALSE /\ ~Evaluated(m).unverifiable => SameReads(x)
    BY <1>8, <1>9, <1>10, Zenon
  <2> DEFINE runs == {run}
  <2> HIDE DEF runs
  <2>2. \A x \in runs : /\ Evidence(x, m)
                        /\ ~FALSE /\ ~x.sure => Evaluated(m).unverifiable
                        /\ ~FALSE /\ ~Evaluated(m).unverifiable => SameReads(x)
    BY <2>1 DEF runs
  <2>3. IsEntry(Entry([state |-> Evaluated(m), records |-> R], runs, FALSE))
    BY <1>6, <1>11, <2>2, EvaluatedEntry
  <2> QED BY <2>3 DEF runs
<1> QED BY <1>12, Zenon DEF Made, R

LEMMA IncompleteEntry ==
    ASSUME NEW p, NEW m, m = [NoManifest EXCEPT !.reasons = {<<"incomplete">>}],
           NEW run, run = [process |-> p, read |-> <<>>, stat |-> <<>>, moved |-> FALSE,
                           sure |-> FALSE, subjects |-> {}]
    PROVE  IsEntry(Entry(Made(Evaluated(m), p, "incomplete"), {run}, FALSE))
<1>1. m = [subjects |-> {}, moved |-> FALSE, reasons |-> {<<"incomplete">>}, inputs |-> <<>>]
  BY DEF NoManifest
<1>2. m.subjects = {} /\ m.moved = FALSE /\ m.reasons # {} /\ m.inputs = <<>>
  <2>1. m.subjects = {}
    BY <1>1
  <2>2. m.moved = FALSE
    BY <1>1
  <2>3. m.reasons = {<<"incomplete">>}
    BY <1>1
  <2>4. m.inputs = <<>>
    BY <1>1
  <2>5. m.reasons # {}
    BY <2>3
  <2> QED BY <2>1, <2>2, <2>4, <2>5
<1>3. DOMAIN m.inputs = {}
  BY <1>2
<1>4. m.inputs = [id \in DOMAIN m.inputs |->
                   [metadata |-> m.inputs[id].metadata, digest |-> m.inputs[id].digest]]
  <2> DEFINE g == [id \in DOMAIN m.inputs |->
                     [metadata |-> m.inputs[id].metadata, digest |-> m.inputs[id].digest]]
  <2>1. g = <<>>
    BY <1>3
  <2> QED BY <1>2, <2>1, Zenon
<1>5. m = [subjects |-> m.subjects, moved |-> m.moved, reasons |-> m.reasons, inputs |-> m.inputs]
  BY <1>1
<1>6. IsManifest(m)
  BY <1>2, <1>3, <1>4, <1>5, Zenon DEF IsManifest
<1>7. Encodes(m)
  BY <1>2, Zenon DEF Encodes
<1>8. run.moved = FALSE /\ DOMAIN run.read = {}
  OBVIOUS
<1>9. Evidence(run, m) /\ SameReads(run)
  BY <1>2, <1>8, Zenon DEF Evidence, SameReads
<1>10. Evaluated(m).unverifiable
  BY <1>2, <1>6, EvaluatedFields, Zenon
<1> DEFINE state == Evaluated(m)
           origin == <<p, "incomplete", state.manifest>>
           R == {[process |-> p, origin |-> origin, view |-> origin]}
           runs == {run}
<1>11. R # {}
  OBVIOUS
<1>12. \A x \in runs : /\ Evidence(x, m)
                       /\ ~FALSE /\ ~x.sure => Evaluated(m).unverifiable
                       /\ ~FALSE /\ ~Evaluated(m).unverifiable => SameReads(x)
  BY <1>9, <1>10, Zenon
<1> HIDE DEF R, runs
<1>13. IsEntry(Entry([state |-> Evaluated(m), records |-> R], runs, FALSE))
  BY <1>6, <1>7, <1>11, <1>12, EvaluatedEntry
<1> QED BY <1>13, Zenon DEF Made, R, runs

(* An adopted manifest is the state it had.                                   *)
LEMMA AdoptEntry ==
    ASSUME NEW e, IsEntry(e), NEW p, Evaluated(e.obs.state.manifest).manifest = e.obs.state.manifest
    PROVE  IsEntry(Entry(Made(Evaluated(e.obs.state.manifest), p, "adopted"), e.runs, e.torn))
<1> DEFINE m == e.obs.state.manifest
           s == e.obs.state
<1>1. IsObservation(e.obs) /\ IsManifest(m) /\ s = StateOf(m) /\ Encodes(m)
  BY DEF IsEntry, IsObservation
<1>2. Evaluated(m) = StateOf(Digested(m)) /\ Evaluated(m).manifest = Digested(m)
  BY <1>1, EvaluatedIsStateOf, EvaluatedFields, Zenon
<1>3. Evaluated(m) = s
  BY <1>1, <1>2, Zenon
<1> DEFINE origin == <<p, "adopted", Evaluated(m).manifest>>
           R == {[process |-> p, origin |-> origin, view |-> origin]}
           o == [state |-> Evaluated(m), records |-> R]
           new == Entry(o, e.runs, e.torn)
<1>4. R # {}
  OBVIOUS
<1> HIDE DEF R
<1>5. IsObservation(o)
  BY <1>1, <1>4, EvaluatedObservation
<1>6. new.obs = o /\ new.runs = e.runs /\ new.torn = e.torn /\ o.records = R /\ o.state = Evaluated(m)
  BY DEF Entry
<1> HIDE DEF o, new, m, s
<1>7. /\ new = Entry(new.obs, new.runs, new.torn) /\ new.obs.records # {}
      /\ new.obs.state = s
  BY <1>3, <1>4, <1>6, Zenon DEF new
<1>8. /\ e.torn \in BOOLEAN
      /\ \A r \in e.runs : /\ Keeps(r, s)
                           /\ ~r.sure /\ ~e.torn => s.unverifiable
                           /\ ~e.torn /\ ~s.unverifiable => Binds(r, s)
  BY Zenon DEF IsEntry, s
<1>9. IsEntry(new)
  BY <1>5, <1>6, <1>7, <1>8, Zenon DEF IsEntry
<1> QED BY <1>9, Zenon DEF new, o, R, Made, m

(* A doubt about one input is a doubt about the union.                        *)
LEMMA UnionDoubts ==
    ASSUME NEW s, NEW j \in DOMAIN s, IsObservation(s[j]), Unmoved(s[j]), s[j].state.unverifiable
    PROVE  Evaluated(Union(s)).unverifiable
<1> DEFINE u == Union(s)
<1>1. IsManifest(u)
  BY UnionFields
<1>2. Evaluated(u).unverifiable <=> u.reasons # {} \/ \E id \in DOMAIN u.inputs : Refused(id)
  BY <1>1, EvaluatedFields, Zenon
<1>3. s[j].state.manifest.reasons # {} \/ \E id \in Inputs(s[j]) : Refused(id)
  BY UnmovedDoubt, Zenon DEF Inputs
<1>4. u.reasons = UNION {s[i].state.manifest.reasons : i \in DOMAIN s}
  BY UnionFields
<1>5. DOMAIN u.inputs = UNION {Inputs(s[i]) : i \in DOMAIN s}
  BY UnionFields
<1> HIDE DEF u
<1>6. s[j].state.manifest.reasons # {} => u.reasons # {}
  BY <1>4
<1>7. \A id \in Inputs(s[j]) : id \in DOMAIN u.inputs
  BY <1>5
<1>8. Evaluated(u).unverifiable
  BY <1>2, <1>3, <1>6, <1>7, Zenon
<1> QED BY <1>8, Zenon DEF u

(* What an input held for a run, the union holds.                             *)
LEMMA UnionEvidence ==
    ASSUME NEW s, NEW j \in DOMAIN s, IsObservation(s[j]), s[j].records # {},
           NEW r, Keeps(r, s[j].state)
    PROVE  Evidence(r, Union(s))
<1> DEFINE u == Union(s)
           m == s[j].state.manifest
<1>1. u.subjects = IF \A i \in DOMAIN s : Carries(s[i])
                   THEN UNION {s[i].state.manifest.subjects : i \in DOMAIN s} ELSE {}
  BY UnionFields
<1>2. u.moved <=> \E i \in DOMAIN s : s[i].state.manifest.moved
  BY UnionFields, Zenon
<1>3. DOMAIN u.inputs = UNION {Inputs(s[i]) : i \in DOMAIN s}
  BY UnionFields
<1>4. \A id \in DOMAIN u.inputs : u.inputs[id].metadata <=> \E i \in DOMAIN s : Stats(s[i], id)
  BY UnionFields, Zenon
<1>5. s[j].state.moved = m.moved
  BY UnmovedDigests, Zenon
<1> HIDE DEF u
<1>6. r.moved => u.moved
  BY <1>2, <1>5, Zenon DEF Keeps
<1>7. u.subjects # {} => m.subjects # {} /\ m.subjects \subseteq u.subjects
  BY <1>1 DEF Carries
<1>8. m.subjects # {} => r.subjects # {} /\ r.subjects \subseteq m.subjects
  BY Zenon DEF Keeps
<1>9. u.subjects # {} => r.subjects # {} /\ r.subjects \subseteq u.subjects
  <2> HIDE DEF m
  <2> QED BY <1>7, <1>8
<1>10. ASSUME NEW id \in DOMAIN r.read
       PROVE  \E i \in DOMAIN u.inputs : i[2] = id[2] /\ (r.stat[id] => u.inputs[i].metadata)
  <2>1. PICK i \in DOMAIN m.inputs : i[2] = id[2] /\ (r.stat[id] => m.inputs[i].metadata)
    BY Zenon DEF Keeps
  <2>2. i \in Inputs(s[j])
    BY DEF Inputs
  <2>3. i \in DOMAIN u.inputs
    BY <1>3, <2>2
  <2>4. m.inputs[i].metadata => Stats(s[j], i)
    BY <2>2, Zenon DEF Stats
  <2> HIDE DEF m
  <2>5. m.inputs[i].metadata => u.inputs[i].metadata
    BY <1>4, <2>3, <2>4, Zenon
  <2> QED BY <2>1, <2>3, <2>5, Zenon
<1>11. Evidence(r, u)
  BY <1>6, <1>9, <1>10, Zenon DEF Evidence
<1> QED BY <1>11, Zenon DEF u

LEMMA UnionEmpty ==
    ASSUME NEW s, \A i \in DOMAIN s : s[i].state.manifest.subjects = {} /\ Inputs(s[i]) = {}
    PROVE  Union(s).subjects = {} /\ DOMAIN Union(s).inputs = {}
<1>1. /\ UNION {s[i].state.manifest.subjects : i \in DOMAIN s} = {}
      /\ UNION {Inputs(s[i]) : i \in DOMAIN s} = {}
  OBVIOUS
<1>2. Union(s).subjects = IF \A i \in DOMAIN s : Carries(s[i])
                          THEN UNION {s[i].state.manifest.subjects : i \in DOMAIN s} ELSE {}
  BY UnionFields
<1>3. DOMAIN Union(s).inputs = UNION {Inputs(s[i]) : i \in DOMAIN s}
  BY UnionFields
<1> QED BY <1>1, <1>2, <1>3, Zenon

LEMMA MergedEntry ==
    ASSUME NEW over, \A i \in DOMAIN over : IsEntry(over[i]),
           NEW s, s = [i \in DOMAIN over |-> over[i].obs],
           NEW torn \in BOOLEAN,
           ~torn => \A i \in DOMAIN over : ~over[i].torn /\ Unmoved(over[i].obs),
           Encodes(Union(s))
    PROVE  IsEntry(Entry(Merged(s), UNION {over[i].runs : i \in DOMAIN over}, torn))
<1> DEFINE u == Union(s)
           runs == UNION {over[i].runs : i \in DOMAIN over}
           R == Records(s)
<1>1. DOMAIN s = DOMAIN over /\ \A i \in DOMAIN over : s[i] = over[i].obs
  OBVIOUS
<1>2. IsManifest(u)
  BY UnionFields
<1>3. \A i \in DOMAIN s : /\ IsObservation(s[i])
                          /\ s[i].records = {} => over[i].runs = {}
                          /\ s[i].records = {} => s[i].state.manifest.subjects = {} /\ Inputs(s[i]) = {}
  BY <1>1, Zenon DEF IsEntry, IsObservation, Inputs
<1>4. R = {} => u.subjects = {} /\ DOMAIN u.inputs = {} /\ runs = {}
  <2> SUFFICES ASSUME R = {}
               PROVE  u.subjects = {} /\ DOMAIN u.inputs = {} /\ runs = {}
    OBVIOUS
  <2>1. \A i \in DOMAIN s : s[i].records = {}
    BY DEF Records
  <2>2. \A i \in DOMAIN s : over[i].runs = {} /\ s[i].state.manifest.subjects = {} /\ Inputs(s[i]) = {}
    BY <1>3, <2>1, Zenon
  <2>3. runs = {}
    BY <1>1, <2>2
  <2>7. u.subjects = {} /\ DOMAIN u.inputs = {}
    BY <2>2, UnionEmpty, Zenon
  <2> QED BY <2>3, <2>7, Zenon
<1>5. ASSUME NEW r \in runs
      PROVE  /\ Evidence(r, u)
             /\ ~torn /\ ~r.sure => Evaluated(u).unverifiable
             /\ ~torn /\ ~Evaluated(u).unverifiable => SameReads(r)
  <2>1. PICK j \in DOMAIN over : r \in over[j].runs
    OBVIOUS
  <2>2. /\ j \in DOMAIN s /\ s[j] = over[j].obs /\ IsObservation(s[j]) /\ s[j].records # {}
    BY <1>1, <1>3, <2>1
  <2>3. /\ Keeps(r, s[j].state)
        /\ ~r.sure /\ ~over[j].torn => s[j].state.unverifiable
        /\ ~over[j].torn /\ ~s[j].state.unverifiable => Binds(r, s[j].state)
    BY <2>1, <2>2, Zenon DEF IsEntry
  <2>4. ~torn => ~over[j].torn /\ Unmoved(s[j])
    BY <2>2, Zenon
  <2>5. Evidence(r, u)
    BY <2>2, <2>3, UnionEvidence, Zenon
  <2>6. ~torn /\ s[j].state.unverifiable => Evaluated(u).unverifiable
    BY <2>2, <2>4, UnionDoubts, Zenon
  <2>7. ~torn /\ ~s[j].state.unverifiable => SameReads(r)
    BY <2>2, <2>3, <2>4, BindsTell, Zenon
  <2> HIDE DEF u
  <2> QED BY <2>3, <2>4, <2>5, <2>6, <2>7, Zenon
<1> HIDE DEF u, runs, R
<1>6. IsEntry(Entry([state |-> Evaluated(u), records |-> R], runs, torn))
  BY <1>2, <1>4, <1>5, EvaluatedEntry DEF u
<1> QED BY <1>6, Zenon DEF Merged, u, runs, R

(* A conversion keeps the classes under the new spelling.                     *)
LEMMA SpelledFields ==
    ASSUME NEW kind, NEW inputs, \A i \in DOMAIN inputs : inputs[i].metadata \in BOOLEAN
    PROVE  LET Respell(id) == IF id[1] = "env" THEN id ELSE <<kind, id[2]>>
               new == Spelled(kind, inputs)
           IN  /\ DOMAIN new = {Respell(i) : i \in DOMAIN inputs}
               /\ \A id \in DOMAIN new : new[id].metadata \in BOOLEAN
               /\ new = [id \in DOMAIN new |-> [metadata |-> new[id].metadata, digest |-> new[id].digest]]
               /\ \A i \in DOMAIN inputs : inputs[i].metadata => new[Respell(i)].metadata
<1> DEFINE Respell(id) == IF id[1] = "env" THEN id ELSE <<kind, id[2]>>
           From(id) == {i \in DOMAIN inputs : Respell(i) = id}
           meta(id) == \E i \in From(id) : inputs[i].metadata
           old(id) == inputs[CHOOSE i \in From(id) : TRUE].digest
           new == Spelled(kind, inputs)
           domain == {Respell(i) : i \in DOMAIN inputs}
<1>1. new = [id \in domain |-> [metadata |-> meta(id), digest |-> old(id)]]
  BY Zenon DEF Spelled
<1>2. \A id : meta(id) \in BOOLEAN
  OBVIOUS
<1>3. \A i \in DOMAIN inputs : Respell(i) \in domain /\ (inputs[i].metadata => meta(Respell(i)))
  <2> TAKE i \in DOMAIN inputs
  <2>1. i \in From(Respell(i))
    <3> HIDE DEF Respell
    <3> QED OBVIOUS
  <2>2. Respell(i) \in domain
    <3> HIDE DEF Respell
    <3> QED OBVIOUS
  <2> HIDE DEF Respell, From
  <2> QED BY <2>1, <2>2, Zenon
<1> HIDE DEF meta, old, domain, new
<1>4. /\ DOMAIN new = domain /\ \A id \in domain : new[id].metadata = meta(id)
      /\ new = [id \in DOMAIN new |-> [metadata |-> new[id].metadata, digest |-> new[id].digest]]
  BY <1>1
<1>5. \A id \in DOMAIN new : new[id].metadata \in BOOLEAN
  BY <1>2, <1>4, Zenon
<1> HIDE DEF Respell
<1>6. \A i \in DOMAIN inputs : inputs[i].metadata => new[Respell(i)].metadata
  BY <1>3, <1>4, Zenon
<1> QED BY <1>4, <1>5, <1>6, Zenon DEF domain, new, Respell

LEMMA ManifestExcept ==
    ASSUME NEW k, NEW why, NEW spelled,
           k = [subjects |-> k.subjects, moved |-> k.moved, reasons |-> k.reasons, inputs |-> k.inputs]
    PROVE  [k EXCEPT !.reasons = why, !.inputs = spelled]
             = [subjects |-> k.subjects, moved |-> k.moved, reasons |-> why, inputs |-> spelled]
<1> DEFINE new == [x \in DOMAIN k |-> IF x = "inputs" THEN spelled
                                     ELSE IF x = "reasons" THEN why ELSE k[x]]
<1>1. [k EXCEPT !.reasons = why, !.inputs = spelled] = new
  OBVIOUS
<1>2. new = [subjects |-> k.subjects, moved |-> k.moved, reasons |-> why, inputs |-> spelled]
  OBVIOUS
<1> QED BY <1>1, <1>2, Zenon

LEMMA ConvertedEntry ==
    ASSUME NEW e, IsEntry(e), NEW kind \in {"abs", "rel"}, NEW torn \in BOOLEAN,
           ~torn => ~e.torn /\ Unmoved(e.obs)
    PROVE  IsEntry(Entry(Converted(kind, e.obs), e.runs, torn))
<1> DEFINE Respell(id) == IF id[1] = "env" THEN id ELSE <<kind, id[2]>>
           o == e.obs
           k == o.state.manifest
           inputs == Spelled(kind, k.inputs)
           why == IF o.state.unverifiable THEN k.reasons \cup {o.state.reason} ELSE k.reasons
           m == [k EXCEPT !.reasons = why, !.inputs = inputs]
           R == {[r EXCEPT !.view = <<kind, r.origin>>] : r \in o.records}
<1>1. IsObservation(o) /\ IsManifest(k) /\ o.state.moved = k.moved
  BY UnmovedDigests, Zenon DEF IsEntry
<1>2. \A i \in DOMAIN k.inputs : k.inputs[i].metadata \in BOOLEAN
  BY <1>1, Zenon DEF IsManifest
<1>3. /\ DOMAIN inputs = {Respell(i) : i \in DOMAIN k.inputs}
      /\ \A id \in DOMAIN inputs : inputs[id].metadata \in BOOLEAN
      /\ inputs = [id \in DOMAIN inputs |-> [metadata |-> inputs[id].metadata, digest |-> inputs[id].digest]]
      /\ \A i \in DOMAIN k.inputs : k.inputs[i].metadata => inputs[Respell(i)].metadata
  <2> HIDE DEF k
  <2> QED BY <1>2, SpelledFields, Zenon
<1>4. k = [subjects |-> k.subjects, moved |-> k.moved, reasons |-> k.reasons, inputs |-> k.inputs]
      /\ k.moved \in BOOLEAN
  BY <1>1, Zenon DEF IsManifest
<1> HIDE DEF why, inputs, k, Respell
<1>5. /\ m.subjects = k.subjects /\ m.moved = k.moved /\ m.reasons = why /\ m.inputs = inputs
      /\ m = [subjects |-> m.subjects, moved |-> m.moved, reasons |-> m.reasons, inputs |-> m.inputs]
  <2>1. m = [subjects |-> k.subjects, moved |-> k.moved, reasons |-> why, inputs |-> inputs]
    BY <1>4, ManifestExcept
  <2> HIDE DEF m
  <2> QED BY <2>1
<1> HIDE DEF m
<1>6. IsManifest(m)
  BY <1>3, <1>4, <1>5, Zenon DEF IsManifest
<1>7. k.subjects = {} \/ \A i \in DOMAIN k.inputs : i[1] = "env"
  BY <1>1 DEF k, IsObservation, Encodes, Paths
<1>8. \A i : i[1] = "env" => Respell(i) = i
  BY Zenon DEF Respell
<1>9. Encodes(m)
  <2>1. ASSUME \A i \in DOMAIN k.inputs : i[1] = "env"
        PROVE  \A id \in DOMAIN m.inputs : id[1] = "env"
    BY <1>3, <1>5, <1>8, <2>1
  <2> QED BY <1>5, <1>7, <2>1 DEF Encodes, Paths
<1>10. R = {} => o.records = {}
  OBVIOUS
<1>11. o.records = {} => k.subjects = {} /\ DOMAIN k.inputs = {} /\ e.runs = {}
  BY Zenon DEF k, IsEntry, IsObservation
<1>12. R = {} => m.subjects = {} /\ DOMAIN m.inputs = {} /\ e.runs = {}
  <2>1. DOMAIN k.inputs = {} => DOMAIN inputs = {}
    BY <1>3
  <2> HIDE DEF R, o
  <2> QED BY <1>5, <1>10, <1>11, <2>1, Zenon
<1>13. o.state.unverifiable => Evaluated(m).unverifiable
  <2>1. o.state.unverifiable => why # {}
    BY DEF why
  <2> HIDE DEF o
  <2> QED BY <1>5, <1>6, <2>1, EvaluatedFields, Zenon
<1>14. ASSUME NEW r \in e.runs
       PROVE  /\ Evidence(r, m)
              /\ ~torn /\ ~r.sure => Evaluated(m).unverifiable
              /\ ~torn /\ ~Evaluated(m).unverifiable => SameReads(r)
  <2>1. /\ Keeps(r, o.state)
        /\ ~r.sure /\ ~e.torn => o.state.unverifiable
        /\ ~e.torn /\ ~o.state.unverifiable => Binds(r, o.state)
    BY Zenon DEF IsEntry
  <2>2. r.moved => m.moved
    BY <1>1, <1>5, <2>1, Zenon DEF Keeps
  <2>3. m.subjects # {} => r.subjects # {} /\ r.subjects \subseteq m.subjects
    BY <1>5, <2>1, Zenon DEF Keeps, k
  <2>4. ASSUME NEW id \in DOMAIN r.read
        PROVE  \E i \in DOMAIN m.inputs : i[2] = id[2] /\ (r.stat[id] => m.inputs[i].metadata)
    <3>1. PICK i \in DOMAIN k.inputs : i[2] = id[2] /\ (r.stat[id] => k.inputs[i].metadata)
      BY <2>1, Zenon DEF Keeps, k
    <3>2. Respell(i) \in DOMAIN m.inputs
      BY <1>3, <1>5
    <3>3. Respell(i)[2] = i[2]
      BY DEF Respell
    <3> QED BY <1>3, <1>5, <3>1, <3>2, <3>3, Zenon
  <2>5. Evidence(r, m)
    BY <2>2, <2>3, <2>4, Zenon DEF Evidence
  <2>6. ~torn /\ ~o.state.unverifiable => SameReads(r)
    <3> HIDE DEF o
    <3>1. ~torn => ~e.torn /\ Unmoved(o)
      BY Zenon DEF o
    <3> QED BY <1>1, <2>1, <3>1, BindsTell, Zenon
  <2> HIDE DEF o
  <2>7. ~torn => ~e.torn
    OBVIOUS
  <2> QED BY <1>13, <2>1, <2>5, <2>6, <2>7, Zenon
<1> HIDE DEF R
<1>15. IsEntry(Entry([state |-> Evaluated(m), records |-> R], e.runs, torn))
  BY <1>6, <1>9, <1>12, <1>14, EvaluatedEntry
<1>16. Converted(kind, o) = [state |-> Evaluated(m), records |-> R]
  BY Zenon DEF Converted, m, R, why, inputs, k
<1> QED BY <1>15, <1>16, Zenon

-----------------------------------------------------------------------------
(* The invariant holds at first, and every action keeps it.                   *)

LEMMA NoJobFits ==
    ASSUME NEW entries
    PROVE  IsJob(NoJob, entries) /\ NoJob.checked = 0
<1>1. NoJob.kind = "none" /\ NoJob.over = <<>> /\ NoJob.checked = 0 /\ NoJob.torn = FALSE
  BY DEF NoJob
<1>2. <<>> \in Seq(entries) /\ Len(<<>>) = 0
  OBVIOUS
<1>3. NoJob = [kind |-> NoJob.kind, over |-> NoJob.over, checked |-> NoJob.checked, torn |-> NoJob.torn]
  BY DEF NoJob
<1>4. NoJob.over \in Seq(entries) /\ NoJob.checked \in 0..Len(NoJob.over)
  BY <1>1, <1>2
<1>5. NoJob.kind \notin {"abs", "rel"} /\ NoJob.kind \in {"none", "merge", "abs", "rel"}
  BY <1>1
<1> QED BY <1>1, <1>3, <1>4, <1>5, Zenon DEF IsJob

LEMMA InitInv ==
    ASSUME Init PROVE Inv
<1>1. pool = {} /\ job = NoJob
  BY DEF Init
<1>2. Pool
  BY <1>1 DEF Pool
<1>3. Job
  BY <1>1, NoJobFits DEF Job
<1>4. Looked
  BY <1>1 DEF Looked
<1> QED BY <1>2, <1>3, <1>4 DEF Inv

(* What is unmoved stays so while the world does.                             *)
LEMMA UnmovedStays ==
    ASSUME NEW o, world' = world
    PROVE  Unmoved(o) <=> Unmoved(o)'
BY Zenon DEF Unmoved, Evaluated, Digested, Digest, Refused

(* Without a job nothing has been looked at.                                  *)
LEMMA IdleLooked ==
    ASSUME job' = NoJob PROVE Looked' /\ Job'
<1>1. job'.checked = 0 /\ IsJob(job', pool')
  BY NoJobFits
<1> QED BY <1>1 DEF Looked, Job

LEMMA EntryJoins ==
    ASSUME Inv, NEW e, IsEntry(e), pool' = pool \cup {e} \/ pool' \subseteq pool \cup {e}, job' = NoJob
    PROVE  Inv'
<1>1. Pool'
  BY DEF Inv, Pool
<1> QED BY <1>1, IdleLooked DEF Inv

LEMMA MoveKeeps ==
    ASSUME Inv, NEW o, NEW x, Move(o, x)
    PROVE  Inv'
<1>1. pool' = pool /\ job' = [job EXCEPT !.torn = ~Idle] /\ IsJob(job, pool)
  BY DEF Move, Inv, Job
<1>2. Pool'
  BY <1>1 DEF Inv, Pool
<1> DEFINE moving == ~Idle
<1>3. moving \in BOOLEAN /\ (moving <=> job.kind # "none")
  BY DEF Idle
<1>4. job' = [job EXCEPT !.torn = moving]
  BY <1>1
<1> HIDE DEF moving
<1>5. /\ job'.kind = job.kind /\ job'.over = job.over /\ job'.checked = job.checked /\ job'.torn = moving
      /\ job' = [kind |-> job'.kind, over |-> job'.over, checked |-> job'.checked, torn |-> job'.torn]
  BY <1>1, <1>4 DEF IsJob
<1>6. CASE moving
  <2>1. job.kind # "none"
    BY <1>3, <1>6
  <2>2. IsJob(job', pool)
    BY <1>1, <1>3, <1>5, <2>1, Zenon DEF IsJob
  <2>3. Job' /\ Looked'
    BY <1>1, <1>5, <1>6, <2>2, Zenon DEF Job, Looked
  <2> QED BY <1>2, <2>3 DEF Inv
<1>7. CASE ~moving
  <2>1. job = NoJob
    BY <1>1, <1>3, <1>7, Zenon DEF IsJob
  <2>2. job'.torn = FALSE /\ NoJob.torn = FALSE
    BY <1>3, <1>5, <1>7 DEF NoJob
  <2>3. job' = NoJob
    BY <1>5, <2>1, <2>2 DEF NoJob
  <2> QED BY <1>2, <2>3, IdleLooked DEF Inv
<1> QED BY <1>6, <1>7

LEMMA StartKeeps ==
    ASSUME Inv, NEW p \in Processes,
           \/ Incomplete(p)
           \/ \E r \in Readings : Complete(p, r)
           \/ \E e \in pool : Adopt(e, p)
    PROVE  Inv'
<1>1. Idle /\ job' = job
  BY DEF Incomplete, Complete, Adopt, Starts, Room
<1>2. job' = NoJob
  BY <1>1 DEF Inv, Job, IsJob, Idle
<1>3. CASE Incomplete(p)
  <2> DEFINE m == [NoManifest EXCEPT !.reasons = {<<"incomplete">>}]
             run == [process |-> p, read |-> <<>>, stat |-> <<>>, moved |-> FALSE, sure |-> FALSE,
                     subjects |-> {}]
             e == Entry(Made(Evaluated(m), p, "incomplete"), {run}, FALSE)
  <2>1. pool' = pool \cup {e}
    BY <1>3, Zenon DEF Incomplete
  <2>2. IsEntry(e)
    BY IncompleteEntry, Zenon
  <2> HIDE DEF e
  <2> QED BY <1>2, <2>1, <2>2, EntryJoins, Zenon
<1>4. ASSUME NEW r \in Readings, Complete(p, r)
      PROVE  Inv'
  <2> DEFINE m == [subjects |-> r.subjects, moved |-> r.moved,
                   reasons |-> IF r.moved THEN {<<"bracket moved">>} ELSE {},
                   inputs |-> [id \in DOMAIN r.reads |-> [metadata |-> r.reads[id], digest |-> <<>>]]]
             run == [process |-> p, read |-> [id \in DOMAIN r.reads |-> world[id[2]]],
                     stat |-> r.reads, moved |-> r.moved, sure |-> ~Evaluated(m).unverifiable,
                     subjects |-> r.subjects]
             e == Entry(Made(Evaluated(m), p, "completed"), {run}, FALSE)
  <2>1. pool' = pool \cup {e} /\ Encodes(m)
    BY <1>4, Zenon DEF Complete
  <2>2. IsEntry(e)
    BY <2>1, CompleteEntry, Zenon
  <2> HIDE DEF e
  <2> QED BY <1>2, <2>1, <2>2, EntryJoins, Zenon
<1>5. ASSUME NEW e \in pool, Adopt(e, p)
      PROVE  Inv'
  <2> DEFINE n == Entry(Made(Evaluated(e.obs.state.manifest), p, "adopted"), e.runs, e.torn)
  <2>1. pool' = pool \cup {n} /\ Evaluated(e.obs.state.manifest).manifest = e.obs.state.manifest
    BY <1>5, Zenon DEF Adopt
  <2>2. IsEntry(e)
    BY DEF Inv, Pool
  <2>3. IsEntry(n)
    BY <2>1, <2>2, AdoptEntry, Zenon
  <2> HIDE DEF n
  <2> QED BY <1>2, <2>1, <2>3, EntryJoins, Zenon
<1> QED BY <1>3, <1>4, <1>5

LEMMA BeginKeeps ==
    ASSUME Inv, NEW kind, NEW entries, entries \in Seq(pool), Begin(kind, entries),
           kind = "merge" \/ (kind \in {"abs", "rel"} /\ Len(entries) = 1)
    PROVE  Inv'
<1>1. /\ pool' = pool
      /\ job' = [kind |-> kind, over |-> entries, checked |-> 0, torn |-> FALSE]
  BY DEF Begin
<1>2. job'.kind = kind /\ job'.over = entries /\ job'.checked = 0 /\ job'.torn = FALSE
  BY <1>1
<1>3. job' = [kind |-> job'.kind, over |-> job'.over, checked |-> job'.checked, torn |-> job'.torn]
  BY <1>1
<1>4. job'.checked \in 0..Len(job'.over)
  <2>1. Len(entries) \in Nat
    OBVIOUS
  <2> QED BY <1>2, <2>1
<1>5. kind \in {"none", "merge", "abs", "rel"} /\ kind # "none" /\ (kind \in {"abs", "rel"} => Len(entries) = 1)
  OBVIOUS
<1>6. IsJob(job', pool')
  BY <1>1, <1>2, <1>3, <1>4, <1>5, Zenon DEF IsJob
<1>7. Looked'
  BY <1>2 DEF Looked
<1>8. Pool'
  BY <1>1 DEF Inv, Pool
<1> QED BY <1>6, <1>7, <1>8 DEF Inv, Job

LEMMA CheckKeeps ==
    ASSUME Inv, Check
    PROVE  Inv'
<1>1. world' = world /\ pool' = pool /\ job.checked < Len(job.over)
  BY DEF Check
<1>2. Pool'
  BY <1>1 DEF Inv, Pool
<1>3. CASE job' = NoJob
  BY <1>2, <1>3, IdleLooked DEF Inv
<1>4. CASE job' # NoJob
  <2>1. Unmoved(job.over[job.checked + 1].obs) /\ job' = [job EXCEPT !.checked = @ + 1] /\ job.kind # "none"
    BY <1>4, Zenon DEF Check, Idle
  <2>2. IsJob(job, pool)
    BY DEF Inv, Job
  <2>3. /\ job'.kind = job.kind /\ job'.over = job.over /\ job'.torn = job.torn
        /\ job'.checked = job.checked + 1
        /\ job' = [kind |-> job'.kind, over |-> job'.over, checked |-> job'.checked, torn |-> job'.torn]
    BY <2>1, <2>2 DEF IsJob
  <2>4. job.checked \in Nat /\ Len(job.over) \in Nat /\ job'.checked \in 0..Len(job'.over)
    BY <1>1, <2>2, <2>3 DEF IsJob
  <2>5. IsJob(job', pool')
    BY <1>1, <2>1, <2>2, <2>3, <2>4, Zenon DEF IsJob
  <2>6. ASSUME ~job'.torn, NEW e \in pool', NEW i \in 1..job'.checked, job'.over[i] = e
        PROVE  Unmoved(e.obs)'
    <3>1. ~job.torn /\ e \in pool /\ job.over[i] = e
      BY <1>1, <2>3, <2>6, Zenon
    <3>2. CASE i = job.checked + 1
      BY <1>1, <2>1, <3>1, <3>2, UnmovedStays, Zenon
    <3>3. CASE i # job.checked + 1
      <4>1. i \in 1..job.checked
        BY <2>3, <2>4, <3>3
      <4>2. Unmoved(e.obs)
        BY <3>1, <4>1, Zenon DEF Inv, Looked
      <4> QED BY <1>1, <4>2, UnmovedStays, Zenon
    <3> QED BY <3>2, <3>3
  <2>7. Looked'
    BY <2>6, Zenon DEF Looked
  <2> QED BY <1>2, <2>5, <2>7 DEF Inv, Job
<1> QED BY <1>3, <1>4

LEMMA FinishKeeps ==
    ASSUME Inv, Finish
    PROVE  Inv'
<1> DEFINE over == job.over
           all == Upto(Len(job.over))
           runs == UNION {job.over[i].runs : i \in DOMAIN job.over}
           torn == job.torn \/ \E i \in DOMAIN job.over : job.over[i].torn
<1>1. /\ job.kind # "none" /\ job.checked = Len(job.over) /\ job' = NoJob
      /\ \/ job.kind = "merge" /\ Encodes(Union(all)) /\ pool' = pool \cup {Entry(Merged(all), runs, torn)}
         \/ /\ job.kind # "merge"
            /\ pool' = (pool \ {job.over[1]}) \cup {Entry(Converted(job.kind, all[1]), runs, torn)}
  BY Zenon DEF Finish, Idle
<1>2. IsJob(job, pool)
  BY DEF Inv, Job
<1>3. DOMAIN over = 1..Len(over) /\ \A i \in DOMAIN over : over[i] \in pool
  BY <1>2 DEF IsJob
<1>4. \A i \in DOMAIN over : IsEntry(over[i])
  BY <1>3 DEF Inv, Pool
<1>5. ~job.torn => \A i \in DOMAIN over : Unmoved(over[i].obs)
  BY <1>1, <1>3, Zenon DEF Inv, Looked
<1>6. all = [i \in DOMAIN over |-> over[i].obs]
  BY <1>3, Zenon DEF Upto
<1>7. torn \in BOOLEAN
  BY <1>2, <1>4, Zenon DEF IsJob, IsEntry
<1>8. ~torn => \A i \in DOMAIN over : ~over[i].torn /\ Unmoved(over[i].obs)
  BY <1>5, Zenon
<1> HIDE DEF all, torn
<1>9. CASE job.kind = "merge"
  <2>1. Encodes(Union(all)) /\ pool' = pool \cup {Entry(Merged(all), runs, torn)}
    BY <1>1, <1>9, Zenon
  <2>2. IsEntry(Entry(Merged(all), runs, torn))
    BY <1>4, <1>6, <1>7, <1>8, <2>1, MergedEntry
  <2> HIDE DEF runs
  <2> QED BY <1>1, <2>1, <2>2, EntryJoins, Zenon
<1>10. CASE job.kind # "merge"
  <2>1. job.kind \in {"abs", "rel"} /\ Len(over) = 1
    BY <1>1, <1>2, <1>10, Zenon DEF IsJob
  <2> DEFINE e == job.over[1]
  <2>2. DOMAIN over = {1} /\ 1 \in DOMAIN over
    BY <1>3, <2>1
  <2>3. all[1] = e.obs /\ runs = e.runs
    BY <1>6, <2>2
  <2>4. IsEntry(e) /\ (~torn => ~e.torn /\ Unmoved(e.obs))
    BY <1>4, <1>8, <2>2, Zenon
  <2> HIDE DEF e, runs
  <2>5. pool' = (pool \ {e}) \cup {Entry(Converted(job.kind, e.obs), e.runs, torn)}
    BY <1>1, <1>10, <2>3, Zenon DEF e
  <2>6. IsEntry(Entry(Converted(job.kind, e.obs), e.runs, torn))
    BY <1>7, <2>1, <2>4, ConvertedEntry
  <2> DEFINE n == Entry(Converted(job.kind, e.obs), e.runs, torn)
  <2> HIDE DEF n
  <2>7. pool' \subseteq pool \cup {n} /\ IsEntry(n)
    BY <2>5, <2>6 DEF n
  <2> QED BY <1>1, <2>7, EntryJoins, Zenon
<1> QED BY <1>9, <1>10

LEMMA NextKeeps ==
    ASSUME Inv, [Next]_vars
    PROVE  Inv'
<1>1. ASSUME NEW o \in Objects, NEW x \in Turns[o], Move(o, x)
      PROVE  Inv'
  BY <1>1, MoveKeeps
<1>2. ASSUME NEW p \in Processes,
             Incomplete(p) \/ (\E r \in Readings : Complete(p, r)) \/ (\E e \in pool : Adopt(e, p))
      PROVE  Inv'
  BY <1>2, StartKeeps
<1>3. ASSUME NEW e \in pool, NEW kind \in {"abs", "rel"}, Begin(kind, <<e>>)
      PROVE  Inv'
  <2>1. <<e>> \in Seq(pool) /\ Len(<<e>>) = 1
    OBVIOUS
  <2> QED BY <1>3, <2>1, BeginKeeps
<1>4. ASSUME NEW entries \in Seq(pool), Begin("merge", entries)
      PROVE  Inv'
  BY <1>4, BeginKeeps
<1>7. \A n \in 0..MaxMerge : \A entries \in [1..n -> pool] : entries \in Seq(pool)
  <2> TAKE n \in 0..MaxMerge
  <2>1. n \in Nat
    BY ObservationsAssumption
  <2> QED BY <2>1
<1>5. CASE UNCHANGED vars
  <2>1. world' = world /\ pool' = pool /\ job' = job
    BY <1>5 DEF vars
  <2>2. Pool' /\ Job'
    BY <2>1 DEF Inv, Pool, Job
  <2>3. Looked'
    BY <2>1, UnmovedStays, Zenon DEF Inv, Looked
  <2> QED BY <2>2, <2>3 DEF Inv
<1>6. CASE Next
  BY <1>1, <1>2, <1>3, <1>4, <1>6, <1>7, CheckKeeps, FinishKeeps, Zenon DEF Next
<1> QED BY <1>5, <1>6

LEMMA Invariance == Spec => []Inv
BY InitInv, NextKeeps, PTL DEF Spec

-----------------------------------------------------------------------------
(* The theorems.                                                              *)

(* Whatever merges, adoptions and conversions an observation went through      *)
(* (observation.go), the movement of a run's bracket, its lack of outcome      *)
(* support, its inputs and its doubt are in it, for any processes, inputs and  *)
(* numbers of runs and moves.                                                 *)
THEOREM EvidenceIsKept == Spec => []NothingIsLost
<1>1. ASSUME Inv PROVE NothingIsLost
  <2> SUFFICES ASSUME NEW e \in pool, NEW r \in e.runs
               PROVE  /\ r.moved => e.obs.state.moved
                      /\ e.obs.state.manifest.subjects # {} =>
                            r.subjects # {} /\ r.subjects \subseteq e.obs.state.manifest.subjects
                      /\ ~r.sure /\ ~e.torn => e.obs.state.unverifiable
                      /\ \A id \in DOMAIN r.read : \E i \in DOMAIN e.obs.state.manifest.inputs :
                          i[2] = id[2] /\ (r.stat[id] => e.obs.state.manifest.inputs[i].metadata)
    BY Zenon DEF NothingIsLost
  <2>1. Keeps(r, e.obs.state) /\ (~r.sure /\ ~e.torn => e.obs.state.unverifiable)
    BY <1>1, Zenon DEF Inv, Pool, IsEntry
  <2> QED BY <2>1, Zenon DEF Keeps
<1> QED BY <1>1, Invariance, PTL

LEMMA EntryTells ==
    ASSUME Inv, NEW e \in pool, ~e.torn, Unmoved(e.obs), ~e.obs.state.unverifiable, NEW r \in e.runs
    PROVE  SameReads(r)
<1>1. IsObservation(e.obs) /\ Binds(r, e.obs.state)
  BY Zenon DEF Inv, Pool, IsEntry
<1> QED BY <1>1, BindsTell, Zenon

(* An observation that a check (runtimeinput's manifestUnmoved) still takes    *)
(* for good tells the inputs its runs read from all others, directories        *)
(* excepted, however it was merged, adopted or converted.                     *)
THEOREM FileChangesAreSeen == Spec => []FileChangeIsSeen
<1>1. ASSUME Inv PROVE FileChangeIsSeen
  BY <1>1, EntryTells, Zenon DEF FileChangeIsSeen, SameReads
<1> QED BY <1>1, Invariance, PTL

(* In a module none of whose inputs is a listed directory, ChangeIsSeen as it  *)
(* stands: with one it is false of the code, which binds a directory outside   *)
(* of the module by its existence only.                                       *)
THEOREM ChangesAreSeen ==
    ASSUME Dirs = {}
    PROVE  Spec => []ChangeIsSeen
<1>1. ASSUME FileChangeIsSeen PROVE ChangeIsSeen
  <2>1. \A x : x \notin Dirs
    OBVIOUS
  <2> QED BY <1>1, <2>1, Zenon DEF FileChangeIsSeen, ChangeIsSeen
<1> QED BY <1>1, FileChangesAreSeen, PTL

(* runtimeinput.Merge is idempotent, commutative and associative on every      *)
(* observation the code can make, however many and of whatever inputs.        *)
THEOREM MergesAgree == Spec => []MergeAlgebra
<1>1. ASSUME Inv PROVE MergeAlgebra
  BY <1>1, PoolGivesAlgebra DEF Inv
<1> QED BY <1>1, Invariance, PTL

=============================================================================
