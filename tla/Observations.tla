---------------------------- MODULE Observations ----------------------------
(* runtimeinput/observation.go and manifest.go: what a process observed is a  *)
(* sealed value, a manifest of identities with the digest each had. Values    *)
(* are merged, adopted from their encoding and converted between the          *)
(* module-relative and the absolute form, while the inputs may move.          *)
EXTENDS Naturals, Sequences, FiniteSets

CONSTANTS
    Processes,    \* identities of producing processes
    Names,        \* environment names
    Files,        \* files of the module
    Dirs,         \* directories of the module
    Links,        \* links of the module to something outside of it
    Stamps,       \* <<content, time>>: what an object can be
    Initial,      \* the stamp every object starts with
    Turns,        \* what each object may turn into
    Subjects,     \* subjects that an execution can support
    Readings,     \* what a process may do: what it reads (identity -> by a stat),
                  \* whether its bracket moves, which subjects it supports
    MaxRuns,      \* bound on the runs
    MaxPool,      \* bound on the observations
    MaxMerge,     \* bound on the inputs of a merge
    MaxMoves      \* bound on the moves of the inputs

Objects == Names \cup Files \cup Dirs \cup Links
Identities == ({"env"} \X Names) \cup ({"rel", "abs"} \X (Files \cup Dirs \cup Links))
Missing == <<>>

ASSUME ObservationsAssumption ==
    /\ Initial \in Stamps /\ Missing \notin Stamps
    /\ Turns \in [Objects -> SUBSET (Stamps \cup {Missing})]
    /\ \A r \in Readings :
        /\ DOMAIN r.reads \subseteq Identities /\ \A id \in DOMAIN r.reads : r.reads[id] \in BOOLEAN
        /\ r.moved \in BOOLEAN /\ r.subjects \subseteq Subjects
    /\ MaxRuns \in Nat /\ MaxPool \in Nat /\ MaxMerge \in Nat /\ MaxMoves \in Nat

VARIABLES
    world,   \* the stamp of every object, or Missing
    pool,    \* the observations made, each with the runs it speaks of
    job,     \* the merge or conversion under way
    moves    \* moves so far
vars == <<world, pool, job, moves>>

-----------------------------------------------------------------------------
(* Manifests and states.                                                      *)

NoManifest == [subjects |-> {}, moved |-> FALSE, reasons |-> {}, inputs |-> <<>>]
Paths(m) == {id \in DOMAIN m.inputs : id[1] # "env"}
Encodes(m) == m.subjects = {} \/ Paths(m) = {}

(* The digest of an identity: an absolute directory binds its existence, a    *)
(* link that leaves the module is not followed in the relative form, and only *)
(* a stat binds the time.                                                     *)
Digest(id, metadata) ==
    LET now == world[id[2]] IN
    CASE now = Missing -> Missing
      [] now # Missing /\ id[2] \in Links /\ id[1] = "rel" -> <<"external">>
      [] now # Missing /\ id[2] \in Dirs /\ id[1] = "abs" -> <<"exists">>
      [] OTHER -> IF metadata THEN now ELSE <<Head(now)>>
Refused(id) == id[1] = "rel" /\ id[2] \in Links /\ world[id[2]] # Missing

First(S) == IF S = {} THEN <<>> ELSE CHOOSE x \in S : TRUE
Digested(m) ==
    [m EXCEPT !.inputs =
        [id \in DOMAIN @ |-> [metadata |-> @[id].metadata, digest |-> Digest(id, @[id].metadata)]]]
Evaluated(m) ==
    LET refused == {<<"external", id>> : id \in {i \in DOMAIN m.inputs : Refused(i)}} IN
    [manifest |-> Digested(m), moved |-> m.moved,
     unverifiable |-> m.reasons # {} \/ refused # {},
     reason |-> IF m.reasons # {} THEN First(m.reasons) ELSE First(refused)]

(* The inputs of several manifests: an identity seen twice keeps the stronger *)
(* class; the digests are computed anew.                                      *)
With(ms, id) == {i \in DOMAIN ms : id \in DOMAIN ms[i].inputs}
\* Plausible mistake: the class of the first observation stays.
UpsertFirst(ms) ==
    [id \in UNION {DOMAIN ms[i].inputs : i \in DOMAIN ms} |->
        [metadata |-> ms[CHOOSE i \in With(ms, id) : \A j \in With(ms, id) : i <= j].inputs[id].metadata,
         digest |-> Missing]]
Upsert(ms) ==
    [id \in UNION {DOMAIN ms[i].inputs : i \in DOMAIN ms} |->
        [metadata |-> \E i \in With(ms, id) : ms[i].inputs[id].metadata, digest |-> Missing]]

-----------------------------------------------------------------------------
(* Observations: a state and one record per process.                          *)

Made(state, p, disposition) ==
    LET origin == <<p, disposition, state.manifest>> IN
    [state |-> state, records |-> {[process |-> p, origin |-> origin, view |-> origin]}]

(* What a merge gathers from its inputs, in whatever order: outcome support   *)
(* only when every process had it.                                            *)
Supported(s) == \A i \in DOMAIN s : s[i].records # {} => s[i].state.manifest.subjects # {}
Union(s) ==
    LET ms == [i \in DOMAIN s |-> s[i].state.manifest] IN
    [subjects |-> IF Supported(s) THEN UNION {ms[i].subjects : i \in DOMAIN s} ELSE {},
     moved |-> \E i \in DOMAIN s : ms[i].moved,
     reasons |-> UNION {ms[i].reasons : i \in DOMAIN s},
     inputs |-> Upsert(ms)]
Records(s) == UNION {s[i].records : i \in DOMAIN s}
Conflict(s) == \E r, q \in Records(s) : r.process = q.process /\ r # q
Merged(s) == [state |-> Evaluated(Union(s)), records |-> Records(s)]

Unmoved(o) == Evaluated(o.state.manifest) = o.state

(* A conversion bakes in the reason its check found and re-spells every path. *)
Spelled(kind, inputs) ==
    LET Respell(id) == IF id[1] = "env" THEN id ELSE <<kind, id[2]>>
        From(id) == {i \in DOMAIN inputs : Respell(i) = id}
    IN  [id \in {Respell(i) : i \in DOMAIN inputs} |->
            [metadata |-> \E i \in From(id) : inputs[i].metadata,
             digest |-> inputs[CHOOSE i \in From(id) : TRUE].digest]]
\* Plausible mistake: the reason the old form had is left behind.
ConvertedBare(kind, o) ==
    LET m == [o.state.manifest EXCEPT !.inputs = Spelled(kind, @)] IN
    [state |-> Evaluated(m),
     records |-> {[r EXCEPT !.view = <<kind, r.origin>>] : r \in o.records}]
Converted(kind, o) ==
    LET m == [o.state.manifest EXCEPT
                !.reasons = IF o.state.unverifiable THEN @ \cup {o.state.reason} ELSE @,
                !.inputs = Spelled(kind, @)]
    IN  [state |-> Evaluated(m),
         records |-> {[r EXCEPT !.view = <<kind, r.origin>>] : r \in o.records}]

-----------------------------------------------------------------------------
(* The world, and the runs. A run is what a process really did.               *)

NoJob == [kind |-> "none", over |-> <<>>, checked |-> 0, torn |-> FALSE]
Idle == job.kind = "none"

Init ==
    /\ world = [o \in Objects |-> Initial]
    /\ pool = {} /\ job = NoJob /\ moves = 0

(* An input changes, or is only touched, or goes; the contract of the code     *)
(* excludes it while a merge or a conversion looks (torn).                    *)
Move(o, x) ==
    /\ moves < MaxMoves /\ world[o] # x
    /\ world' = [world EXCEPT ![o] = x]
    /\ job' = [job EXCEPT !.torn = ~Idle]
    /\ moves' = moves + 1 /\ UNCHANGED pool

Entry(o, runs, torn) == [obs |-> o, runs |-> runs, torn |-> torn]
Room == Idle /\ Cardinality(pool) < MaxPool
Starts == Room /\ Cardinality(UNION {e.runs : e \in pool}) < MaxRuns

(* A process ended and its log was ingested: completely, after a move of its   *)
(* bracket, or not at all.                                                    *)
Complete(p, r) ==
    LET m == [subjects |-> r.subjects, moved |-> r.moved,
              reasons |-> IF r.moved THEN {<<"bracket moved">>} ELSE {},
              inputs |-> [id \in DOMAIN r.reads |-> [metadata |-> r.reads[id], digest |-> <<>>]]]
        run == [process |-> p, read |-> [id \in DOMAIN r.reads |-> world[id[2]]],
                stat |-> r.reads, moved |-> r.moved, sure |-> ~Evaluated(m).unverifiable,
                subjects |-> r.subjects]
    IN
    /\ Starts /\ Encodes(m)
    /\ pool' = pool \cup {Entry(Made(Evaluated(m), p, "completed"), {run}, FALSE)}
    /\ UNCHANGED <<world, job, moves>>
Incomplete(p) ==
    LET m == [NoManifest EXCEPT !.reasons = {<<"incomplete">>}]
        run == [process |-> p, read |-> <<>>, stat |-> <<>>, moved |-> FALSE, sure |-> FALSE,
                subjects |-> {}]
    IN
    /\ Starts
    /\ pool' = pool \cup {Entry(Made(Evaluated(m), p, "incomplete"), {run}, FALSE)}
    /\ UNCHANGED <<world, job, moves>>

(* A persisted manifest comes back under a name of the caller's choosing.      *)
Adopt(e, p) ==
    /\ Room /\ Evaluated(e.obs.state.manifest).manifest = e.obs.state.manifest
    /\ pool' = pool \cup {Entry(Made(Evaluated(e.obs.state.manifest), p, "adopted"), e.runs, e.torn)}
    /\ UNCHANGED <<world, job, moves>>

(* A merge and a conversion look at every input again, one after the other,   *)
(* and evaluate the result once more. After a conversion the caller goes on   *)
(* with the new form.                                                         *)
Begin(kind, entries) ==
    /\ IF kind = "merge" THEN Room ELSE Idle
    /\ job' = [kind |-> kind, over |-> entries, checked |-> 0, torn |-> FALSE]
    /\ UNCHANGED <<world, pool, moves>>
Upto(n) == [i \in 1..n |-> job.over[i].obs]
\* Plausible mistake: only the provenance of the inputs is looked at.
CheckRecords ==
    /\ ~Idle /\ job.checked < Len(job.over)
    /\ job' = IF ~Conflict(Upto(job.checked + 1)) THEN [job EXCEPT !.checked = @ + 1] ELSE NoJob
    /\ UNCHANGED <<world, pool, moves>>
Check ==
    /\ ~Idle /\ job.checked < Len(job.over)
    /\ job' = IF Unmoved(job.over[job.checked + 1].obs) /\ ~Conflict(Upto(job.checked + 1))
              THEN [job EXCEPT !.checked = @ + 1] ELSE NoJob
    /\ UNCHANGED <<world, pool, moves>>
Finish ==
    LET all == Upto(Len(job.over))
        runs == UNION {job.over[i].runs : i \in DOMAIN job.over}
        torn == job.torn \/ \E i \in DOMAIN job.over : job.over[i].torn
    IN
    /\ ~Idle /\ job.checked = Len(job.over)
    /\ \/ /\ job.kind = "merge" /\ Encodes(Union(all))
          /\ pool' = pool \cup {Entry(Merged(all), runs, torn)}
       \/ /\ job.kind # "merge"
          /\ pool' = (pool \ {job.over[1]}) \cup {Entry(Converted(job.kind, all[1]), runs, torn)}
    /\ job' = NoJob /\ UNCHANGED <<world, moves>>

Next ==
    \/ \E o \in Objects : \E x \in Turns[o] : Move(o, x)
    \/ \E p \in Processes :
        \/ Incomplete(p) \/ \E r \in Readings : Complete(p, r)
        \/ \E e \in pool : Adopt(e, p)
    \/ \E e \in pool, kind \in {"abs", "rel"} : Begin(kind, <<e>>)
    \/ \E n \in 0..MaxMerge : \E entries \in [1..n -> pool] : Begin("merge", entries)
    \/ Check \/ Finish
Spec == Init /\ [][Next]_vars

-----------------------------------------------------------------------------
(* Properties.                                                                *)

(* What a run established against its own evidence stays with everything made *)
(* of it: the movement of its bracket, its lack of outcome support, an input it *)
(* read, and, unless an input moved within a merge or a conversion, a doubt.   *)
NothingIsLost ==
    \A e \in pool : \A r \in e.runs :
        /\ r.moved => e.obs.state.moved
        /\ e.obs.state.manifest.subjects # {} =>
              r.subjects # {} /\ r.subjects \subseteq e.obs.state.manifest.subjects
        /\ ~r.sure /\ ~e.torn => e.obs.state.unverifiable
        /\ \A id \in DOMAIN r.read : \E i \in DOMAIN e.obs.state.manifest.inputs :
            i[2] = id[2] /\ (r.stat[id] => e.obs.state.manifest.inputs[i].metadata)

(* An evidence that holds, holds of what the processes read: an input that is  *)
(* not what a run read it as, to the extent the run could tell, is seen by a   *)
(* check, however the evidence travelled.                                     *)
SameRead(id, stat, was) ==
    \/ was = world[id[2]]
    \/ ~stat /\ was # Missing /\ world[id[2]] # Missing /\ Head(was) = Head(world[id[2]])
ChangeIsSeen ==
    \A e \in pool : ~e.torn /\ Unmoved(e.obs) /\ ~e.obs.state.unverifiable =>
        \A r \in e.runs : \A id \in DOMAIN r.read : SameRead(id, r.stat[id], r.read[id])

(* A merge is commutative, associative and idempotent: the order in which the  *)
(* processes of a result are put together decides nothing.                    *)
MergeAlgebra ==
    LET fit == {o \in {e.obs : e \in pool} : Unmoved(o)}
        Good(s) == ~Conflict(s) /\ Encodes(Union(s))
    IN  Idle => \A a \in fit :
        /\ Merged(<<a>>) = a /\ Merged(<<a, a>>) = a
        /\ \A b \in fit \ {a} : Good(<<a, b>>) =>
            LET ab == Merged(<<a, b>>) IN
            /\ Good(<<b, a>>) /\ Merged(<<b, a>>) = ab
            /\ \A c \in fit \ {a, b} : Good(<<ab, c>>) =>
                /\ Good(<<b, c>>) /\ Good(<<a, Merged(<<b, c>>)>>)
                /\ Merged(<<ab, c>>) = Merged(<<a, Merged(<<b, c>>)>>)
=============================================================================
