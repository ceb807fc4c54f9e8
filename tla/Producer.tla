------------------------------ MODULE Producer ------------------------------
(* runtimeinput: one producing process between the capture of its frame and   *)
(* the observation made of its test log. The bracket's facts are captured,    *)
(* the process reads, mints scratch and ends, the log is classified, what is  *)
(* recorded is covered and digested, and the bracket is looked at again, all  *)
(* over a file system that others move.                                       *)
EXTENDS Naturals, Sequences, FiniteSets

CONSTANTS
    Paths,      \* the files and links of this instance
    Package,    \* the directory of the package itself: the one bracket root
    Place,      \* where a path is spelled to lie
    Dropped,    \* members of the package that the bracket excludes
    Silenced,   \* paths that the ingest excludes
    Start,      \* what each path may be before the capture
    Turns,      \* what each path may be turned into by others
    MaxReads,   \* bound on the operations of the process
    MaxMoves    \* bound on what others do

Absent == <<>>
Places == {"package", "namespace", "module", "temp", "guard", "external"}
Inside == {"package", "namespace", "module"}     \* spelled relative to the module
Members == {p \in Paths : Place[p] \in {"package", "namespace"}}

\* What others may put at a path: a file, or a link to a path of the instance;
\* "own" is what the process writes itself.
Foreign(kind, what) == what # "own" /\ (kind = "file" \/ (kind = "link" /\ what \in Paths))

\* Others may write under the temp root, but not remove: what is absent there
\* at the ingest is taken for scratch of the process (withEphemeralTempRoot).
ASSUME ProducerAssumption ==
    /\ Package \notin Paths /\ Place \in [Paths -> Places]
    /\ Dropped \subseteq Members /\ Silenced \subseteq Paths
    /\ MaxReads \in Nat /\ MaxMoves \in Nat
    /\ \A p \in Paths : \A n \in Start[p] :
          n = Absent \/ (n = <<n[1], n[2], 0>> /\ Foreign(n[1], n[2]))
    /\ \A p \in Paths : \A t \in Turns[p] :
          IF t[1] = "gone" THEN Place[p] # "temp" ELSE Foreign(t[1], t[2])

VARIABLES
    fs,        \* what each path is: Absent, <<"file", bytes, time>>, <<"link", path, time>>
    phase,     \* of the frame
    bracket,   \* the captured facts of the package directory
    log,       \* the operations the process logged
    entries,   \* path -> [metadata, digest, taken]: what the manifest records
    bound,     \* identities that bind existence alone
    reasons,   \* why the manifest is unverifiable
    next,      \* the log line that is classified next
    final,     \* the finished observation
    seen, began, changed, restored, clock   \* history, and the bound
vars == <<fs, phase, bracket, log, entries, bound, reasons, next, final,
          seen, began, changed, restored, clock>>
made == <<entries, bound, reasons, next, final>>
history == <<seen, began, changed, restored, clock>>

-----------------------------------------------------------------------------
(* The file system as the hasher sees it.                                     *)

Resolved(p) == IF fs[p] # Absent /\ fs[p][1] = "link" THEN fs[p][2] ELSE p
Object(p) == fs[Resolved(p)]
Undated(n) == IF n = Absent THEN n ELSE <<n[1], n[2]>>
Listing == {<<m, Undated(fs[m])>> : m \in {q \in Members : fs[q] # Absent}}

Digest(p, metadata) ==
    CASE p = Package -> <<"listing", Listing>>
      [] p # Package /\ Object(p) # Absent /\ Place[p] \in Inside /\ Place[Resolved(p)] \notin Inside ->
            <<"outside">>
      [] OTHER -> IF metadata THEN Object(p) ELSE Undated(Object(p))
Unhashable(p) == Digest(p, FALSE) = <<"outside">>

(* What a walk of the bracket root establishes. A member may be unreadable:    *)
(* its type is known and nothing else. The listing itself may fail: then the   *)
(* names it gave are known, and no absence. Either gives the walk a reason.   *)
Watched == Members \ Dropped
Present == {m \in Watched : fs[m] # Absent}
Facts(complete, named, unread) ==
    [complete |-> complete,
     members |-> named,
     types |-> [m \in named |-> fs[m][1]],
     full |-> [m \in named \ unread |-> fs[m]],
     reason |-> ~complete \/ named \cap unread # {}]
Walks ==
    UNION {{Facts(TRUE, Present, unread)} \cup {Facts(FALSE, named, unread) : named \in SUBSET Present} :
           unread \in {{}} \cup {{m} : m \in Watched}}

(* Two walks: facts known at both ends that contradict each other.            *)
Contradicts(a, b) ==
    \/ a.complete /\ ~(b.members \subseteq a.members)
    \/ b.complete /\ ~(a.members \subseteq b.members)
    \/ \E m \in DOMAIN a.types \cap DOMAIN b.types : a.types[m] # b.types[m]
    \/ \E m \in DOMAIN a.full \cap DOMAIN b.full : a.full[m] # b.full[m]

-----------------------------------------------------------------------------
\* how much of the membership a walk knows
Known(facts) == [complete |-> facts.complete, members |-> facts.members]
NoFacts == [complete |-> FALSE, members |-> {}, types |-> <<>>, full |-> <<>>, reason |-> TRUE]
Incomplete ==
    [entries |-> <<>>, bound |-> {}, moved |-> FALSE, reasons |-> {"incomplete"}, look |-> Known(NoFacts)]

Init ==
    /\ fs \in {f \in [Paths -> UNION {Start[p] : p \in Paths}] : \A p \in Paths : f[p] \in Start[p]}
    /\ phase = "new" /\ bracket = NoFacts /\ log = <<>>
    /\ entries = <<>> /\ bound = {} /\ reasons = {} /\ next = 1 /\ final = Incomplete
    /\ seen = {} /\ began = fs /\ changed = {} /\ restored = FALSE /\ clock = 0

(* Somebody else changes a path. Its time is new; only an absence can return.  *)
Move(p, kind, what) ==
    LET node == IF kind = "gone" THEN Absent ELSE <<kind, what, clock + 1>> IN
    /\ clock < MaxMoves /\ phase # "done" /\ Undated(fs[p]) # Undated(node)
    /\ fs' = [fs EXCEPT ![p] = node] /\ clock' = clock + 1
    /\ restored' = (restored \/ (node = Absent /\ phase # "new" /\ (began[p] = Absent \/ p \in changed)))
    /\ changed' = IF phase = "new" THEN changed ELSE changed \cup {p}
    /\ began' = IF phase = "new" THEN fs' ELSE began
    /\ UNCHANGED <<phase, bracket, log, made, seen>>

Capture ==
    /\ phase = "new" /\ bracket' \in Walks
    /\ phase' = "running" /\ began' = fs
    /\ UNCHANGED <<fs, log, made, seen, changed, restored, clock>>

(* The process opens or stats a path, and the log names it. After a change of  *)
(* directory a relative name no longer says which path was meant.             *)
Strayed == \E i \in DOMAIN log : log[i].op = "chdir"
Names == {m \in Watched : fs[m] # Absent /\ fs[m][2] # "own"}
Read(p, op) ==
    /\ phase = "running" /\ Len(log) < MaxReads
    /\ log' = Append(log, [op |-> op, path |-> p, strayed |-> Strayed])
    /\ seen' = seen \cup {[path |-> p, stat |-> op = "stat",
                           value |-> IF p = Package THEN Names ELSE Object(p)]}
    /\ UNCHANGED <<fs, phase, bracket, made, began, changed, restored, clock>>
Chdir ==
    /\ phase = "running" /\ Len(log) < MaxReads /\ ~Strayed
    /\ log' = Append(log, [op |-> "chdir", path |-> Package, strayed |-> FALSE])
    /\ UNCHANGED <<fs, phase, bracket, made, history>>

(* It mints scratch of its own, in the temp root or in the namespace, and      *)
(* removes it, or consumes what it finds in the namespace.                    *)
Mint(p) ==
    /\ phase = "running" /\ Place[p] \in {"temp", "namespace"} /\ fs[p] = Absent /\ p \notin changed
    /\ fs' = [fs EXCEPT ![p] = <<"file", "own", 0>>] /\ changed' = changed \cup {p}
    /\ UNCHANGED <<phase, bracket, log, made, seen, began, restored, clock>>
Drop(p) ==
    /\ phase = "running" /\ fs[p] # Absent
    /\ \/ Undated(fs[p]) = <<"file", "own">>
       \/ Place[p] = "namespace" /\ began[p] # Absent
    /\ fs' = [fs EXCEPT ![p] = Absent] /\ changed' = changed \cup {p}
    /\ UNCHANGED <<phase, bracket, log, made, seen, began, restored, clock>>

(* It ends as it should, or without that: then there is no completion and the  *)
(* observation is the incomplete one. So it is when its outcomes are asked for *)
(* (Observe; ObserveInputs asks for none) and it logged more than lookups of   *)
(* its environment.                                                           *)
Ends(requireOutcomes) ==
    /\ phase = "running"
    /\ IF requireOutcomes /\ log # <<>> THEN phase' = "done" /\ final' = Incomplete
       ELSE phase' = "classify" /\ UNCHANGED final
    /\ UNCHANGED <<fs, bracket, log, entries, bound, reasons, next, history>>
EndsAbnormally ==
    /\ phase = "running" /\ phase' = "done" /\ final' = Incomplete
    /\ UNCHANGED <<fs, bracket, log, entries, bound, reasons, next, history>>

-----------------------------------------------------------------------------
(* Classification of one log line, by probes of the file system of then.      *)

GuardCovered(p) == p # Package /\ Place[p] = "guard" /\ fs[p] # Absent /\ Place[Resolved(p)] = "guard"
Scratch(p) == p # Package /\ Place[p] = "temp" /\ fs[p] = Absent
\* Plausible mistake: what the bracket saw at its capture is not asked.
Ephemera(p) ==
    /\ p # Package /\ Place[p] = "namespace" /\ p \in Watched
    /\ ~bracket.reason /\ p \notin bracket.members /\ fs[p] = Absent
Elides(p) == GuardCovered(p) \/ Scratch(p) \/ Ephemera(p)
Relative(p) == p = Package \/ Place[p] \in Inside
Ambiguous(line) == line.strayed /\ Relative(line.path)
StatCovered(p) == ~bracket.reason /\ (p = Package \/ p \in Watched)
ExistenceBound(line) ==
    line.op = "stat" /\ ~Relative(line.path) /\ Object(line.path) = Absent

Upserted(p, metadata) ==
    [q \in DOMAIN entries \cup {p} |->
        IF q # p THEN entries[q]
        ELSE [metadata |-> metadata \/ (p \in DOMAIN entries /\ entries[p].metadata),
                  digest |-> Absent, taken |-> FALSE]]

Classify ==
    LET line == log[next] p == line.path IN
    /\ phase = "classify" /\ next <= Len(log) /\ next' = next + 1
    /\ CASE (Elides(p) /\ ~Ambiguous(line)) \/ (p \in Silenced /\ line.op # "chdir") ->
                UNCHANGED <<entries, bound, reasons>>
         [] ExistenceBound(line) /\ ~Elides(p) /\ p \notin Silenced ->
                /\ entries' = Upserted(p, FALSE) /\ bound' = bound \cup {p}
                /\ UNCHANGED reasons
         [] OTHER ->
                /\ entries' = Upserted(p, line.op = "stat")
                /\ reasons' = reasons
                      \cup (IF line.op = "stat" /\ ~StatCovered(p) THEN {"stat metadata"} ELSE {})
                      \cup (IF line.op = "chdir" THEN {"working directory"} ELSE {})
                      \cup (IF Ambiguous(line) THEN {"relative after chdir"} ELSE {})
                /\ UNCHANGED bound
    /\ UNCHANGED <<fs, phase, bracket, log, final, history>>

(* The bracket covers an identity if the object and the link to it both lie    *)
(* under its root; the declared root is the package directory alone.          *)
\* Plausible mistake: the link that was followed is not asked for.
CoversObject(p) ==
    p = Package \/ (p \notin Dropped /\ Place[p] \in Inside /\ Resolved(p) \in Watched)
Covers(p) ==
    p = Package \/ (/\ p \notin Dropped /\ Place[p] \in Inside /\ Resolved(p) \in Watched
                    /\ fs[p] # Absent /\ fs[p][1] = "link" => p \in Watched)
Cover ==
    /\ phase = "classify" /\ next > Len(log) /\ phase' = "digest"
    /\ reasons' = reasons \cup (IF \E p \in DOMAIN entries \ bound : ~Covers(p) THEN {"uncovered"} ELSE {})
    /\ UNCHANGED <<fs, bracket, log, entries, bound, next, final, history>>

(* The digests are taken one after the other.                                 *)
TakeDigest(p) ==
    /\ phase = "digest" /\ p \in DOMAIN entries /\ ~entries[p].taken
    /\ entries' = [entries EXCEPT ![p].digest = Digest(p, entries[p].metadata), ![p].taken = TRUE]
    /\ reasons' = reasons \cup (IF p # Package /\ Unhashable(p) THEN {"unhashable"} ELSE {})
    /\ UNCHANGED <<fs, phase, bracket, log, bound, next, final, history>>

(* The bracket is looked at again, after the last digest: a contradiction is    *)
(* movement, and is reported before anything that was not known.              *)
\* Plausible mistake: what could not be read answers first.
RevalidatedUnknownFirst(now) ==
    CASE bracket.reason \/ now.reason -> [moved |-> FALSE, reasons |-> {"bracket unverifiable"}]
      [] OTHER -> IF Contradicts(bracket, now) THEN [moved |-> TRUE, reasons |-> {"bracket moved"}]
                  ELSE [moved |-> FALSE, reasons |-> {}]
Revalidated(now) ==
    CASE Contradicts(bracket, now) -> [moved |-> TRUE, reasons |-> {"bracket moved"}]
      [] ~Contradicts(bracket, now) /\ (bracket.reason \/ now.reason) ->
            [moved |-> FALSE, reasons |-> {"bracket unverifiable"}]
      [] OTHER -> [moved |-> FALSE, reasons |-> {}]
Revalidate ==
    /\ phase = "digest" /\ \A p \in DOMAIN entries : entries[p].taken
    /\ phase' = "done"
    /\ \E now \in Walks :
        final' = [entries |-> entries, bound |-> bound, look |-> Known(now),
                  moved |-> Revalidated(now).moved,
                  reasons |-> reasons \cup Revalidated(now).reasons]
    /\ UNCHANGED <<fs, bracket, log, entries, bound, reasons, next, history>>

Next ==
    \/ \E p \in Paths : (\E t \in Turns[p] : Move(p, t[1], t[2])) \/ Mint(p) \/ Drop(p) \/ TakeDigest(p)
    \/ \E p \in Paths \cup {Package}, op \in {"open", "stat"} : Read(p, op)
    \/ \E requireOutcomes \in BOOLEAN : Ends(requireOutcomes)
    \/ Capture \/ Chdir \/ EndsAbnormally \/ Classify \/ Cover \/ TakeDigest(Package) \/ Revalidate
Spec == Init /\ [][Next]_vars
-----------------------------------------------------------------------------
(* What the observation says of one operation the process logged.             *)
AgreesWith(read, entry) ==
    CASE read.path = Package -> {e[1] : e \in {f \in entry.digest[2] : f[1] \in Watched}} = read.value
      [] read.path # Package /\ read.stat -> entry.digest = read.value
      [] OTHER -> Undated(read.value) = entry.digest \/ read.value = entry.digest
Excused(read) ==
    \/ read.path \in Silenced                           \* the caller says it is no input
    \/ Place[read.path] = "guard"                        \* the guard facts stand for it
    \/ read.value = Absent                               \* a probe of its own scratch

(* (a) A verifiable observation binds what the process saw. If the frame ends   *)
(* with no reason and no movement, then the process ended normally and each    *)
(* operation it logged either agrees with the digest recorded for its path, or *)
(* was of an identity bound by existence alone, or is one of the classes the   *)
(* ingest leaves out, or found what the process had put there itself, maybe    *)
(* through a link that dangles before and after: whoever changed what, between *)
(* whichever steps. The caller excludes paths made and removed again by others *)
(* under the process's eyes.                                                   *)
BoundToTheRun ==
    phase = "done" /\ final.reasons = {} /\ ~final.moved /\ ~restored =>
        \A read \in seen :
            \/ read.path \in DOMAIN final.entries /\ AgreesWith(read, final.entries[read.path])
            \/ read.path \in final.bound
            \/ read.path # Package /\ read.path \notin DOMAIN final.entries /\ Excused(read)
            \/ read.path # Package /\ Undated(read.value) = <<"file", "own">>

\* One walk named the member, and the other listed all and it was not there.
CameOrWent(m) ==
    \/ m \in bracket.members /\ final.look.complete /\ fs[m] = Absent
    \/ m \in final.look.members /\ bracket.complete /\ began[m] = Absent

(* (b) Reported movement is movement, and known movement is reported. What is    *)
(* called moved was changed since the capture, however much either walk could   *)
(* not read; and a member that one walk named and the other, its listing        *)
(* complete, could not find is reported, whatever else was unreadable: movement *)
(* licenses another run, unreadable facts do not.                             *)
MovementIsExact ==
    phase = "done" /\ final # Incomplete =>
        /\ final.moved => changed \cap Watched # {}
        /\ \A m \in Watched : CameOrWent(m) => final.moved
=============================================================================
