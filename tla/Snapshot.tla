------------------------------ MODULE Snapshot ------------------------------
(* view.go: a snapshot is built from two observation passes that agree, it    *)
(* captures observation proofs, derives siblings over the same facts and is   *)
(* validated by later passes. A pass reads the tree in several steps, partly  *)
(* through the listing memo and the scan memo, while the tree may move.       *)
(* A subject stands for a package with that one subject.                      *)
EXTENDS Naturals, Functions

CONSTANTS
    Subjects,     \* the subjects of the snapshot
    Versions,     \* contents that a part of the tree can have
    Initial,      \* the contents every part starts with
    Marks,        \* what a typed load finds in each version of a package
    Reached,      \* <<load, program>>: the program may reach the culprit of the load
    Threads,      \* callers
    Scopes,       \* the subsets a sibling may be over
    MaxMoves,     \* bound on the moves of the tree and the prunes of the memos
    MaxOps        \* bound on the calls over a snapshot

Env == "env"
Parts == Subjects \cup {Env}
Views == {"view", "sibling"}
Unavailable == "unavailable"
Nothing == "nothing"

ASSUME SnapshotAssumption ==
    /\ Env \notin Subjects /\ Subjects # {}
    /\ Initial \in Versions /\ Unavailable \notin Versions
    /\ Marks \in [Versions -> {"clean", "named", "unattributed"}]
    /\ Reached \subseteq Versions \X Versions
    /\ Scopes \subseteq SUBSET Subjects /\ MaxMoves \in Nat /\ MaxOps \in Nat

VARIABLES
    tree,      \* the contents of each part now
    listings,  \* persisted listing records: the digested inputs, the listing
    scans,     \* persisted scan entries: the key, the versions they were derived from
    proven,    \* persisted proofs: the key, the version they were derived from
    facts,     \* the agreed observation of the construction
    views,     \* the transactional state of the snapshot and of a sibling
    op,        \* the operation each thread runs
    verdict,   \* the answer of the last construction or validation of a view
    held, seen, restored, torn, moves, ops   \* history and bounds
vars == <<tree, listings, scans, proven, facts, views, op, verdict, held, seen, restored,
          torn, moves, ops>>

(* What a hasher has read, and the operation it works for. Its packages come    *)
(* one after the other: listed, keyed, and served or missed.                  *)
NoPass == [env |-> Initial, list |-> <<>>, key |-> <<>>, load |-> <<>>, of |-> <<>>, cut |-> {},
           bytes |-> <<>>]
Idle == [kind |-> "idle", view |-> "view", at |-> "env", over |-> {}, now |-> NoPass,
         first |-> NoPass, proofs |-> <<>>, cut |-> FALSE, began |-> <<>>]
NoView == [over |-> {}, sealed |-> FALSE, observable |-> <<>>, captured |-> {},
           attached |-> {}, unavailable |-> FALSE]
NoVerdict == [outcome |-> Nothing, began |-> <<>>]

Init ==
    /\ tree = [p \in Parts |-> Initial]
    /\ listings = {} /\ scans = {} /\ proven = {}
    /\ facts = NoPass /\ views = [v \in Views |-> NoView]
    /\ op = [t \in Threads |-> Idle] /\ verdict = [v \in Views |-> NoVerdict]
    /\ held = tree /\ seen = [p \in Parts |-> {Initial}]
    /\ restored = FALSE /\ torn = FALSE /\ moves = 0 /\ ops = 0

memos == <<listings, scans, proven>>
snapshot == <<facts, views, verdict>>
history == <<held, seen, restored, torn, moves, ops>>

(* A part changes under everybody's feet. Returning to contents it had since   *)
(* the construction began is remembered: the code's contract excludes it.     *)
Move(p, x) ==
    /\ moves < MaxMoves /\ x # tree[p]
    /\ tree' = [tree EXCEPT ![p] = x]
    /\ seen' = [seen EXCEPT ![p] = @ \cup {x}]
    /\ restored' = (restored \/ x \in seen[p])
    /\ moves' = moves + 1
    /\ UNCHANGED <<memos, snapshot, op, held, torn, ops>>

(* The memos are a cache: another process prunes them, or a store fails.      *)
Prune ==
    /\ moves < MaxMoves /\ listings \cup scans \cup proven # {}
    /\ listings' = {} /\ scans' = {} /\ proven' = {} /\ moves' = moves + 1
    /\ UNCHANGED <<tree, snapshot, op, held, seen, restored, torn, ops>>

-----------------------------------------------------------------------------
(* One observation pass.                                                      *)

Passing == {"first", "second", "after", "base", "seed", "reprove"}
Proving == {"capture", "again"}
At(t, step) == op[t].kind # "idle" /\ op[t].at = step
Put(f, s, x) == [u \in DOMAIN f \cup {s} |-> IF u = s THEN x ELSE f[u]]

(* A pass of the thread begins: it remembers the tree it began in.            *)
Begin(o, kind, over) ==
    [o EXCEPT !.kind = kind, !.at = "env", !.over = over, !.now = NoPass, !.began = tree]

(* The environment snapshot of the pass: guards, scope and memo scope.        *)
PassEnv(t) ==
    /\ At(t, "env")
    /\ op' = [op EXCEPT ![t].now.env = tree[Env], ![t].at = "list"]
    /\ UNCHANGED <<tree, memos, snapshot, history>>

(* A package is listed. A record serves when every input it digested is what  *)
(* the tree has now.                                                          *)
ListingHits(s, env) == {r \in listings : r.of = s /\ r.env = env /\ r.inputs = tree[s]}
Listing(s, env) ==
    IF ListingHits(s, env) = {} THEN tree[s] ELSE (CHOOSE r \in ListingHits(s, env) : TRUE).listing
List(t, s) ==
    LET now == op[t].now IN
    /\ At(t, "list") /\ s \in op[t].over \ DOMAIN now.list
    /\ op' = [op EXCEPT ![t].now.list = Put(now.list, s, Listing(s, now.env)),
                        ![t].at = IF ListingHits(s, now.env) = {} THEN "store" ELSE "key"]
    /\ UNCHANGED <<tree, memos, snapshot, history>>

(* The inputs of a spawned listing are digested after it was spawned.         *)
Spawned(now, s) == [of |-> s, env |-> now.env, inputs |-> tree[s], listing |-> now.list[s]]
StoreListing(t, s) ==
    LET new == Spawned(op[t].now, s) IN
    /\ At(t, "store") /\ s \in DOMAIN op[t].now.list \ DOMAIN op[t].now.key
    /\ listings' = {r \in listings : r.of # s \/ r.env # new.env} \cup {new}
    /\ torn' = (torn \/ new.inputs # new.listing)
    /\ op' = [op EXCEPT ![t].at = "key"]
    /\ UNCHANGED <<tree, scans, proven, snapshot, held, seen, restored, moves, ops>>

(* A memo's key is the closure over the listing and the bytes of this moment. *)
(* After the last package what was missed is loaded.                          *)
Hits(memo, now, s) == {e \in memo : e.of = s /\ e.env = now.env /\ e.key = <<now.list[s], tree[s]>>}
Served(memo, now, s) == (CHOOSE e \in Hits(memo, now, s) : TRUE).derived
Entry(now, s, derived) ==
    [of |-> s, env |-> now.env, key |-> <<now.list[s], now.key[s]>>, derived |-> derived]
Stored(memo, new) ==
    {e \in memo : \A n \in new : e.of # n.of \/ e.env # n.env \/ e.key # n.key} \cup new
PassKey(t, s) ==
    LET o == op[t]
        key == Put(o.now.key, s, tree[s])
        of == IF Hits(scans, o.now, s) = {} THEN o.now.of ELSE Put(o.now.of, s, Served(scans, o.now, s))
    IN
    /\ At(t, "key") /\ o.kind \in Passing /\ s \in DOMAIN o.now.list \ DOMAIN o.now.key
    /\ op' = [op EXCEPT ![t].now.key = key, ![t].now.of = of,
          ![t].at = CASE DOMAIN key # o.over -> "list"
                      [] DOMAIN key = o.over /\ DOMAIN of = o.over -> "fold"
                      [] OTHER -> "scan"]
    /\ UNCHANGED <<tree, memos, snapshot, history>>

(* One typed load of the missed packages, and what is derived from it; then    *)
(* the discharges, which load the program of the downgraded packages anew.    *)
(* The budget cuts all of these or none, and a cut package persists nothing.  *)
(* The key of an entry is the one that was read before the load.              *)
PassScan(t) ==
    /\ At(t, "scan")
    /\ op' = [op EXCEPT ![t].now.load = [s \in op[t].over \ DOMAIN op[t].now.of |-> tree[s]],
                        ![t].at = "discharge"]
    /\ UNCHANGED <<tree, memos, snapshot, history>>
Downgraded(now) == {s \in DOMAIN now.load : Marks[now.load[s]] = "named"}
Judgments(now, cut) ==
    [s \in DOMAIN now.load |->
        <<now.load[s], IF s \in Downgraded(now) \ cut THEN tree[s] ELSE now.load[s]>>]
NewScans(now, cut) ==
    {Entry(now, s, Judgments(now, cut)[s]) : s \in DOMAIN now.load \ cut}
Added(new, old) ==
    [s \in DOMAIN new \cup DOMAIN old |-> IF s \in DOMAIN new THEN new[s] ELSE old[s]]
PassDischarge(t) ==
    LET now == op[t].now IN
    /\ At(t, "discharge")
    /\ \E cut \in {{}, Downgraded(now)} :
        /\ op' = [op EXCEPT ![t].now.of = Added(Judgments(now, cut), now.of),
                            ![t].now.load = <<>>, ![t].now.key = <<>>, ![t].now.cut = cut, ![t].at = "fold"]
        /\ scans' = Stored(scans, NewScans(now, cut))
        /\ torn' = (torn \/ \E n \in NewScans(now, cut) : n.key # n.derived \/ n.key[1] # n.key[2])
    /\ UNCHANGED <<tree, listings, proven, snapshot, held, seen, restored, moves, ops>>

(* The maximal fold reads the bytes of every file the listings name; the first *)
(* pass of a construction hands over to the second.                           *)
PassFold(t) ==
    LET done == [op[t] EXCEPT !.now.bytes = [s \in op[t].over |-> tree[s]], !.at = "compare"]
    IN
    /\ At(t, "fold")
    /\ op' = [op EXCEPT ![t] =
          IF done.kind = "first" THEN [Begin(done, "second", done.over) EXCEPT !.first = done.now]
          ELSE done]
    /\ held' = IF done.kind = "first" THEN tree ELSE held
    /\ UNCHANGED <<tree, memos, snapshot, seen, restored, torn, moves, ops>>

-----------------------------------------------------------------------------
(* What a finished pass says of a subject, and the comparison of two.         *)
Source(o, s) == <<o.list[s], o.bytes[s]>>
Judged(of) ==
    CASE Marks[of[1]] = "clean" -> "none"
      [] Marks[of[1]] = "named" /\ of \notin Reached -> "discharged"
      [] OTHER -> "stands"
SharedState(o, s) == CASE s \in o.cut -> "unjudged"
                       [] s \notin o.cut /\ Judged(o.of[s]) = "stands" -> "stands"
                       [] OTHER -> "none"
Discharged(o, s) == s \notin o.cut /\ Judged(o.of[s]) = "discharged"

\* Plausible mistake: a cut is compared like any judgment.
CutHereNever(a, b, s) == FALSE
CutHere(a, b, s) == s \in a.cut \cup b.cut
\* Plausible mistake: the guards are not compared.
MovedSources(base, current, over, construction) ==
    \E s \in over : Source(base, s) # Source(current, s)
Moved(base, current, over, construction) ==
    \/ base.env # current.env
    \/ \E s \in over :
        \/ Source(base, s) # Source(current, s)
        \/ ~CutHere(base, current, s) /\ SharedState(base, s) # SharedState(current, s)
        \/ construction /\ ~CutHere(base, current, s) /\ Discharged(base, s) # Discharged(current, s)
Unjudged(base, current, over) ==
    \E s \in over : CutHere(base, current, s) /\ SharedState(base, s) # SharedState(current, s)
\* Plausible mistake: a cut answers before the rest was compared.
ComparedCutFirst(base, current, over) ==
    IF Unjudged(base, current, over) THEN Unavailable
    ELSE IF Moved(base, current, over, FALSE) THEN "changed" ELSE "valid"
Compared(base, current, over) ==
    CASE Moved(base, current, over, FALSE) -> "changed"
      [] ~Moved(base, current, over, FALSE) /\ Unjudged(base, current, over) -> Unavailable
      [] OTHER -> "valid"

(* The view adopts the fail-closed shape of whichever pass was cut.           *)
TakeCut(base, current) == [base EXCEPT !.cut = @ \cup current.cut]

-----------------------------------------------------------------------------
(* Construction, siblings and attachments.                                    *)

Calling(t) == op[t].kind = "idle" /\ ops < MaxOps
Answer(w, outcome, t) ==
    verdict' = [verdict EXCEPT ![w] = [outcome |-> outcome, began |-> op[t].began]]

Construct(t) ==
    /\ Calling(t) /\ views["view"].over = {} /\ \A u \in Threads : op[u].kind = "idle"
    /\ op' = [op EXCEPT ![t] = Begin(Idle, "first", Subjects)]
    /\ seen' = [p \in Parts |-> {tree[p]}] /\ restored' = FALSE
    /\ verdict' = [v \in Views |-> NoVerdict]
    /\ UNCHANGED <<tree, memos, facts, views, held, torn, moves, ops>>

Constructed(t) ==
    LET o == op[t] IN
    /\ At(t, "compare") /\ o.kind = "second"
    /\ op' = [op EXCEPT ![t] = Idle]
    /\ IF Moved(o.first, o.now, Subjects, TRUE)
       THEN /\ Answer("view", "changed", t) /\ ops' = ops + 1
            /\ UNCHANGED <<facts, views>>
       ELSE /\ facts' = TakeCut(o.first, o.now)
            /\ views' = [views EXCEPT !["view"].over = Subjects]
            /\ UNCHANGED <<verdict, ops>>
    /\ UNCHANGED <<tree, memos, held, seen, restored, torn, moves>>

(* A sibling shares the facts and the captured proofs of its subset; its seal *)
(* and its attachments are its own.                                           *)
Sibling(over) ==
    LET v == views["view"] IN
    /\ views["sibling"].over = {} /\ over # {} /\ over \subseteq v.over
    /\ views' = [views EXCEPT !["sibling"] =
          [NoView EXCEPT !.over = over, !.captured = v.captured \cap over,
                         !.observable = Restrict(v.observable, over \cap DOMAIN v.observable)]]
    /\ UNCHANGED <<tree, memos, facts, verdict, op, history>>

Attach(t, w, s) ==
    /\ Calling(t) /\ s \in views[w].captured \ views[w].attached /\ ~views[w].sealed
    /\ views' = [views EXCEPT ![w].attached = @ \cup {s}]
    /\ UNCHANGED <<tree, memos, facts, verdict, op, history>>

-----------------------------------------------------------------------------
(* Precise analysis: the observability proof inside a bracket of two          *)
(* observations, the view's own facts and one fresh pass.                     *)

Drop(t) == op' = [op EXCEPT ![t] = Idle]

(* A capture proves only what the view does not hold.                         *)
Capture(t, w) ==
    LET v == views[w] asked == v.over \ DOMAIN v.observable IN
    /\ Calling(t) /\ v.over # {}
    /\ op' = [op EXCEPT ![t] =
          IF asked = {} THEN [Idle EXCEPT !.kind = "after", !.view = w, !.over = v.over, !.at = "mark"]
          ELSE [Idle EXCEPT !.kind = "capture", !.view = w, !.over = asked, !.at = "open"]]
    /\ ops' = ops + 1
    /\ UNCHANGED <<tree, memos, snapshot, held, seen, restored, torn, moves>>

(* The live environment must be the one of the construction.                  *)
Open(t) ==
    /\ At(t, "open")
    /\ IF tree[Env] = facts.env
       THEN op' = [op EXCEPT ![t].at = "list", ![t].now.env = tree[Env]] /\ UNCHANGED verdict
       ELSE /\ Drop(t)
            /\ IF op[t].kind = "capture" THEN UNCHANGED verdict ELSE Answer(op[t].view, "changed", t)
    /\ UNCHANGED <<tree, memos, facts, views, history>>

(* A proof is of the source it read, or of the source under whose key it was   *)
(* persisted, or unavailable: the budget cut it, or its program does not load. *)
(* After the last proof the closing pass begins.                              *)
ProvedSo(o) ==
    IF DOMAIN o.proofs # o.over THEN o
    ELSE Begin(o, IF o.kind = "capture" THEN "after" ELSE "reprove", views[o.view].over)
ProveKey(t, s) ==
    LET o == op[t]
        hits == Hits(proven, o.now, s)
        keyed == [o EXCEPT !.now.key = Put(@, s, tree[s]),
                           !.proofs = IF hits = {} THEN @ ELSE Put(@, s, Served(proven, o.now, s))]
    IN
    /\ At(t, "key") /\ o.kind \in Proving /\ s \in DOMAIN o.now.list \ DOMAIN o.now.key
    /\ op' = [op EXCEPT ![t] =
          ProvedSo([keyed EXCEPT !.at = IF DOMAIN keyed.now.key = o.over THEN "load" ELSE "list"])]
    /\ UNCHANGED <<tree, memos, snapshot, history>>
NewProof(now, s, proof) == IF proof = Unavailable THEN {} ELSE {Entry(now, s, proof)}
ProveLoad(t, s) ==
    LET o == op[t] IN
    /\ At(t, "load") /\ s \in o.over \ DOMAIN o.proofs
    /\ \E proof \in {Unavailable, tree[s]} :
        /\ op' = [op EXCEPT ![t] = ProvedSo([o EXCEPT !.proofs = Put(@, s, proof)])]
        /\ proven' = Stored(proven, NewProof(o.now, s, proof))
        /\ torn' = (torn \/ \E n \in NewProof(o.now, s, proof) : n.key # <<n.derived, n.derived>>)
    /\ UNCHANGED <<tree, listings, scans, snapshot, held, seen, restored, moves, ops>>

(* The closing pass of a capture: drift refuses, a cut is held on the view.   *)
\* Plausible mistake: the closing pass only looks for cuts.
CaptureCompareCuts(t) ==
    LET o == op[t] outcome == Compared(facts, o.now, o.over) IN
    /\ At(t, "compare") /\ o.kind = "after"
    /\ views' = [views EXCEPT ![o.view].unavailable = @ \/ outcome = Unavailable]
    /\ op' = [op EXCEPT ![t].at = "keep", ![t].now = NoPass]
    /\ UNCHANGED <<tree, memos, facts, verdict, history>>
CaptureCompare(t) ==
    LET o == op[t] outcome == Compared(facts, o.now, o.over) IN
    /\ At(t, "compare") /\ o.kind = "after"
    /\ views' = [views EXCEPT ![o.view].unavailable = @ \/ outcome = Unavailable]
    /\ IF outcome = "changed" THEN Drop(t) ELSE op' = [op EXCEPT ![t].at = "keep", ![t].now = NoPass]
    /\ UNCHANGED <<tree, memos, facts, verdict, history>>
CaptureKeep(t) ==
    LET o == op[t] v == views[o.view] IN
    /\ At(t, "keep")
    /\ IF v.sealed THEN Drop(t) /\ UNCHANGED views
       ELSE /\ op' = [op EXCEPT ![t].at = "mark", ![t].proofs = <<>>]
            /\ views' = [views EXCEPT ![o.view].observable = Added(o.proofs, @)]
    /\ UNCHANGED <<tree, memos, facts, verdict, history>>
CaptureMark(t) ==
    LET o == op[t] IN
    /\ At(t, "mark") /\ Drop(t)
    /\ views' = IF views[o.view].sealed THEN views ELSE [views EXCEPT ![o.view].captured = o.over]
    /\ UNCHANGED <<tree, memos, facts, verdict, history>>

-----------------------------------------------------------------------------
(* Validation: it seals first. A view without proofs compares one pass; one    *)
(* with proofs needs every attachment, compares, proves again and compares.   *)

Validate(t, w) ==
    LET v == views[w] IN
    /\ Calling(t) /\ v.over # {}
    /\ views' = [views EXCEPT ![w].sealed = TRUE]
    /\ ops' = ops + 1
    /\ op' = IF v.captured \subseteq v.attached
             THEN [op EXCEPT ![t] = [Begin(Idle, IF v.captured = {} THEN "base" ELSE "seed", v.over)
                                  EXCEPT !.view = w]]
             ELSE op
    /\ UNCHANGED <<tree, memos, facts, verdict, held, seen, restored, torn, moves>>

BaseCompare(t) ==
    LET o == op[t] IN
    /\ At(t, "compare") /\ o.kind = "base" /\ Drop(t)
    /\ Answer(o.view, Compared(facts, o.now, o.over), t)
    /\ UNCHANGED <<tree, memos, facts, views, history>>

(* A cut is held, on the sealed view or on the view of the proofs, so that    *)
(* everything else is still compared.                                         *)
SeedCompare(t) ==
    LET o == op[t] outcome == Compared(facts, o.now, o.over) IN
    /\ At(t, "compare") /\ o.kind = "seed"
    /\ views' = [views EXCEPT ![o.view].unavailable = @ \/ outcome = Unavailable]
    /\ IF outcome = "changed" THEN Drop(t) /\ Answer(o.view, outcome, t)
       ELSE /\ op' = [op EXCEPT ![t] = [o EXCEPT !.kind = "again", !.over = views[o.view].captured,
                                                  !.at = "open", !.now = NoPass]]
            /\ UNCHANGED verdict
    /\ UNCHANGED <<tree, memos, facts, history>>
ReproveCompare(t) ==
    LET o == op[t] outcome == Compared(facts, o.now, o.over) IN
    /\ At(t, "compare") /\ o.kind = "reprove"
    /\ IF outcome = "changed" THEN Drop(t) /\ Answer(o.view, outcome, t)
       ELSE /\ op' = [op EXCEPT ![t].at = "settle", ![t].now = NoPass, ![t].cut = outcome = Unavailable]
            /\ UNCHANGED verdict
    /\ UNCHANGED <<tree, memos, facts, views, history>>

(* A captured proof that is unavailable confers nothing and agrees with any.  *)
ProofCompared(captured, current) ==
    CASE captured = Unavailable -> "valid"
      [] captured # Unavailable /\ current = Unavailable -> Unavailable
      [] OTHER -> IF captured = current THEN "valid" ELSE "changed"
Settled(t) ==
    LET o == op[t]
        v == views[o.view]
        answers == {ProofCompared(v.observable[s], o.proofs[s]) : s \in v.captured}
    IN  CASE "changed" \in answers -> "changed"
          [] "changed" \notin answers /\ (Unavailable \in answers \/ v.unavailable \/ o.cut) -> Unavailable
          [] OTHER -> "valid"
Settle(t) ==
    /\ At(t, "settle") /\ Drop(t)
    /\ Answer(op[t].view, Settled(t), t)
    /\ UNCHANGED <<tree, memos, facts, views, history>>

(* A read, a go command or the context fails: the call returns an error.      *)
Fails(t) ==
    /\ op[t].kind # "idle" /\ op[t].at \notin {"settle", "mark"} /\ Drop(t)
    /\ ops' = IF op[t].kind \in {"first", "second"} THEN ops + 1 ELSE ops
    /\ UNCHANGED <<tree, memos, snapshot, held, seen, restored, torn, moves>>

Pass(t) ==
    \/ PassEnv(t) \/ PassScan(t) \/ PassDischarge(t) \/ PassFold(t)
    \/ \E s \in Subjects : List(t, s) \/ StoreListing(t, s) \/ PassKey(t, s)
Call(t) ==
    \/ Construct(t)
    \/ \E w \in Views : Capture(t, w) \/ Validate(t, w) \/ \E s \in Subjects : Attach(t, w, s)
Step(t) ==
    \/ Constructed(t) \/ Open(t) \/ (\E s \in Subjects : ProveKey(t, s) \/ ProveLoad(t, s))
    \/ CaptureCompare(t) \/ CaptureKeep(t) \/ CaptureMark(t)
    \/ BaseCompare(t) \/ SeedCompare(t) \/ ReproveCompare(t) \/ Settle(t) \/ Fails(t)
Next ==
    \/ \E p \in Parts, x \in Versions : Move(p, x)
    \/ Prune
    \/ \E over \in Scopes : Sibling(over)
    \/ \E t \in Threads : Pass(t) \/ Call(t) \/ Step(t)
Spec == Init /\ [][Next]_vars

-----------------------------------------------------------------------------
(* Types.                                                                     *)

PassSteps == {"env", "list", "store", "key", "scan", "discharge", "fold", "compare"}
Steps == PassSteps \cup {"open", "load", "keep", "mark", "settle"}
Over(V) == UNION {[S -> V] : S \in SUBSET Subjects}
Trees == [Parts -> Versions]
Proofs == Over(Versions \cup {Unavailable})
Passes == [env : Versions, list : Over(Versions), key : Over(Versions), load : Over(Versions),
           of : Over(Versions \X Versions), cut : SUBSET Subjects, bytes : Over(Versions)]
Ops == [kind : Passing \cup Proving \cup {"idle"}, view : Views, at : Steps,
        over : SUBSET Subjects, now : Passes, first : Passes, proofs : Proofs, cut : BOOLEAN,
        began : Trees \cup {<<>>}]
ViewStates == [over : SUBSET Subjects, sealed : BOOLEAN, observable : Proofs,
               captured : SUBSET Subjects, attached : SUBSET Subjects, unavailable : BOOLEAN]
Verdicts == [outcome : {Nothing, "changed", "valid", Unavailable}, began : Trees \cup {<<>>}]

\* The type invariant.
TypeOK ==
    /\ tree \in Trees /\ held \in Trees /\ seen \in [Parts -> SUBSET Versions]
    /\ listings \subseteq [of : Subjects, env : Versions, inputs : Versions, listing : Versions]
    /\ scans \subseteq [of : Subjects, env : Versions, key : Versions \X Versions,
                       derived : Versions \X Versions]
    /\ proven \subseteq [of : Subjects, env : Versions, key : Versions \X Versions, derived : Versions]
    /\ facts \in Passes /\ views \in [Views -> ViewStates] /\ op \in [Threads -> Ops]
    /\ verdict \in [Views -> Verdicts]
    /\ restored \in BOOLEAN /\ torn \in BOOLEAN /\ moves \in Nat /\ ops \in Nat

(* Properties. Two things the code's contract excludes are left out by name:  *)
(* contents that return within the life of a snapshot (restored), and a tree  *)
(* that moved between a derivation and the digest of its key (torn).          *)

Kept == ~restored /\ ~torn
Built == views["view"].over # {}

(* What a snapshot records was true at one instant, between its two passes:    *)
(* guards, listing, bytes and the judgment of every package, although they     *)
(* were read at moments of their own and partly served from memos.            *)
FactsHeldAtOneInstant ==
    Built /\ Kept =>
        /\ facts.env = held[Env]
        /\ \A s \in Subjects :
            /\ Source(facts, s) = <<held[s], held[s]>>
            /\ s \notin facts.cut => Judged(facts.of[s]) = Judged(<<held[s], held[s]>>)

(* A proof a view or its sibling holds was derived from the very sources the   *)
(* facts record, whatever moved while it was derived and whoever else proved.  *)
ProofIsOfTheFacts ==
    Kept => \A w \in Views : \A s \in DOMAIN views[w].observable :
        views[w].observable[s] \in {Unavailable, held[s]}

(* A validation that finds nothing moved is right: the tree its last pass began *)
(* in is the one of the construction. The unavailable answer promises as much.  *)
ValidationHeld ==
    Kept => \A w \in Views : verdict[w].outcome \in {"valid", Unavailable} =>
        \A p \in views[w].over \cup {Env} : verdict[w].began[p] = held[p]

(* Drift is reported only if something moved since the construction began: a   *)
(* cut, a lost proof or another thread's work is never taken for drift. A memo *)
(* entry torn by an earlier motion is excluded: the first pass may be served   *)
(* from it and the second, after a prune, from the tree.                       *)
MotionIsReal ==
    ~torn => \A w \in Views : verdict[w].outcome = "changed" =>
        \E p \in Parts : \E x \in seen[p] : x # tree[p]
=============================================================================
