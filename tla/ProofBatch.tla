----------------------------- MODULE ProofBatch -----------------------------
(***************************************************************************)
(* One analysis pass over a batch of subjects (ensureObservable and        *)
(* ComputeObservabilityBatch): the subjects are grouped by package, rows   *)
(* are served from the proof memo or computed by slices over the package's *)
(* program, a slice whose walk meets an unsupported shape is bisected, and *)
(* a batch that fails is retried subject by subject.  A caller may leave,  *)
(* the analysis budget run out, or a step fail for any other reason, at    *)
(* any time.  The attributed walk itself is module Reach: a batch provokes *)
(* a shape exactly when one of its roots does.                             *)
(***************************************************************************)
EXTENDS Naturals, Sequences, FiniteSets, SequencesExt

CONSTANTS Packages, Subjects, PackageOf,
          Order,      \* the order requests are made in
          Requests,   \* the sets of subjects a pass may be asked for
          Keyings,    \* the sets of packages a pass may have a memo key for
          Width,      \* maxAttributedSubjects
          Worlds,     \* what the analysed packages are
          MaxPasses, MaxFaults,
          None

Row == {"proved", "unavailable", "unrooted", "refused"}
NoRows == [s \in Subjects |-> None]

\* A world: the packages that do not load, whose initializers or test main
\* hold an unsupported shape, and that have a test main; the subjects that
\* are no root of their binary, that run through the harness, and whose own
\* flow holds an unsupported shape.
WorldFields == {"unloadable", "badInit", "badMain", "main", "unrooted", "harness", "bad"}

ASSUME ProofBatchAssumption ==
    /\ PackageOf \in [Subjects -> Packages]
    /\ Order \in SetToSeqs(Subjects)
    /\ Requests \subseteq SUBSET Subjects /\ Keyings \subseteq SUBSET Packages
    /\ Width \in Nat \ {0}
    /\ MaxPasses \in Nat /\ MaxFaults \in Nat
    /\ None \notin Row /\ \A S \in SUBSET Subjects : S # None
    /\ \A w \in Worlds :
         /\ DOMAIN w = WorldFields
         /\ \A k \in {"unloadable", "badInit", "badMain", "main"} : w[k] \subseteq Packages
         /\ \A k \in {"unrooted", "harness", "bad"} : w[k] \subseteq Subjects

VARIABLES world,
          memo,       \* the proof memo: the row of each subject, or None
          pass,       \* analysis passes begun
          faults,     \* failures of other kinds so far
          caller,     \* the caller still waits
          budget,     \* the analysis budget lasts
          phase,      \* "idle", "call", "group", "slice" or "retry"
          waiting,    \* subjects of the current call not grouped yet
          asked,      \* the subjects of the pass
          isolated,   \* None, or the subjects still to be retried alone
          failed,     \* progErrs: the packages whose load failed
          keyed,      \* the packages the pass has a memo key for
          resolved,   \* packages whose memo the call has read before their turn
          early,      \* the rows it read then
          group,      \* its subjects not walked yet
          stack,      \* the batches of the current slice still to walk
          entire,     \* the top of the stack is the whole slice
          rows,       \* the rows of the current slice
          results,    \* the rows of the current call
          answer,     \* the rows of the pass
          loads,      \* how often the pass loaded each package, or built it from
                      \* the packages prepared together
          shared,     \* how often each package was prepared with others
          company,    \* the subjects each has been walked in one slice with
          broke,      \* subjects whose own retry met a failure of another kind
          kept        \* subjects whose slice was completed under a key

vars == <<world, memo, pass, faults, caller, budget, phase, waiting, asked, isolated, failed,
          keyed, resolved, early, group, stack, entire, rows, results, answer, loads, shared,
          company, broke, kept>>

TypeOK ==
    /\ world \in Worlds
    /\ memo \in [Subjects -> Row \cup {None}]
    /\ pass \in 0..MaxPasses /\ faults \in 0..MaxFaults
    /\ caller \in BOOLEAN /\ budget \in BOOLEAN
    /\ phase \in {"idle", "call", "group", "slice", "retry"}
    /\ waiting \subseteq Subjects /\ asked \subseteq Subjects
    /\ isolated \in {None} \cup SUBSET Subjects
    /\ failed \subseteq Packages
    /\ keyed \subseteq Packages /\ resolved \subseteq Packages /\ entire \in BOOLEAN
    /\ early \in [Subjects -> Row \cup {None}]
    /\ broke \subseteq Subjects
    /\ group \subseteq Subjects /\ stack \in Seq(SUBSET Subjects)
    /\ rows \in [Subjects -> Row \cup {None}]
    /\ results \in [Subjects -> Row \cup {None}]
    /\ answer \in [Subjects -> Row \cup {None}]
    /\ loads \in [Packages -> Nat] /\ shared \in [Packages -> Nat]
    /\ company \in [Subjects -> SUBSET Subjects]
    /\ kept \subseteq Subjects

Init ==
    /\ world \in Worlds
    /\ memo = NoRows /\ rows = NoRows /\ results = NoRows /\ answer = NoRows
    /\ pass = 0 /\ faults = 0
    /\ caller = TRUE /\ budget = TRUE
    /\ phase = "idle"
    /\ waiting = {} /\ asked = {} /\ isolated = None /\ failed = {} /\ kept = {}
    /\ broke = {} /\ keyed = {} /\ resolved = {} /\ early = NoRows /\ entire = FALSE
    /\ group = {} /\ stack = << >>
    /\ loads = [p \in Packages |-> 0] /\ shared = [p \in Packages |-> 0]
    /\ company = [s \in Subjects |-> {}]

-----------------------------------------------------------------------------
\* later rows go over earlier ones
Put(old, new) == [s \in Subjects |-> IF new[s] = None THEN old[s] ELSE new[s]]
RowFor(S, row) == [s \in Subjects |-> IF s \in S THEN row ELSE None]
\* rows are stored under their package's key, if it has one
PutKeyed(old, new) ==
    [s \in Subjects |-> IF new[s] = None \/ PackageOf[s] \notin keyed THEN old[s] ELSE new[s]]

Harnessed(S) == {s \in S : s \in world.harness /\ PackageOf[s] \in world.main}

\* The roots every walk of S shares hold a shape: the initializers, and the
\* test main when a subject of S runs through it.
SharedProvokes(S) ==
    \/ \E s \in S : PackageOf[s] \in world.badInit
    \/ \E s \in Harnessed(S) : PackageOf[s] \in world.badMain

\* The walk of S meets a shape.
Provokes(S) == SharedProvokes(S) \/ S \cap world.bad # {}

\* The row a subject has when it is analysed alone.
Solo(s) ==
    IF s \in world.unrooted THEN "unrooted"
    ELSE IF Provokes({s}) THEN "unavailable" ELSE "proved"

-----------------------------------------------------------------------------
\* A view asks for a batch, with a new Hasher; a package has a memo key or not
\* (no scope, or a closure that cannot be digested).
Begin(S, keys) ==
    /\ phase = "idle" /\ pass < MaxPasses
    /\ pass' = pass + 1
    /\ phase' = "call"
    /\ asked' = S /\ waiting' = S /\ isolated' = None
    /\ caller' = TRUE /\ budget' = TRUE /\ broke' = {}
    /\ failed' = {} /\ loads' = [p \in Packages |-> 0] /\ shared' = [p \in Packages |-> 0]
    /\ results' = NoRows /\ answer' = NoRows
    /\ keyed' = keys
    /\ UNCHANGED <<world, memo, faults, resolved, early, group, stack, entire, rows, company, kept>>

\* The subject being retried alone.
Alone == {s \in asked \ isolated : answer[s] = None}

\* What fails a call: its results are dropped.  A batch is retried subject by
\* subject, a subject retried alone is refused, and a caller that left gets
\* an error.
CallFails ==
    /\ results' = NoRows /\ rows' = NoRows
    /\ waiting' = {} /\ group' = {} /\ stack' = << >>
    /\ entire' = FALSE /\ resolved' = {} /\ early' = NoRows
    /\ IF ~caller THEN phase' = "idle" /\ answer' = NoRows /\ UNCHANGED isolated
       ELSE /\ phase' = "retry"
            /\ IF isolated = None THEN isolated' = asked /\ UNCHANGED answer
               ELSE /\ UNCHANGED isolated
                    /\ answer' = Put(answer, RowFor(Alone, "refused"))

\* A call fails for another reason than its time.
Failure ==
    /\ faults < MaxFaults
    /\ faults' = faults + 1
    /\ broke' = IF isolated = None THEN broke ELSE broke \cup Alone
    /\ CallFails

\* s is requested before t, and the first n of S in that order.
Before(s, t) == \E i, j \in DOMAIN Order : i < j /\ Order[i] = s /\ Order[j] = t
First(S, n) == {s \in S : Cardinality({t \in S : Before(t, s)}) < n}

\* Groups are taken in the order of their first request.
NextGroup(p) == \E s \in First(waiting, 1) : p = PackageOf[s]

\* A group's memo is read at its turn, or once before it.
MemoRow(s) == IF PackageOf[s] \in resolved THEN early[s] ELSE memo[s]

\* The subjects of p still waiting, and those of them the memo answers.
Group(p) == {s \in waiting : PackageOf[s] = p}
Served(p) == {s \in Group(p) : p \in keyed /\ MemoRow(s) # None}
MemoRows(S) == [s \in Subjects |-> IF s \in S THEN MemoRow(s) ELSE None]
Keyed(S) == {s \in S : PackageOf[s] \in keyed}

\* The first load of a call reads the memo of every package that waits and has
\* not failed; those it does not answer whole are prepared together.
Ahead == {PackageOf[s] : s \in waiting} \ failed
Candidates == {q \in Ahead : Group(q) # Served(q)}
Prepare ==
    shared' = IF resolved = {} /\ \E q, r \in Candidates : q # r
              THEN [q \in Packages |-> IF q \in Candidates THEN shared[q] + 1 ELSE shared[q]]
              ELSE shared

\* A group the memo answers whole is not loaded.
ServeGroup(p) ==
    /\ phase = "call" /\ budget
    /\ NextGroup(p)
    /\ Served(p) = Group(p)
    /\ results' = Put(results, MemoRows(Group(p)))
    /\ waiting' = waiting \ Group(p)
    /\ UNCHANGED <<world, memo, pass, faults, caller, budget, phase, asked, isolated, failed,
                   keyed, resolved, early, group, stack, entire, rows, answer, loads, shared,
                   company, broke, kept>>

\* The program of a group is loaded: what the memo answers is served, the
\* subjects that are no root get their row at once, the rest is to be walked.
LoadGroup(p) ==
    LET unserved == Group(p) \ Served(p)
        lost == unserved \cap world.unrooted
    IN
    /\ phase = "call" /\ budget
    /\ NextGroup(p)
    /\ unserved # {}
    /\ p \notin failed \cup world.unloadable
    /\ Prepare
    /\ IF resolved = {} THEN resolved' = Ahead /\ early' = MemoRows(waiting)
       ELSE UNCHANGED <<resolved, early>>
    /\ loads' = [loads EXCEPT ![p] = @ + 1]
    /\ results' = Put(Put(results, MemoRows(Served(p))), RowFor(lost, "unrooted"))
    /\ memo' = Put(memo, RowFor(Keyed(lost), "unrooted"))
    /\ waiting' = waiting \ Group(p)
    /\ group' = unserved \ lost
    /\ phase' = "group"
    /\ UNCHANGED <<world, pass, faults, caller, budget, asked, isolated, failed, keyed, stack,
                   entire, rows, answer, company, broke, kept>>

\* Mutant: a failed load is not remembered
LoadFailsUnnoted(p) ==
    /\ phase = "call" /\ budget
    /\ NextGroup(p)
    /\ Group(p) # Served(p)
    /\ p \in failed \cup world.unloadable
    /\ Prepare
    /\ loads' = [loads EXCEPT ![p] = @ + 1]
    /\ CallFails
    /\ UNCHANGED <<world, memo, pass, faults, caller, budget, asked, failed, keyed, company, broke,
                   kept>>

\* The load fails, now or earlier in this pass, and the call with it.
LoadFails(p) ==
    /\ phase = "call" /\ budget
    /\ NextGroup(p)
    /\ Group(p) # Served(p)
    /\ p \in failed \cup world.unloadable
    /\ failed' = failed \cup {p}
    /\ IF p \in failed THEN UNCHANGED <<loads, shared>>
       ELSE Prepare /\ loads' = [loads EXCEPT ![p] = @ + 1]
    /\ CallFails
    /\ UNCHANGED <<world, memo, pass, faults, caller, budget, asked, keyed, company, broke, kept>>

\* The package's files cannot be listed after its program was loaded: nothing
\* of the group is stored.
ListFails(p) ==
    /\ phase = "call" /\ budget
    /\ NextGroup(p)
    /\ ~((Group(p) \ Served(p)) \subseteq world.unrooted)
    /\ p \notin failed \cup world.unloadable
    /\ Prepare
    /\ loads' = [loads EXCEPT ![p] = @ + 1]
    /\ Failure
    /\ UNCHANGED <<world, memo, pass, caller, budget, asked, failed, keyed, company, kept>>

\* The next slice of the group, at most Width subjects.
StartSlice ==
    LET S == First(group, Width) IN
    /\ phase = "group" /\ budget
    /\ group # {}
    /\ stack' = <<S>>
    /\ group' = group \ S
    /\ company' = [s \in Subjects |-> IF s \in S THEN company[s] \cup S ELSE company[s]]
    /\ entire' = TRUE
    /\ rows' = NoRows
    /\ phase' = "slice"
    /\ UNCHANGED <<world, memo, pass, faults, caller, budget, waiting, asked, isolated, failed,
                   keyed, resolved, early, results, answer, loads, shared, broke, kept>>

\* splitAttributed: a batch of more than one subject is walked by halves.
Left(S) == First(S, Cardinality(S) \div 2)
Halves(S) == <<Left(S), S \ Left(S)>>
Single(S) == \E s \in S : S = {s}

\* Mutant: every subject of a batch that met a shape pays for it
WalkWhole ==
    LET S == Head(stack) IN
    /\ phase = "slice" /\ budget
    /\ stack # << >>
    /\ entire' = FALSE
    /\ rows' = Put(rows, RowFor(S, IF Provokes(S) THEN "unavailable" ELSE "proved"))
    /\ stack' = Tail(stack)
    /\ UNCHANGED <<world, memo, pass, faults, caller, budget, phase, waiting, asked, isolated,
                   failed, keyed, resolved, early, group, results, answer, loads, shared, company,
                   broke, kept>>

\* One walk.  A shape in what the whole slice shares makes every row
\* unavailable; otherwise halves are walked until the subjects that provoke
\* one stand alone.
Walk ==
    LET S == Head(stack) IN
    /\ phase = "slice" /\ budget
    /\ stack # << >>
    /\ entire' = FALSE
    /\ \/ /\ ~Provokes(S)
          /\ rows' = Put(rows, RowFor(S, "proved"))
          /\ stack' = Tail(stack)
       \/ /\ Provokes(S)
          /\ (entire /\ SharedProvokes(S)) \/ Single(S)
          /\ rows' = Put(rows, RowFor(S, "unavailable"))
          /\ stack' = Tail(stack)
       \/ /\ Provokes(S)
          /\ ~(entire /\ SharedProvokes(S)) /\ ~Single(S)
          /\ stack' = Halves(S) \o Tail(stack)
          /\ UNCHANGED rows
    /\ UNCHANGED <<world, memo, pass, faults, caller, budget, phase, waiting, asked, isolated,
                   failed, keyed, resolved, early, group, results, answer, loads, shared, company,
                   broke, kept>>

\* Mutant: rows enter the memo with the last slice of their group only
EndSliceLast ==
    /\ phase = "slice"
    /\ stack = << >>
    /\ results' = Put(results, rows)
    /\ memo' = IF group = {} THEN PutKeyed(memo, results') ELSE memo
    /\ kept' = kept \cup Keyed({s \in Subjects : rows[s] # None})
    /\ rows' = NoRows
    /\ phase' = "group"
    /\ UNCHANGED <<world, pass, faults, caller, budget, waiting, asked, isolated, failed, keyed,
                   resolved, early, group, stack, entire, answer, loads, shared, company, broke>>

\* The rows of a slice enter the results and the memo together.
EndSlice ==
    /\ phase = "slice"
    /\ stack = << >>
    /\ results' = Put(results, rows)
    /\ memo' = PutKeyed(memo, rows)
    /\ kept' = kept \cup Keyed({s \in Subjects : rows[s] # None})
    /\ rows' = NoRows
    /\ phase' = "group"
    /\ UNCHANGED <<world, pass, faults, caller, budget, waiting, asked, isolated, failed, keyed,
                   resolved, early, group, stack, entire, answer, loads, shared, company, broke>>

\* The program of a finished group is released.
EndGroup ==
    /\ phase = "group"
    /\ group = {}
    /\ phase' = "call"
    /\ UNCHANGED <<world, memo, pass, faults, caller, budget, waiting, asked, isolated, failed,
                   keyed, resolved, early, group, stack, entire, rows, results, answer, loads,
                   shared, company, broke, kept>>

\* Every group is done: the batch is the answer, or one retry is.
EndCall ==
    /\ phase = "call" /\ budget
    /\ waiting = {}
    /\ answer' = Put(answer, results)
    /\ results' = NoRows /\ resolved' = {} /\ early' = NoRows
    /\ phase' = IF isolated = None THEN "idle" ELSE "retry"
    /\ UNCHANGED <<world, memo, pass, faults, caller, budget, waiting, asked, isolated, failed,
                   keyed, group, stack, entire, rows, loads, shared, company, broke, kept>>

\* Mutant: the retried subject stays on the list of those to retry
RetryAgain(s) ==
    /\ phase = "retry"
    /\ s \in isolated
    /\ waiting' = {s}
    /\ results' = NoRows
    /\ phase' = "call"
    /\ UNCHANGED <<world, memo, pass, faults, caller, budget, asked, isolated, failed, keyed,
                   resolved, early, group, stack, entire, rows, answer, loads, shared, company,
                   broke, kept>>

\* The next subject is analysed alone.
Retry(s) ==
    /\ phase = "retry"
    /\ s \in isolated
    /\ isolated' = isolated \ {s}
    /\ waiting' = {s}
    /\ results' = NoRows
    /\ phase' = "call"
    /\ UNCHANGED <<world, memo, pass, faults, caller, budget, asked, failed, keyed, resolved,
                   early, group, stack, entire, rows, answer, loads, shared, company, broke, kept>>

EndRetries ==
    /\ phase = "retry"
    /\ isolated = {}
    /\ phase' = "idle"
    /\ answer' = IF caller THEN answer ELSE NoRows
    /\ UNCHANGED <<world, memo, pass, faults, caller, budget, waiting, asked, isolated, failed,
                   keyed, resolved, early, group, stack, entire, rows, results, loads, shared,
                   company, broke, kept>>

\* A call notices that its context has ended.
CutShort ==
    /\ phase \in {"call", "group", "slice"} /\ ~budget
    /\ CallFails
    /\ UNCHANGED <<world, memo, pass, faults, caller, budget, asked, failed, keyed, loads, shared,
                   company, broke, kept>>

-----------------------------------------------------------------------------
\* The surroundings: the budget ends, the caller leaves, a walk or
\* a classification fails, the memo's entry of a package is collected.
Spend ==
    /\ phase # "idle" /\ budget
    /\ budget' = FALSE
    /\ UNCHANGED <<world, memo, pass, faults, caller, phase, waiting, asked, isolated, failed,
                   keyed, resolved, early, group, stack, entire, rows, results, answer, loads,
                   shared, company, broke, kept>>

Leave ==
    /\ phase # "idle" /\ caller
    /\ caller' = FALSE /\ budget' = FALSE
    /\ UNCHANGED <<world, memo, pass, faults, phase, waiting, asked, isolated, failed, keyed,
                   resolved, early, group, stack, entire, rows, results, answer, loads, shared,
                   company, broke, kept>>

Break ==
    /\ phase = "slice" /\ budget
    /\ Failure
    /\ UNCHANGED <<world, memo, pass, caller, budget, asked, failed, keyed, loads, shared, company,
                   kept>>

Collect(p) ==
    /\ faults < MaxFaults
    /\ \E s \in Subjects : PackageOf[s] = p /\ memo[s] # None
    /\ faults' = faults + 1
    /\ memo' = [s \in Subjects |-> IF PackageOf[s] = p THEN None ELSE memo[s]]
    /\ kept' = {s \in kept : PackageOf[s] # p}
    /\ UNCHANGED <<world, pass, caller, budget, phase, waiting, asked, isolated, failed, keyed,
                   resolved, early, group, stack, entire, rows, results, answer, loads, shared,
                   company, broke>>

Step ==
    \/ \E p \in Packages :
         ServeGroup(p) \/ LoadFails(p) \/ LoadGroup(p)
    \/ StartSlice \/ Walk \/ EndSlice \/ EndGroup \/ EndCall \/ CutShort \/ EndRetries
    \/ \E s \in Subjects : Retry(s)

Next ==
    \/ Step
    \/ \E S \in Requests, keys \in Keyings : Begin(S, keys)
    \/ \E p \in Packages : ListFails(p) \/ Collect(p)
    \/ Spend \/ Leave \/ Break

\* The pass is one sequential computation: it goes on while it can.
Spec == Init /\ [][Next]_vars /\ WF_vars(Step)

-----------------------------------------------------------------------------
\* A shape in the test main of s's package, and a subject that runs through it
\* walked in one slice with s: a failure in the roots the slice shares degrades
\* each of its subjects (closure.md:1289-1295).
HarnessDenied(s) ==
    \E t \in Harnessed(company[s]) :
      PackageOf[t] = PackageOf[s] /\ PackageOf[t] \in world.badMain

\* Batching, bisecting, the memo and the retry are invisible in the rows: each
\* is the row of the subject analysed alone, but for a shape in the test main,
\* which every subject of the slice that met it pays for; and a subject is
\* refused for its own package, its own retry, or the time, never for a
\* companion.
RowsAreOwn ==
    \A s \in Subjects :
      /\ memo[s] # "refused"
      /\ \A row \in {memo[s], answer[s]} \ {None, "refused"} :
           row = Solo(s) \/ (row = "unavailable" /\ HarnessDenied(s))
      /\ answer[s] = "refused" => PackageOf[s] \in world.unloadable \/ s \in broke \/ ~budget

\* A package that does not load is not loaded once more for each of its
\* subjects that is retried, nor prepared again with others.
FailingLoadOnce == \A p \in world.unloadable : loads[p] <= 1 /\ shared[p] <= 1

\* A cut or a failure forfeits the interrupted slice only: a subject whose
\* slice was completed under a key is not walked again under one.
WorkIsKept ==
    phase \in {"group", "slice"} =>
      Keyed(group \cup UNION {stack[i] : i \in DOMAIN stack}) \cap kept = {}

\* Every pass ends, whatever fails in it: again and again none is under way.
PassEnds == []<>(phase = "idle")
=============================================================================
