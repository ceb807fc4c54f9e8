-------------------------- MODULE ProofBatchProofs --------------------------
(* Proofs about a pass over a batch, for any packages, subjects, worlds, any  *)
(* slice width and any number of passes and faults. A pass hands each subject *)
(* on from the list of those waiting to its row (InHand); the rows on the way *)
(* are the subject's own (Own), and while a subject is retried it is the only *)
(* one without an answer (Retrying), so that a refusal can only be its own.   *)
EXTENDS ProofBatch, TLAPS

Members(q) == UNION {q[i] : i \in DOMAIN q}
Stacked == Members(stack)
Has(table) == {s \in Subjects : table[s] # None}
Calling == {"call", "group", "slice"}

Phases ==
    /\ phase \in {"idle", "call", "retry"} => group = {}
    /\ phase # "slice" => stack = << >> /\ rows = NoRows
    /\ phase \in {"idle", "retry"} => waiting = {}
    /\ phase \in {"idle", "retry"} => resolved = {}
    /\ phase = "retry" => isolated # None
    /\ caller \/ ~budget
\* What is still to walk is of one package, is rooted and has no row.
ToWalk ==
    /\ group \cap Stacked = {} /\ group \cap Has(rows) = {}
    /\ waiting \cap (group \cup Stacked \cup Has(rows)) = {}
    /\ (group \cup Stacked) \cap world.unrooted = {}
    /\ \A s, u \in group \cup Stacked : PackageOf[s] = PackageOf[u]
Finished ==
    /\ \A s \in kept : memo[s] # None
    /\ Keyed(group \cup Stacked) \cap kept = {}
    /\ \A s \in Keyed(waiting) \cap kept : PackageOf[s] \in resolved => early[s] # None
LoadsCounted ==
    /\ failed \subseteq world.unloadable
    /\ \A p \in world.unloadable : loads[p] <= 1 /\ (p \notin failed => loads[p] = 0)
\* Packages are prepared together in the first call of a pass only: a call that
\* retries a subject has one package.
SharedOnce ==
    /\ \A p \in Packages : shared[p] <= 1
    /\ isolated = None /\ phase \in Calling /\ resolved = {} => \A p \in Packages : shared[p] = 0
    /\ isolated # None /\ phase \in Calling => \A s, u \in waiting : s = u
Companions == \A s, u \in Stacked : u \in company[s]
Own(s, row) == row = Solo(s) \/ (row = "unavailable" /\ HarnessDenied(s))
AllOwn(table) == \A s \in Subjects : table[s] # None => Own(s, table[s])
RowsOwn ==
    /\ AllOwn(memo) /\ AllOwn(early) /\ AllOwn(rows) /\ AllOwn(results)
    /\ \A s \in Subjects : answer[s] \notin {None, "refused"} => Own(s, answer[s])
Refusals ==
    \A s \in Subjects :
        answer[s] = "refused" => PackageOf[s] \in world.unloadable \/ s \in broke \/ ~budget
InHand == waiting \cup group \cup Stacked \cup Has(rows) \cup Has(results)
\* A subject retried is the only one without an answer, and is on its way.
Retrying ==
    isolated # None =>
        /\ phase = "retry" => Alone = {}
        /\ phase \in Calling => /\ Alone \subseteq InHand
                                /\ \A s \in Alone, u \in Alone \cup waiting : s = u
IInv ==
    /\ TypeOK /\ Phases /\ ToWalk /\ Finished /\ LoadsCounted /\ SharedOnce /\ Companions
    /\ RowsOwn /\ Refusals /\ Retrying

-----------------------------------------------------------------------------
(* Tables of rows, and types.                                                 *)

Tables == [Subjects -> Row \cup {None}]

LEMMA PutIs ==
    ASSUME NEW old \in Tables, NEW new \in Tables
    PROVE  /\ Put(old, new) \in Tables /\ Has(Put(old, new)) = Has(old) \cup Has(new)
           /\ \A s \in Subjects : Put(old, new)[s] = IF new[s] = None THEN old[s] ELSE new[s]
BY DEF Put, Tables, Has

LEMMA RowForIs ==
    ASSUME NEW S \in SUBSET Subjects, NEW row \in Row
    PROVE  /\ RowFor(S, row) \in Tables /\ Has(RowFor(S, row)) = S
           /\ \A s \in Subjects : RowFor(S, row)[s] = IF s \in S THEN row ELSE None
<1>1. row # None
    BY ProofBatchAssumption
<1> QED
    BY <1>1 DEF RowFor, Tables, Has

LEMMA NoRowsIs ==
    NoRows \in Tables /\ Has(NoRows) = {}
BY DEF NoRows, Tables, Has

LEMMA PutKeyedIs ==
    ASSUME TypeOK, NEW old \in Tables, NEW new \in Tables
    PROVE  /\ PutKeyed(old, new) \in Tables /\ Has(old) \subseteq Has(PutKeyed(old, new))
           /\ Keyed(Has(new)) \subseteq Has(PutKeyed(old, new))
           /\ \A s \in Subjects : PutKeyed(old, new)[s] \in {old[s], new[s]}
BY DEF PutKeyed, Keyed, Tables, Has

LEMMA MemoRowIs ==
    ASSUME TypeOK, NEW s \in Subjects
    PROVE  MemoRow(s) \in Row \cup {None} /\ MemoRow(s) \in {memo[s], early[s]}
BY DEF TypeOK, MemoRow

LEMMA MemoRowsAre ==
    ASSUME TypeOK, NEW S \in SUBSET Subjects
    PROVE  /\ MemoRows(S) \in Tables
           /\ \A s \in Subjects : MemoRows(S)[s] = IF s \in S THEN MemoRow(s) ELSE None
           /\ (\A s \in S : MemoRow(s) # None) => Has(MemoRows(S)) = S
BY MemoRowIs DEF MemoRows, Tables, Has

LEMMA GroupIs ==
    ASSUME TypeOK, NEW p
    PROVE  /\ Group(p) \in SUBSET Subjects /\ Served(p) \in SUBSET Subjects
           /\ Group(p) \subseteq waiting /\ Served(p) \subseteq Group(p)
           /\ \A s \in Group(p) : PackageOf[s] = p
           /\ \A s \in Served(p) : MemoRow(s) # None
           /\ \A s \in Group(p) \ Served(p) : p \in keyed => MemoRow(s) = None
           /\ \A s \in waiting \ Group(p) : PackageOf[s] # p
BY DEF TypeOK, Group, Served

LEMMA PrepareTypes ==
    ASSUME TypeOK, Prepare
    PROVE  shared' \in [Packages -> Nat]
BY DEF Prepare, TypeOK

LEMMA NoStack ==
    << >> \in Seq(SUBSET Subjects)
OBVIOUS

LEMMA FirstIs ==
    ASSUME NEW S, NEW n
    PROVE  First(S, n) \subseteq S
BY DEF First

LEMMA CallFailsTypes ==
    ASSUME TypeOK, CallFails
    PROVE  /\ results' \in Tables /\ rows' \in Tables /\ answer' \in Tables
           /\ waiting' = {} /\ group' = {} /\ stack' = << >> /\ entire' \in BOOLEAN
           /\ resolved' = {} /\ early' \in Tables
           /\ stack' \in Seq(SUBSET Subjects)
           /\ phase' \in {"idle", "retry"} /\ isolated' \in {None} \cup SUBSET Subjects
<1>1. results' \in Tables /\ rows' \in Tables /\ early' \in Tables
    BY NoRowsIs DEF CallFails
<1>2. Alone \in SUBSET Subjects
    BY DEF Alone, TypeOK
<1>3. RowFor(Alone, "refused") \in Tables
    BY <1>2, RowForIs DEF Row
<1>4. answer \in Tables
    BY DEF TypeOK, Tables
<1>5. answer' \in Tables
    BY <1>3, <1>4, PutIs, NoRowsIs DEF CallFails
<1>6. phase' \in {"idle", "retry"} /\ isolated' \in {None} \cup SUBSET Subjects
    BY DEF CallFails, TypeOK
<1> QED
    BY <1>1, <1>5, <1>6, NoStack DEF CallFails

LEMMA FailureTypes ==
    ASSUME TypeOK, Failure
    PROVE  CallFails /\ faults' \in 0..MaxFaults /\ broke' \subseteq Subjects
BY ProofBatchAssumption DEF Failure, TypeOK, Alone

LEMMA TypeInit ==
    Init => TypeOK
<1> SUFFICES ASSUME Init PROVE TypeOK
    OBVIOUS
<1>1. memo \in Tables /\ rows \in Tables /\ results \in Tables /\ answer \in Tables
      /\ early \in Tables
    BY NoRowsIs DEF Init
<1>2. stack \in Seq(SUBSET Subjects)
    BY NoStack DEF Init
<1>3. pass \in 0..MaxPasses /\ faults \in 0..MaxFaults
    BY ProofBatchAssumption DEF Init
<1> QED
    BY <1>1, <1>2, <1>3 DEF Init, TypeOK, Tables

LEMMA CallTypes ==
    ASSUME TypeOK, NEW p \in Packages,
           ServeGroup(p) \/ LoadGroup(p) \/ LoadFails(p) \/ ListFails(p) \/ Collect(p)
    PROVE  TypeOK'
<1>0. memo \in Tables /\ results \in Tables
    BY DEF TypeOK, Tables
<1>l. [loads EXCEPT ![p] = @ + 1] \in [Packages -> Nat]
    BY DEF TypeOK
<1>1. CASE ServeGroup(p)
  <2>1. results' = Put(results, MemoRows(Group(p)))
    BY <1>1 DEF ServeGroup
  <2>2. results' \in Tables
    BY <1>0, <2>1, GroupIs, MemoRowsAre, PutIs
  <2> QED
    BY <1>1, <2>2 DEF ServeGroup, TypeOK, Tables
<1>2. CASE LoadGroup(p)
  <2> DEFINE lost == (Group(p) \ Served(p)) \cap world.unrooted
  <2>1. /\ results' = Put(Put(results, MemoRows(Served(p))), RowFor(lost, "unrooted"))
        /\ memo' = Put(memo, RowFor(Keyed(lost), "unrooted")) /\ Prepare
        /\ (resolved' = Ahead /\ early' = MemoRows(waiting)) \/ UNCHANGED <<resolved, early>>
        /\ group' = (Group(p) \ Served(p)) \ lost
    BY <1>2 DEF LoadGroup
  <2>2. lost \in SUBSET Subjects /\ Keyed(lost) \in SUBSET Subjects /\ group' \subseteq Subjects
    BY <2>1, GroupIs DEF Keyed
  <2> HIDE DEF lost
  <2>3. RowFor(lost, "unrooted") \in Tables /\ RowFor(Keyed(lost), "unrooted") \in Tables
    BY <2>2, RowForIs DEF Row
  <2>4. results' \in Tables /\ memo' \in Tables
    BY <1>0, <2>1, <2>3, GroupIs, MemoRowsAre, PutIs
  <2>5. resolved' \subseteq Packages /\ early' \in Tables
    BY <2>1, MemoRowsAre, ProofBatchAssumption DEF TypeOK, Ahead, Tables
  <2>6. shared' \in [Packages -> Nat]
    BY <2>1, PrepareTypes
  <2> QED
    BY <1>2, <1>l, <2>2, <2>4, <2>5, <2>6 DEF LoadGroup, TypeOK, Tables
<1>3. CASE LoadFails(p)
  <2>1. CallFails /\ loads' \in [Packages -> Nat] /\ failed' \subseteq Packages
        /\ UNCHANGED <<world, memo, pass, faults, caller, budget, asked, keyed, company, broke, kept>>
    BY <1>3, <1>l DEF LoadFails, TypeOK
  <2>2. shared' \in [Packages -> Nat]
    BY <1>3, PrepareTypes DEF LoadFails, TypeOK
  <2> QED
    BY <2>1, <2>2, CallFailsTypes DEF TypeOK, Tables
<1>4. CASE ListFails(p)
  <2>1. Failure /\ loads' \in [Packages -> Nat] /\ Prepare
        /\ UNCHANGED <<world, memo, pass, caller, budget, asked, failed, keyed, company, kept>>
    BY <1>4, <1>l DEF ListFails
  <2>2. CallFails /\ faults' \in 0..MaxFaults /\ broke' \subseteq Subjects
        /\ shared' \in [Packages -> Nat]
    BY <2>1, FailureTypes, PrepareTypes
  <2> QED
    BY <2>1, <2>2, CallFailsTypes DEF TypeOK, Tables
<1>5. CASE Collect(p)
  <2>1. memo' \in Tables /\ kept' \subseteq Subjects /\ faults' \in 0..MaxFaults
    BY <1>5, ProofBatchAssumption DEF Collect, TypeOK, Tables
  <2> QED
    BY <1>5, <2>1 DEF Collect, TypeOK, Tables
<1> QED
    BY <1>1, <1>2, <1>3, <1>4, <1>5

LEMMA SliceTypes ==
    ASSUME TypeOK, StartSlice \/ Walk \/ EndSlice \/ EndGroup \/ EndCall
    PROVE  TypeOK'
<1>0. rows \in Tables /\ results \in Tables /\ memo \in Tables /\ answer \in Tables
    BY DEF TypeOK, Tables
<1>1. CASE StartSlice
  <2>1. First(group, Width) \in SUBSET Subjects
    BY FirstIs DEF TypeOK
  <2>2. stack' \in Seq(SUBSET Subjects) /\ group' \subseteq Subjects
        /\ company' \in [Subjects -> SUBSET Subjects]
    BY <1>1, <2>1 DEF StartSlice, TypeOK
  <2> QED
    BY <1>1, <2>2, NoRowsIs DEF StartSlice, TypeOK, Tables
<1>2. CASE Walk
  <2> DEFINE S == Head(stack)
  <2>1. S \in SUBSET Subjects /\ Tail(stack) \in Seq(SUBSET Subjects)
    BY <1>2 DEF Walk, TypeOK
  <2>2. Left(S) \in SUBSET Subjects
    BY <2>1, FirstIs DEF Left
  <2>3. Halves(S) \o Tail(stack) \in Seq(SUBSET Subjects)
    BY <2>1, <2>2 DEF Halves
  <2>4. \A row \in {"proved", "unavailable"} : Put(rows, RowFor(S, row)) \in Tables
    BY <1>0, <2>1, RowForIs, PutIs DEF Row
  <2>5. rows' \in Tables /\ stack' \in Seq(SUBSET Subjects)
    BY <1>0, <1>2, <2>1, <2>3, <2>4 DEF Walk
  <2> QED
    BY <1>2, <2>5 DEF Walk, TypeOK, Tables
<1>3. CASE EndSlice
  <2>1. results' \in Tables /\ memo' \in Tables /\ rows' \in Tables /\ kept' \subseteq Subjects
    BY <1>0, <1>3, PutIs, PutKeyedIs, NoRowsIs DEF EndSlice, TypeOK, Keyed
  <2> QED
    BY <1>3, <2>1 DEF EndSlice, TypeOK, Tables
<1>4. CASE EndGroup
    BY <1>4 DEF EndGroup, TypeOK
<1>5. CASE EndCall
  <2>1. answer' \in Tables /\ results' \in Tables /\ early' \in Tables
    BY <1>0, <1>5, PutIs, NoRowsIs DEF EndCall
  <2> QED
    BY <1>5, <2>1 DEF EndCall, TypeOK, Tables
<1> QED
    BY <1>1, <1>2, <1>3, <1>4, <1>5

LEMMA TypeStep ==
    ASSUME TypeOK, Phases, [Next]_vars
    PROVE  TypeOK'
<1>1. ASSUME NEW S \in Requests, NEW keys \in Keyings, Begin(S, keys)
      PROVE  TypeOK'
  <2>1. pass' \in 0..MaxPasses /\ S \subseteq Subjects /\ keys \subseteq Packages
    BY <1>1, ProofBatchAssumption DEF Begin, TypeOK
  <2> QED
    BY <1>1, <2>1, NoRowsIs DEF Begin, TypeOK, Tables
<1>2. ASSUME NEW s \in Subjects, Retry(s)
      PROVE  TypeOK'
  <2>1. isolated' \in {None} \cup SUBSET Subjects
    BY <1>2 DEF Retry, TypeOK, Phases
  <2> QED
    BY <1>2, <2>1, NoRowsIs DEF Retry, TypeOK, Tables
<1>3. CASE CutShort
    BY <1>3, CallFailsTypes DEF CutShort, TypeOK, Tables
<1>4. CASE Break
  <2>1. Failure /\ UNCHANGED <<world, memo, pass, caller, budget, asked, failed, keyed, loads, shared,
                               company, kept>>
    BY <1>4 DEF Break
  <2>2. CallFails /\ faults' \in 0..MaxFaults /\ broke' \subseteq Subjects
    BY <2>1, FailureTypes
  <2> QED
    BY <2>1, <2>2, CallFailsTypes DEF TypeOK, Tables
<1>5. CASE EndRetries
    BY <1>5, NoRowsIs DEF EndRetries, TypeOK, Tables
<1>6. CASE Spend \/ Leave
    BY <1>6 DEF Spend, Leave, TypeOK
<1>7. CASE UNCHANGED vars
    BY <1>7 DEF vars, TypeOK
<1> QED
    BY <1>1, <1>2, <1>3, <1>4, <1>5, <1>6, <1>7, CallTypes, SliceTypes DEF Next, Step

-----------------------------------------------------------------------------
(* Phases, loads, and what is on the way.                                     *)

LEMMA MembersAre ==
    ASSUME NEW q \in Seq(SUBSET Subjects), NEW A \in SUBSET Subjects
    PROVE  /\ Members(<< >>) = {} /\ Members(<<A>>) = A
           /\ q # << >> => Members(q) = Head(q) \cup Members(Tail(q))
<1>1. Members(<< >>) = {} /\ Members(<<A>>) = A
    BY DEF Members
<1>2. ASSUME q # << >>
      PROVE  Members(q) = Head(q) \cup Members(Tail(q))
  <2>1. Len(q) \in Nat \ {0} /\ DOMAIN q = 1..Len(q) /\ DOMAIN Tail(q) = 1..(Len(q) - 1)
        /\ Head(q) = q[1] /\ \A i \in 1..(Len(q) - 1) : Tail(q)[i] = q[i + 1]
    BY <1>2
  <2>2. ASSUME NEW s, \E i \in DOMAIN q : s \in q[i]
        PROVE  s \in q[1] \/ \E i \in DOMAIN Tail(q) : s \in Tail(q)[i]
    <3>1. PICK i \in 1..Len(q) : s \in q[i]
      BY <2>1, <2>2
    <3>2. i = 1 \/ (i - 1 \in 1..(Len(q) - 1) /\ Tail(q)[i - 1] = q[i])
      BY <2>1
    <3> QED
      BY <2>1, <3>1, <3>2
  <2>3. ASSUME NEW s, s \in q[1] \/ \E i \in DOMAIN Tail(q) : s \in Tail(q)[i]
        PROVE  \E i \in DOMAIN q : s \in q[i]
    <3>1. \A i \in 1..(Len(q) - 1) : i + 1 \in 1..Len(q)
      BY <2>1
    <3> QED
      BY <2>1, <2>3, <3>1
  <2> QED
    BY <2>1, <2>2, <2>3 DEF Members
<1> QED
    BY <1>1, <1>2

LEMMA MembersJoin ==
    ASSUME NEW q \in Seq(SUBSET Subjects), NEW A \in SUBSET Subjects, NEW B \in SUBSET Subjects
    PROVE  Members(<<A, B>> \o q) = A \cup B \cup Members(q)
<1> DEFINE r == <<A, B>> \o q
<1>1. Len(q) \in Nat /\ DOMAIN q = 1..Len(q) /\ DOMAIN r = 1..(Len(q) + 2)
      /\ r[1] = A /\ r[2] = B /\ \A i \in 1..Len(q) : r[i + 2] = q[i]
  OBVIOUS
<1> HIDE DEF r
<1>2. ASSUME NEW s, \E i \in DOMAIN r : s \in r[i]
      PROVE  s \in A \/ s \in B \/ \E i \in DOMAIN q : s \in q[i]
  <2>1. PICK i \in 1..(Len(q) + 2) : s \in r[i]
    BY <1>1, <1>2
  <2>2. i = 1 \/ i = 2 \/ (i - 2 \in 1..Len(q) /\ r[i] = q[i - 2])
    BY <1>1
  <2> QED
    BY <1>1, <2>1, <2>2
<1>3. ASSUME NEW s, s \in A \/ s \in B \/ \E i \in DOMAIN q : s \in q[i]
      PROVE  \E i \in DOMAIN r : s \in r[i]
  <2>1. 1 \in DOMAIN r /\ 2 \in DOMAIN r /\ \A i \in 1..Len(q) : i + 2 \in DOMAIN r
    BY <1>1
  <2> QED
    BY <1>1, <1>3, <2>1
<1>4. Members(r) = A \cup B \cup Members(q)
  BY <1>2, <1>3 DEF Members
<1> QED
  BY <1>4 DEF r

\* The ways a call fails.
Broken == CutShort \/ Break \/ \E p \in Packages : LoadFails(p) \/ ListFails(p)

LEMMA BrokenDoes ==
    ASSUME TypeOK, Broken
    PROVE  /\ phase \in Calling /\ CallFails
           /\ group' = {} /\ stack' = << >> /\ waiting' = {} /\ rows' = NoRows /\ results' = NoRows
           /\ resolved' = {} /\ early' = NoRows
           /\ phase' \in {"idle", "retry"} /\ (phase' = "retry" => isolated' # None)
           /\ UNCHANGED <<world, memo, caller, budget, asked, keyed, company, kept>>
           /\ broke \subseteq broke'
<1>1. CallFails /\ broke \subseteq broke' /\ phase \in Calling
      /\ UNCHANGED <<world, memo, caller, budget, asked, keyed, company, kept>>
    BY DEF Broken, CutShort, Break, LoadFails, ListFails, Failure, Calling
<1>2. asked # None
    BY ProofBatchAssumption DEF TypeOK
<1> QED
    BY <1>1, <1>2 DEF CallFails

LEMMA PhasesStep ==
    ASSUME TypeOK, Phases, [Next]_vars
    PROVE  Phases'
<1>1. CASE Broken
    BY <1>1, BrokenDoes DEF Phases
<1>2. ASSUME NEW p \in Packages, ServeGroup(p) \/ LoadGroup(p) \/ Collect(p)
      PROVE  Phases'
    BY <1>2 DEF Phases, ServeGroup, LoadGroup, Collect
<1>3. CASE StartSlice \/ Walk \/ EndSlice \/ EndGroup \/ EndCall
  <2>1. CASE StartSlice \/ Walk
    BY <2>1 DEF Phases, StartSlice, Walk
  <2>2. CASE EndSlice
    BY <2>2 DEF Phases, EndSlice
  <2>3. CASE EndGroup \/ EndCall
    BY <2>3 DEF Phases, EndGroup, EndCall
  <2> QED
    BY <1>3, <2>1, <2>2, <2>3
<1>4. CASE Spend \/ Leave \/ EndRetries
    BY <1>4 DEF Phases, Spend, Leave, EndRetries
<1>5. ASSUME NEW s \in Subjects, Retry(s)
      PROVE  Phases'
    BY <1>5 DEF Phases, Retry
<1>6. ASSUME NEW S \in Requests, NEW keys \in Keyings, Begin(S, keys)
      PROVE  Phases'
    BY <1>6 DEF Phases, Begin
<1>7. CASE UNCHANGED vars
    BY <1>7 DEF Phases, vars
<1> QED
    BY <1>1, <1>2, <1>3, <1>4, <1>5, <1>6, <1>7 DEF Next, Step, Broken

LEMMA LoadsStep ==
    ASSUME TypeOK, LoadsCounted, [Next]_vars
    PROVE  LoadsCounted'
<1>1. CASE UNCHANGED <<world, failed, loads>>
    BY <1>1 DEF LoadsCounted
<1>2. ASSUME NEW p \in Packages, LoadFails(p)
      PROVE  LoadsCounted'
  <2>1. failed' = failed \cup {p} /\ world' = world /\ p \in failed \cup world.unloadable
        /\ (p \in failed => loads' = loads)
        /\ (p \notin failed => loads' = [loads EXCEPT ![p] = @ + 1])
    BY <1>2 DEF LoadFails
  <2>2. world.unloadable \subseteq Packages
    BY ProofBatchAssumption DEF TypeOK
  <2>3. CASE p \in failed
    BY <2>1, <2>3 DEF LoadsCounted
  <2>4. CASE p \notin failed
    <3>1. \A q \in world.unloadable : loads'[q] = IF q = p THEN loads[p] + 1 ELSE loads[q]
      BY <2>1, <2>2, <2>4 DEF TypeOK
    <3>2. p \in world.unloadable /\ loads[p] = 0
      BY <2>1, <2>4 DEF LoadsCounted
    <3> QED
      BY <2>1, <3>1, <3>2 DEF LoadsCounted
  <2> QED
    BY <2>3, <2>4
<1>3. ASSUME NEW p \in Packages, LoadGroup(p) \/ ListFails(p)
      PROVE  LoadsCounted'
  <2>1. /\ p \notin world.unloadable /\ loads' = [loads EXCEPT ![p] = @ + 1]
        /\ UNCHANGED <<world, failed>>
    BY <1>3 DEF LoadGroup, ListFails
  <2>2. \A q \in world.unloadable : loads'[q] = loads[q]
    BY <2>1, ProofBatchAssumption DEF TypeOK
  <2> QED
    BY <2>1, <2>2 DEF LoadsCounted
<1>4. ASSUME NEW S \in Requests, NEW keys \in Keyings, Begin(S, keys)
      PROVE  LoadsCounted'
    BY <1>4, ProofBatchAssumption DEF LoadsCounted, Begin, TypeOK
<1>5. ASSUME NEW p \in Packages, ServeGroup(p) \/ Collect(p)
      PROVE  LoadsCounted'
    BY <1>1, <1>5 DEF ServeGroup, Collect
<1> QED
    BY <1>1, <1>2, <1>3, <1>4, <1>5
    DEF Next, Step, vars, StartSlice, Walk, EndSlice, EndGroup, EndCall, CutShort, EndRetries, Retry,
        Spend, Leave, Break

\* A walk gives its batch one row each, or goes on with the halves of it.
LEMMA WalkDoes ==
    ASSUME TypeOK, Walk
    PROVE  /\ Stacked' \cup Has(rows') = Stacked \cup Has(rows) /\ Stacked' \subseteq Stacked
           /\ Has(rows') \subseteq Has(rows) \cup Stacked
           /\ \/ UNCHANGED rows
              \/ \E S \in SUBSET Stacked : \E row \in {"proved", "unavailable"} :
                    /\ \A s \in Subjects : rows'[s] = IF s \in S THEN row ELSE rows[s]
                    /\ row = "proved" => ~Provokes(S)
                    /\ row = "unavailable" => Provokes(S) /\ (SharedProvokes(S) \/ Single(S))
           /\ UNCHANGED <<world, memo, caller, budget, phase, waiting, asked, isolated, keyed, group,
                          resolved, early, results, answer, company, kept, broke>>
<1> DEFINE S == Head(stack)
<1>0. stack # << >> /\ stack \in Seq(SUBSET Subjects) /\ rows \in Tables
    BY DEF Walk, TypeOK, Tables
<1>1. S \in SUBSET Subjects /\ Tail(stack) \in Seq(SUBSET Subjects)
    BY <1>0
<1>2. Stacked = S \cup Members(Tail(stack))
    BY <1>0, <1>1, MembersAre DEF Stacked
<1>3. UNCHANGED <<world, memo, caller, budget, phase, waiting, asked, isolated, keyed, group,
                  resolved, early, results, answer, company, kept, broke>>
    BY DEF Walk
<1>4. \/ /\ ~Provokes(S) /\ rows' = Put(rows, RowFor(S, "proved")) /\ stack' = Tail(stack)
      \/ /\ Provokes(S) /\ (SharedProvokes(S) \/ Single(S))
         /\ rows' = Put(rows, RowFor(S, "unavailable")) /\ stack' = Tail(stack)
      \/ UNCHANGED rows /\ stack' = Halves(S) \o Tail(stack)
    BY DEF Walk
<1> HIDE DEF S
<1>5. ASSUME NEW row \in {"proved", "unavailable"}, rows' = Put(rows, RowFor(S, row)), stack' = Tail(stack)
      PROVE  /\ Stacked' \cup Has(rows') = Stacked \cup Has(rows) /\ Stacked' \subseteq Stacked
             /\ Has(rows') \subseteq Has(rows) \cup Stacked
             /\ \A s \in Subjects : rows'[s] = IF s \in S THEN row ELSE rows[s]
  <2>1. row \in Row /\ row # None
    BY ProofBatchAssumption DEF Row
  <2>2. /\ RowFor(S, row) \in Tables /\ Has(RowFor(S, row)) = S
        /\ \A s \in Subjects : RowFor(S, row)[s] = IF s \in S THEN row ELSE None
    BY <1>1, <2>1, RowForIs
  <2>3. Has(rows') = Has(rows) \cup S
    BY <1>0, <1>5, <2>2, PutIs
  <2>4. \A s \in Subjects : rows'[s] = IF s \in S THEN row ELSE rows[s]
    BY <1>0, <1>5, <2>1, <2>2, PutIs
  <2>5. Stacked' = Members(Tail(stack))
    BY <1>5 DEF Stacked
  <2> QED
    BY <1>2, <2>3, <2>4, <2>5
<1>6. ASSUME UNCHANGED rows, stack' = Halves(S) \o Tail(stack)
      PROVE  Stacked' = Stacked
  <2>1. Left(S) \subseteq S
    BY FirstIs DEF Left
  <2>0. Left(S) \in SUBSET Subjects /\ S \ Left(S) \in SUBSET Subjects
    BY <1>1, <2>1
  <2>2. Members(<<Left(S), S \ Left(S)>> \o Tail(stack)) = Left(S) \cup (S \ Left(S)) \cup Members(Tail(stack))
    <3> DEFINE q == Tail(stack)
               A == Left(S)
               B == S \ Left(S)
    <3>1. q \in Seq(SUBSET Subjects) /\ A \in SUBSET Subjects /\ B \in SUBSET Subjects
      BY <1>1, <2>0
    <3> HIDE DEF q, A, B
    <3>2. Members(<<A, B>> \o q) = A \cup B \cup Members(q)
      BY <3>1, MembersJoin
    <3> QED
      BY <3>2 DEF q, A, B
  <2> QED
    BY <1>2, <1>6, <2>1, <2>2 DEF Stacked, Halves
<1>7. CASE ~Provokes(S) /\ rows' = Put(rows, RowFor(S, "proved")) /\ stack' = Tail(stack)
  <2>1. /\ Stacked' \cup Has(rows') = Stacked \cup Has(rows) /\ Stacked' \subseteq Stacked
        /\ Has(rows') \subseteq Has(rows) \cup Stacked
        /\ \A s \in Subjects : rows'[s] = IF s \in S THEN "proved" ELSE rows[s]
    BY <1>5, <1>7
  <2> QED
    BY <1>2, <1>3, <1>7, <2>1
<1>8. CASE /\ Provokes(S) /\ (SharedProvokes(S) \/ Single(S))
           /\ rows' = Put(rows, RowFor(S, "unavailable")) /\ stack' = Tail(stack)
  <2>1. /\ Stacked' \cup Has(rows') = Stacked \cup Has(rows) /\ Stacked' \subseteq Stacked
        /\ Has(rows') \subseteq Has(rows) \cup Stacked
        /\ \A s \in Subjects : rows'[s] = IF s \in S THEN "unavailable" ELSE rows[s]
    BY <1>5, <1>8
  <2> QED
    BY <1>2, <1>3, <1>8, <2>1
<1>9. CASE UNCHANGED rows /\ stack' = Halves(S) \o Tail(stack)
  <2>1. Stacked' = Stacked
    BY <1>6, <1>9
  <2> QED
    BY <1>3, <1>9, <2>1
<1> QED
    BY <1>4, <1>7, <1>8, <1>9

LEMMA LoadGroupDoes ==
    ASSUME TypeOK, Phases, NEW p \in Packages, LoadGroup(p)
    PROVE  /\ group' \subseteq waiting /\ group' \cap world.unrooted = {}
           /\ \A s \in group' : PackageOf[s] = p /\ (p \in keyed => MemoRow(s) = None)
           /\ \A s \in waiting : PackageOf[s] = p => s \in group' \cup Has(results')
           /\ waiting' = {s \in waiting : PackageOf[s] # p}
           /\ Has(results) \subseteq Has(results') /\ Has(memo) \subseteq Has(memo')
           /\ \A s \in Subjects : /\ results'[s] \in {results[s], memo[s], early[s]}
                                     \/ (results'[s] = "unrooted" /\ s \in world.unrooted)
                                  /\ memo'[s] = memo[s] \/ (memo'[s] = "unrooted" /\ s \in world.unrooted)
                                  /\ early'[s] \in {None, memo[s], early[s]}
           /\ \/ /\ resolved = {}
                 /\ \A s \in waiting : early'[s] = memo[s]
              \/ resolved # {} /\ UNCHANGED <<resolved, early>>
           /\ resolved' # {}
           /\ phase = "call" /\ phase' = "group" /\ stack = << >> /\ rows = NoRows
           /\ UNCHANGED <<world, caller, budget, asked, isolated, keyed, stack, rows, answer, company,
                          kept, broke>>
<1> DEFINE S == Group(p)
           hit == Served(p)
           un == (S \ hit) \cap world.unrooted
           lost == RowFor(un, "unrooted")
           kept_lost == RowFor(Keyed(un), "unrooted")
           served == MemoRows(hit)
<1>0. S \in SUBSET Subjects /\ hit \in SUBSET Subjects /\ hit \subseteq S /\ un \in SUBSET Subjects
      /\ Keyed(un) \in SUBSET Subjects /\ Keyed(un) \subseteq un
      /\ memo \in Tables /\ results \in Tables /\ waiting \in SUBSET Subjects
      /\ (\A s \in hit : MemoRow(s) # None) /\ (\A s \in S : PackageOf[s] = p)
      /\ (\A s \in S \ hit : p \in keyed => MemoRow(s) = None) /\ S \subseteq waiting
      /\ (\A s \in waiting \ S : PackageOf[s] # p)
    BY GroupIs DEF TypeOK, Tables, Keyed
<1>1. /\ results' = Put(Put(results, served), lost)
      /\ memo' = Put(memo, kept_lost)
      /\ group' = (S \ hit) \ un /\ waiting' = waiting \ S
      /\ phase = "call" /\ phase' = "group" /\ S \ hit # {} /\ p \notin failed
      /\ IF resolved = {} THEN resolved' = Ahead /\ early' = MemoRows(waiting)
         ELSE UNCHANGED <<resolved, early>>
      /\ UNCHANGED <<world, caller, budget, asked, isolated, keyed, stack, rows, answer, company,
                     kept, broke>>
    BY DEF LoadGroup
<1>2. /\ served \in Tables /\ Has(served) = hit
      /\ \A s \in Subjects : served[s] = IF s \in hit THEN MemoRow(s) ELSE None
    BY <1>0, MemoRowsAre
<1>3. /\ lost \in Tables /\ Has(lost) = un
      /\ \A s \in Subjects : lost[s] = IF s \in un THEN "unrooted" ELSE None
    BY <1>0, RowForIs DEF Row
<1>k. /\ kept_lost \in Tables /\ Has(kept_lost) = Keyed(un)
      /\ \A s \in Subjects : kept_lost[s] = IF s \in Keyed(un) THEN "unrooted" ELSE None
    BY <1>0, RowForIs DEF Row
<1>4. stack = << >> /\ rows = NoRows
    BY <1>1 DEF Phases
<1>5. un \subseteq world.unrooted /\ "unrooted" # None
    BY ProofBatchAssumption DEF Row
<1>6. S \ (hit \cup un) \subseteq group' /\ waiting \ S = {s \in waiting : PackageOf[s] # p}
    BY <1>0, <1>1
<1>e. /\ \/ resolved = {} /\ \A s \in waiting : early'[s] = memo[s]
         \/ resolved # {} /\ UNCHANGED <<resolved, early>>
      /\ resolved' # {}
      /\ \A s \in Subjects : early'[s] \in {None, memo[s], early[s]}
  <2>1. /\ \A s \in Subjects : MemoRows(waiting)[s] = IF s \in waiting THEN MemoRow(s) ELSE None
        /\ \A s \in Subjects : MemoRow(s) \in {memo[s], early[s]}
    BY <1>0, MemoRowsAre, MemoRowIs
  <2>2. resolved = {} => \A s \in Subjects : MemoRow(s) = memo[s]
    BY DEF MemoRow
  <2>3. p \in Ahead
    BY <1>0, <1>1 DEF Ahead
  <2> QED
    BY <1>0, <1>1, <2>1, <2>2, <2>3
<1>m. \A s \in Subjects : MemoRow(s) \in {memo[s], early[s]}
    BY MemoRowIs
<1> HIDE DEF served, lost, un, S, hit, kept_lost
<1>7. /\ Put(results, served) \in Tables /\ Has(Put(results, served)) = Has(results) \cup hit
      /\ \A s \in Subjects : Put(results, served)[s] = IF served[s] = None THEN results[s] ELSE served[s]
    BY <1>0, <1>2, PutIs
<1>8. /\ Has(results') = Has(results) \cup hit \cup un
      /\ \A s \in Subjects : results'[s] = IF s \in un THEN "unrooted"
                                           ELSE IF s \in hit THEN MemoRow(s) ELSE results[s]
  <2>1. /\ Has(results') = Has(Put(results, served)) \cup Has(lost)
        /\ \A s \in Subjects : results'[s] = IF lost[s] = None THEN Put(results, served)[s] ELSE lost[s]
    BY <1>1, <1>3, <1>7, PutIs
  <2> QED
    BY <1>0, <1>2, <1>3, <1>5, <1>7, <2>1
<1>9. /\ Has(memo) \subseteq Has(memo')
      /\ \A s \in Subjects : memo'[s] = memo[s] \/ (memo'[s] = "unrooted" /\ s \in un)
  <2>1. /\ Has(Put(memo, kept_lost)) = Has(memo) \cup Has(kept_lost)
        /\ \A s \in Subjects : Put(memo, kept_lost)[s] = IF kept_lost[s] = None THEN memo[s] ELSE kept_lost[s]
    BY <1>0, <1>k, PutIs
  <2> QED
    BY <1>0, <1>1, <1>k, <1>5, <2>1
<1>10. \A s \in Subjects : results'[s] \in {results[s], memo[s], early[s]}
                              \/ (results'[s] = "unrooted" /\ s \in world.unrooted)
    BY <1>5, <1>8, <1>m
<1>11. \A s \in waiting : PackageOf[s] = p => s \in group' \cup Has(results')
    BY <1>0, <1>6, <1>8
<1>12. /\ group' \subseteq waiting /\ group' \cap world.unrooted = {}
       /\ \A s \in group' : PackageOf[s] = p /\ (p \in keyed => MemoRow(s) = None)
    BY <1>0, <1>1 DEF un
<1> QED
    BY <1>1, <1>4, <1>5, <1>6, <1>8, <1>9, <1>10, <1>11, <1>12, <1>e

LEMMA PrepareDoes ==
    ASSUME TypeOK, SharedOnce, phase \in Calling, Prepare
    PROVE  \A p \in Packages : shared'[p] <= 1
<1>1. CASE shared' = shared
    BY <1>1 DEF SharedOnce
<1>2. ASSUME resolved = {}, NEW q \in Candidates, NEW r \in Candidates, q # r,
             shared' = [p \in Packages |-> IF p \in Candidates THEN shared[p] + 1 ELSE shared[p]]
      PROVE  \A p \in Packages : shared'[p] <= 1
  <2>1. PICK s \in waiting, u \in waiting : q = PackageOf[s] /\ r = PackageOf[u]
    BY DEF Candidates, Ahead
  <2>2. isolated = None
    BY <1>2, <2>1 DEF SharedOnce
  <2>3. \A p \in Packages : shared[p] = 0
    BY <1>2, <2>2 DEF SharedOnce
  <2> QED
    BY <1>2, <2>3
<1> QED
    BY <1>1, <1>2 DEF Prepare

LEMMA SharedStep ==
    ASSUME TypeOK, Phases, SharedOnce, [Next]_vars
    PROVE  SharedOnce'
<1>0. /\ "idle" \notin Calling /\ "retry" \notin Calling /\ {"call", "group", "slice"} = Calling
    BY DEF Calling
<1>1. CASE UNCHANGED <<shared, isolated, resolved>> /\ waiting' \subseteq waiting
           /\ (phase' \in Calling => phase \in Calling)
    BY <1>1 DEF SharedOnce
<1>2. CASE Broken
  <2>1. phase' \notin Calling /\ phase \in Calling
    BY <1>0, <1>2, BrokenDoes
  <2>2. shared' = shared \/ Prepare
    BY <1>2 DEF Broken, CutShort, Break, LoadFails, ListFails
  <2> QED
    BY <2>1, <2>2, PrepareDoes DEF SharedOnce
<1>3. ASSUME NEW p \in Packages, LoadGroup(p)
      PROVE  SharedOnce'
  <2>1. Prepare /\ phase = "call"
    BY <1>3 DEF LoadGroup
  <2>2. resolved' # {} /\ waiting' \subseteq waiting /\ isolated' = isolated
    BY <1>3, LoadGroupDoes
  <2> QED
    BY <1>0, <2>1, <2>2, PrepareDoes DEF SharedOnce
<1>4. ASSUME NEW S \in Requests, NEW keys \in Keyings, Begin(S, keys)
      PROVE  SharedOnce'
    BY <1>4 DEF SharedOnce, Begin
<1>5. ASSUME NEW s \in Subjects, Retry(s)
      PROVE  SharedOnce'
  <2>1. waiting' = {s} /\ shared' = shared /\ isolated' = isolated \ {s} /\ isolated \in SUBSET Subjects
    BY <1>5 DEF Retry, Phases, TypeOK
  <2>2. isolated' # None
    BY <2>1, ProofBatchAssumption
  <2> QED
    BY <2>1, <2>2 DEF SharedOnce
<1>6. CASE EndCall
  <2>1. phase' \notin Calling /\ shared' = shared
    BY <1>0, <1>6 DEF EndCall
  <2> QED
    BY <2>1 DEF SharedOnce
<1>7. ASSUME NEW p \in Packages, ServeGroup(p) \/ Collect(p)
      PROVE  SharedOnce'
    BY <1>1, <1>7 DEF ServeGroup, Collect
<1>8. CASE StartSlice \/ Walk \/ EndSlice \/ EndGroup
  <2>1. UNCHANGED <<shared, isolated, resolved, waiting>> /\ phase \in Calling
    BY <1>0, <1>8 DEF StartSlice, Walk, EndSlice, EndGroup
  <2> QED
    BY <1>1, <2>1
<1>9. CASE Spend \/ Leave \/ UNCHANGED vars
    BY <1>1, <1>9 DEF Spend, Leave, vars
<1>10. CASE EndRetries
    BY <1>0, <1>1, <1>10 DEF EndRetries
<1> QED
    BY <1>2, <1>3, <1>4, <1>5, <1>6, <1>7, <1>8, <1>9, <1>10 DEF Next, Step, Broken

LEMMA CompanionsStep ==
    ASSUME TypeOK, Phases, Companions, [Next]_vars
    PROVE  Companions'
<1>0. Members(<< >>) = {}
    BY DEF Members
<1>1. CASE UNCHANGED <<stack, company>>
    BY <1>1 DEF Companions, Stacked
<1>2. CASE Broken
  <2>1. Stacked' = {}
    BY <1>0, <1>2, BrokenDoes DEF Stacked
  <2> QED
    BY <2>1 DEF Companions
<1>3. CASE StartSlice
  <2> DEFINE F == First(group, Width)
  <2>1. stack' = <<F>> /\ F \subseteq Subjects
        /\ company' = [s \in Subjects |-> IF s \in F THEN company[s] \cup F ELSE company[s]]
    BY <1>3, FirstIs DEF StartSlice, TypeOK
  <2>2. Stacked' = F
    BY <2>1 DEF Stacked, Members
  <2> HIDE DEF F
  <2> QED
    BY <2>1, <2>2 DEF Companions
<1>4. CASE Walk
  <2>1. Stacked' \subseteq Stacked /\ company' = company
    BY <1>4, WalkDoes
  <2> QED
    BY <2>1 DEF Companions
<1>5. ASSUME NEW p \in Packages, LoadGroup(p) \/ ServeGroup(p) \/ Collect(p)
      PROVE  Companions'
    BY <1>1, <1>5 DEF LoadGroup, ServeGroup, Collect
<1> QED
    BY <1>1, <1>2, <1>3, <1>4, <1>5
    DEF Next, Step, Broken, vars, EndSlice, EndGroup, EndCall, EndRetries, Retry, Begin, Spend, Leave

LEMMA ToWalkStep ==
    ASSUME TypeOK, Phases, ToWalk, [Next]_vars
    PROVE  ToWalk'
<1>0. Members(<< >>) = {} /\ Has(NoRows) = {}
    BY NoRowsIs DEF Members
<1>1. CASE Broken
  <2>1. group' = {} /\ Stacked' = {} /\ Has(rows') = {}
    BY <1>0, <1>1, BrokenDoes DEF Stacked
  <2> QED
    BY <2>1 DEF ToWalk
<1>2. CASE UNCHANGED <<world, group, stack, rows>> /\ waiting' \subseteq waiting
    BY <1>2 DEF ToWalk, Stacked
<1>b. CASE UNCHANGED <<world, group, stack, rows>> /\ phase \in {"idle", "retry"}
  <2>1. group = {} /\ Stacked = {} /\ Has(rows) = {}
    BY <1>0, <1>b DEF Phases, Stacked
  <2>2. Stacked' = Stacked /\ Has(rows') = Has(rows)
    BY <1>b DEF Stacked, Has
  <2> QED
    BY <1>b, <2>1, <2>2 DEF ToWalk
<1>3. ASSUME NEW p \in Packages, LoadGroup(p)
      PROVE  ToWalk'
  <2>1. Stacked' = {} /\ Has(rows') = {} /\ world' = world
    BY <1>0, <1>3, LoadGroupDoes DEF Stacked
  <2>2. /\ group' \cap world.unrooted = {} /\ \A s \in group' : PackageOf[s] = p
        /\ waiting' = {s \in waiting : PackageOf[s] # p}
    BY <1>3, LoadGroupDoes
  <2> QED
    BY <2>1, <2>2 DEF ToWalk
<1>4. CASE StartSlice
  <2> DEFINE F == First(group, Width)
  <2>1. stack = << >> /\ stack' = <<F>> /\ group' = group \ F /\ rows' = NoRows /\ world' = world
        /\ waiting' = waiting
    BY <1>4 DEF StartSlice, Phases
  <2>2. F \subseteq group /\ Stacked' = F /\ Has(rows') = {}
    BY <1>0, <2>1, FirstIs DEF Stacked, Members
  <2> HIDE DEF F
  <2> QED
    BY <2>1, <2>2 DEF ToWalk
<1>5. CASE Walk
  <2>1. /\ Stacked' \subseteq Stacked /\ Has(rows') \subseteq Has(rows) \cup Stacked
        /\ UNCHANGED <<world, group, waiting>>
    BY <1>5, WalkDoes
  <2> QED
    BY <2>1 DEF ToWalk
<1>6. CASE EndSlice
  <2>1. UNCHANGED <<world, group, stack, waiting>> /\ Has(rows') = {}
    BY <1>0, <1>6 DEF EndSlice
  <2> QED
    BY <2>1 DEF ToWalk, Stacked
<1> QED
    BY <1>1, <1>2, <1>b, <1>3, <1>4, <1>5, <1>6
    DEF Next, Step, Broken, vars, ServeGroup, Collect, EndGroup, EndCall, EndRetries, Retry, Begin,
        Spend, Leave

LEMMA EndSliceDoes ==
    ASSUME TypeOK, Phases, EndSlice
    PROVE  /\ Has(results') = Has(results) \cup Has(rows) /\ Has(memo) \subseteq Has(memo')
           /\ \A s \in Subjects : results'[s] \in {results[s], rows[s]} /\ memo'[s] \in {memo[s], rows[s]}
           /\ Keyed(Has(rows)) \subseteq Has(memo') /\ kept' = kept \cup Keyed(Has(rows))
           /\ rows' = NoRows /\ phase = "slice" /\ phase' = "group" /\ stack = << >>
           /\ UNCHANGED <<world, caller, budget, waiting, asked, isolated, keyed, resolved, early,
                          group, stack, answer, company, broke>>
<1>1. rows \in Tables /\ results \in Tables /\ memo \in Tables
    BY DEF TypeOK, Tables
<1>2. /\ Has(Put(results, rows)) = Has(results) \cup Has(rows)
      /\ \A s \in Subjects : Put(results, rows)[s] \in {results[s], rows[s]}
    BY <1>1, PutIs
<1>3. /\ Has(memo) \subseteq Has(PutKeyed(memo, rows))
      /\ Keyed(Has(rows)) \subseteq Has(PutKeyed(memo, rows))
      /\ \A s \in Subjects : PutKeyed(memo, rows)[s] \in {memo[s], rows[s]}
    BY <1>1, PutKeyedIs
<1>4. kept' = kept \cup Keyed(Has(rows))
    BY DEF EndSlice, Has
<1> QED
    BY <1>2, <1>3, <1>4 DEF EndSlice

LEMMA FinishedStep ==
    ASSUME TypeOK, Phases, ToWalk, Finished, [Next]_vars
    PROVE  Finished'
<1>0. Members(<< >>) = {} /\ Has(NoRows) = {} /\ \A S : Keyed(S) = {s \in S : PackageOf[s] \in keyed}
    BY NoRowsIs DEF Members, Keyed
<1>1. CASE Broken
  <2>1. group' = {} /\ Stacked' = {} /\ waiting' = {} /\ UNCHANGED <<memo, kept>>
    BY <1>0, <1>1, BrokenDoes DEF Stacked
  <2> QED
    BY <2>1 DEF Finished, Keyed
<1>2. CASE UNCHANGED <<memo, keyed, resolved, early, group, stack, kept>> /\ waiting' \subseteq waiting
    BY <1>2 DEF Finished, Stacked, Keyed
<1>3. CASE UNCHANGED <<memo, resolved, group, stack, kept>> /\ phase \in {"idle", "retry"}
  <2>1. group = {} /\ Stacked = {} /\ resolved = {}
    BY <1>0, <1>3 DEF Phases, Stacked
  <2>2. Stacked' = Stacked
    BY <1>3 DEF Stacked
  <2> QED
    BY <1>3, <2>1, <2>2 DEF Finished, Keyed
<1>4. ASSUME NEW p \in Packages, LoadGroup(p)
      PROVE  Finished'
  <2>1. Stacked' = {} /\ keyed' = keyed /\ kept' = kept
    BY <1>0, <1>4, LoadGroupDoes DEF Stacked
  <2>2. /\ \A s \in group' : PackageOf[s] = p /\ (p \in keyed => MemoRow(s) = None)
        /\ Has(memo) \subseteq Has(memo') /\ group' \subseteq waiting /\ waiting' \subseteq waiting
        /\ \/ /\ resolved = {}
              /\ \A s \in waiting : early'[s] = memo[s]
           \/ resolved # {} /\ UNCHANGED <<resolved, early>>
    BY <1>4, LoadGroupDoes
  <2>3. (\A s \in kept : s \in Has(memo) /\ s \in Subjects) /\ waiting \subseteq Subjects
    BY DEF Finished, TypeOK, Has
  <2>4. \A s \in kept : memo'[s] # None
    BY <2>1, <2>2, <2>3 DEF Has
  <2>5. ASSUME NEW s \in group', s \in kept, PackageOf[s] \in keyed
        PROVE  FALSE
    <3>1. MemoRow(s) = None /\ s \in waiting /\ memo[s] # None
      BY <2>2, <2>3, <2>5 DEF Has
    <3>2. PackageOf[s] \in resolved => early[s] # None
      BY <2>5, <3>1 DEF Finished, Keyed
    <3> QED
      BY <3>1, <3>2 DEF MemoRow
  <2>6. ASSUME NEW s \in waiting', PackageOf[s] \in keyed, s \in kept, PackageOf[s] \in resolved'
        PROVE  early'[s] # None
    <3>1. s \in waiting /\ memo[s] # None
      BY <2>2, <2>3, <2>6 DEF Has
    <3>2. PackageOf[s] \in resolved => early[s] # None
      BY <2>6, <3>1 DEF Finished, Keyed
    <3> QED
      BY <2>2, <2>6, <3>1, <3>2
  <2> QED
    BY <2>1, <2>4, <2>5, <2>6 DEF Finished, Keyed
<1>5. CASE StartSlice
  <2> DEFINE F == First(group, Width)
  <2>1. stack' = <<F>> /\ group' = group \ F
        /\ UNCHANGED <<memo, keyed, resolved, early, waiting, kept>>
    BY <1>5 DEF StartSlice
  <2>2. F \subseteq group /\ Stacked' = F
    BY <2>1, FirstIs DEF Stacked, Members
  <2> HIDE DEF F
  <2> QED
    BY <2>1, <2>2 DEF Finished, Keyed
<1>6. CASE Walk
  <2>1. Stacked' \subseteq Stacked
        /\ UNCHANGED <<memo, group, keyed, resolved, early, waiting, kept>>
    BY <1>6, WalkDoes
  <2> QED
    BY <2>1 DEF Finished, Keyed
<1>7. CASE EndSlice
  <2>1. /\ Has(memo) \subseteq Has(memo')
        /\ UNCHANGED <<keyed, group, stack, waiting, resolved, early>>
        /\ Keyed(Has(rows)) \subseteq Has(memo') /\ kept' = kept \cup Keyed(Has(rows))
    BY <1>7, EndSliceDoes
  <2>2. Stacked = {} /\ Stacked' = {} /\ group \cap Has(rows) = {} /\ waiting \cap Has(rows) = {}
    BY <1>0, <1>7 DEF EndSlice, Stacked, ToWalk
  <2>3. \A s \in kept : s \in Has(memo)
    BY DEF Finished, TypeOK, Has
  <2> QED
    BY <2>1, <2>2, <2>3 DEF Finished, Has, Keyed
<1>8. ASSUME NEW p \in Packages, Collect(p)
      PROVE  Finished'
  <2>1. /\ \A s \in Subjects : memo'[s] = IF PackageOf[s] = p THEN None ELSE memo[s]
        /\ kept' = {s \in kept : PackageOf[s] # p}
        /\ UNCHANGED <<keyed, group, stack, waiting, resolved, early>>
    BY <1>8 DEF Collect
  <2>2. \A s \in kept' : s \in Subjects /\ s \in kept /\ memo'[s] = memo[s]
    BY <2>1 DEF TypeOK
  <2> QED
    BY <2>1, <2>2 DEF Finished, Stacked, Keyed
<1>9. CASE EndCall
  <2>1. resolved' = {} /\ UNCHANGED <<memo, keyed, group, stack, kept>>
    BY <1>9 DEF EndCall
  <2> QED
    BY <2>1 DEF Finished, Stacked, Keyed
<1> QED
    BY <1>1, <1>2, <1>3, <1>4, <1>5, <1>6, <1>7, <1>8, <1>9
    DEF Next, Step, Broken, vars, ServeGroup, EndGroup, Begin, EndRetries, Retry, Spend, Leave

-----------------------------------------------------------------------------
(* The rows are the subjects' own.                                            *)

LEMMA CallFailsDoes ==
    ASSUME TypeOK, CallFails
    PROVE  /\ \A s \in Subjects : \/ answer'[s] \in {None, answer[s]}
                                  \/ answer'[s] = "refused" /\ isolated # None /\ s \in Alone
           /\ phase' = "retry" => \A s \in asked \ isolated' : answer'[s] # None
<1>1. Alone \in SUBSET Subjects /\ answer \in Tables
    BY DEF Alone, TypeOK, Tables
<1>2. /\ RowFor(Alone, "refused") \in Tables /\ Has(RowFor(Alone, "refused")) = Alone
      /\ \A s \in Subjects : RowFor(Alone, "refused")[s] = IF s \in Alone THEN "refused" ELSE None
    BY <1>1, RowForIs DEF Row
<1>3. "refused" # None
    BY ProofBatchAssumption DEF Row
<1> DEFINE refused == Put(answer, RowFor(Alone, "refused"))
<1>4. \A s \in Subjects : refused[s] = IF s \in Alone THEN "refused" ELSE answer[s]
    BY <1>1, <1>2, <1>3, PutIs
<1> HIDE DEF refused
<1>5. CASE ~caller
    BY <1>5 DEF CallFails, NoRows
<1>6. CASE caller /\ isolated = None
    BY <1>6 DEF CallFails
<1>7. CASE caller /\ isolated # None
  <2>1. isolated' = isolated /\ answer' = refused
    BY <1>7 DEF CallFails, refused
  <2>2. \A s \in asked \ isolated : s \in Subjects /\ (s \in Alone \/ answer[s] # None)
    BY DEF Alone, TypeOK
  <2> QED
    BY <1>3, <1>4, <1>7, <2>1, <2>2
<1> QED
    BY <1>5, <1>6, <1>7

LEMMA ServeDoes ==
    ASSUME TypeOK, NEW p \in Packages, ServeGroup(p)
    PROVE  /\ waiting' \subseteq waiting /\ waiting \subseteq waiting' \cup Has(results')
           /\ Has(results) \subseteq Has(results')
           /\ \A s \in Subjects : results'[s] \in {results[s], memo[s], early[s]}
           /\ phase = "call"
           /\ UNCHANGED <<world, memo, caller, budget, phase, asked, isolated, resolved, early, group,
                          stack, rows, answer, company, broke>>
<1> DEFINE S == Group(p)
           served == MemoRows(S)
<1>1. S \in SUBSET Subjects /\ (\A s \in S : MemoRow(s) # None) /\ results \in Tables
  <2>1. Served(p) = Group(p)
    BY DEF ServeGroup
  <2> QED
    BY <2>1, GroupIs DEF TypeOK, Tables
<1>2. served \in Tables /\ Has(served) = S
      /\ \A s \in Subjects : served[s] = IF s \in S THEN MemoRow(s) ELSE None
    BY <1>1, MemoRowsAre
<1>3. results' = Put(results, served) /\ waiting' = waiting \ S /\ phase = "call"
      /\ UNCHANGED <<world, memo, caller, budget, phase, asked, isolated, resolved, early, group,
                     stack, rows, answer, company, broke>>
    BY DEF ServeGroup
<1>5. \A s \in Subjects : MemoRow(s) \in {memo[s], early[s]}
    BY MemoRowIs
<1> HIDE DEF served, S
<1>4. /\ Has(results') = Has(results) \cup S
      /\ \A s \in Subjects : results'[s] = IF served[s] = None THEN results[s] ELSE served[s]
    BY <1>1, <1>2, <1>3, PutIs
<1> QED
    BY <1>2, <1>3, <1>4, <1>5

LEMMA EndCallDoes ==
    ASSUME TypeOK, EndCall
    PROVE  /\ Has(answer') = Has(answer) \cup Has(results)
           /\ \A s \in Subjects : answer'[s] = IF results[s] = None THEN answer[s] ELSE results[s]
BY PutIs DEF EndCall, TypeOK, Tables

\* A row stays a subject's own while its company grows.
LEMMA OwnStays ==
    ASSUME NEW s, NEW row, world' = world, company[s] \subseteq company'[s], Own(s, row)
    PROVE  row = Solo(s)' \/ (row = "unavailable" /\ HarnessDenied(s)')
<1>1. HarnessDenied(s) => HarnessDenied(s)'
    BY DEF HarnessDenied, Harnessed
<1>2. Solo(s)' = Solo(s)
    BY DEF Solo, Provokes, SharedProvokes, Harnessed
<1> QED
    BY <1>1, <1>2 DEF Own

LEMMA RowsOwnFrom ==
    ASSUME world' = world, \A s \in Subjects : company[s] \subseteq company'[s],
           \A s \in Subjects : /\ memo'[s] # None => Own(s, memo'[s])
                               /\ early'[s] # None => Own(s, early'[s])
                               /\ rows'[s] # None => Own(s, rows'[s])
                               /\ results'[s] # None => Own(s, results'[s])
                               /\ answer'[s] \notin {None, "refused"} => Own(s, answer'[s])
    PROVE  RowsOwn'
<1>1. \A s \in Subjects : \A row :
         Own(s, row) => row = Solo(s)' \/ (row = "unavailable" /\ HarnessDenied(s)')
    BY OwnStays
<1> QED
    BY <1>1 DEF RowsOwn, AllOwn, Own

LEMMA OwnIs ==
    ASSUME NEW s, NEW row, Own(s, row)
    PROVE  row \in {"proved", "unavailable", "unrooted"}
BY DEF Own, Solo

LEMMA UnrootedIsOwn ==
    ASSUME NEW s, s \in world.unrooted
    PROVE  Own(s, "unrooted")
BY DEF Own, Solo

\* What a walk finds of companions of one package is each subject's own.
LEMMA WalkIsOwn ==
    ASSUME NEW S \in SUBSET Subjects, S \cap world.unrooted = {},
           \A s, u \in S : PackageOf[s] = PackageOf[u],
           \A s, u \in S : u \in company[s], NEW s \in S
    PROVE  /\ ~Provokes(S) => Own(s, "proved")
           /\ Provokes(S) /\ (SharedProvokes(S) \/ Single(S)) => Own(s, "unavailable")
<1>1. ASSUME ~Provokes(S)
      PROVE  Own(s, "proved")
  <2>1. ~Provokes({s})
    BY <1>1 DEF Provokes, SharedProvokes, Harnessed
  <2> QED
    BY <2>1 DEF Own, Solo
<1>2. ASSUME Provokes(S), Single(S)
      PROVE  Own(s, "unavailable")
  <2>1. S = {s}
    BY <1>2 DEF Single
  <2> QED
    BY <1>2, <2>1 DEF Own, Solo
<1>3. ASSUME NEW u \in S, PackageOf[u] \in world.badInit
      PROVE  Own(s, "unavailable")
  <2>1. Provokes({s})
    BY <1>3 DEF Provokes, SharedProvokes
  <2> QED
    BY <2>1 DEF Own, Solo
<1>4. ASSUME NEW u \in Harnessed(S), PackageOf[u] \in world.badMain
      PROVE  Own(s, "unavailable")
  <2>1. u \in Harnessed(company[s]) /\ PackageOf[u] = PackageOf[s]
    BY <1>4 DEF Harnessed
  <2> QED
    BY <1>4, <2>1 DEF Own, HarnessDenied
<1> QED
    BY <1>1, <1>2, <1>3, <1>4 DEF SharedProvokes

LEMMA RowsStep ==
    ASSUME TypeOK, Phases, ToWalk, Companions, RowsOwn, [Next]_vars
    PROVE  RowsOwn'
<1>0. /\ \A s \in Subjects : NoRows[s] = None
      /\ \A s \in Subjects : /\ memo[s] # None => Own(s, memo[s])
                             /\ early[s] # None => Own(s, early[s])
                             /\ rows[s] # None => Own(s, rows[s])
                             /\ results[s] # None => Own(s, results[s])
                             /\ answer[s] \notin {None, "refused"} => Own(s, answer[s])
    BY DEF RowsOwn, AllOwn, NoRows
<1>1. CASE Broken
  <2>1. /\ UNCHANGED <<world, memo, company>> /\ CallFails
        /\ rows' = NoRows /\ results' = NoRows /\ early' = NoRows
    BY <1>1, BrokenDoes
  <2>2. \A s \in Subjects : answer'[s] \in {None, answer[s], "refused"}
    BY <2>1, CallFailsDoes
  <2> QED
    BY <1>0, <2>1, <2>2, RowsOwnFrom
<1>2. CASE UNCHANGED <<world, memo, early, rows, results, answer, company>>
    BY <1>0, <1>2, RowsOwnFrom
<1>3. ASSUME NEW S \in Requests, NEW keys \in Keyings, Begin(S, keys)
      PROVE  RowsOwn'
  <2>1. UNCHANGED <<world, memo, early, rows, company>> /\ results' = NoRows /\ answer' = NoRows
    BY <1>3 DEF Begin
  <2> QED
    BY <1>0, <2>1, RowsOwnFrom
<1>4. ASSUME NEW p \in Packages, ServeGroup(p)
      PROVE  RowsOwn'
  <2>1. /\ UNCHANGED <<world, memo, early, rows, answer, company>>
        /\ \A s \in Subjects : results'[s] \in {results[s], memo[s], early[s]}
    BY <1>4, ServeDoes
  <2> QED
    BY <1>0, <2>1, RowsOwnFrom
<1>5. ASSUME NEW p \in Packages, LoadGroup(p)
      PROVE  RowsOwn'
  <2>1. /\ UNCHANGED <<world, rows, answer, company>>
        /\ \A s \in Subjects : /\ early'[s] \in {None, memo[s], early[s]}
                               /\ results'[s] \in {results[s], memo[s], early[s]}
                                  \/ (results'[s] = "unrooted" /\ s \in world.unrooted)
                               /\ memo'[s] = memo[s] \/ (memo'[s] = "unrooted" /\ s \in world.unrooted)
    BY <1>5, LoadGroupDoes
  <2> QED
    BY <1>0, <2>1, UnrootedIsOwn, RowsOwnFrom
<1>6. CASE StartSlice
  <2>1. UNCHANGED <<world, memo, early, results, answer>> /\ rows' = NoRows
        /\ \A s \in Subjects : company[s] \subseteq company'[s]
    BY <1>6 DEF StartSlice
  <2> QED
    BY <1>0, <2>1, RowsOwnFrom
<1>7. CASE Walk
  <2>1. UNCHANGED <<world, memo, early, results, answer, company>>
    BY <1>7, WalkDoes
  <2>2. CASE UNCHANGED rows
    BY <1>0, <2>1, <2>2, RowsOwnFrom
  <2>3. ASSUME NEW S \in SUBSET Stacked, NEW row \in {"proved", "unavailable"},
               /\ \A s \in Subjects : rows'[s] = IF s \in S THEN row ELSE rows[s]
               /\ row = "proved" => ~Provokes(S)
               /\ row = "unavailable" => Provokes(S) /\ (SharedProvokes(S) \/ Single(S))
        PROVE  RowsOwn'
    <3>1. S \in SUBSET Subjects
      BY DEF Stacked, Members, TypeOK
    <3>2. S \cap world.unrooted = {}
          /\ \A s, u \in S : PackageOf[s] = PackageOf[u] /\ u \in company[s]
      BY DEF ToWalk, Companions
    <3>3. \A s \in S : Own(s, row)
      BY <2>3, <3>1, <3>2, WalkIsOwn
    <3>4. \A s \in Subjects : rows'[s] # None => Own(s, rows'[s])
      BY <1>0, <2>3, <3>3
    <3> QED
      BY <1>0, <2>1, <3>4, RowsOwnFrom
  <2> QED
    BY <1>7, <2>2, <2>3, WalkDoes
<1>8. CASE EndSlice
  <2>1. /\ UNCHANGED <<world, early, answer, company>> /\ rows' = NoRows
        /\ \A s \in Subjects : results'[s] \in {results[s], rows[s]} /\ memo'[s] \in {memo[s], rows[s]}
    BY <1>8, EndSliceDoes
  <2> QED
    BY <1>0, <2>1, RowsOwnFrom
<1>9. CASE EndCall
  <2>1. UNCHANGED <<world, memo, rows, company>> /\ results' = NoRows /\ early' = NoRows
    BY <1>9 DEF EndCall
  <2>2. \A s \in Subjects : answer'[s] = IF results[s] = None THEN answer[s] ELSE results[s]
    BY <1>9, EndCallDoes
  <2> QED
    BY <1>0, <2>1, <2>2, RowsOwnFrom
<1>10. CASE EndRetries
  <2>1. UNCHANGED <<world, memo, early, rows, results, company>> /\ answer' \in {answer, NoRows}
    BY <1>10 DEF EndRetries
  <2> QED
    BY <1>0, <2>1, RowsOwnFrom
<1>11. ASSUME NEW s \in Subjects, Retry(s)
       PROVE  RowsOwn'
  <2>1. UNCHANGED <<world, memo, early, rows, answer, company>> /\ results' = NoRows
    BY <1>11 DEF Retry
  <2> QED
    BY <1>0, <2>1, RowsOwnFrom
<1>12. ASSUME NEW p \in Packages, Collect(p)
       PROVE  RowsOwn'
  <2>1. /\ UNCHANGED <<world, early, rows, results, answer, company>>
        /\ \A s \in Subjects : memo'[s] \in {None, memo[s]}
    BY <1>12 DEF Collect
  <2> QED
    BY <1>0, <2>1, RowsOwnFrom
<1> QED
    BY <1>1, <1>2, <1>3, <1>4, <1>5, <1>6, <1>7, <1>8, <1>9, <1>10, <1>11, <1>12
    DEF Next, Step, Broken, vars, EndGroup, Spend, Leave

LEMMA RefusalsStep ==
    ASSUME TypeOK, LoadsCounted, RowsOwn, Refusals, Retrying, [Next]_vars
    PROVE  Refusals'
<1>1. CASE UNCHANGED <<world, broke, answer>> /\ (~budget => ~budget')
    BY <1>1 DEF Refusals
<1>2. CASE Broken
  <2>1. CallFails /\ UNCHANGED <<world, budget>> /\ broke \subseteq broke'
    BY <1>2, BrokenDoes
  <2>2. ASSUME NEW s \in Alone, isolated # None
        PROVE  PackageOf[s] \in world.unloadable \/ s \in broke' \/ ~budget
    <3>1. CASE CutShort
      BY <3>1 DEF CutShort
    <3>2. CASE Failure
      BY <2>2, <3>2 DEF Failure
    <3>3. ASSUME NEW p \in Packages, LoadFails(p)
          PROVE  PackageOf[s] \in world.unloadable
      <4>1. p \in world.unloadable /\ phase \in Calling /\ NextGroup(p)
        BY <3>3 DEF LoadFails, LoadsCounted, Calling
      <4>2. PICK u \in waiting : p = PackageOf[u]
        BY <4>1, FirstIs DEF NextGroup
      <4>3. s = u
        BY <2>2, <4>1 DEF Retrying
      <4> QED
        BY <4>1, <4>2, <4>3
    <3> QED
      BY <1>2, <3>1, <3>2, <3>3 DEF Broken, Break, ListFails
  <2>3. \A s \in Subjects : \/ answer'[s] \in {None, answer[s]}
                            \/ answer'[s] = "refused" /\ isolated # None /\ s \in Alone
    BY <2>1, CallFailsDoes
  <2>4. None # "refused"
    BY ProofBatchAssumption DEF Row
  <2> QED
    BY <2>1, <2>2, <2>3, <2>4 DEF Refusals
<1>3. ASSUME answer' = NoRows
      PROVE  Refusals'
    BY <1>3, ProofBatchAssumption DEF Refusals, NoRows, Row
<1>4. CASE EndCall
  <2>1. UNCHANGED <<world, broke, budget>>
    BY <1>4 DEF EndCall
  <2>2. \A s \in Subjects : answer'[s] = IF results[s] = None THEN answer[s] ELSE results[s]
    BY <1>4, EndCallDoes
  <2>3. \A s \in Subjects : results[s] # "refused"
    BY OwnIs, ProofBatchAssumption DEF RowsOwn, AllOwn, Row
  <2> QED
    BY <2>1, <2>2, <2>3 DEF Refusals
<1>5. CASE EndRetries
    BY <1>1, <1>3, <1>5 DEF EndRetries
<1>6. ASSUME NEW p \in Packages, ServeGroup(p) \/ LoadGroup(p) \/ Collect(p)
      PROVE  Refusals'
    BY <1>1, <1>6 DEF ServeGroup, LoadGroup, Collect
<1>7. CASE StartSlice \/ Walk \/ EndSlice \/ EndGroup \/ UNCHANGED vars
  <2>1. UNCHANGED <<world, broke, answer, budget>>
    BY <1>7 DEF StartSlice, Walk, EndSlice, EndGroup, vars
  <2> QED
    BY <1>1, <2>1
<1>8. ASSUME NEW s \in Subjects, Retry(s)
      PROVE  Refusals'
    BY <1>1, <1>8 DEF Retry
<1>9. ASSUME NEW S \in Requests, NEW keys \in Keyings, Begin(S, keys)
      PROVE  Refusals'
    BY <1>3, <1>9 DEF Begin
<1>10. CASE Spend \/ Leave
    BY <1>1, <1>10 DEF Spend, Leave
<1> QED
    BY <1>2, <1>4, <1>5, <1>6, <1>7, <1>8, <1>9, <1>10 DEF Next, Step, Broken

-----------------------------------------------------------------------------
(* A subject retried is the only one without an answer.                       *)

LEMMA HandedOn ==
    ASSUME Retrying, phase \in Calling, phase' # "retry", UNCHANGED <<asked, isolated, answer>>,
           InHand \subseteq InHand', waiting' \subseteq waiting
    PROVE  Retrying'
BY DEF Retrying, Alone, Calling

LEMMA RetryingStep ==
    ASSUME TypeOK, Phases, Retrying, [Next]_vars
    PROVE  Retrying'
<1>0. /\ "idle" \notin Calling /\ "retry" \notin Calling /\ "idle" # "retry"
      /\ {"call", "group", "slice"} = Calling /\ Members(<< >>) = {} /\ Has(NoRows) = {}
    BY NoRowsIs DEF Calling, Members
<1>1. CASE Broken
  <2>1. phase' \in {"idle", "retry"} /\ CallFails /\ asked' = asked
    BY <1>1, BrokenDoes
  <2>2. phase' = "retry" => \A s \in asked \ isolated' : answer'[s] # None
    BY <2>1, CallFailsDoes
  <2> QED
    BY <1>0, <2>1, <2>2 DEF Retrying, Alone
<1>2. CASE UNCHANGED <<phase, waiting, asked, isolated, group, stack, rows, results, answer>>
    BY <1>2 DEF Retrying, Alone, InHand, Stacked
<1>3. CASE isolated' = None \/ phase' = "idle"
    BY <1>0, <1>3 DEF Retrying
<1>4. ASSUME NEW s \in Subjects, Retry(s)
      PROVE  Retrying'
  <2>1. Alone = {} /\ isolated' = isolated \ {s} /\ waiting' = {s} /\ phase' = "call"
        /\ UNCHANGED <<asked, answer>>
    BY <1>4 DEF Retry, Retrying, Phases
  <2>2. Alone' \subseteq {s} /\ s \in InHand'
    BY <2>1 DEF Alone, InHand
  <2> QED
    BY <1>0, <2>1, <2>2 DEF Retrying
<1>5. CASE EndCall /\ isolated # None
  <2>1. phase = "call" /\ waiting = {} /\ phase' = "retry" /\ UNCHANGED <<asked, isolated>>
    BY <1>5 DEF EndCall
  <2>2. Alone \subseteq Has(results)
    BY <1>0, <1>5, <2>1 DEF Retrying, Calling, InHand, Stacked, Phases
  <2>3. \A s \in Alone' : s \in Subjects /\ s \in Alone /\ results[s] = None
    BY <1>5, <2>1, EndCallDoes DEF Alone, TypeOK
  <2>4. Alone' = {}
    BY <2>2, <2>3 DEF Has
  <2> QED
    BY <1>0, <2>1, <2>4 DEF Retrying
<1>6. ASSUME NEW p \in Packages, ServeGroup(p)
      PROVE  Retrying'
  <2>1. waiting' \subseteq waiting /\ InHand \subseteq InHand' /\ phase' = phase /\ phase \in Calling
        /\ UNCHANGED <<asked, isolated, answer>>
    BY <1>0, <1>6, ServeDoes DEF InHand, Stacked
  <2> QED
    BY <1>0, <2>1, HandedOn
<1>7. ASSUME NEW p \in Packages, LoadGroup(p)
      PROVE  Retrying'
  <2>1. /\ \A s \in waiting : PackageOf[s] = p => s \in group' \cup Has(results')
        /\ waiting' = {s \in waiting : PackageOf[s] # p} /\ Has(results) \subseteq Has(results')
        /\ phase = "call" /\ phase' = "group" /\ UNCHANGED <<asked, isolated, stack, rows, answer>>
    BY <1>7, LoadGroupDoes
  <2>2. group = {}
    BY <2>1 DEF Phases
  <2>3. waiting' \subseteq waiting /\ InHand \subseteq InHand'
    BY <2>1, <2>2 DEF InHand, Stacked
  <2> QED
    BY <1>0, <2>1, <2>3, HandedOn
<1>8. CASE StartSlice
  <2> DEFINE F == First(group, Width)
  <2>1. /\ stack = << >> /\ stack' = <<F>> /\ group' = group \ F /\ rows = NoRows /\ rows' = NoRows
        /\ phase = "group" /\ phase' = "slice" /\ UNCHANGED <<waiting, asked, isolated, results, answer>>
    BY <1>8 DEF StartSlice, Phases
  <2>2. F \subseteq group /\ Stacked' = F
    BY <2>1, FirstIs DEF Stacked, Members
  <2> HIDE DEF F
  <2>3. InHand \subseteq InHand'
    BY <1>0, <2>1, <2>2 DEF InHand, Stacked
  <2> QED
    BY <1>0, <2>1, <2>3, HandedOn
<1>9. CASE Walk
  <2>1. /\ Stacked' \cup Has(rows') = Stacked \cup Has(rows)
        /\ UNCHANGED <<waiting, asked, isolated, group, results, answer>>
    BY <1>9, WalkDoes
  <2>2. InHand \subseteq InHand' /\ phase' = phase /\ phase \in Calling
    BY <1>0, <1>9, <2>1 DEF InHand, Walk
  <2> QED
    BY <1>0, <2>1, <2>2, HandedOn
<1>10. CASE EndSlice
  <2>1. /\ Has(results') = Has(results) \cup Has(rows) /\ stack = << >> /\ phase = "slice"
        /\ phase' = "group" /\ UNCHANGED <<waiting, asked, isolated, group, answer>>
    BY <1>10, EndSliceDoes
  <2>2. InHand \subseteq InHand'
    BY <1>0, <2>1 DEF InHand, Stacked
  <2> QED
    BY <1>0, <2>1, <2>2, HandedOn
<1>11. CASE EndGroup
  <2>1. /\ InHand' = InHand /\ phase = "group" /\ phase' = "call"
        /\ UNCHANGED <<waiting, asked, isolated, answer>>
    BY <1>11 DEF EndGroup, InHand, Stacked
  <2> QED
    BY <1>0, <2>1, HandedOn
<1> QED
    BY <1>1, <1>2, <1>3, <1>4, <1>5, <1>6, <1>7, <1>8, <1>9, <1>10, <1>11
    DEF Next, Step, Broken, vars, Begin, Spend, Leave, Collect, EndCall, EndRetries

-----------------------------------------------------------------------------
(* The theorems.                                                              *)

LEMMA InvInit ==
    Init => IInv
<1> SUFFICES ASSUME Init PROVE IInv
    OBVIOUS
<1>1. Members(<< >>) = {} /\ Has(NoRows) = {} /\ (\A s \in Subjects : NoRows[s] = None)
      /\ None \notin Row /\ stack = << >> /\ Stacked = {}
    BY ProofBatchAssumption DEF NoRows, Has, Members, Init, Stacked
<1>2. TypeOK /\ Phases /\ ToWalk /\ Finished /\ Companions
    BY <1>1, TypeInit DEF Init, Phases, ToWalk, Finished, Companions, Keyed
<1>3. RowsOwn /\ Refusals
    BY <1>1 DEF Init, RowsOwn, AllOwn, Refusals, Row
<1>4. LoadsCounted /\ SharedOnce
    BY ProofBatchAssumption DEF Init, LoadsCounted, SharedOnce, Calling
<1>5. Retrying
    BY DEF Init, Retrying
<1> QED
    BY <1>2, <1>3, <1>4, <1>5 DEF IInv

LEMMA InvStep ==
    IInv /\ [Next]_vars => IInv'
BY TypeStep, PhasesStep, ToWalkStep, FinishedStep, LoadsStep, SharedStep, CompanionsStep, RowsStep, RefusalsStep, RetryingStep
DEF IInv

\* Every table of rows, list and counter of a pass keeps its range, whatever
\* fails in it and however often passes begin (runSubjectBatch).
THEOREM TypeCorrect == Spec => []TypeOK
<1>1. IInv => TypeOK
    BY DEF IInv
<1> QED
    BY <1>1, InvInit, InvStep, PTL DEF Spec

\* RowsAreOwn: batching, bisecting, the memo and the retry never change a
\* subject's row, and nobody is refused for a companion (runSubjectBatch,
\* splitAttributed).
THEOREM RowsStayOwn == Spec => []RowsAreOwn
<1>1. ASSUME IInv, NEW s \in Subjects
      PROVE  /\ memo[s] # "refused"
             /\ \A row \in {memo[s], answer[s]} \ {None, "refused"} : Own(s, row)
             /\ answer[s] = "refused" => PackageOf[s] \in world.unloadable \/ s \in broke \/ ~budget
  <2>1. memo[s] # None => Own(s, memo[s])
    BY <1>1 DEF IInv, RowsOwn, AllOwn
  <2>2. memo[s] # "refused"
    BY <2>1, OwnIs, ProofBatchAssumption DEF Row
  <2> QED
    BY <1>1, <2>1, <2>2 DEF IInv, RowsOwn, Refusals
<1>2. IInv => RowsAreOwn
    BY <1>1 DEF Own, RowsAreOwn
<1> QED
    BY <1>2, InvInit, InvStep, PTL DEF Spec

\* FailingLoadOnce: a package that does not load is tried once in a pass, the
\* retries of its subjects included (the hasher's progErrs).
THEOREM LoadsOnce == Spec => []FailingLoadOnce
<1>1. IInv => FailingLoadOnce
    BY ProofBatchAssumption DEF IInv, TypeOK, LoadsCounted, SharedOnce, FailingLoadOnce
<1> QED
    BY <1>1, InvInit, InvStep, PTL DEF Spec

\* WorkIsKept: a subject whose slice was completed under a key is not walked
\* again under one, whatever cut the pass short (runSubjectBatch's storing of
\* each slice).
THEOREM WorkKept == Spec => []WorkIsKept
<1>1. IInv => WorkIsKept
    BY DEF IInv, Finished, Stacked, Members, Keyed, WorkIsKept
<1> QED
    BY <1>1, InvInit, InvStep, PTL DEF Spec

=============================================================================
