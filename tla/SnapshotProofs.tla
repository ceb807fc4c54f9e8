--------------------------- MODULE SnapshotProofs ---------------------------
(* Proofs about snapshots, for any subjects, contents, threads and any amount *)
(* of movement and pruning. Three layers: Sound says which operations can be  *)
(* under way over which views; Read, with MemosTrue and TreeSeen, that what a *)
(* pass, a proof or the facts hold was in the tree at some time since the     *)
(* construction began; Held, where contents do not return, that what was read *)
(* on both sides of an instant was there at it. Motion needs the second layer *)
(* only, the instant of the facts all three.                                  *)
EXTENDS Snapshot, TLAPS

-----------------------------------------------------------------------------
(* Shape: which operations can be under way, over what, with what in hand.    *)

Building == {"first", "second"}
Reading == (PassSteps \ {"env"}) \cup {"load"}    \* the environment is read
Complete == {"scan", "discharge", "fold", "compare"}   \* so is every listing
OpShape(o, vs) ==
    /\ o.kind = "idle" => o.at = "env" /\ o.over = {}
    /\ o.kind \in Proving => o.at \in {"open", "list", "store", "key", "load"}
    /\ o.at \in {"open", "load"} => o.kind \in Proving
    /\ o.at \in {"keep", "mark"} => o.kind = "after"
    /\ o.at = "settle" => o.kind = "reprove"
    /\ o.kind \in Building => o.over = Subjects /\ o.view = "view"
    /\ o.kind \in Passing \ Building => o.over = vs[o.view].over /\ o.over # {}
    /\ o.kind \in Proving => o.over \subseteq vs[o.view].over /\ vs[o.view].over # {}
    \* the pass: what it has read is of its subjects
    /\ DOMAIN o.now.key \subseteq DOMAIN o.now.list /\ DOMAIN o.now.list \subseteq o.over
    /\ o.at \in Complete => DOMAIN o.now.list = o.over
    /\ o.at = "scan" => DOMAIN o.now.key = o.over
    /\ o.at = "discharge" => DOMAIN o.now.key = o.over /\ DOMAIN o.now.load \cup DOMAIN o.now.of = o.over
    /\ DOMAIN o.now.of \subseteq DOMAIN o.now.list
    /\ DOMAIN o.now.load \subseteq DOMAIN o.now.list
    /\ o.at \in {"fold", "compare"} => DOMAIN o.now.of = o.over
    /\ o.kind = "second" => DOMAIN o.first.of = Subjects
    \* the proofs: a capture leaves no subject out
    /\ DOMAIN o.proofs \subseteq o.over
    /\ o.at = "load" => DOMAIN o.now.key = o.over
    /\ o.kind = "capture" => vs[o.view].over \subseteq o.over \cup DOMAIN vs[o.view].observable
    /\ o.kind = "after" /\ o.at \in PassSteps \cup {"keep"} =>
          o.over \subseteq DOMAIN o.proofs \cup DOMAIN vs[o.view].observable
    /\ o.at = "mark" => o.over \subseteq DOMAIN vs[o.view].observable
    /\ o.kind \in {"seed", "again", "reprove"} => vs[o.view].sealed
    /\ o.kind = "seed" => o.proofs = <<>>
    /\ o.kind = "again" => o.over = vs[o.view].captured
    /\ o.kind = "reprove" => DOMAIN o.proofs = vs[o.view].captured
Shape == \A t \in Threads : OpShape(op[t], views)

\* Until a snapshot is built one thread at most works, on building it.
Alone ==
    /\ Built => views["view"].over = Subjects /\ \A t \in Threads : op[t].kind \notin Building
    /\ ~Built => /\ views["sibling"].over = {}
                 /\ \A t \in Threads : op[t].kind \in Building \cup {"idle"}
                 /\ \A t, u \in Threads : op[t].kind # "idle" /\ op[u].kind # "idle" => t = u
ViewShape ==
    \A w \in Views :
        /\ views[w].over = {} =>
              views[w] = NoView /\ verdict[w].outcome \notin {"valid", Unavailable}
        /\ views[w].captured \subseteq DOMAIN views[w].observable
        /\ views[w].captured \subseteq views[w].over

-----------------------------------------------------------------------------
(* Reads: what was read has been there since the construction began.          *)

PassRead(b, over, S) ==
    /\ b.env \in S[Env]
    /\ \A s \in over : b.list[s] \in S[s] /\ b.of[s] \in S[s] \X S[s] /\ b.bytes[s] \in S[s]
OpRead(o, S) ==
    /\ o.at \in Reading => o.now.env \in S[Env]
    /\ \A s \in DOMAIN o.now.list : o.now.list[s] \in S[s]
    /\ \A s \in DOMAIN o.now.load : o.now.load[s] \in S[s]
    /\ \A s \in DOMAIN o.now.of : o.now.of[s] \in S[s] \X S[s]
    /\ o.at = "compare" => \A s \in o.over : o.now.bytes[s] \in S[s]
    /\ o.kind = "second" => PassRead(o.first, Subjects, S)
    /\ \A s \in DOMAIN o.proofs : o.proofs[s] \in S[s] \cup {Unavailable}
\* Memo entries are of one version, unless the tree moved under them.
MemosTrue ==
    ~torn => /\ \A r \in listings : r.inputs = r.listing
             /\ \A e \in scans : e.key = e.derived /\ e.key[1] = e.key[2]
             /\ \A e \in proven : e.key = <<e.derived, e.derived>>
TreeSeen == \A p \in Parts : tree[p] \in seen[p]
OpsRead == \A t \in Threads : OpRead(op[t], seen)
FactsRead == Built => PassRead(facts, Subjects, seen)
ProofsRead ==
    \A w \in Views : \A s \in DOMAIN views[w].observable :
        views[w].observable[s] \in seen[s] \cup {Unavailable}
Read == ~torn => OpsRead /\ FactsRead /\ ProofsRead

-----------------------------------------------------------------------------
(* Instants: contents do not return, so what is read before and after an      *)
(* instant was there at it.                                                   *)

FirstBetween(o, T) ==
    /\ \A s \in DOMAIN o.now.of : o.now.list[s] = T[s] => o.now.of[s] = <<T[s], T[s]>>
    /\ \A s \in DOMAIN o.now.load : o.now.list[s] = T[s] => o.now.load[s] = T[s]
SecondBetween(o, T, H) ==
    /\ o.first.env = T[Env] => o.first.env = H[Env]
    /\ o.at \in Reading => (o.now.env = o.first.env => o.first.env = H[Env])
    /\ \A s \in Subjects :
        /\ o.first.bytes[s] = H[s]
        /\ o.first.list[s] = H[s] => o.first.of[s] = <<H[s], H[s]>>
        /\ o.first.list[s] = T[s] => o.first.list[s] = H[s]
    /\ \A s \in DOMAIN o.now.list : o.now.list[s] = o.first.list[s] => o.first.list[s] = H[s]
Proven(o, s, H) == o.proofs[s] \in {Unavailable, H[s]}
LaterBetween(o, T, H) ==
    /\ o.at \in PassSteps =>
        /\ \A p \in Parts : H[p] = T[p] => o.began[p] = H[p]
        /\ \A s \in DOMAIN o.proofs : H[s] = T[s] => Proven(o, s, H)
    /\ o.at \in Reading => (o.now.env = H[Env] => o.began[Env] = H[Env])
    /\ o.at = "compare" => \A s \in o.over : o.now.bytes[s] = H[s] =>
            o.began[s] = H[s] /\ (s \in DOMAIN o.proofs => Proven(o, s, H))
    /\ o.at = "keep" => \A s \in DOMAIN o.proofs : Proven(o, s, H)
    /\ o.at = "settle" => \A p \in o.over \cup {Env} : o.began[p] = H[p]
ProofsBetween(o, T, H) == \A s \in DOMAIN o.proofs : H[s] = T[s] => Proven(o, s, H)
OpBetween(o, T, H) ==
    /\ o.kind = "first" => FirstBetween(o, T)
    /\ o.kind = "second" => SecondBetween(o, T, H)
    /\ o.kind \in Passing \ Building => LaterBetween(o, T, H)
    /\ o.kind \in Proving => ProofsBetween(o, T, H)
OpsBetween == \A t \in Threads : OpBetween(op[t], tree, held)
HeldSeen ==
    Built \/ (\E t \in Threads : op[t].kind = "second") => \A p \in Parts : held[p] \in seen[p]
FactsAre ==
    Built =>
        /\ facts.env = held[Env]
        /\ \A s \in Subjects : facts.list[s] = held[s] /\ facts.bytes[s] = held[s]
                               /\ facts.of[s] = <<held[s], held[s]>>
ProofsAre ==
    \A w \in Views : \A s \in DOMAIN views[w].observable :
        views[w].observable[s] \in {Unavailable, held[s]}
VerdictsAre ==
    \A w \in Views : verdict[w].outcome \in {"valid", Unavailable} =>
        \A p \in views[w].over \cup {Env} : verdict[w].began[p] = held[p]
Instant == OpsBetween /\ HeldSeen /\ FactsAre /\ ProofsAre /\ VerdictsAre
Held == Kept => Instant

-----------------------------------------------------------------------------
(* What each step of a pass does to the operation it belongs to.              *)

Others(t) == op' \in [Threads -> Ops] /\ \A u \in Threads \ {t} : op'[u] = op[u]
\* The operation goes on: a step, a pass so far.
Advance(t, n, a) ==
    /\ Others(t) /\ op'[t].now = n /\ op'[t].at = a
    /\ op'[t].kind = op[t].kind /\ op'[t].view = op[t].view /\ op'[t].over = op[t].over
    /\ op'[t].first = op[t].first /\ op'[t].proofs = op[t].proofs /\ op'[t].began = op[t].began

LEMMA Advances ==
    ASSUME NEW t \in Threads, op \in [Threads -> Ops], NEW n \in Passes, NEW a \in Steps,
           NEW c \in BOOLEAN,
           op' = [op EXCEPT ![t] = [op[t] EXCEPT !.now = n, !.at = a, !.cut = c]]
    PROVE  Advance(t, n, a)
<1>1. [op[t] EXCEPT !.now = n, !.at = a, !.cut = c] \in Ops
    BY DEF Ops
<1>2. op'[t] = [op[t] EXCEPT !.now = n, !.at = a, !.cut = c]
    OBVIOUS
<1>3. Others(t)
    BY <1>1 DEF Others
<1> QED
    BY <1>2, <1>3 DEF Advance, Ops

LEMMA PassEnvDoes ==
    ASSUME TypeOK, NEW t \in Threads, PassEnv(t)
    PROVE  /\ op[t].kind # "idle" /\ op[t].at = "env"
           /\ Advance(t, [op[t].now EXCEPT !.env = tree[Env]], "list")
           /\ UNCHANGED <<tree, memos, snapshot, history>>
<1>1. op[t].kind # "idle" /\ op[t].at = "env" /\ UNCHANGED <<tree, memos, snapshot, history>>
    BY DEF PassEnv, At
<1>2. op \in [Threads -> Ops] /\ op[t] \in Ops /\ tree[Env] \in Versions
    BY DEF TypeOK, Trees, Parts
<1>3. [op[t].now EXCEPT !.env = tree[Env]] \in Passes
    BY <1>2 DEF Ops, Passes
<1>4. op' = [op EXCEPT ![t] = [op[t] EXCEPT !.now = [op[t].now EXCEPT !.env = tree[Env]],
                                         !.at = "list", !.cut = op[t].cut]]
    BY <1>2 DEF PassEnv, Ops
<1>5. "list" \in Steps /\ op[t].cut \in BOOLEAN
    BY <1>2 DEF Steps, PassSteps, Ops
<1> QED
    BY <1>1, <1>2, <1>3, <1>4, <1>5, Advances

LEMMA OverOf ==
    ASSUME NEW S \in SUBSET Subjects, NEW V, NEW f \in [S -> V]
    PROVE  f \in Over(V)
BY DEF Over

LEMMA OverIs ==
    ASSUME NEW V, NEW f \in Over(V)
    PROVE  DOMAIN f \in SUBSET Subjects /\ f \in [DOMAIN f -> V]
BY DEF Over

LEMMA Nowhere ==
    /\ NoPass \in Passes /\ NoPass.env = Initial /\ DOMAIN NoPass.of = {}
    /\ DOMAIN NoPass.list = {} /\ DOMAIN NoPass.key = {} /\ DOMAIN NoPass.load = {}
    /\ DOMAIN << >> = {} /\ \A V : << >> \in Over(V)
<1>1. DOMAIN << >> = {}
    OBVIOUS
<1>2. ASSUME NEW V
      PROVE  << >> \in Over(V)
  <2>1. << >> \in [{} -> V]
    OBVIOUS
  <2> QED
    BY <2>1, OverOf
<1>3. NoPass \in Passes
    BY <1>2, SnapshotAssumption DEF NoPass, Passes
<1> QED
    BY <1>1, <1>2, <1>3 DEF NoPass

LEMMA PutIs ==
    ASSUME NEW f, NEW s, NEW x
    PROVE  /\ DOMAIN Put(f, s, x) = DOMAIN f \cup {s} /\ Put(f, s, x)[s] = x
           /\ \A u \in DOMAIN f \ {s} : Put(f, s, x)[u] = f[u]
BY DEF Put

LEMMA PutHas ==
    ASSUME NEW f, NEW s, NEW x, NEW u \in DOMAIN Put(f, s, x)
    PROVE  \/ u = s /\ Put(f, s, x)[u] = x
           \/ u # s /\ u \in DOMAIN f /\ Put(f, s, x)[u] = f[u]
BY DEF Put

LEMMA PutIn ==
    ASSUME NEW V, NEW f \in Over(V), NEW s \in Subjects, NEW x \in V
    PROVE  Put(f, s, x) \in Over(V)
<1>1. DOMAIN f \in SUBSET Subjects /\ \A u \in DOMAIN f : f[u] \in V
    BY OverIs
<1>2. Put(f, s, x) \in [DOMAIN f \cup {s} -> V]
    BY <1>1 DEF Put
<1> QED
    BY <1>1, <1>2, OverOf

LEMMA AddedIs ==
    ASSUME NEW f, NEW g
    PROVE  /\ DOMAIN Added(f, g) = DOMAIN f \cup DOMAIN g
           /\ \A s \in DOMAIN f : Added(f, g)[s] = f[s]
           /\ \A s \in DOMAIN g \ DOMAIN f : Added(f, g)[s] = g[s]
BY DEF Added

LEMMA AddedIn ==
    ASSUME NEW V, NEW f \in Over(V), NEW g \in Over(V)
    PROVE  /\ Added(f, g) \in Over(V) /\ DOMAIN Added(f, g) = DOMAIN f \cup DOMAIN g
           /\ \A s \in DOMAIN f : Added(f, g)[s] = f[s]
           /\ \A s \in DOMAIN g \ DOMAIN f : Added(f, g)[s] = g[s]
<1>1. DOMAIN f \in SUBSET Subjects /\ DOMAIN g \in SUBSET Subjects
      /\ (\A s \in DOMAIN f : f[s] \in V) /\ (\A s \in DOMAIN g : g[s] \in V)
    BY OverIs
<1>2. Added(f, g) \in [DOMAIN f \cup DOMAIN g -> V]
    BY <1>1 DEF Added
<1> QED
    BY <1>1, <1>2, OverOf DEF Added

LEMMA ListingIsTree ==
    ASSUME TypeOK, NEW s \in Subjects, NEW env
    PROVE  /\ Listing(s, env) \in Versions
           /\ MemosTrue /\ ~torn => Listing(s, env) = tree[s]
<1>1. tree[s] \in Versions
    BY DEF TypeOK, Trees, Parts
<1>2. CASE ListingHits(s, env) = {}
    BY <1>1, <1>2 DEF Listing
<1>3. CASE ListingHits(s, env) # {}
  <2> DEFINE r == CHOOSE r \in ListingHits(s, env) : TRUE
  <2>1. r \in ListingHits(s, env)
    BY <1>3
  <2>2. r \in listings /\ r.inputs = tree[s]
    BY <2>1 DEF ListingHits
  <2>3. Listing(s, env) = r.listing
    BY <1>3 DEF Listing
  <2> HIDE DEF r
  <2> QED
    BY <2>2, <2>3 DEF MemosTrue, TypeOK
<1> QED
    BY <1>2, <1>3

LEMMA ListDoes ==
    ASSUME TypeOK, NEW t \in Threads, NEW s \in Subjects, List(t, s)
    PROVE  /\ op[t].kind # "idle" /\ op[t].at = "list" /\ s \in op[t].over \ DOMAIN op[t].now.list
           /\ \E n \in Passes : \E a \in {"key", "store"} :
                /\ Advance(t, n, a) /\ n.env = op[t].now.env /\ n.of = op[t].now.of
                /\ n.list = Put(op[t].now.list, s, Listing(s, op[t].now.env))
                /\ n.key = op[t].now.key /\ n.load = op[t].now.load
           /\ UNCHANGED <<tree, memos, snapshot, history>>
<1> DEFINE env == op[t].now.env
           l == Put(op[t].now.list, s, Listing(s, env))
           a == IF ListingHits(s, env) = {} THEN "store" ELSE "key"
           n == [op[t].now EXCEPT !.list = l]
<1>1. /\ op[t].kind # "idle" /\ op[t].at = "list" /\ s \in op[t].over \ DOMAIN op[t].now.list
      /\ UNCHANGED <<tree, memos, snapshot, history>>
    BY DEF List, At
<1>2. op \in [Threads -> Ops] /\ op[t] \in Ops /\ op[t].now \in Passes
    BY DEF TypeOK, Ops
<1>3. l \in Over(Versions)
    BY <1>2, ListingIsTree, PutIn DEF Passes
<1>4. op' = [op EXCEPT ![t] = [op[t] EXCEPT !.now = n, !.at = a, !.cut = op[t].cut]]
    BY <1>2 DEF List, Ops, Passes
<1>5. a \in {"key", "store"} /\ a \in Steps /\ op[t].cut \in BOOLEAN
    BY <1>2 DEF Steps, PassSteps, Ops
<1> HIDE DEF a, l
<1>7. n \in Passes /\ n.env = op[t].now.env /\ n.of = op[t].now.of /\ n.list = l
      /\ n.key = op[t].now.key /\ n.load = op[t].now.load
    BY <1>2, <1>3 DEF Passes
<1> HIDE DEF n
<1>8. Advance(t, n, a)
    BY <1>2, <1>4, <1>5, <1>7, Advances
<1> QED
    BY <1>1, <1>5, <1>7, <1>8 DEF l

LEMMA StoreDoes ==
    ASSUME TypeOK, NEW t \in Threads, NEW s \in Subjects, StoreListing(t, s)
    PROVE  /\ op[t].kind # "idle" /\ op[t].at = "store"
           /\ s \in DOMAIN op[t].now.list \ DOMAIN op[t].now.key
           /\ Advance(t, op[t].now, "key")
           /\ UNCHANGED <<tree, scans, proven, snapshot, held, seen, restored, moves, ops>>
<1>1. op[t].kind # "idle" /\ op[t].at = "store" /\ s \in DOMAIN op[t].now.list \ DOMAIN op[t].now.key
      /\ UNCHANGED <<tree, scans, proven, snapshot, held, seen, restored, moves, ops>>
    BY DEF StoreListing, At
<1>2. op \in [Threads -> Ops] /\ op[t] \in Ops /\ op[t].now \in Passes
    BY DEF TypeOK, Ops
<1>4. op' = [op EXCEPT ![t] = [op[t] EXCEPT !.now = op[t].now, !.at = "key", !.cut = op[t].cut]]
    BY <1>2 DEF StoreListing, Ops
<1>5. "key" \in Steps /\ op[t].cut \in BOOLEAN
    BY <1>2 DEF Steps, PassSteps, Ops
<1> QED
    BY <1>1, <1>2, <1>4, <1>5, Advances

LEMMA ServedScan ==
    ASSUME TypeOK, NEW now, NEW s, Hits(scans, now, s) # {}
    PROVE  /\ Served(scans, now, s) \in Versions \X Versions
           /\ MemosTrue /\ ~torn => Served(scans, now, s) = <<tree[s], tree[s]>>
<1> DEFINE e == CHOOSE e \in Hits(scans, now, s) : TRUE
<1>1. e \in Hits(scans, now, s)
    OBVIOUS
<1>2. e \in scans /\ e.key = <<now.list[s], tree[s]>>
    BY <1>1 DEF Hits
<1>3. Served(scans, now, s) = e.derived
    BY DEF Served
<1> HIDE DEF e
<1>4. e.derived \in Versions \X Versions
    BY <1>2 DEF TypeOK
<1>5. MemosTrue /\ ~torn => e.derived = <<tree[s], tree[s]>>
    BY <1>2 DEF MemosTrue
<1> QED
    BY <1>3, <1>4, <1>5

LEMMA ServedProof ==
    ASSUME TypeOK, NEW now, NEW s, Hits(proven, now, s) # {}
    PROVE  /\ Served(proven, now, s) \in Versions
           /\ MemosTrue /\ ~torn => Served(proven, now, s) = tree[s]
<1> DEFINE e == CHOOSE e \in Hits(proven, now, s) : TRUE
<1>1. e \in Hits(proven, now, s)
    OBVIOUS
<1>2. e \in proven /\ e.key = <<now.list[s], tree[s]>>
    BY <1>1 DEF Hits
<1>3. Served(proven, now, s) = e.derived
    BY DEF Served
<1> HIDE DEF e
<1>4. e.derived \in Versions
    BY <1>2 DEF TypeOK
<1>5. MemosTrue /\ ~torn => e.derived = tree[s]
    BY <1>2 DEF MemosTrue
<1> QED
    BY <1>3, <1>4, <1>5

LEMMA PassKeyDoes ==
    ASSUME TypeOK, NEW t \in Threads, NEW s \in Subjects, PassKey(t, s)
    PROVE  /\ op[t].kind \in Passing /\ op[t].at = "key" /\ s \in DOMAIN op[t].now.list \ DOMAIN op[t].now.key
           /\ \E n \in Passes : \E a \in {"list", "fold", "scan"} :
                /\ Advance(t, n, a) /\ n.env = op[t].now.env /\ n.list = op[t].now.list
                /\ n.load = op[t].now.load /\ DOMAIN n.key = DOMAIN op[t].now.key \cup {s}
                /\ a # "list" => DOMAIN n.key = op[t].over
                /\ a = "fold" => DOMAIN n.of = op[t].over
                /\ \/ n.of = op[t].now.of
                   \/ \E x \in Versions \X Versions :
                        /\ n.of = Put(op[t].now.of, s, x)
                        /\ MemosTrue /\ ~torn => x = <<tree[s], tree[s]>>
           /\ UNCHANGED <<tree, memos, snapshot, history>>
<1> DEFINE x == Served(scans, op[t].now, s)
           hit == Hits(scans, op[t].now, s) # {}
           of == IF Hits(scans, op[t].now, s) = {} THEN op[t].now.of ELSE Put(op[t].now.of, s, x)
           key == Put(op[t].now.key, s, tree[s])
           a == CASE DOMAIN key # op[t].over -> "list"
                  [] DOMAIN key = op[t].over /\ DOMAIN of = op[t].over -> "fold"
                  [] OTHER -> "scan"
           n == [op[t].now EXCEPT !.key = key, !.of = of]
<1>1. /\ op[t].kind \in Passing /\ op[t].at = "key" /\ s \in DOMAIN op[t].now.list \ DOMAIN op[t].now.key
      /\ UNCHANGED <<tree, memos, snapshot, history>>
    BY DEF PassKey, At
<1>2. op \in [Threads -> Ops] /\ op[t] \in Ops /\ op[t].now \in Passes /\ tree[s] \in Versions
    BY DEF TypeOK, Ops, Trees, Parts
<1>3. hit => x \in Versions \X Versions /\ (MemosTrue /\ ~torn => x = <<tree[s], tree[s]>>)
    BY ServedScan
<1>4. of \in Over(Versions \X Versions)
  <2>1. op[t].now.of \in Over(Versions \X Versions)
    BY <1>2 DEF Passes
  <2> QED
    BY <1>3, <2>1, PutIn
<1>5. key \in Over(Versions) /\ DOMAIN key = DOMAIN op[t].now.key \cup {s}
    BY <1>2, PutIn, PutIs DEF Passes
<1>6. op' = [op EXCEPT ![t].now.key = key, ![t].now.of = of, ![t].at = a]
    BY DEF PassKey
<1>7. /\ a \in {"list", "fold", "scan"} /\ a \in Steps /\ op[t].cut \in BOOLEAN
      /\ a # "list" => DOMAIN key = op[t].over
      /\ a = "fold" => DOMAIN of = op[t].over
    BY <1>2 DEF Steps, PassSteps, Ops
<1>8. of = op[t].now.of \/ (hit /\ of = Put(op[t].now.of, s, x))
    OBVIOUS
<1> HIDE DEF a, of, key, hit, x
<1>9. n \in Passes /\ n.env = op[t].now.env /\ n.list = op[t].now.list /\ n.load = op[t].now.load
      /\ n.of = of /\ n.key = key
    BY <1>2, <1>4, <1>5 DEF Passes
<1> HIDE DEF n
<1>e. op' = [op EXCEPT ![t] = [op[t] EXCEPT !.now = n, !.at = a, !.cut = op[t].cut]]
    BY <1>2, <1>6 DEF Ops, Passes, n
<1>10. Advance(t, n, a)
    BY <1>2, <1>e, <1>7, <1>9, Advances
<1> QED
    BY <1>1, <1>3, <1>5, <1>7, <1>8, <1>9, <1>10

LEMMA PassScanDoes ==
    ASSUME TypeOK, NEW t \in Threads, PassScan(t)
    PROVE  /\ op[t].kind # "idle" /\ op[t].at = "scan"
           /\ \E n \in Passes :
                /\ Advance(t, n, "discharge") /\ n.env = op[t].now.env /\ n.list = op[t].now.list
                /\ n.key = op[t].now.key /\ n.of = op[t].now.of
                /\ n.load = [s \in op[t].over \ DOMAIN op[t].now.of |-> tree[s]]
           /\ UNCHANGED <<tree, memos, snapshot, history>>
<1> DEFINE load == [s \in op[t].over \ DOMAIN op[t].now.of |-> tree[s]]
           n == [op[t].now EXCEPT !.load = load]
<1>1. op[t].kind # "idle" /\ op[t].at = "scan" /\ UNCHANGED <<tree, memos, snapshot, history>>
    BY DEF PassScan, At
<1>2. op \in [Threads -> Ops] /\ op[t] \in Ops /\ op[t].now \in Passes /\ op[t].over \in SUBSET Subjects
    BY DEF TypeOK, Ops
<1>3. load \in Over(Versions)
  <2>1. load \in [op[t].over \ DOMAIN op[t].now.of -> Versions]
    BY <1>2 DEF TypeOK, Trees, Parts
  <2> HIDE DEF load
  <2> QED
    BY <1>2, <2>1, OverOf
<1>4. op' = [op EXCEPT ![t] = [op[t] EXCEPT !.now = n, !.at = "discharge", !.cut = op[t].cut]]
    BY <1>2 DEF PassScan, Ops, Passes
<1>5. "discharge" \in Steps /\ op[t].cut \in BOOLEAN
    BY <1>2 DEF Steps, PassSteps, Ops
<1> HIDE DEF load
<1>6. n \in Passes /\ n.env = op[t].now.env /\ n.list = op[t].now.list
      /\ n.key = op[t].now.key /\ n.of = op[t].now.of /\ n.load = load
    BY <1>2, <1>3 DEF Passes
<1> HIDE DEF n
<1>7. Advance(t, n, "discharge")
    BY <1>2, <1>4, <1>5, <1>6, Advances
<1> QED
    BY <1>1, <1>6, <1>7 DEF load

LEMMA JudgmentsAre ==
    ASSUME TypeOK, NEW now \in Passes, NEW cut
    PROVE  /\ Judgments(now, cut) \in Over(Versions \X Versions)
           /\ DOMAIN Judgments(now, cut) = DOMAIN now.load
           /\ \A s \in DOMAIN now.load :
                Judgments(now, cut)[s] \in {<<now.load[s], tree[s]>>, <<now.load[s], now.load[s]>>}
<1>1. now.load \in Over(Versions)
    BY DEF Passes
<1>2. DOMAIN now.load \in SUBSET Subjects /\ \A s \in DOMAIN now.load : now.load[s] \in Versions /\ tree[s] \in Versions
    BY <1>1, OverIs DEF TypeOK, Trees, Parts
<1>3. Judgments(now, cut) \in [DOMAIN now.load -> Versions \X Versions]
    BY <1>2 DEF Judgments
<1> QED
    BY <1>2, <1>3, OverOf DEF Judgments

LEMMA PassDischargeDoes ==
    ASSUME TypeOK, NEW t \in Threads, PassDischarge(t)
    PROVE  /\ op[t].kind # "idle" /\ op[t].at = "discharge"
           /\ \E n \in Passes : \E cut :
                /\ Advance(t, n, "fold") /\ n.env = op[t].now.env /\ n.list = op[t].now.list
                /\ n.of = Added(Judgments(op[t].now, cut), op[t].now.of)
                /\ n.load = <<>> /\ n.key = <<>>
                /\ scans' = Stored(scans, NewScans(op[t].now, cut))
                /\ torn' = (torn \/ \E m \in NewScans(op[t].now, cut) : m.key # m.derived \/ m.key[1] # m.key[2])
           /\ UNCHANGED <<tree, listings, proven, snapshot, held, seen, restored, moves, ops>>
<1>1. op[t].kind # "idle" /\ op[t].at = "discharge"
      /\ UNCHANGED <<tree, listings, proven, snapshot, held, seen, restored, moves, ops>>
    BY DEF PassDischarge, At
<1>2. op \in [Threads -> Ops] /\ op[t] \in Ops /\ op[t].now \in Passes /\ op[t].over \in SUBSET Subjects
    BY DEF TypeOK, Ops
<1>4. PICK cut \in {{}, Downgraded(op[t].now)} :
        /\ op' = [op EXCEPT ![t].now.of = Added(Judgments(op[t].now, cut), op[t].now.of),
                            ![t].now.load = <<>>, ![t].now.key = <<>>, ![t].now.cut = cut, ![t].at = "fold"]
        /\ scans' = Stored(scans, NewScans(op[t].now, cut))
        /\ torn' = (torn \/ \E m \in NewScans(op[t].now, cut) : m.key # m.derived \/ m.key[1] # m.key[2])
    BY DEF PassDischarge
<1> DEFINE of == Added(Judgments(op[t].now, cut), op[t].now.of)
           n == [op[t].now EXCEPT !.of = of, !.load = <<>>, !.key = <<>>, !.cut = cut]
<1>3. of \in Over(Versions \X Versions)
    BY <1>2, JudgmentsAre, AddedIn DEF Passes
<1>5. cut \in SUBSET Subjects
    BY <1>2, <1>4, OverIs DEF Downgraded, Passes
<1> HIDE DEF of
<1>6. op' = [op EXCEPT ![t] = [op[t] EXCEPT !.now = n, !.at = "fold", !.cut = op[t].cut]]
  <2>1. op' = [op EXCEPT ![t].now.of = of, ![t].now.load = <<>>, ![t].now.key = <<>>,
                         ![t].now.cut = cut, ![t].at = "fold"]
    BY <1>4 DEF of
  <2>2. op' = [op EXCEPT ![t] = [op[t] EXCEPT !.now.of = of, !.now.load = <<>>, !.now.key = <<>>,
                                             !.now.cut = cut, !.at = "fold"]]
    BY <1>2, <2>1
  <2>3. [op[t] EXCEPT !.now.of = of, !.now.load = <<>>, !.now.key = <<>>, !.now.cut = cut, !.at = "fold"]
        = [op[t] EXCEPT !.now = n, !.at = "fold", !.cut = op[t].cut]
    BY <1>2 DEF Ops, Passes
  <2> QED
    BY <2>2, <2>3
<1>7. "fold" \in Steps /\ op[t].cut \in BOOLEAN
    BY <1>2 DEF Steps, PassSteps, Ops
<1>8. n \in Passes /\ n.env = op[t].now.env /\ n.list = op[t].now.list /\ n.of = of
      /\ n.load = <<>> /\ n.key = <<>>
    BY <1>2, <1>3, <1>5, Nowhere DEF Passes
<1> HIDE DEF n
<1>9. Advance(t, n, "fold")
    BY <1>2, <1>6, <1>7, <1>8, Advances
<1> QED
    BY <1>1, <1>4, <1>8, <1>9 DEF of

LEMMA PassFoldDoes ==
    ASSUME TypeOK, NEW t \in Threads, PassFold(t)
    PROVE  /\ op[t].kind # "idle" /\ op[t].at = "fold"
           /\ \E n \in Passes :
                /\ n.env = op[t].now.env /\ n.list = op[t].now.list /\ n.of = op[t].now.of
                /\ n.key = op[t].now.key /\ n.load = op[t].now.load
                /\ n.bytes = [s \in op[t].over |-> tree[s]]
                /\ \/ op[t].kind # "first" /\ Advance(t, n, "compare") /\ held' = held
                   \/ /\ op[t].kind = "first" /\ Others(t) /\ held' = tree
                      /\ op'[t] = [op[t] EXCEPT !.kind = "second", !.at = "env", !.now = NoPass,
                                                !.began = tree, !.first = n]
           /\ UNCHANGED <<tree, memos, snapshot, seen, restored, torn, moves, ops>>
<1> DEFINE b == [s \in op[t].over |-> tree[s]]
           n == [op[t].now EXCEPT !.bytes = b]
<1>1. op[t].kind # "idle" /\ op[t].at = "fold"
      /\ UNCHANGED <<tree, memos, snapshot, seen, restored, torn, moves, ops>>
    BY DEF PassFold, At
<1>2. op \in [Threads -> Ops] /\ op[t] \in Ops /\ op[t].now \in Passes /\ op[t].over \in SUBSET Subjects
    BY DEF TypeOK, Ops
<1>3. b \in Over(Versions)
  <2>1. b \in [op[t].over -> Versions]
    BY <1>2 DEF TypeOK, Trees, Parts
  <2> HIDE DEF b
  <2> QED
    BY <1>2, <2>1, OverOf
<1>4. /\ op' = [op EXCEPT ![t] = IF op[t].kind = "first"
                     THEN [op[t] EXCEPT !.kind = "second", !.at = "env", !.now = NoPass,
                                        !.began = tree, !.first = n]
                     ELSE [op[t] EXCEPT !.now = n, !.at = "compare", !.cut = op[t].cut]]
      /\ held' = IF op[t].kind = "first" THEN tree ELSE held
    BY <1>2 DEF PassFold, Begin, Ops, Passes
<1> HIDE DEF b
<1>5. n \in Passes /\ n.env = op[t].now.env /\ n.list = op[t].now.list /\ n.of = op[t].now.of
      /\ n.key = op[t].now.key /\ n.load = op[t].now.load /\ n.bytes = b
    BY <1>2, <1>3 DEF Passes
<1> HIDE DEF n
<1>6. CASE op[t].kind # "first"
  <2>1. "compare" \in Steps /\ op[t].cut \in BOOLEAN
    BY <1>2 DEF Steps, PassSteps, Ops
  <2>2. Advance(t, n, "compare")
    BY <1>2, <1>4, <1>5, <1>6, <2>1, Advances
  <2> QED
    BY <1>1, <1>4, <1>5, <1>6, <2>2 DEF b
<1>7. CASE op[t].kind = "first"
  <2>1. NoPass \in Passes
    BY Nowhere
  <2>2. [op[t] EXCEPT !.kind = "second", !.at = "env", !.now = NoPass, !.began = tree, !.first = n]
        \in Ops
    BY <1>2, <1>5, <2>1 DEF Ops, Passing, Steps, PassSteps, TypeOK
  <2>3. Others(t)
    BY <1>2, <1>4, <1>7, <2>2 DEF Others
  <2> QED
    BY <1>1, <1>2, <1>4, <1>5, <1>7, <2>3 DEF b
<1> QED
    BY <1>6, <1>7

-----------------------------------------------------------------------------
(* What the other steps do to the operation they belong to.                   *)

Becomes(t, n) == Others(t) /\ op'[t] = n

LEMMA Replaces ==
    ASSUME NEW t \in Threads, op \in [Threads -> Ops], NEW n \in Ops,
           op' = [op EXCEPT ![t] = n]
    PROVE  Becomes(t, n)
BY DEF Becomes, Others

LEMMA IdleIs ==
    /\ Idle \in Ops /\ Idle.kind = "idle" /\ Idle.view = "view" /\ Idle.at = "env" /\ Idle.over = {}
    /\ Idle.now = NoPass /\ Idle.first = NoPass /\ Idle.proofs = <<>>
BY Nowhere DEF Idle, Ops, Steps, PassSteps, Views, Proofs

LEMMA Dropped ==
    ASSUME TypeOK, NEW t \in Threads, Drop(t)
    PROVE  Becomes(t, Idle)
BY Replaces, IdleIs DEF Drop, TypeOK

\* A call that starts a pass over the subjects of a view.
Started(t, kind, w, over) ==
    /\ Others(t) /\ op'[t].kind = kind /\ op'[t].view = w /\ op'[t].at = "env" /\ op'[t].over = over
    /\ op'[t].now = NoPass /\ op'[t].proofs = <<>> /\ op'[t].began = tree

LEMMA ConstructDoes ==
    ASSUME TypeOK, NEW t \in Threads, Construct(t)
    PROVE  Started(t, "first", "view", Subjects)
<1> DEFINE n == Begin(Idle, "first", Subjects)
<1>1. n \in Ops /\ n.kind = "first" /\ n.view = "view" /\ n.at = "env" /\ n.over = Subjects
      /\ n.now = NoPass /\ n.proofs = <<>> /\ n.began = tree
    BY IdleIs, Nowhere DEF Begin, Ops, Passing, Steps, PassSteps, TypeOK
<1> HIDE DEF n
<1>2. op' = [op EXCEPT ![t] = n]
    BY DEF Construct, n
<1>3. Becomes(t, n)
    BY <1>1, <1>2, Replaces DEF TypeOK
<1> QED
    BY <1>1, <1>3 DEF Becomes, Started

LEMMA CaptureDoes ==
    ASSUME TypeOK, NEW t \in Threads, NEW w \in Views, Capture(t, w)
    PROVE  LET asked == views[w].over \ DOMAIN views[w].observable IN
           /\ Others(t) /\ op[t].kind = "idle"
           /\ op'[t].view = w /\ op'[t].now = NoPass /\ op'[t].proofs = <<>>
           /\ \/ /\ asked = {} /\ op'[t].kind = "after" /\ op'[t].over = views[w].over /\ op'[t].at = "mark"
              \/ op'[t].kind = "capture" /\ op'[t].over = asked /\ op'[t].at = "open"
           /\ views[w].over # {}
           /\ UNCHANGED <<tree, memos, snapshot, held, seen, restored, torn, moves>>
<1> DEFINE asked == views[w].over \ DOMAIN views[w].observable
           marked == [Idle EXCEPT !.kind = "after", !.view = w, !.over = views[w].over, !.at = "mark"]
           opened == [Idle EXCEPT !.kind = "capture", !.view = w, !.over = asked, !.at = "open"]
<1>1. "mark" \in Steps /\ "open" \in Steps /\ views[w].over \in SUBSET Subjects /\ asked \in SUBSET Subjects
    BY DEF Steps, TypeOK, ViewStates
<1>2. op' = [op EXCEPT ![t] = IF asked = {} THEN marked ELSE opened]
    BY DEF Capture
<1>3. Calling(t) /\ views[w].over # {}
      /\ UNCHANGED <<tree, memos, snapshot, held, seen, restored, torn, moves>>
    BY DEF Capture
<1> HIDE DEF asked
<1>4. /\ marked \in Ops /\ marked.kind = "after" /\ marked.view = w /\ marked.over = views[w].over
      /\ marked.at = "mark" /\ marked.now = NoPass /\ marked.proofs = <<>>
      /\ opened \in Ops /\ opened.kind = "capture" /\ opened.view = w /\ opened.over = asked
      /\ opened.at = "open" /\ opened.now = NoPass /\ opened.proofs = <<>>
    BY <1>1, IdleIs DEF Ops, Passing, Proving
<1> HIDE DEF marked, opened
<1>5. (asked = {} /\ Becomes(t, marked)) \/ Becomes(t, opened)
    BY <1>2, <1>4, Replaces DEF TypeOK
<1> QED
    BY <1>3, <1>4, <1>5 DEF Becomes, Calling, asked

LEMMA OpenDoes ==
    ASSUME TypeOK, NEW t \in Threads, Open(t)
    PROVE  /\ op[t].kind # "idle" /\ op[t].at = "open"
           /\ \/ /\ Advance(t, [op[t].now EXCEPT !.env = tree[Env]], "list") /\ UNCHANGED verdict
              \/ /\ Becomes(t, Idle) /\ tree[Env] # facts.env
                 /\ UNCHANGED verdict \/ Answer(op[t].view, "changed", t)
           /\ UNCHANGED <<tree, memos, facts, views, history>>
<1>1. op[t].kind # "idle" /\ op[t].at = "open" /\ UNCHANGED <<tree, memos, facts, views, history>>
    BY DEF Open, At
<1>2. op \in [Threads -> Ops] /\ op[t] \in Ops /\ tree[Env] \in Versions
    BY DEF TypeOK, Trees, Parts
<1>3. CASE tree[Env] = facts.env
  <2> DEFINE n == [op[t].now EXCEPT !.env = tree[Env]]
  <2>1. op' = [op EXCEPT ![t] = [op[t] EXCEPT !.now = n, !.at = "list", !.cut = op[t].cut]]
    BY <1>2, <1>3 DEF Open, Ops
  <2>2. n \in Passes /\ "list" \in Steps /\ op[t].cut \in BOOLEAN
    BY <1>2 DEF Ops, Passes, Steps, PassSteps
  <2>3. Advance(t, n, "list")
    BY <1>2, <2>1, <2>2, Advances
  <2> QED
    BY <1>1, <1>3, <2>3 DEF Open
<1>4. CASE tree[Env] # facts.env
    BY <1>1, <1>4, Dropped DEF Open
<1> QED
    BY <1>3, <1>4

\* A proof is added: the proving goes on, or its closing pass begins.
Proved(t, n, a, q) ==
    /\ Others(t) /\ op'[t].view = op[t].view /\ op'[t].proofs = q
    /\ \/ /\ DOMAIN q # op[t].over /\ op'[t].kind = op[t].kind /\ op'[t].over = op[t].over
          /\ op'[t].now = n /\ op'[t].at = a
       \/ /\ DOMAIN q = op[t].over
          /\ op'[t].kind = IF op[t].kind = "capture" THEN "after" ELSE "reprove"
          /\ op'[t].over = views[op[t].view].over
          /\ op'[t].now = NoPass /\ op'[t].at = "env" /\ op'[t].began = tree

LEMMA Proves ==
    ASSUME TypeOK, NEW t \in Threads, NEW n, NEW a, NEW q, NEW o \in Ops,
           o.kind = op[t].kind, o.view = op[t].view, o.over = op[t].over, o.now = n, o.at = a,
           o.proofs = q, op' = [op EXCEPT ![t] = ProvedSo(o)]
    PROVE  Proved(t, n, a, q)
<1> DEFINE k == IF op[t].kind = "capture" THEN "after" ELSE "reprove"
           b == [o EXCEPT !.kind = k, !.at = "env", !.over = views[op[t].view].over, !.now = NoPass,
                          !.began = tree]
<1>1. op \in [Threads -> Ops] /\ op[t] \in Ops /\ tree \in Trees
      /\ views[op[t].view].over \in SUBSET Subjects /\ k \in Passing
    BY DEF TypeOK, Ops, ViewStates, Passing
<1>3. op' = [op EXCEPT ![t] = IF DOMAIN q # op[t].over THEN o ELSE b]
    BY DEF ProvedSo, Begin
<1> HIDE DEF k
<1>4. /\ b \in Ops /\ b.kind = k /\ b.view = op[t].view /\ b.over = views[op[t].view].over
      /\ b.now = NoPass /\ b.at = "env" /\ b.proofs = q /\ b.began = tree
    BY <1>1, Nowhere DEF Ops, Steps, PassSteps
<1> HIDE DEF b
<1>5. (DOMAIN q # op[t].over /\ Becomes(t, o)) \/ (DOMAIN q = op[t].over /\ Becomes(t, b))
    BY <1>1, <1>3, <1>4, Replaces
<1> QED
    BY <1>4, <1>5 DEF Proved, Becomes, k

LEMMA ProveKeyDoes ==
    ASSUME TypeOK, NEW t \in Threads, NEW s \in Subjects, ProveKey(t, s)
    PROVE  /\ op[t].kind \in Proving /\ op[t].at = "key" /\ s \in DOMAIN op[t].now.list \ DOMAIN op[t].now.key
           /\ \E n \in Passes : \E a \in {"list", "load"} : \E q \in Proofs :
                /\ Proved(t, n, a, q) /\ n.env = op[t].now.env /\ n.list = op[t].now.list
                /\ n.load = op[t].now.load /\ n.of = op[t].now.of
                /\ DOMAIN n.key = DOMAIN op[t].now.key \cup {s}
                /\ a = "load" => DOMAIN n.key = op[t].over
                /\ \/ q = op[t].proofs
                   \/ \E x \in Versions :
                        q = Put(op[t].proofs, s, x) /\ (MemosTrue /\ ~torn => x = tree[s])
           /\ UNCHANGED <<tree, memos, snapshot, history>>
<1> DEFINE x == Served(proven, op[t].now, s)
           hit == Hits(proven, op[t].now, s) # {}
           q == IF Hits(proven, op[t].now, s) = {} THEN op[t].proofs ELSE Put(op[t].proofs, s, x)
           key == Put(op[t].now.key, s, tree[s])
           a == IF DOMAIN key = op[t].over THEN "load" ELSE "list"
           n == [op[t].now EXCEPT !.key = key]
<1>1. /\ op[t].kind \in Proving /\ op[t].at = "key" /\ s \in DOMAIN op[t].now.list \ DOMAIN op[t].now.key
      /\ UNCHANGED <<tree, memos, snapshot, history>>
    BY DEF ProveKey, At
<1>2. op \in [Threads -> Ops] /\ op[t] \in Ops /\ op[t].now \in Passes /\ tree[s] \in Versions
    BY DEF TypeOK, Ops, Trees, Parts
<1>3. hit => x \in Versions /\ (MemosTrue /\ ~torn => x = tree[s])
    BY ServedProof
<1>4. q \in Proofs
  <2>1. op[t].proofs \in Over(Versions \cup {Unavailable})
    BY <1>2 DEF Ops, Proofs
  <2> QED
    BY <1>3, <2>1, PutIn DEF Proofs
<1>5. key \in Over(Versions) /\ DOMAIN key = DOMAIN op[t].now.key \cup {s}
    BY <1>2, PutIn, PutIs DEF Passes
<1>6. op' = [op EXCEPT ![t] = ProvedSo([op[t] EXCEPT !.now = n, !.at = a, !.proofs = q])]
    BY <1>2 DEF ProveKey, Ops, Passes
<1>7. a \in {"list", "load"} /\ a \in Steps /\ (a = "load" => DOMAIN key = op[t].over)
    BY DEF Steps, PassSteps
<1>8. q = op[t].proofs \/ (hit /\ q = Put(op[t].proofs, s, x))
    OBVIOUS
<1> HIDE DEF a, q, key, hit, x
<1>9. n \in Passes /\ n.env = op[t].now.env /\ n.list = op[t].now.list /\ n.load = op[t].now.load
      /\ n.of = op[t].now.of /\ n.key = key
    BY <1>2, <1>5 DEF Passes
<1> HIDE DEF n
<1>10. Proved(t, n, a, q)
  <2> DEFINE o == [op[t] EXCEPT !.now = n, !.at = a, !.proofs = q]
  <2>1. /\ o \in Ops /\ o.kind = op[t].kind /\ o.view = op[t].view /\ o.over = op[t].over
        /\ o.now = n /\ o.at = a /\ o.proofs = q
    BY <1>2, <1>4, <1>7, <1>9 DEF Ops
  <2>2. op' = [op EXCEPT ![t] = ProvedSo(o)]
    BY <1>6
  <2> HIDE DEF o
  <2> QED
    BY <2>1, <2>2, Proves
<1> QED
    BY <1>1, <1>3, <1>4, <1>5, <1>7, <1>8, <1>9, <1>10

LEMMA ProveLoadDoes ==
    ASSUME TypeOK, NEW t \in Threads, NEW s \in Subjects, ProveLoad(t, s)
    PROVE  /\ op[t].kind # "idle" /\ op[t].at = "load" /\ s \in op[t].over \ DOMAIN op[t].proofs
           /\ \E x \in {Unavailable, tree[s]} :
                /\ Proved(t, op[t].now, "load", Put(op[t].proofs, s, x))
                /\ proven' = Stored(proven, NewProof(op[t].now, s, x))
                /\ torn' = (torn \/ \E m \in NewProof(op[t].now, s, x) : m.key # <<m.derived, m.derived>>)
           /\ UNCHANGED <<tree, listings, scans, snapshot, held, seen, restored, moves, ops>>
<1>1. op[t].kind # "idle" /\ op[t].at = "load" /\ s \in op[t].over \ DOMAIN op[t].proofs
      /\ UNCHANGED <<tree, listings, scans, snapshot, held, seen, restored, moves, ops>>
    BY DEF ProveLoad, At
<1>2. op \in [Threads -> Ops] /\ op[t] \in Ops /\ op[t].now \in Passes /\ tree[s] \in Versions
    BY DEF TypeOK, Ops, Trees, Parts
<1>3. PICK x \in {Unavailable, tree[s]} :
        /\ op' = [op EXCEPT ![t] = ProvedSo([op[t] EXCEPT !.proofs = Put(op[t].proofs, s, x)])]
        /\ proven' = Stored(proven, NewProof(op[t].now, s, x))
        /\ torn' = (torn \/ \E m \in NewProof(op[t].now, s, x) : m.key # <<m.derived, m.derived>>)
    BY <1>2 DEF ProveLoad, Ops
<1> DEFINE q == Put(op[t].proofs, s, x)
<1>4. q \in Proofs
    BY <1>2, PutIn DEF Ops, Proofs
<1> HIDE DEF q
<1> DEFINE o == [op[t] EXCEPT !.proofs = q]
<1>5. op' = [op EXCEPT ![t] = ProvedSo(o)]
    BY <1>3 DEF q
<1>7. /\ o \in Ops /\ o.kind = op[t].kind /\ o.view = op[t].view /\ o.over = op[t].over
      /\ o.now = op[t].now /\ o.at = "load" /\ o.proofs = q
    BY <1>1, <1>2, <1>4 DEF Ops
<1> HIDE DEF o
<1>6. Proved(t, op[t].now, "load", q)
    BY <1>5, <1>7, Proves
<1> QED
    BY <1>1, <1>3, <1>6 DEF q

LEMMA CompareDoes ==
    ASSUME TypeOK, NEW t \in Threads, NEW a \in Steps, NEW c \in BOOLEAN,
           op' = [op EXCEPT ![t] = [op[t] EXCEPT !.now = NoPass, !.at = a, !.cut = c]]
    PROVE  Advance(t, NoPass, a)
BY Nowhere, Advances DEF TypeOK

LEMMA CaptureCompareDoes ==
    ASSUME TypeOK, NEW t \in Threads, CaptureCompare(t)
    PROVE  LET outcome == Compared(facts, op[t].now, op[t].over) IN
           /\ op[t].kind = "after" /\ op[t].at = "compare"
           /\ views' = [views EXCEPT ![op[t].view].unavailable = @ \/ outcome = Unavailable]
           /\ \/ outcome = "changed" /\ Becomes(t, Idle)
              \/ outcome # "changed" /\ Advance(t, NoPass, "keep")
           /\ UNCHANGED <<tree, memos, facts, verdict, history>>
<1> DEFINE outcome == Compared(facts, op[t].now, op[t].over)
<1>1. /\ op[t].kind = "after" /\ op[t].at = "compare"
      /\ views' = [views EXCEPT ![op[t].view].unavailable = @ \/ outcome = Unavailable]
      /\ IF outcome = "changed" THEN Drop(t)
         ELSE op' = [op EXCEPT ![t].at = "keep", ![t].now = NoPass]
      /\ UNCHANGED <<tree, memos, facts, verdict, history>>
    BY DEF CaptureCompare, At
<1> HIDE DEF outcome
<1>2. ASSUME outcome # "changed"
      PROVE  Advance(t, NoPass, "keep")
  <2>1. op' = [op EXCEPT ![t] = [op[t] EXCEPT !.now = NoPass, !.at = "keep", !.cut = op[t].cut]]
        /\ op[t].cut \in BOOLEAN /\ "keep" \in Steps
    BY <1>1, <1>2 DEF TypeOK, Ops, Steps
  <2> QED
    BY <2>1, CompareDoes
<1> QED
    BY <1>1, <1>2, Dropped DEF outcome

LEMMA CaptureKeepDoes ==
    ASSUME TypeOK, NEW t \in Threads, CaptureKeep(t)
    PROVE  LET v == views[op[t].view] IN
           /\ op[t].kind # "idle" /\ op[t].at = "keep"
           /\ \/ v.sealed /\ Becomes(t, Idle) /\ UNCHANGED views
              \/ /\ ~v.sealed /\ Others(t)
                 /\ op'[t].kind = op[t].kind /\ op'[t].view = op[t].view /\ op'[t].at = "mark"
                 /\ op'[t].over = op[t].over /\ op'[t].now = op[t].now /\ op'[t].proofs = <<>>
                 /\ op'[t].first = op[t].first
                 /\ views' = [views EXCEPT ![op[t].view].observable = Added(op[t].proofs, @)]
           /\ UNCHANGED <<tree, memos, facts, verdict, history>>
<1>1. op[t].kind # "idle" /\ op[t].at = "keep" /\ UNCHANGED <<tree, memos, facts, verdict, history>>
    BY DEF CaptureKeep, At
<1>2. op \in [Threads -> Ops] /\ op[t] \in Ops
    BY DEF TypeOK
<1>3. CASE views[op[t].view].sealed
    BY <1>1, <1>3, Dropped DEF CaptureKeep
<1>4. CASE ~views[op[t].view].sealed
  <2> DEFINE n == [op[t] EXCEPT !.at = "mark", !.proofs = <<>>]
  <2>1. op' = [op EXCEPT ![t] = n]
        /\ views' = [views EXCEPT ![op[t].view].observable = Added(op[t].proofs, @)]
    BY <1>2, <1>4 DEF CaptureKeep, Ops
  <2>2. n \in Ops /\ n.kind = op[t].kind /\ n.view = op[t].view /\ n.at = "mark"
        /\ n.over = op[t].over /\ n.now = op[t].now /\ n.proofs = <<>> /\ n.first = op[t].first
    BY <1>2, Nowhere DEF Ops, Steps, Proofs
  <2> HIDE DEF n
  <2>3. Becomes(t, n)
    BY <1>2, <2>1, <2>2, Replaces
  <2> QED
    BY <1>1, <1>4, <2>1, <2>2, <2>3 DEF Becomes
<1> QED
    BY <1>3, <1>4

LEMMA ValidateDoes ==
    ASSUME TypeOK, NEW t \in Threads, NEW w \in Views, Validate(t, w)
    PROVE  /\ op[t].kind = "idle" /\ views[w].over # {}
           /\ views' = [views EXCEPT ![w].sealed = TRUE]
           /\ \/ op' = op
              \/ Started(t, IF views[w].captured = {} THEN "base" ELSE "seed", w, views[w].over)
           /\ UNCHANGED <<tree, memos, facts, verdict, held, seen, restored, torn, moves>>
<1> DEFINE k == IF views[w].captured = {} THEN "base" ELSE "seed"
           n == [Begin(Idle, k, views[w].over) EXCEPT !.view = w]
<1>1. /\ op[t].kind = "idle" /\ views[w].over # {}
      /\ views' = [views EXCEPT ![w].sealed = TRUE]
      /\ op' = op \/ op' = [op EXCEPT ![t] = n]
      /\ UNCHANGED <<tree, memos, facts, verdict, held, seen, restored, torn, moves>>
    BY DEF Validate, Calling
<1>2. k \in Passing /\ views[w].over \in SUBSET Subjects
    BY DEF Passing, TypeOK, ViewStates
<1> HIDE DEF k
<1>3. n \in Ops /\ n.kind = k /\ n.view = w /\ n.at = "env" /\ n.over = views[w].over
      /\ n.now = NoPass /\ n.proofs = <<>> /\ n.began = tree
    BY <1>2, IdleIs, Nowhere DEF Begin, Ops, Steps, PassSteps, TypeOK
<1> HIDE DEF n
<1>4. op' = [op EXCEPT ![t] = n] => Becomes(t, n)
    BY <1>3, Replaces DEF TypeOK
<1> QED
    BY <1>1, <1>3, <1>4 DEF Becomes, Started, k

LEMMA SeedCompareDoes ==
    ASSUME TypeOK, NEW t \in Threads, SeedCompare(t)
    PROVE  LET outcome == Compared(facts, op[t].now, op[t].over) IN
           /\ op[t].kind = "seed" /\ op[t].at = "compare"
           /\ views' = [views EXCEPT ![op[t].view].unavailable = @ \/ outcome = Unavailable]
           /\ \/ outcome = "changed" /\ Becomes(t, Idle) /\ Answer(op[t].view, outcome, t)
              \/ /\ outcome # "changed" /\ Others(t) /\ UNCHANGED verdict
                 /\ op'[t].kind = "again" /\ op'[t].view = op[t].view
                 /\ op'[t].over = views[op[t].view].captured
                 /\ op'[t].at = "open" /\ op'[t].now = NoPass /\ op'[t].proofs = op[t].proofs
           /\ UNCHANGED <<tree, memos, facts, history>>
<1> DEFINE outcome == Compared(facts, op[t].now, op[t].over)
           n == [op[t] EXCEPT !.kind = "again", !.over = views[op[t].view].captured,
                              !.at = "open", !.now = NoPass]
<1>1. /\ op[t].kind = "seed" /\ op[t].at = "compare"
      /\ views' = [views EXCEPT ![op[t].view].unavailable = @ \/ outcome = Unavailable]
      /\ IF outcome = "changed" THEN Drop(t) /\ Answer(op[t].view, outcome, t)
         ELSE op' = [op EXCEPT ![t] = n] /\ UNCHANGED verdict
      /\ UNCHANGED <<tree, memos, facts, history>>
    BY DEF SeedCompare, At
<1> HIDE DEF outcome
<1>2. op \in [Threads -> Ops] /\ op[t] \in Ops /\ views[op[t].view].captured \in SUBSET Subjects
    BY DEF TypeOK, Ops, ViewStates
<1>3. /\ n \in Ops /\ n.kind = "again" /\ n.view = op[t].view /\ n.over = views[op[t].view].captured
      /\ n.at = "open" /\ n.now = NoPass /\ n.proofs = op[t].proofs
    BY <1>2, Nowhere DEF Ops, Proving, Steps
<1> HIDE DEF n
<1>4. outcome # "changed" => Becomes(t, n)
    BY <1>1, <1>2, <1>3, Replaces
<1> QED
    BY <1>1, <1>3, <1>4, Dropped DEF Becomes, outcome

LEMMA ReproveCompareDoes ==
    ASSUME TypeOK, NEW t \in Threads, ReproveCompare(t)
    PROVE  LET outcome == Compared(facts, op[t].now, op[t].over) IN
           /\ op[t].kind = "reprove" /\ op[t].at = "compare"
           /\ \/ outcome = "changed" /\ Becomes(t, Idle) /\ Answer(op[t].view, outcome, t)
              \/ outcome # "changed" /\ Advance(t, NoPass, "settle") /\ UNCHANGED verdict
           /\ UNCHANGED <<tree, memos, facts, views, history>>
<1> DEFINE outcome == Compared(facts, op[t].now, op[t].over)
           c == outcome = Unavailable
<1>1. /\ op[t].kind = "reprove" /\ op[t].at = "compare"
      /\ IF outcome = "changed" THEN Drop(t) /\ Answer(op[t].view, outcome, t)
         ELSE op' = [op EXCEPT ![t].at = "settle", ![t].now = NoPass, ![t].cut = c] /\ UNCHANGED verdict
      /\ UNCHANGED <<tree, memos, facts, views, history>>
    BY DEF ReproveCompare, At
<1>2. c \in BOOLEAN
    OBVIOUS
<1> HIDE DEF outcome, c
<1>3. ASSUME outcome # "changed"
      PROVE  Advance(t, NoPass, "settle")
  <2>1. op' = [op EXCEPT ![t] = [op[t] EXCEPT !.now = NoPass, !.at = "settle", !.cut = c]]
        /\ "settle" \in Steps
    BY <1>1, <1>3 DEF TypeOK, Ops, Steps
  <2> QED
    BY <1>2, <2>1, CompareDoes
<1> QED
    BY <1>1, <1>3, Dropped DEF outcome

-----------------------------------------------------------------------------
(* Types. The memos are typed because what is stored was listed, keyed and     *)
(* loaded before.                                                             *)

LEMMA EntryFields ==
    ASSUME NEW now, NEW s, NEW x
    PROVE  /\ Entry(now, s, x).of = s /\ Entry(now, s, x).env = now.env
           /\ Entry(now, s, x).key = <<now.list[s], now.key[s]>> /\ Entry(now, s, x).derived = x
BY DEF Entry

LEMMA NewScansTyped ==
    ASSUME TypeOK, NEW now \in Passes, NEW cut, DOMAIN now.load \subseteq DOMAIN now.key,
           DOMAIN now.key \subseteq DOMAIN now.list
    PROVE  NewScans(now, cut) \subseteq
               [of : Subjects, env : Versions, key : Versions \X Versions, derived : Versions \X Versions]
<1>1. /\ DOMAIN now.load \in SUBSET Subjects /\ now.env \in Versions
      /\ \A s \in DOMAIN now.key : now.key[s] \in Versions
      /\ \A s \in DOMAIN now.list : now.list[s] \in Versions
    BY OverIs DEF Passes
<1>2. ASSUME NEW s \in DOMAIN now.load
      PROVE  Judgments(now, cut)[s] \in Versions \X Versions
    BY JudgmentsAre, OverIs
<1>3. ASSUME NEW s \in DOMAIN now.load
      PROVE  Entry(now, s, Judgments(now, cut)[s]) \in
               [of : Subjects, env : Versions, key : Versions \X Versions, derived : Versions \X Versions]
    BY <1>1, <1>2 DEF Entry
<1> QED
    BY <1>3 DEF NewScans

LEMMA PassKeepsType ==
    ASSUME TypeOK, Shape, NEW t \in Threads, Pass(t)
    PROVE  TypeOK'
<1>1. op[t].now \in Passes /\ op[t].over \in SUBSET Subjects /\ tree \in Trees /\ OpShape(op[t], views)
    BY DEF TypeOK, Ops, Shape
<1>2. CASE PassEnv(t) \/ PassScan(t)
  <2>1. Others(t) /\ UNCHANGED <<tree, memos, snapshot, history>>
    BY <1>2, PassEnvDoes, PassScanDoes DEF Advance
  <2> QED
    BY <2>1 DEF TypeOK, Others, memos, snapshot, history
<1>6. ASSUME NEW s \in Subjects, List(t, s) \/ PassKey(t, s)
      PROVE  TypeOK'
  <2>1. Others(t) /\ UNCHANGED <<tree, memos, snapshot, history>>
    BY <1>6, ListDoes, PassKeyDoes DEF Advance
  <2> QED
    BY <2>1 DEF TypeOK, Others, memos, snapshot, history
<1>3. ASSUME NEW s \in Subjects, StoreListing(t, s)
      PROVE  TypeOK'
  <2>1. /\ Others(t) /\ UNCHANGED <<tree, scans, proven, snapshot, held, seen, restored, moves, ops>>
        /\ s \in DOMAIN op[t].now.list
    BY <1>3, StoreDoes DEF Advance
  <2>2. op[t].now.list[s] \in Versions /\ op[t].now.env \in Versions /\ tree[s] \in Versions
    BY <1>1, <2>1, OverIs DEF Passes, Trees, Parts
  <2>3. Spawned(op[t].now, s) \in [of : Subjects, env : Versions, inputs : Versions, listing : Versions]
    BY <2>2 DEF Spawned
  <2>4. listings' \subseteq [of : Subjects, env : Versions, inputs : Versions, listing : Versions]
    BY <1>3, <2>3 DEF StoreListing, TypeOK
  <2>5. torn' \in BOOLEAN
    BY <1>3 DEF StoreListing, TypeOK
  <2> QED
    BY <2>1, <2>4, <2>5 DEF TypeOK, Others, snapshot
<1>4. CASE PassDischarge(t)
  <2>1. /\ Others(t) /\ UNCHANGED <<tree, listings, proven, snapshot, held, seen, restored, moves, ops>>
        /\ op[t].at = "discharge"
    BY <1>4, PassDischargeDoes DEF Advance
  <2>2. PICK cut :
          /\ scans' = Stored(scans, NewScans(op[t].now, cut))
          /\ torn' = (torn \/ \E m \in NewScans(op[t].now, cut) : m.key # m.derived \/ m.key[1] # m.key[2])
    BY <1>4, PassDischargeDoes
  <2>3. DOMAIN op[t].now.load \subseteq DOMAIN op[t].now.key
        /\ DOMAIN op[t].now.key \subseteq DOMAIN op[t].now.list
    BY <1>1, <2>1 DEF OpShape
  <2>4. NewScans(op[t].now, cut) \subseteq
            [of : Subjects, env : Versions, key : Versions \X Versions, derived : Versions \X Versions]
    BY <1>1, <2>3, NewScansTyped
  <2>5. scans' \subseteq
            [of : Subjects, env : Versions, key : Versions \X Versions, derived : Versions \X Versions]
    BY <2>2, <2>4 DEF TypeOK, Stored
  <2>6. torn' \in BOOLEAN
    BY <2>2 DEF TypeOK
  <2> QED
    BY <2>1, <2>5, <2>6 DEF TypeOK, Others, snapshot
<1>5. CASE PassFold(t)
  <2>1. Others(t) /\ UNCHANGED <<tree, memos, snapshot, seen, restored, torn, moves, ops>>
        /\ held' \in {tree, held}
    BY <1>5, PassFoldDoes DEF Advance
  <2> QED
    BY <2>1 DEF TypeOK, Others, memos, snapshot
<1> QED
    BY <1>2, <1>3, <1>4, <1>5, <1>6 DEF Pass

LEMMA AnswerKeepsType ==
    ASSUME TypeOK, NEW t \in Threads, NEW w \in Views,
           NEW outcome \in {"changed", "valid", Unavailable}, Answer(w, outcome, t)
    PROVE  verdict' \in [Views -> Verdicts]
BY DEF Answer, TypeOK, Verdicts, Ops

LEMMA ComparedIs ==
    ASSUME NEW base, NEW current, NEW over
    PROVE  /\ Compared(base, current, over) \in {"changed", "valid", Unavailable}
           /\ Compared(base, current, over) = "changed" <=> Moved(base, current, over, FALSE)
BY DEF Compared, Unavailable

LEMMA ViewFields ==
    ASSUME TypeOK, NEW w \in Views
    PROVE  /\ views[w] \in ViewStates
           /\ \A b \in BOOLEAN : /\ [views EXCEPT ![w].sealed = b] \in [Views -> ViewStates]
                               /\ [views EXCEPT ![w].unavailable = b] \in [Views -> ViewStates]
           /\ \A S \in SUBSET Subjects : /\ [views EXCEPT ![w].over = S] \in [Views -> ViewStates]
                                        /\ [views EXCEPT ![w].captured = S] \in [Views -> ViewStates]
                                        /\ [views EXCEPT ![w].attached = S] \in [Views -> ViewStates]
           /\ \A f \in Proofs : [views EXCEPT ![w].observable = f] \in [Views -> ViewStates]
BY DEF TypeOK, ViewStates

LEMMA CallKeepsType ==
    ASSUME TypeOK, NEW t \in Threads, Call(t)
    PROVE  TypeOK'
<1>1. CASE Construct(t)
  <2>1. Others(t)
    BY <1>1, ConstructDoes DEF Started
  <2>2. seen' \in [Parts -> SUBSET Versions]
    BY <1>1 DEF Construct, TypeOK, Trees
  <2>3. NoVerdict \in Verdicts
    BY DEF NoVerdict, Verdicts
  <2>4. verdict' \in [Views -> Verdicts]
    BY <1>1, <2>3 DEF Construct
  <2> QED
    BY <1>1, <2>1, <2>2, <2>4 DEF Construct, TypeOK, Others, memos
<1>2. ASSUME NEW w \in Views, Capture(t, w)
      PROVE  TypeOK'
  <2>1. ops' \in Nat
    BY <1>2 DEF Capture, TypeOK
  <2> QED
    BY <1>2, <2>1, CaptureDoes DEF TypeOK, Others, memos, snapshot
<1>3. ASSUME NEW w \in Views, Validate(t, w)
      PROVE  TypeOK'
  <2>1. ops' \in Nat
    BY <1>3 DEF Validate, TypeOK
  <2>2. views' \in [Views -> ViewStates]
    <3>1. views' = [views EXCEPT ![w].sealed = TRUE]
      BY <1>3 DEF Validate
    <3> QED
      BY <3>1, ViewFields
  <2>3. op' \in [Threads -> Ops]
    BY <1>3, ValidateDoes DEF Started, Others, TypeOK
  <2> QED
    BY <1>3, <2>1, <2>2, <2>3, ValidateDoes DEF TypeOK, memos
<1>4. ASSUME NEW w \in Views, NEW s \in Subjects, Attach(t, w, s)
      PROVE  TypeOK'
  <2>1. views' \in [Views -> ViewStates]
    BY <1>4 DEF Attach, TypeOK, ViewStates
  <2> QED
    BY <1>4, <2>1 DEF Attach, TypeOK, memos, history
<1> QED
    BY <1>1, <1>2, <1>3, <1>4 DEF Call

LEMMA StepKeepsType ==
    ASSUME TypeOK, Shape, NEW t \in Threads, Step(t)
    PROVE  TypeOK'
<1>0. op[t] \in Ops /\ op[t].view \in Views /\ views[op[t].view] \in ViewStates
    BY DEF TypeOK, Ops
<1>1. CASE Constructed(t)
  <2>1. Others(t)
    BY <1>1, Dropped DEF Constructed, Drop, Becomes
  <2>2. CASE Moved(op[t].first, op[t].now, Subjects, TRUE)
    <3>1. verdict' \in [Views -> Verdicts] /\ ops' \in Nat
      BY <1>1, <2>2, AnswerKeepsType DEF Constructed, Views, TypeOK
    <3> QED
      BY <1>1, <2>1, <2>2, <3>1 DEF Constructed, TypeOK, Others, memos
  <2>3. CASE ~Moved(op[t].first, op[t].now, Subjects, TRUE)
    <3>1. facts' \in Passes
      BY <1>0, <1>1, <2>3 DEF Constructed, TakeCut, Ops, Passes
    <3>2. views' \in [Views -> ViewStates]
      BY <1>1, <2>3 DEF Constructed, TypeOK, ViewStates
    <3> QED
      BY <1>1, <2>1, <2>3, <3>1, <3>2 DEF Constructed, TypeOK, Others, memos
  <2> QED
    BY <2>2, <2>3
<1>2. CASE Open(t)
  <2>1. verdict' \in [Views -> Verdicts]
    BY <1>0, <1>2, OpenDoes, AnswerKeepsType DEF TypeOK
  <2> QED
    BY <1>2, <2>1, OpenDoes DEF TypeOK, Becomes, Advance, Others, memos, history
<1>3. ASSUME NEW s \in Subjects, ProveKey(t, s)
      PROVE  TypeOK'
  <2>1. Others(t) /\ UNCHANGED <<tree, memos, snapshot, history>>
    BY <1>3, ProveKeyDoes DEF Proved
  <2> QED
    BY <2>1 DEF TypeOK, Others, memos, snapshot, history
<1>12. ASSUME NEW s \in Subjects, ProveLoad(t, s)
       PROVE  TypeOK'
  <2>1. PICK x \in {Unavailable, tree[s]} :
          /\ Others(t) /\ proven' = Stored(proven, NewProof(op[t].now, s, x))
          /\ torn' = (torn \/ \E m \in NewProof(op[t].now, s, x) : m.key # <<m.derived, m.derived>>)
    BY <1>12, ProveLoadDoes DEF Proved
  <2>2. /\ s \in op[t].over /\ op[t].at = "load"
        /\ UNCHANGED <<tree, listings, scans, snapshot, held, seen, restored, moves, ops>>
    BY <1>12, ProveLoadDoes
  <2>3. op[t].now \in Passes /\ tree[s] \in Versions
    BY <1>0 DEF TypeOK, Ops, Trees, Parts
  <2>4. s \in DOMAIN op[t].now.key /\ s \in DOMAIN op[t].now.list
    BY <2>2, <1>12 DEF Shape, OpShape
  <2>5. op[t].now.key[s] \in Versions /\ op[t].now.list[s] \in Versions /\ op[t].now.env \in Versions
    BY <2>3, <2>4, OverIs DEF Passes
  <2>6. x # Unavailable => Entry(op[t].now, s, x) \in
            [of : Subjects, env : Versions, key : Versions \X Versions, derived : Versions]
    BY <2>3, <2>5 DEF Entry
  <2>7. proven' \subseteq [of : Subjects, env : Versions, key : Versions \X Versions, derived : Versions]
    BY <2>1, <2>6 DEF Stored, NewProof, TypeOK
  <2>8. torn' \in BOOLEAN
    BY <2>1 DEF TypeOK
  <2> QED
    BY <2>1, <2>2, <2>7, <2>8 DEF TypeOK, Others, snapshot
<1>4. CASE CaptureCompare(t)
  <2>1. views' \in [Views -> ViewStates]
    <3> DEFINE b == views[op[t].view].unavailable
                    \/ Compared(facts, op[t].now, op[t].over) = Unavailable
    <3>1. b \in BOOLEAN /\ views' = [views EXCEPT ![op[t].view].unavailable = b]
      BY <1>0, <1>4, CaptureCompareDoes DEF TypeOK, ViewStates
    <3> HIDE DEF b
    <3> QED
      BY <1>0, <3>1, ViewFields
  <2> QED
    BY <1>4, <2>1, CaptureCompareDoes DEF TypeOK, Becomes, Advance, Others, memos, history
<1>5. CASE CaptureKeep(t)
  <2>1. ASSUME NEW f \in Proofs, NEW g \in Proofs
        PROVE  Added(f, g) \in Proofs
    BY AddedIn DEF Proofs
  <2>2. Added(op[t].proofs, views[op[t].view].observable) \in Proofs
    BY <1>0, <2>1 DEF Ops, ViewStates
  <2>3. views' \in [Views -> ViewStates]
    <3> DEFINE f == Added(op[t].proofs, views[op[t].view].observable)
    <3>1. views' = views \/ views' = [views EXCEPT ![op[t].view].observable = f]
      BY <1>0, <1>5 DEF CaptureKeep, TypeOK, ViewStates
    <3> HIDE DEF f
    <3>2. views' = [views EXCEPT ![op[t].view].observable = f]
          => views' \in [Views -> ViewStates]
      <4>1. f \in Proofs
        BY <2>2 DEF f
      <4> QED
        BY <1>0, <4>1, ViewFields
    <3> QED
      BY <3>1, <3>2 DEF TypeOK
  <2> QED
    BY <1>5, <2>3, CaptureKeepDoes DEF TypeOK, Becomes, Others, memos, history
<1>6. CASE CaptureMark(t)
  <2>1. views' \in [Views -> ViewStates]
    BY <1>0, <1>6 DEF CaptureMark, TypeOK, ViewStates, Ops
  <2> QED
    BY <1>6, <2>1, Dropped DEF CaptureMark, TypeOK, Becomes, Others, memos, history
<1>7. CASE BaseCompare(t)
  <2>1. verdict' \in [Views -> Verdicts]
    BY <1>0, <1>7, ComparedIs, AnswerKeepsType DEF BaseCompare
  <2> QED
    BY <1>7, <2>1, Dropped DEF BaseCompare, TypeOK, Becomes, Others, memos, history
<1>8. CASE SeedCompare(t)
  <2>1. views' \in [Views -> ViewStates]
    <3> DEFINE b == views[op[t].view].unavailable
                    \/ Compared(facts, op[t].now, op[t].over) = Unavailable
    <3>1. b \in BOOLEAN /\ views' = [views EXCEPT ![op[t].view].unavailable = b]
      BY <1>0, <1>8, SeedCompareDoes DEF TypeOK, ViewStates
    <3> HIDE DEF b
    <3> QED
      BY <1>0, <3>1, ViewFields
  <2>2. verdict' \in [Views -> Verdicts]
    <3>1. (UNCHANGED verdict) \/ Answer(op[t].view, "changed", t)
      BY <1>8, SeedCompareDoes
    <3> QED
      BY <1>0, <3>1, AnswerKeepsType DEF TypeOK
  <2> QED
    BY <1>8, <2>1, <2>2, SeedCompareDoes DEF TypeOK, Becomes, Advance, Others, memos, history
<1>9. CASE ReproveCompare(t)
  <2>1. verdict' \in [Views -> Verdicts]
    BY <1>0, <1>9, ReproveCompareDoes, AnswerKeepsType DEF TypeOK
  <2> QED
    BY <1>9, <2>1, ReproveCompareDoes DEF TypeOK, Becomes, Advance, Others, memos, history
<1>10. CASE Settle(t)
  <2>1. Settled(t) \in {"changed", "valid", Unavailable}
    BY DEF Settled
  <2>2. verdict' \in [Views -> Verdicts]
    BY <1>0, <1>10, <2>1, AnswerKeepsType DEF Settle
  <2> QED
    BY <1>10, <2>2, Dropped DEF Settle, TypeOK, Becomes, Others, memos, history
<1>11. CASE Fails(t)
  <2>1. ops' \in Nat
    BY <1>11 DEF Fails, TypeOK
  <2> QED
    BY <1>11, <2>1, Dropped DEF Fails, TypeOK, Becomes, Others, memos, snapshot
<1> QED
    BY <1>1, <1>2, <1>3, <1>4, <1>5, <1>6, <1>7, <1>8, <1>9, <1>10, <1>11, <1>12 DEF Step

LEMMA OutsideKeepsType ==
    ASSUME TypeOK,
           \/ \E p \in Parts, x \in Versions : Move(p, x)
           \/ Prune
           \/ \E over \in Scopes : Sibling(over)
           \/ UNCHANGED vars
    PROVE  TypeOK'
<1>1. ASSUME NEW p \in Parts, NEW x \in Versions, Move(p, x)
      PROVE  TypeOK'
  <2>1. tree' \in Trees /\ seen' \in [Parts -> SUBSET Versions] /\ restored' \in BOOLEAN /\ moves' \in Nat
    BY <1>1 DEF Move, TypeOK, Trees
  <2> QED
    BY <1>1, <2>1 DEF Move, TypeOK, memos, snapshot
<1>2. CASE Prune
    BY <1>2 DEF Prune, TypeOK, snapshot
<1>3. ASSUME NEW over \in SUBSET Subjects, Sibling(over)
      PROVE  TypeOK'
  <2> DEFINE v == views["view"]
             r == Restrict(v.observable, over \cap DOMAIN v.observable)
             n == [NoView EXCEPT !.over = over, !.captured = v.captured \cap over, !.observable = r]
  <2>1. v \in ViewStates
    BY DEF TypeOK, Views
  <2>2. r \in Proofs
    <3>1. v.observable \in [DOMAIN v.observable -> Versions \cup {Unavailable}]
      BY <2>1, OverIs DEF ViewStates, Proofs
    <3>2. r \in [over \cap DOMAIN v.observable -> Versions \cup {Unavailable}]
      BY <3>1 DEF Restrict
    <3> HIDE DEF r
    <3> QED
      BY <3>2, OverOf DEF Proofs
  <2>3. views' = [views EXCEPT !["sibling"] = n]
    BY <1>3 DEF Sibling
  <2> HIDE DEF r
  <2>4. NoView \in ViewStates
    BY Nowhere DEF NoView, ViewStates, Proofs
  <2>5. n \in ViewStates
    BY <2>1, <2>2, <2>4 DEF ViewStates
  <2> HIDE DEF n
  <2>6. views' \in [Views -> ViewStates]
    BY <2>3, <2>5 DEF TypeOK
  <2> QED
    BY <1>3, <2>6 DEF Sibling, TypeOK, memos, history
<1>4. CASE UNCHANGED vars
    BY <1>4 DEF vars, TypeOK
<1> QED
    BY <1>1, <1>2, <1>3, <1>4, SnapshotAssumption

-----------------------------------------------------------------------------
(* The shape of operations.                                                   *)

Grown(v, w) ==
    \A x \in Views :
        /\ v[x].over # {} => w[x].over = v[x].over
        /\ DOMAIN v[x].observable \subseteq DOMAIN w[x].observable
        /\ v[x].sealed => w[x].sealed /\ w[x].captured = v[x].captured

LEMMA OpShapeStays ==
    ASSUME NEW o, NEW v, NEW w, o.view \in Views, OpShape(o, v), Grown(v, w)
    PROVE  OpShape(o, w)
<1>1. /\ v[o.view].over # {} => w[o.view].over = v[o.view].over
      /\ DOMAIN v[o.view].observable \subseteq DOMAIN w[o.view].observable
      /\ v[o.view].sealed => w[o.view].sealed /\ w[o.view].captured = v[o.view].captured
    BY DEF Grown
<1> QED
    BY <1>1 DEF OpShape, Proving

LEMMA ShapeStays ==
    ASSUME TypeOK, Shape, Grown(views, views')
    PROVE  /\ \A u \in Threads : OpShape(op[u], views')
           /\ UNCHANGED op => Shape'
           /\ \A t \in Threads : Others(t) /\ OpShape(op'[t], views') => Shape'
<1>1. \A u \in Threads : OpShape(op[u], views')
    BY OpShapeStays DEF Shape, TypeOK, Ops
<1> QED
    BY <1>1 DEF Shape, Others

LEMMA SameViews ==
    Grown(views, views)
BY DEF Grown

LEMMA IdleShape ==
    ASSUME NEW v
    PROVE  OpShape(Idle, v)
BY IdleIs, Nowhere DEF OpShape, PassSteps, Complete, Building, Passing, Proving

LEMMA PassKeepsShape ==
    ASSUME TypeOK, Shape, NEW t \in Threads, Pass(t)
    PROVE  Shape'
<1> USE DEF PassSteps, Complete, Proving
<1>1. op[t] \in Ops /\ OpShape(op[t], views)
    BY DEF TypeOK, Shape
<1>2. UNCHANGED views
    BY PassEnvDoes, ListDoes, StoreDoes, PassKeyDoes, PassScanDoes, PassDischargeDoes, PassFoldDoes
    DEF Pass, snapshot
<1>3. Others(t) /\ OpShape(op'[t], views)
  <2>1. CASE PassEnv(t)
    <3> DEFINE n == [op[t].now EXCEPT !.env = tree[Env]]
    <3>1. Advance(t, n, "list")
      BY <2>1, PassEnvDoes
    <3>2. n.of = op[t].now.of /\ n.list = op[t].now.list /\ n.key = op[t].now.key /\ n.load = op[t].now.load
      BY <1>1 DEF Ops, Passes
    <3> HIDE DEF n
    <3>3. op[t].kind # "idle" /\ op[t].at = "env"
      BY <2>1, PassEnvDoes
    <3> QED
      BY <1>1, <3>1, <3>2, <3>3 DEF Advance, OpShape, Passing
  <2>2. ASSUME NEW s \in Subjects, List(t, s)
        PROVE  Others(t) /\ OpShape(op'[t], views)
    <3>1. PICK n \in Passes : \E a \in {"key", "store"} :
            /\ Advance(t, n, a) /\ n.of = op[t].now.of
            /\ n.list = Put(op[t].now.list, s, Listing(s, op[t].now.env))
            /\ n.key = op[t].now.key /\ n.load = op[t].now.load
      BY <2>2, ListDoes
    <3>2. DOMAIN Put(op[t].now.list, s, Listing(s, op[t].now.env)) = DOMAIN op[t].now.list \cup {s}
      BY PutIs
    <3>3. op[t].kind # "idle" /\ op[t].at = "list" /\ s \in op[t].over
      BY <2>2, ListDoes
    <3> QED
      BY <1>1, <3>1, <3>2, <3>3 DEF Advance, OpShape
  <2>3. ASSUME NEW s \in Subjects, StoreListing(t, s)
        PROVE  Others(t) /\ OpShape(op'[t], views)
    <3>1. Advance(t, op[t].now, "key") /\ op[t].kind # "idle" /\ op[t].at = "store"
      BY <2>3, StoreDoes
    <3> QED
      BY <1>1, <3>1 DEF Advance, OpShape
  <2>4. ASSUME NEW s \in Subjects, PassKey(t, s)
        PROVE  Others(t) /\ OpShape(op'[t], views)
    <3>1. PICK n \in Passes : \E a \in {"list", "fold", "scan"} :
            /\ Advance(t, n, a) /\ n.list = op[t].now.list
            /\ n.load = op[t].now.load /\ DOMAIN n.key = DOMAIN op[t].now.key \cup {s}
            /\ a # "list" => DOMAIN n.key = op[t].over
            /\ a = "fold" => DOMAIN n.of = op[t].over
            /\ \/ n.of = op[t].now.of
               \/ \E x \in Versions \X Versions : n.of = Put(op[t].now.of, s, x)
      BY <2>4, PassKeyDoes
    <3>2. /\ op[t].kind \in Passing /\ op[t].at = "key"
          /\ s \in DOMAIN op[t].now.list \ DOMAIN op[t].now.key
      BY <2>4, PassKeyDoes
    <3>5. ASSUME NEW x PROVE DOMAIN Put(op[t].now.of, s, x) = DOMAIN op[t].now.of \cup {s}
      BY PutIs
    <3>3. DOMAIN n.of \subseteq DOMAIN op[t].now.of \cup {s}
      BY <3>1, <3>5
    <3>4. s \in op[t].over /\ DOMAIN op[t].now.of \subseteq DOMAIN op[t].now.list
      BY <1>1, <3>2 DEF OpShape
    <3>6. PICK a \in {"list", "fold", "scan"} :
            /\ Advance(t, n, a) /\ n.list = op[t].now.list
            /\ n.load = op[t].now.load /\ DOMAIN n.key = DOMAIN op[t].now.key \cup {s}
            /\ a # "list" => DOMAIN n.key = op[t].over
            /\ a = "fold" => DOMAIN n.of = op[t].over
      BY <3>1
    <3>7. DOMAIN n.of \subseteq DOMAIN n.list /\ DOMAIN n.list \subseteq op[t].over
          /\ DOMAIN n.key \subseteq DOMAIN n.list
      BY <1>1, <3>2, <3>3, <3>4, <3>6 DEF OpShape
    <3>8. a # "list" => DOMAIN n.list = op[t].over
      BY <3>6, <3>7
    <3> QED
      BY <1>1, <3>2, <3>6, <3>7, <3>8 DEF Advance, OpShape, Passing
  <2>5. CASE PassScan(t)
    <3>1. PICK n \in Passes :
            /\ Advance(t, n, "discharge") /\ n.list = op[t].now.list
            /\ n.key = op[t].now.key /\ n.of = op[t].now.of
            /\ n.load = [s \in op[t].over \ DOMAIN op[t].now.of |-> tree[s]]
      BY <2>5, PassScanDoes
    <3>2. DOMAIN n.load = op[t].over \ DOMAIN op[t].now.of
      BY <3>1
    <3>3. op[t].kind # "idle" /\ op[t].at = "scan"
      BY <2>5, PassScanDoes
    <3> QED
      BY <1>1, <3>1, <3>2, <3>3 DEF Advance, OpShape
  <2>6. CASE PassDischarge(t)
    <3>1. PICK n \in Passes : \E cut :
            /\ Advance(t, n, "fold") /\ n.list = op[t].now.list
            /\ n.of = Added(Judgments(op[t].now, cut), op[t].now.of)
            /\ n.load = <<>> /\ n.key = <<>>
      BY <2>6, PassDischargeDoes
    <3>2. op[t].kind # "idle" /\ op[t].at = "discharge"
      BY <2>6, PassDischargeDoes
    <3>3. op[t].now \in Passes /\ op[t].now.of \in Over(Versions \X Versions)
      BY <1>1 DEF Ops, Passes
    <3>4. DOMAIN n.of = DOMAIN op[t].now.load \cup DOMAIN op[t].now.of
      <4>1. PICK cut : n.of = Added(Judgments(op[t].now, cut), op[t].now.of)
        BY <3>1
      <4>2. Judgments(op[t].now, cut) \in Over(Versions \X Versions)
            /\ DOMAIN Judgments(op[t].now, cut) = DOMAIN op[t].now.load
        BY <3>3, JudgmentsAre
      <4> QED
        BY <3>3, <4>1, <4>2, AddedIn
    <3> QED
      BY <1>1, <3>1, <3>2, <3>4, Nowhere DEF Advance, OpShape
  <2>7. CASE PassFold(t)
    <3>1. PICK n \in Passes :
            /\ n.list = op[t].now.list /\ n.of = op[t].now.of
            /\ \/ op[t].kind # "first" /\ Advance(t, n, "compare") /\ n.key = op[t].now.key
                                       /\ n.load = op[t].now.load
               \/ /\ op[t].kind = "first" /\ Others(t)
                  /\ op'[t] = [op[t] EXCEPT !.kind = "second", !.at = "env", !.now = NoPass,
                                            !.began = tree, !.first = n]
      BY <2>7, PassFoldDoes
    <3>0. op[t].kind # "idle" /\ op[t].at = "fold"
      BY <2>7, PassFoldDoes
    <3>2. CASE op[t].kind # "first"
      BY <1>1, <3>0, <3>1, <3>2 DEF Advance, OpShape
    <3>3. CASE op[t].kind = "first"
      <4>1. op'[t].kind = "second" /\ op'[t].at = "env" /\ op'[t].now = NoPass /\ op'[t].first = n
            /\ op'[t].view = op[t].view /\ op'[t].over = op[t].over /\ op'[t].proofs = op[t].proofs
        BY <1>1, <3>1, <3>3 DEF Ops
      <4> QED
        BY <1>1, <3>0, <3>1, <3>3, <4>1, Nowhere DEF OpShape, Building, Passing
    <3> QED
      BY <3>2, <3>3
  <2> QED
    BY <2>1, <2>2, <2>3, <2>4, <2>5, <2>6, <2>7 DEF Pass
<1> QED
    BY <1>2, <1>3, ShapeStays, SameViews

LEMMA AloneStays ==
    ASSUME TypeOK, Alone, NEW t \in Threads, Others(t),
           views'["view"].over = views["view"].over,
           ~Built => views'["sibling"].over = views["sibling"].over,
           Built => op'[t].kind \notin Building,
           ~Built => op'[t].kind = "idle" \/ (op[t].kind # "idle" /\ op'[t].kind \in Building)
    PROVE  Alone'
<1>1. CASE Built
    BY <1>1 DEF Alone, Built, Others
<1>2. CASE ~Built
    BY <1>2 DEF Alone, Built, Others
<1> QED
    BY <1>1, <1>2

LEMMA SameOps ==
    ASSUME TypeOK, Alone, UNCHANGED op,
           views'["view"].over = views["view"].over,
           ~Built => views'["sibling"].over = views["sibling"].over
    PROVE  Alone'
BY DEF Alone, Built

\* Operations over a view exist only once the snapshot is built.
LEMMA LaterIsBuilt ==
    ASSUME TypeOK, Alone, Shape, NEW t \in Threads, op[t].kind \notin Building, op[t].kind # "idle"
    PROVE  /\ Built /\ op[t].kind \in Passing \cup Proving /\ op[t].view \in Views
           /\ op[t].over \subseteq views[op[t].view].over /\ views[op[t].view].over # {}
           /\ op[t].kind \in Passing => op[t].over = views[op[t].view].over
<1>1. Built
    BY DEF Alone
<1>2. op[t].kind \in Passing \cup Proving /\ op[t].view \in Views
    BY DEF TypeOK, Ops
<1> QED
    BY <1>1, <1>2 DEF Shape, OpShape

LEMMA AnswerIs ==
    ASSUME TypeOK, NEW t \in Threads, NEW w \in Views, NEW outcome, Answer(w, outcome, t)
    PROVE  /\ verdict'[w].outcome = outcome /\ verdict'[w].began = op[t].began
           /\ \A x \in Views \ {w} : verdict'[x] = verdict[x]
BY DEF Answer, TypeOK

Sound == Shape /\ Alone /\ ViewShape

LEMMA PassKeepsSound ==
    ASSUME TypeOK, Sound, NEW t \in Threads, Pass(t)
    PROVE  Sound'
<1>1. Others(t) /\ UNCHANGED snapshot
    BY PassEnvDoes, ListDoes, StoreDoes, PassKeyDoes, PassScanDoes, PassDischargeDoes, PassFoldDoes
    DEF Pass, Advance
<1>2. op'[t].kind = op[t].kind \/ (op[t].kind = "first" /\ op'[t].kind = "second")
  <2>1. CASE PassFold(t)
    <3>1. PICK n \in Passes :
             \/ Advance(t, n, "compare")
             \/ /\ op[t].kind = "first"
                /\ op'[t] = [op[t] EXCEPT !.kind = "second", !.at = "env", !.now = NoPass,
                                          !.began = tree, !.first = n]
      BY <2>1, PassFoldDoes
    <3> QED
      BY <3>1 DEF Advance, TypeOK, Ops
  <2>2. CASE ~PassFold(t)
    BY <2>2, PassEnvDoes, ListDoes, StoreDoes, PassKeyDoes, PassScanDoes, PassDischargeDoes DEF Pass, Advance
  <2> QED
    BY <2>1, <2>2
<1>3. op[t].kind # "idle"
    BY PassEnvDoes, ListDoes, StoreDoes, PassKeyDoes, PassScanDoes, PassDischargeDoes, PassFoldDoes
    DEF Pass, Passing
<1>4. ~Built => op[t].kind \in Building
    BY <1>3 DEF Sound, Alone
<1>5. Alone'
    BY <1>1, <1>2, <1>3, <1>4, AloneStays DEF Sound, Alone, Building, snapshot
<1>6. ViewShape'
    BY <1>1 DEF Sound, ViewShape, snapshot
<1> QED
    BY <1>5, <1>6, PassKeepsShape DEF Sound

LEMMA CallKeepsSound ==
    ASSUME TypeOK, Sound, NEW t \in Threads, Call(t)
    PROVE  Sound'
<1> USE DEF Building, Passing
<1>0. Shape /\ Alone /\ ViewShape
    BY DEF Sound
<1>1. CASE Construct(t)
  <2>1. /\ views["view"].over = {} /\ \A u \in Threads : op[u].kind = "idle"
        /\ verdict' = [v \in Views |-> NoVerdict] /\ UNCHANGED views
    BY <1>1 DEF Construct
  <2>2. Started(t, "first", "view", Subjects)
    BY <1>1, ConstructDoes
  <2>3. OpShape(op'[t], views)
    BY <2>2, Nowhere DEF Started, OpShape, PassSteps, Complete, Proving
  <2>4. Shape'
    BY <1>0, <2>1, <2>2, <2>3, ShapeStays, SameViews DEF Started
  <2>5. Alone'
    BY <1>0, <2>1, <2>2 DEF Alone, Built, Started, Others
  <2>6. ViewShape'
    BY <1>0, <2>1 DEF ViewShape, NoVerdict, Nothing, Unavailable
  <2> QED
    BY <2>4, <2>5, <2>6 DEF Sound
<1>2. ASSUME NEW w \in Views, Capture(t, w)
      PROVE  Sound'
  <2>1. UNCHANGED <<views, verdict>>
    BY <1>2, CaptureDoes DEF snapshot
  <2>2. OpShape(op'[t], views)
    <3>1. CASE op'[t].kind = "capture"
      BY <1>2, <3>1, CaptureDoes, Nowhere DEF OpShape, PassSteps, Complete, Proving
    <3>2. CASE op'[t].kind = "after"
      BY <1>2, <3>2, CaptureDoes, Nowhere DEF OpShape, PassSteps, Complete, Proving
    <3> QED
      BY <1>2, <3>1, <3>2, CaptureDoes
  <2>3. Shape'
    BY <1>0, <1>2, <2>1, <2>2, CaptureDoes, ShapeStays, SameViews
  <2>4. Built
    BY <1>0, <1>2, CaptureDoes DEF Alone, Built, Views
  <2>5. Alone'
    BY <1>0, <1>2, <2>1, <2>4, CaptureDoes, AloneStays
  <2>6. ViewShape'
    BY <1>0, <2>1 DEF ViewShape
  <2> QED
    BY <2>3, <2>5, <2>6 DEF Sound
<1>3. ASSUME NEW w \in Views, Validate(t, w)
      PROVE  Sound'
  <2>1. /\ views[w].over # {} /\ UNCHANGED verdict
        /\ \/ op' = op
           \/ Started(t, IF views[w].captured = {} THEN "base" ELSE "seed", w, views[w].over)
    BY <1>3, ValidateDoes
  <2>2. views' = [views EXCEPT ![w].sealed = TRUE]
    BY <1>3 DEF Validate
  <2>3. /\ \A x \in Views \ {w} : views'[x] = views[x]
        /\ views'[w].over = views[w].over /\ views'[w].observable = views[w].observable
        /\ views'[w].captured = views[w].captured /\ views'[w].sealed
    BY <2>2 DEF TypeOK, ViewStates
  <2>4. Grown(views, views')
    BY <2>3 DEF Grown
  <2>5. Built
    BY <1>0, <2>1 DEF Alone, Built, Views
  <2>6. \A x \in Views : views'[x].over = views[x].over
    BY <2>3
  <2>7. ASSUME op' = op
        PROVE  Shape' /\ Alone'
    BY <1>0, <2>4, <2>6, <2>7, ShapeStays, SameOps DEF Views
  <2>8. ASSUME Started(t, IF views[w].captured = {} THEN "base" ELSE "seed", w, views[w].over)
        PROVE  Shape' /\ Alone'
    <3>1. op'[t].kind = "base" \/ op'[t].kind = "seed"
      BY <2>8 DEF Started
    <3>2. OpShape(op'[t], views')
      BY <2>1, <2>3, <2>8, <3>1, Nowhere DEF Started, OpShape, PassSteps, Complete, Proving
    <3> QED
      BY <1>0, <2>4, <2>5, <2>6, <2>8, <3>1, <3>2, ShapeStays, AloneStays DEF Views, Started
  <2>9. ViewShape'
    BY <1>0, <2>1, <2>3 DEF ViewShape
  <2> QED
    BY <2>1, <2>7, <2>8, <2>9 DEF Sound
<1>4. ASSUME NEW w \in Views, NEW s \in Subjects, Attach(t, w, s)
      PROVE  Sound'
  <2>1. /\ s \in views[w].captured
        /\ views' = [views EXCEPT ![w].attached = @ \cup {s}] /\ UNCHANGED <<op, verdict>>
    BY <1>4 DEF Attach
  <2>2. /\ \A x \in Views \ {w} : views'[x] = views[x]
        /\ views'[w].over = views[w].over /\ views'[w].observable = views[w].observable
        /\ views'[w].captured = views[w].captured /\ views'[w].sealed = views[w].sealed
    BY <2>1 DEF TypeOK, ViewStates
  <2>3. views[w].over # {}
    BY <1>0, <2>1 DEF ViewShape, NoView
  <2>4. Grown(views, views')
    BY <2>2 DEF Grown
  <2>5. \A x \in Views : views'[x].over = views[x].over
    BY <2>2
  <2>6. Shape' /\ Alone'
    BY <1>0, <2>1, <2>4, <2>5, ShapeStays, SameOps DEF Views
  <2>7. ViewShape'
    BY <1>0, <2>1, <2>2, <2>3 DEF ViewShape
  <2> QED
    BY <2>6, <2>7 DEF Sound
<1> QED
    BY <1>1, <1>2, <1>3, <1>4 DEF Call

\* A step of a capture or a validation that ends it, or goes on with it.
LEMMA StepShapes ==
    ASSUME TypeOK, Sound, NEW t \in Threads, op[t].kind \notin Building, op[t].kind # "idle",
           Others(t), op'[t].kind \notin Building,
           Grown(views, views'), \A x \in Views : views'[x].over = views[x].over,
           OpShape(op'[t], views')
    PROVE  Shape' /\ Alone'
<1>1. Built
    BY LaterIsBuilt DEF Sound
<1> QED
    BY <1>1, ShapeStays, AloneStays DEF Sound, Views

LEMMA DropSound ==
    ASSUME TypeOK, Sound, NEW t \in Threads, op[t].kind \notin Building, op[t].kind # "idle",
           Becomes(t, Idle), Grown(views, views'), \A x \in Views : views'[x].over = views[x].over
    PROVE  Shape' /\ Alone'
BY IdleIs, IdleShape, StepShapes DEF Becomes, Building

\* An answer for a view that has subjects leaves the other views alone.
LEMMA AnswerShapes ==
    ASSUME TypeOK, Sound, NEW t \in Threads, op[t].kind \notin Building, op[t].kind # "idle",
           \A x \in Views : /\ views'[x].over = views[x].over
                            /\ views'[x] = views[x] \/ x = op[t].view
                            /\ views'[x].captured \subseteq DOMAIN views'[x].observable
                            /\ views'[x].captured \subseteq views'[x].over,
           UNCHANGED verdict \/ \E outcome : Answer(op[t].view, outcome, t)
    PROVE  ViewShape'
<1>1. op[t].view \in Views /\ views[op[t].view].over # {}
    BY LaterIsBuilt DEF Sound
<1>2. \A x \in Views \ {op[t].view} : verdict'[x] = verdict[x]
    BY <1>1, AnswerIs
<1> QED
    BY <1>1, <1>2 DEF Sound, ViewShape

LEMMA UnavailableViews ==
    ASSUME TypeOK, NEW w \in Views, NEW b, views' = [views EXCEPT ![w].unavailable = b]
    PROVE  /\ Grown(views, views')
           /\ \A x \in Views : /\ views'[x].over = views[x].over
                               /\ views'[x] = views[x] \/ x = w
                               /\ views'[x].captured = views[x].captured
                               /\ views'[x].observable = views[x].observable
<1>1. \A x \in Views : /\ views'[x].over = views[x].over
                       /\ views'[x] = views[x] \/ x = w
                       /\ views'[x].captured = views[x].captured
                       /\ views'[x].sealed = views[x].sealed
                       /\ views'[x].observable = views[x].observable
    BY DEF TypeOK, ViewStates
<1> QED
    BY <1>1 DEF Grown

LEMMA ConstructedKeepsSound ==
    ASSUME TypeOK, Sound, NEW t \in Threads, Constructed(t)
    PROVE  Sound'
<1>0. Shape /\ Alone /\ ViewShape
    BY DEF Sound
<1>1. op[t].kind = "second" /\ Becomes(t, Idle)
    BY Dropped DEF Constructed, Drop
<1>2. ~Built /\ \A u \in Threads : op'[u].kind = "idle"
    BY <1>0, <1>1, IdleIs DEF Alone, Building, Becomes, Others
<1>3. CASE UNCHANGED views
  <2>1. Shape'
    BY <1>0, <1>1, <1>3, ShapeStays, SameViews, IdleShape DEF Becomes
  <2>2. Alone'
    BY <1>0, <1>2, <1>3 DEF Alone, Built
  <2>3. \A x \in Views : verdict'[x] = verdict[x] \/ verdict'[x].outcome = "changed"
    BY <1>3, AnswerIs DEF Constructed, Views
  <2>4. ViewShape'
    BY <1>0, <1>3, <2>3 DEF ViewShape, Unavailable
  <2> QED
    BY <2>1, <2>2, <2>4 DEF Sound
<1>4. CASE views' = [views EXCEPT !["view"].over = Subjects] /\ UNCHANGED verdict
  <2>1. /\ views'["view"].over = Subjects /\ views'["view"].observable = views["view"].observable
        /\ views'["view"].captured = views["view"].captured
        /\ views'["view"].sealed = views["view"].sealed /\ views'["sibling"] = views["sibling"]
    BY <1>4 DEF TypeOK, ViewStates, Views
  <2>2. Grown(views, views')
    BY <1>2, <2>1 DEF Grown, Built, Views
  <2>3. Shape'
    BY <1>0, <1>1, <2>2, ShapeStays, IdleShape DEF Becomes
  <2>4. Alone'
    BY <1>0, <1>2, <2>1, SnapshotAssumption DEF Alone, Built, Building
  <2>5. views["view"].captured = {}
    BY <1>0, <1>2 DEF ViewShape, Built, NoView, Views
  <2>6. ViewShape'
    BY <1>0, <1>4, <2>1, <2>5, SnapshotAssumption DEF ViewShape, Views
  <2> QED
    BY <2>3, <2>4, <2>6 DEF Sound
<1> QED
    BY <1>3, <1>4 DEF Constructed

LEMMA CaptureKeepsSound ==
    ASSUME TypeOK, Sound, NEW t \in Threads,
           CaptureCompare(t) \/ CaptureKeep(t) \/ CaptureMark(t)
    PROVE  Sound'
<1> DEFINE w == op[t].view
<1>0. /\ Shape /\ Alone /\ ViewShape /\ op[t] \in Ops /\ OpShape(op[t], views)
      /\ op[t].view \in Views /\ views[op[t].view] \in ViewStates
    BY DEF Sound, TypeOK, Shape, Ops
<1>1. op[t].kind = "after"
    BY <1>0, CaptureCompareDoes, CaptureKeepDoes DEF OpShape, CaptureMark, At
<1>2. op[t].kind \notin Building /\ op[t].kind # "idle" /\ op[t].over = views[w].over /\ op[t].over # {}
    BY <1>1, LaterIsBuilt DEF Building, Passing, Sound
<1>3. CASE CaptureCompare(t)
  <2> DEFINE b == views[w].unavailable \/ Compared(facts, op[t].now, op[t].over) = Unavailable
  <2>1. /\ op[t].at = "compare" /\ UNCHANGED verdict
        /\ Becomes(t, Idle) \/ Advance(t, NoPass, "keep")
    BY <1>3, CaptureCompareDoes
  <2>2. views' = [views EXCEPT ![w].unavailable = b]
    BY <1>0, <1>3 DEF CaptureCompare, TypeOK, ViewStates
  <2> HIDE DEF b
  <2>3. /\ Grown(views, views')
        /\ \A x \in Views : /\ views'[x].over = views[x].over
                            /\ views'[x] = views[x] \/ x = w
                            /\ views'[x].captured = views[x].captured
                            /\ views'[x].observable = views[x].observable
    BY <1>0, <2>2, UnavailableViews
  <2>4. ASSUME Advance(t, NoPass, "keep")
        PROVE  Shape' /\ Alone'
    <3>1. op'[t].kind = "after"
      BY <1>1, <2>4 DEF Advance
    <3>2. OpShape(op'[t], views')
      BY <1>0, <1>1, <2>1, <2>3, <2>4, <3>1, Nowhere
      DEF Advance, OpShape, Building, Passing, PassSteps, Complete, Proving
    <3> QED
      BY <1>2, <2>3, <2>4, <3>1, <3>2, StepShapes DEF Advance, Building
  <2>5. Shape' /\ Alone'
    BY <1>2, <2>1, <2>3, <2>4, DropSound
  <2>6. ViewShape'
    BY <1>0, <1>2, <2>1, <2>3, AnswerShapes DEF ViewShape
  <2> QED
    BY <2>5, <2>6 DEF Sound
<1>4. CASE CaptureKeep(t)
  <2>1. op[t].at = "keep" /\ UNCHANGED verdict
    BY <1>4, CaptureKeepDoes
  <2>2. CASE views[w].sealed
    <3>1. Becomes(t, Idle) /\ UNCHANGED views
      BY <1>4, <2>2, CaptureKeepDoes
    <3>2. Shape' /\ Alone'
      BY <1>2, <3>1, DropSound, SameViews
    <3>3. ViewShape'
      BY <1>0, <2>1, <3>1 DEF ViewShape
    <3> QED
      BY <3>2, <3>3 DEF Sound
  <2>3. CASE ~views[w].sealed
    <3> DEFINE f == Added(op[t].proofs, views[w].observable)
    <3>1. /\ Others(t) /\ op'[t].kind = op[t].kind /\ op'[t].view = w /\ op'[t].at = "mark"
          /\ op'[t].over = op[t].over /\ op'[t].now = op[t].now /\ op'[t].proofs = <<>>
      BY <1>4, <2>3, CaptureKeepDoes
    <3>2. views' = [views EXCEPT ![w].observable = f]
      BY <1>0, <1>4, <2>3 DEF CaptureKeep, TypeOK, ViewStates
    <3>3. DOMAIN f = DOMAIN op[t].proofs \cup DOMAIN views[w].observable
      BY DEF Added
    <3> HIDE DEF f
    <3>4. /\ \A x \in Views \ {w} : views'[x] = views[x]
          /\ views'[w].over = views[w].over /\ views'[w].observable = f
          /\ views'[w].captured = views[w].captured /\ views'[w].sealed = views[w].sealed
      BY <1>0, <3>2 DEF TypeOK, ViewStates
    <3>5. Grown(views, views')
      BY <3>3, <3>4 DEF Grown
    <3>6. OpShape(op'[t], views')
      BY <1>0, <1>1, <2>1, <3>1, <3>3, <3>4, Nowhere
      DEF OpShape, Building, Passing, PassSteps, Complete, Proving
    <3>7. Shape' /\ Alone'
      BY <1>2, <3>1, <3>4, <3>5, <3>6, StepShapes
    <3>8. ViewShape'
      BY <1>0, <1>2, <2>1, <3>3, <3>4, AnswerShapes DEF ViewShape
    <3> QED
      BY <3>7, <3>8 DEF Sound
  <2> QED
    BY <2>2, <2>3
<1>5. CASE CaptureMark(t)
  <2>1. op[t].at = "mark" /\ Becomes(t, Idle) /\ UNCHANGED verdict
    BY <1>5, Dropped DEF CaptureMark, At
  <2>2. CASE views' = views
    <3>1. Shape' /\ Alone'
      BY <1>2, <2>1, <2>2, DropSound, SameViews
    <3>2. ViewShape'
      BY <1>0, <2>1, <2>2 DEF ViewShape
    <3> QED
      BY <3>1, <3>2 DEF Sound
  <2>3. CASE ~views[w].sealed /\ views' = [views EXCEPT ![w].captured = op[t].over]
    <3>1. /\ \A x \in Views \ {w} : views'[x] = views[x]
          /\ views'[w].over = views[w].over /\ views'[w].observable = views[w].observable
          /\ views'[w].captured = op[t].over /\ views'[w].sealed = views[w].sealed
      BY <1>0, <2>3 DEF TypeOK, ViewStates
    <3>2. Grown(views, views')
      BY <2>3, <3>1 DEF Grown
    <3>3. op[t].over \subseteq DOMAIN views[w].observable
      BY <1>0, <2>1 DEF OpShape
    <3>4. Shape' /\ Alone'
      BY <1>2, <2>1, <3>1, <3>2, DropSound
    <3>5. ViewShape'
      BY <1>0, <1>2, <2>1, <3>1, <3>3, AnswerShapes DEF ViewShape
    <3> QED
      BY <3>4, <3>5 DEF Sound
  <2> QED
    BY <1>5, <2>2, <2>3 DEF CaptureMark
<1> QED
    BY <1>3, <1>4, <1>5

LEMMA ProvedShape ==
    ASSUME TypeOK, Sound, NEW t \in Threads, NEW n \in Passes, NEW a \in {"list", "load"},
           NEW q, Proved(t, n, a, q), op[t].kind \in Proving, op[t].at \in {"key", "load"},
           DOMAIN q \subseteq op[t].over, DOMAIN n.list = DOMAIN op[t].now.list,
           DOMAIN n.of = DOMAIN op[t].now.of, DOMAIN n.load = DOMAIN op[t].now.load,
           DOMAIN n.key \subseteq DOMAIN n.list, a = "load" => DOMAIN n.key = op[t].over
    PROVE  op'[t].kind \notin Building /\ OpShape(op'[t], views)
<1> USE DEF Proving, Building
<1>1. OpShape(op[t], views)
    BY DEF Sound, Shape
<1>2. op[t].over \subseteq views[op[t].view].over /\ views[op[t].view].over # {}
    BY <1>1 DEF OpShape
<1>3. CASE /\ DOMAIN q # op[t].over /\ op'[t].kind = op[t].kind /\ op'[t].over = op[t].over
           /\ op'[t].now = n /\ op'[t].at = a
    BY <1>1, <1>2, <1>3 DEF Proved, OpShape, PassSteps, Complete, Passing
<1>4. CASE /\ DOMAIN q = op[t].over
           /\ op'[t].kind = IF op[t].kind = "capture" THEN "after" ELSE "reprove"
           /\ op'[t].over = views[op[t].view].over
           /\ op'[t].now = NoPass /\ op'[t].at = "env"
  <2>1. op'[t].view = op[t].view /\ op'[t].proofs = q
    BY DEF Proved
  <2>2. CASE op[t].kind = "capture"
    BY <1>1, <1>2, <1>4, <2>1, <2>2, Nowhere DEF OpShape, PassSteps, Complete, Passing
  <2>3. CASE op[t].kind = "again"
    BY <1>1, <1>2, <1>4, <2>1, <2>3, Nowhere DEF OpShape, PassSteps, Complete, Passing
  <2> QED
    BY <2>2, <2>3
<1> QED
    BY <1>3, <1>4 DEF Proved

LEMMA AnalysisKeepsSound ==
    ASSUME TypeOK, Sound, NEW t \in Threads,
           Open(t) \/ \E s \in Subjects : ProveKey(t, s) \/ ProveLoad(t, s)
    PROVE  Sound'
<1>0. /\ Shape /\ Alone /\ ViewShape /\ op[t] \in Ops /\ OpShape(op[t], views)
      /\ op[t].view \in Views /\ views[op[t].view] \in ViewStates /\ op[t].now \in Passes
    BY DEF Sound, TypeOK, Shape, Ops
<1>1. op[t].kind \in Proving /\ UNCHANGED views
    BY <1>0, OpenDoes, ProveKeyDoes, ProveLoadDoes DEF OpShape, snapshot
<1>2. op[t].kind \notin Building /\ op[t].kind # "idle"
    BY <1>1 DEF Building, Proving
<1>3. UNCHANGED verdict \/ \E outcome : Answer(op[t].view, outcome, t)
    BY OpenDoes, ProveKeyDoes, ProveLoadDoes DEF snapshot
<1>4. ViewShape'
    BY <1>0, <1>1, <1>2, <1>3, AnswerShapes DEF ViewShape
<1>5. CASE Open(t)
  <2> DEFINE n == [op[t].now EXCEPT !.env = tree[Env]]
  <2>1. op[t].at = "open" /\ (Advance(t, n, "list") \/ Becomes(t, Idle))
    BY <1>5, OpenDoes
  <2>2. n.list = op[t].now.list /\ n.of = op[t].now.of /\ n.key = op[t].now.key
        /\ n.load = op[t].now.load
    BY <1>0 DEF Passes
  <2> HIDE DEF n
  <2>3. ASSUME Advance(t, n, "list")
        PROVE  Shape' /\ Alone'
    <3>1. OpShape(op'[t], views)
      BY <1>0, <1>1, <2>1, <2>2, <2>3
      DEF Advance, OpShape, Building, Passing, PassSteps, Complete, Proving
    <3> QED
      BY <1>1, <1>2, <2>3, <3>1, StepShapes, SameViews DEF Advance
  <2>4. Shape' /\ Alone'
    BY <1>1, <1>2, <2>1, <2>3, DropSound, SameViews
  <2> QED
    BY <1>4, <2>4 DEF Sound
<1>6. ASSUME NEW s \in Subjects, ProveKey(t, s)
      PROVE  Sound'
  <2>1. PICK n \in Passes : \E a \in {"list", "load"} : \E q \in Proofs :
          /\ Proved(t, n, a, q) /\ n.list = op[t].now.list
          /\ n.load = op[t].now.load /\ n.of = op[t].now.of
          /\ DOMAIN n.key = DOMAIN op[t].now.key \cup {s}
          /\ a = "load" => DOMAIN n.key = op[t].over
          /\ q = op[t].proofs \/ \E x \in Versions : q = Put(op[t].proofs, s, x)
    BY <1>6, ProveKeyDoes
  <2>2. PICK a \in {"list", "load"} : \E q \in Proofs :
          /\ Proved(t, n, a, q)
          /\ a = "load" => DOMAIN n.key = op[t].over
          /\ q = op[t].proofs \/ \E x \in Versions : q = Put(op[t].proofs, s, x)
    BY <2>1
  <2>3. PICK q \in Proofs :
          /\ Proved(t, n, a, q)
          /\ q = op[t].proofs \/ \E x \in Versions : q = Put(op[t].proofs, s, x)
    BY <2>2
  <2>4. op[t].at = "key" /\ s \in DOMAIN op[t].now.list
    BY <1>6, ProveKeyDoes
  <2>5. ASSUME NEW x PROVE DOMAIN Put(op[t].proofs, s, x) = DOMAIN op[t].proofs \cup {s}
    BY PutIs
  <2>6. s \in op[t].over /\ DOMAIN op[t].proofs \subseteq op[t].over
        /\ DOMAIN op[t].now.key \subseteq DOMAIN op[t].now.list
    BY <1>0, <2>4 DEF OpShape
  <2>7. DOMAIN q \subseteq op[t].over
    BY <2>3, <2>5, <2>6
  <2>8. op'[t].kind \notin Building /\ OpShape(op'[t], views)
    BY <1>1, <2>1, <2>2, <2>3, <2>4, <2>6, <2>7, ProvedShape
  <2> QED
    BY <1>1, <1>2, <1>4, <2>3, <2>8, StepShapes, SameViews DEF Sound, Proved
<1>7. ASSUME NEW s \in Subjects, ProveLoad(t, s)
      PROVE  Sound'
  <2>1. PICK x : Proved(t, op[t].now, "load", Put(op[t].proofs, s, x))
    BY <1>7, ProveLoadDoes
  <2>2. op[t].at = "load" /\ s \in op[t].over
    BY <1>7, ProveLoadDoes
  <2> DEFINE q == Put(op[t].proofs, s, x)
  <2>3. DOMAIN q = DOMAIN op[t].proofs \cup {s}
    BY PutIs
  <2>4. Proved(t, op[t].now, "load", q)
    BY <2>1
  <2> HIDE DEF q
  <2>5. DOMAIN q \subseteq op[t].over /\ DOMAIN op[t].now.key \subseteq DOMAIN op[t].now.list
        /\ DOMAIN op[t].now.key = op[t].over
    BY <1>0, <2>2, <2>3 DEF OpShape
  <2>6. op'[t].kind \notin Building /\ OpShape(op'[t], views)
    BY <1>0, <1>1, <2>2, <2>4, <2>5, ProvedShape
  <2> QED
    BY <1>1, <1>2, <1>4, <2>4, <2>6, StepShapes, SameViews DEF Sound, Proved
<1> QED
    BY <1>5, <1>6, <1>7

LEMMA ValidationKeepsSound ==
    ASSUME TypeOK, Sound, NEW t \in Threads,
           BaseCompare(t) \/ SeedCompare(t) \/ ReproveCompare(t) \/ Settle(t)
    PROVE  Sound'
<1> DEFINE w == op[t].view
<1>0. /\ Shape /\ Alone /\ ViewShape /\ op[t] \in Ops /\ OpShape(op[t], views)
      /\ op[t].view \in Views /\ views[op[t].view] \in ViewStates
    BY DEF Sound, TypeOK, Shape, Ops
<1>1. op[t].kind \in {"base", "seed", "reprove"}
    BY <1>0, SeedCompareDoes, ReproveCompareDoes DEF OpShape, BaseCompare, Settle, At
<1>2. op[t].kind \notin Building /\ op[t].kind # "idle" /\ op[t].over = views[w].over /\ op[t].over # {}
    BY <1>1, LaterIsBuilt DEF Building, Passing, Sound
<1>3. UNCHANGED verdict \/ \E outcome : Answer(w, outcome, t)
    BY SeedCompareDoes, ReproveCompareDoes DEF BaseCompare, Settle
<1>4. /\ Grown(views, views')
      /\ \A x \in Views : /\ views'[x].over = views[x].over
                          /\ views'[x] = views[x] \/ x = w
                          /\ views'[x].captured = views[x].captured
                          /\ views'[x].observable = views[x].observable
  <2>1. CASE SeedCompare(t)
    <3> DEFINE b == views[w].unavailable \/ Compared(facts, op[t].now, op[t].over) = Unavailable
    <3>1. views' = [views EXCEPT ![w].unavailable = b]
      BY <1>0, <2>1 DEF SeedCompare, TypeOK, ViewStates
    <3> HIDE DEF b
    <3> QED
      BY <1>0, <3>1, UnavailableViews
  <2>2. CASE UNCHANGED views
    BY <2>2, SameViews
  <2> QED
    BY <2>1, <2>2, ReproveCompareDoes DEF BaseCompare, Settle
<1>5. ViewShape'
    BY <1>0, <1>2, <1>3, <1>4, AnswerShapes DEF ViewShape
<1>6. ASSUME op[t].kind \in {"seed", "reprove"}, op[t].at = "compare", Others(t),
             op'[t].view = w, op'[t].now = NoPass, op'[t].proofs = op[t].proofs,
             \/ /\ op[t].kind = "seed" /\ op'[t].kind = "again" /\ op'[t].at = "open"
                /\ op'[t].over = views[w].captured
             \/ /\ op[t].kind = "reprove" /\ op'[t].kind = "reprove" /\ op'[t].at = "settle"
                /\ op'[t].over = op[t].over
      PROVE  Shape' /\ Alone'
  <2>1. views'[w].over = views[w].over /\ views'[w].captured = views[w].captured
        /\ (views[w].sealed => views'[w].sealed) /\ views'[w].observable = views[w].observable
    BY <1>0, <1>4 DEF Grown
  <2>2. views[w].captured \subseteq views[w].over
    BY <1>0 DEF ViewShape
  <2>3. CASE op[t].kind = "seed"
    <3>1. OpShape(op'[t], views')
      BY <1>0, <1>2, <1>6, <2>1, <2>2, <2>3, Nowhere
      DEF OpShape, Building, Passing, PassSteps, Complete, Proving
    <3> QED
      BY <1>2, <1>4, <1>6, <2>3, <3>1, StepShapes DEF Building
  <2>4. CASE op[t].kind = "reprove"
    <3>1. OpShape(op'[t], views')
      BY <1>0, <1>2, <1>6, <2>1, <2>2, <2>4, Nowhere
      DEF OpShape, Building, Passing, PassSteps, Complete, Proving
    <3> QED
      BY <1>2, <1>4, <1>6, <2>4, <3>1, StepShapes DEF Building
  <2> QED
    BY <1>6, <2>3, <2>4
<1>7. Becomes(t, Idle) => Shape' /\ Alone'
    BY <1>2, <1>4, DropSound
<1>8. Shape' /\ Alone'
  <2>1. CASE BaseCompare(t) \/ Settle(t)
    BY <1>7, <2>1, Dropped DEF BaseCompare, Settle
  <2>2. CASE SeedCompare(t)
    BY <1>6, <1>7, <2>2, SeedCompareDoes
  <2>3. CASE ReproveCompare(t)
    BY <1>6, <1>7, <2>3, ReproveCompareDoes DEF Advance
  <2> QED
    BY <2>1, <2>2, <2>3
<1> QED
    BY <1>5, <1>8 DEF Sound

LEMMA FailsKeepsSound ==
    ASSUME TypeOK, Sound, NEW t \in Threads, Fails(t)
    PROVE  Sound'
<1>1. Becomes(t, Idle) /\ UNCHANGED <<views, verdict>>
    BY Dropped DEF Fails, snapshot
<1>2. Shape'
    BY <1>1, ShapeStays, SameViews, IdleShape DEF Sound, Becomes
<1>3. Alone'
    BY <1>1, IdleIs, AloneStays DEF Sound, Becomes, Building
<1>4. ViewShape'
    BY <1>1 DEF Sound, ViewShape
<1> QED
    BY <1>2, <1>3, <1>4 DEF Sound

LEMMA OutsideKeepsSound ==
    ASSUME TypeOK, Sound,
           \/ \E p \in Parts, x \in Versions : Move(p, x)
           \/ Prune
           \/ \E over \in Scopes : Sibling(over)
           \/ UNCHANGED vars
    PROVE  Sound'
<1>0. Shape /\ Alone /\ ViewShape
    BY DEF Sound
<1>1. CASE UNCHANGED <<op, views, verdict>>
  <2>1. Shape' /\ Alone'
    BY <1>0, <1>1, ShapeStays, SameViews, SameOps
  <2>2. ViewShape'
    BY <1>0, <1>1 DEF ViewShape
  <2> QED
    BY <2>1, <2>2 DEF Sound
<1>2. ASSUME NEW over \in SUBSET Subjects, Sibling(over)
      PROVE  Sound'
  <2> DEFINE v == views["view"]
             r == Restrict(v.observable, over \cap DOMAIN v.observable)
             n == [NoView EXCEPT !.over = over, !.captured = v.captured \cap over, !.observable = r]
  <2>1. views["sibling"].over = {} /\ over # {} /\ over \subseteq v.over
        /\ views' = [views EXCEPT !["sibling"] = n] /\ UNCHANGED <<op, verdict>>
    BY <1>2 DEF Sibling
  <2>2. DOMAIN r = over \cap DOMAIN v.observable
    BY DEF Restrict
  <2> HIDE DEF r
  <2>3. n.over = over /\ n.captured = v.captured \cap over /\ n.observable = r
    BY DEF NoView
  <2> HIDE DEF n
  <2>4. views'["sibling"] = n /\ views'["view"] = views["view"]
    BY <2>1 DEF TypeOK, Views
  <2>5. views["sibling"] = NoView
    BY <1>0, <2>1 DEF ViewShape, Views
  <2>6. Grown(views, views')
    BY <2>4, <2>5, Nowhere DEF Grown, NoView, Views
  <2>7. Built
    BY <2>1 DEF Built
  <2>8. Shape'
    BY <1>0, <2>1, <2>6, ShapeStays
  <2>9. Alone'
    BY <1>0, <2>1, <2>4, <2>7, SameOps
  <2>10. ViewShape'
    BY <1>0, <2>1, <2>2, <2>3, <2>4 DEF ViewShape, Views
  <2> QED
    BY <2>8, <2>9, <2>10 DEF Sound
<1> QED
    BY <1>1, <1>2, SnapshotAssumption DEF Move, Prune, vars, snapshot

LEMMA StepKeepsSound ==
    ASSUME TypeOK, Sound, NEW t \in Threads, Step(t)
    PROVE  Sound'
BY ConstructedKeepsSound, CaptureKeepsSound, AnalysisKeepsSound, ValidationKeepsSound, FailsKeepsSound
DEF Step

LEMMA SoundInit ==
    Init => TypeOK /\ Sound
<1> SUFFICES ASSUME Init PROVE TypeOK /\ Sound
    OBVIOUS
<1>1. NoView \in ViewStates /\ NoVerdict \in Verdicts /\ Idle \in Ops /\ NoPass \in Passes
    BY Nowhere, IdleIs DEF NoView, ViewStates, Proofs, NoVerdict, Verdicts
<1>2. TypeOK
    BY <1>1, SnapshotAssumption DEF Init, TypeOK, Trees
<1>3. Shape
    BY IdleShape DEF Init, Shape
<1>4. Alone
    BY IdleIs DEF Init, Alone, Built, Views, NoView
<1>5. ViewShape
    BY DEF Init, ViewShape, NoView, NoVerdict, Nothing, Unavailable
<1> QED
    BY <1>2, <1>3, <1>4, <1>5 DEF Sound

LEMMA SoundStep ==
    ASSUME TypeOK, Sound, [Next]_vars
    PROVE  TypeOK' /\ Sound'
<1>1. Shape
    BY DEF Sound
<1>2. ASSUME NEW t \in Threads, Pass(t)
      PROVE  TypeOK' /\ Sound'
    BY <1>1, <1>2, PassKeepsType, PassKeepsSound
<1>3. ASSUME NEW t \in Threads, Call(t)
      PROVE  TypeOK' /\ Sound'
    BY <1>3, CallKeepsType, CallKeepsSound
<1>4. ASSUME NEW t \in Threads, Step(t)
      PROVE  TypeOK' /\ Sound'
    BY <1>1, <1>4, StepKeepsType, StepKeepsSound
<1>5. CASE \/ \E p \in Parts, x \in Versions : Move(p, x)
           \/ Prune
           \/ \E over \in Scopes : Sibling(over)
           \/ UNCHANGED vars
    BY <1>5, OutsideKeepsType, OutsideKeepsSound
<1> QED
    BY <1>2, <1>3, <1>4, <1>5 DEF Next

\* Every field of a snapshot, its views and the operations over them keeps its
\* range, and no step can leave an operation over a view half-shaped (view.go).
THEOREM TypeCorrect == Spec => []TypeOK
<1>1. Init => TypeOK /\ Sound
    BY SoundInit
<1>2. TypeOK /\ Sound /\ [Next]_vars => TypeOK' /\ Sound'
    BY SoundStep
<1> QED
    BY <1>1, <1>2, PTL DEF Spec

-----------------------------------------------------------------------------
(* What was read was there.                                                   *)

LEMMA TornStays ==
    ASSUME TypeOK, [Next]_vars, torn
    PROVE  torn'
<1>1. ASSUME NEW t \in Threads, Pass(t)
      PROVE  torn'
    BY <1>1 DEF Pass, PassEnv, List, StoreListing, PassKey, PassScan, PassDischarge, PassFold, history
<1>2. ASSUME NEW t \in Threads, Call(t)
      PROVE  torn'
    BY <1>2 DEF Call, Construct, Capture, Validate, Attach, history
<1>3. ASSUME NEW t \in Threads, Step(t)
      PROVE  torn'
    BY <1>3 DEF Step, Constructed, Open, ProveKey, ProveLoad, CaptureCompare, CaptureKeep, CaptureMark, BaseCompare,
                SeedCompare, ReproveCompare, Settle, Fails, history
<1> QED
    BY <1>1, <1>2, <1>3 DEF Next, Move, Prune, Sibling, vars, history

LEMMA CallsAndStepsKeepMemos ==
    ASSUME NEW t \in Threads, Call(t) \/ Step(t)
    PROVE  /\ UNCHANGED <<tree, listings, scans>> /\ (Construct(t) \/ UNCHANGED <<seen, restored>>)
           /\ UNCHANGED <<proven, torn>> \/ \E s \in Subjects : ProveLoad(t, s)
<1>1. CASE Call(t)
    BY <1>1 DEF Call, Construct, Capture, Validate, Attach, memos, history
<1>2. CASE Step(t)
    BY <1>2 DEF Step, Constructed, Open, ProveKey, ProveLoad, CaptureCompare, CaptureKeep, CaptureMark,
                BaseCompare, SeedCompare, ReproveCompare, Settle, Fails, memos, history
<1> QED
    BY <1>1, <1>2

LEMMA MemosStep ==
    ASSUME TypeOK, MemosTrue, [Next]_vars
    PROVE  MemosTrue'
<1>1. ASSUME NEW t \in Threads, NEW s \in Subjects, StoreListing(t, s)
      PROVE  MemosTrue'
  <2> DEFINE new == Spawned(op[t].now, s)
  <2>1. /\ listings' \subseteq listings \cup {new} /\ UNCHANGED <<scans, proven>>
        /\ torn' = (torn \/ new.inputs # new.listing)
    BY <1>1 DEF StoreListing
  <2> HIDE DEF new
  <2> QED
    BY <2>1 DEF MemosTrue
<1>2. ASSUME NEW t \in Threads, PassDischarge(t)
      PROVE  MemosTrue'
  <2>1. PICK cut :
          /\ scans' = Stored(scans, NewScans(op[t].now, cut))
          /\ torn' = (torn \/ \E m \in NewScans(op[t].now, cut) : m.key # m.derived \/ m.key[1] # m.key[2])
    BY <1>2, PassDischargeDoes
  <2>2. scans' \subseteq scans \cup NewScans(op[t].now, cut) /\ UNCHANGED <<listings, proven>>
    BY <1>2, <2>1 DEF PassDischarge, Stored
  <2> QED
    BY <2>1, <2>2 DEF MemosTrue
<1>6. ASSUME NEW t \in Threads, NEW s \in Subjects, ProveLoad(t, s)
      PROVE  MemosTrue'
  <2>1. PICK x :
          /\ proven' = Stored(proven, NewProof(op[t].now, s, x))
          /\ torn' = (torn \/ \E m \in NewProof(op[t].now, s, x) : m.key # <<m.derived, m.derived>>)
    BY <1>6, ProveLoadDoes
  <2>2. proven' \subseteq proven \cup NewProof(op[t].now, s, x) /\ UNCHANGED <<listings, scans>>
    BY <1>6, <2>1 DEF ProveLoad, Stored
  <2> QED
    BY <2>1, <2>2 DEF MemosTrue
<1>3. CASE UNCHANGED <<listings, scans, proven, torn>>
    BY <1>3 DEF MemosTrue
<1>4. CASE Prune
    BY <1>4 DEF Prune, MemosTrue
<1>5. ASSUME NEW t \in Threads, Pass(t)
      PROVE  MemosTrue'
    BY <1>1, <1>2, <1>3, <1>5 DEF Pass, PassEnv, List, PassKey, PassScan, PassFold, memos, history
<1>7. ASSUME NEW t \in Threads, Call(t) \/ Step(t)
      PROVE  MemosTrue'
    BY <1>3, <1>6, <1>7, CallsAndStepsKeepMemos
<1> QED
    BY <1>3, <1>4, <1>5, <1>7 DEF Next, Move, Sibling, vars, memos, history

LEMMA TreeSeenStep ==
    ASSUME TypeOK, TreeSeen, [Next]_vars
    PROVE  TreeSeen'
<1>1. CASE UNCHANGED <<tree, seen>>
    BY <1>1 DEF TreeSeen
<1>2. ASSUME NEW p \in Parts, NEW x \in Versions, Move(p, x)
      PROVE  TreeSeen'
    BY <1>2 DEF Move, TreeSeen, TypeOK, Trees
<1>3. ASSUME NEW t \in Threads, Construct(t)
      PROVE  TreeSeen'
    BY <1>3 DEF Construct, TreeSeen
<1>4. ASSUME NEW t \in Threads, Pass(t)
      PROVE  TreeSeen'
    BY <1>1, <1>4 DEF Pass, PassEnv, List, StoreListing, PassKey, PassScan, PassDischarge, PassFold, history
<1> QED
    BY <1>1, <1>2, <1>3, <1>4, CallsAndStepsKeepMemos DEF Next, Prune, Sibling, vars, history

SeenGrows(S, T) == \A p \in Parts : S[p] \subseteq T[p]

LEMMA OpReadStays ==
    ASSUME NEW o \in Ops, NEW v, OpShape(o, v), NEW S, NEW T, SeenGrows(S, T), OpRead(o, S)
    PROVE  OpRead(o, T)
<1>1. o.over \subseteq Parts /\ Env \in Parts /\ Subjects \subseteq Parts
      /\ DOMAIN o.now.of \subseteq Parts /\ DOMAIN o.proofs \subseteq Parts
      /\ DOMAIN o.now.list \subseteq Parts /\ DOMAIN o.now.load \subseteq Parts
    BY DEF Ops, Parts, OpShape
<1> QED
    BY <1>1 DEF OpRead, PassRead, SeenGrows

LEMMA ReadStays ==
    ASSUME TypeOK, Sound, OpsRead, FactsRead, ProofsRead, SeenGrows(seen, seen')
    PROVE  /\ UNCHANGED op => OpsRead'
           /\ \A t \in Threads : Others(t) /\ OpRead(op'[t], seen') => OpsRead'
           /\ (Built' => Built) /\ UNCHANGED facts => FactsRead'
           /\ \A w \in Views : \A s \in DOMAIN views[w].observable :
                 views[w].observable[s] \in seen'[s] \cup {Unavailable}
<1>1. \A u \in Threads : OpRead(op[u], seen')
    BY OpReadStays DEF OpsRead, Sound, Shape, TypeOK
<1>2. (Built' => Built) /\ UNCHANGED facts => FactsRead'
    BY DEF FactsRead, PassRead, SeenGrows, Parts
<1>3. ASSUME NEW w \in Views, NEW s \in DOMAIN views[w].observable
      PROVE  views[w].observable[s] \in seen'[s] \cup {Unavailable}
  <2>1. s \in Parts
    BY OverIs DEF TypeOK, ViewStates, Proofs, Parts
  <2> QED
    BY <2>1 DEF ProofsRead, SeenGrows
<1> QED
    BY <1>1, <1>2, <1>3 DEF OpsRead, Others

LEMMA IdleRead ==
    ASSUME NEW S
    PROVE  OpRead(Idle, S)
BY IdleIs, Nowhere DEF OpRead, Reading, PassSteps

LEMMA PassReads ==
    ASSUME TypeOK, Sound, MemosTrue, TreeSeen, OpsRead, ~torn, NEW t \in Threads, Pass(t)
    PROVE  OpRead(op'[t], seen)
<1> USE DEF Reading, PassSteps
<1>1. /\ op[t] \in Ops /\ OpRead(op[t], seen) /\ OpShape(op[t], views)
      /\ op[t].over \subseteq Subjects /\ Subjects \subseteq Parts /\ Env \in Parts
    BY DEF TypeOK, OpsRead, Sound, Shape, Ops, Parts
<1>2. \A p \in Parts : tree[p] \in seen[p]
    BY DEF TreeSeen
<1>3. CASE PassEnv(t)
  <2> DEFINE n == [op[t].now EXCEPT !.env = tree[Env]]
  <2>1. Advance(t, n, "list") /\ n.env = tree[Env] /\ n.of = op[t].now.of
        /\ n.list = op[t].now.list /\ n.load = op[t].now.load
    BY <1>1, <1>3, PassEnvDoes DEF Ops, Passes
  <2> HIDE DEF n
  <2> QED
    BY <1>1, <1>2, <2>1 DEF Advance, OpRead
<1>4. ASSUME NEW s \in Subjects, List(t, s)
      PROVE  OpRead(op'[t], seen)
  <2>1. PICK n \in Passes : \E a \in {"key", "store"} :
          /\ Advance(t, n, a) /\ n.env = op[t].now.env /\ n.of = op[t].now.of
          /\ n.list = Put(op[t].now.list, s, Listing(s, op[t].now.env))
          /\ n.load = op[t].now.load
    BY <1>4, ListDoes
  <2>2. op[t].at = "list"
    BY <1>4, ListDoes
  <2>3. Listing(s, op[t].now.env) = tree[s]
    BY <1>1, ListingIsTree
  <2>4. ASSUME NEW u \in DOMAIN n.list
        PROVE  n.list[u] \in seen[u]
    <3> DEFINE p == Put(op[t].now.list, s, tree[s])
    <3>1. n.list = p
      BY <2>1, <2>3
    <3>2. u \in DOMAIN p => (u = s /\ p[u] = tree[s])
                            \/ (u # s /\ u \in DOMAIN op[t].now.list /\ p[u] = op[t].now.list[u])
      BY PutHas
    <3> HIDE DEF p
    <3> QED
      BY <1>1, <1>2, <3>1, <3>2 DEF OpRead
  <2> QED
    BY <1>1, <2>1, <2>2, <2>4 DEF Advance, OpRead
<1>5. ASSUME NEW s \in Subjects, StoreListing(t, s)
      PROVE  OpRead(op'[t], seen)
    BY <1>1, <1>5, StoreDoes DEF Advance, OpRead
<1>6. ASSUME NEW s \in Subjects, PassKey(t, s)
      PROVE  OpRead(op'[t], seen)
  <2>1. PICK n \in Passes : \E a \in {"list", "fold", "scan"} :
          /\ Advance(t, n, a) /\ n.env = op[t].now.env /\ n.list = op[t].now.list
          /\ n.load = op[t].now.load
          /\ \/ n.of = op[t].now.of
             \/ \E x \in Versions \X Versions :
                  /\ n.of = Put(op[t].now.of, s, x)
                  /\ MemosTrue /\ ~torn => x = <<tree[s], tree[s]>>
    BY <1>6, PassKeyDoes
  <2>2. op[t].at = "key"
    BY <1>6, PassKeyDoes
  <2>3. ASSUME NEW u \in DOMAIN n.of
        PROVE  n.of[u] \in seen[u] \X seen[u]
    <3>1. CASE n.of = op[t].now.of
      BY <1>1, <3>1 DEF OpRead
    <3>2. CASE n.of = Put(op[t].now.of, s, <<tree[s], tree[s]>>)
      <4> DEFINE p == Put(op[t].now.of, s, <<tree[s], tree[s]>>)
      <4>1. u \in DOMAIN p => (u = s /\ p[u] = <<tree[s], tree[s]>>)
                              \/ (u # s /\ u \in DOMAIN op[t].now.of /\ p[u] = op[t].now.of[u])
        BY PutHas
      <4>2. n.of = p
        BY <3>2
      <4> HIDE DEF p
      <4> QED
        BY <1>1, <1>2, <4>1, <4>2 DEF OpRead
    <3> QED
      BY <2>1, <3>1, <3>2
  <2> QED
    BY <1>1, <2>1, <2>2, <2>3 DEF Advance, OpRead
<1>7. CASE PassScan(t)
  <2>1. PICK n \in Passes :
          /\ Advance(t, n, "discharge") /\ n.env = op[t].now.env /\ n.list = op[t].now.list
          /\ n.of = op[t].now.of /\ n.load = [s \in op[t].over \ DOMAIN op[t].now.of |-> tree[s]]
    BY <1>7, PassScanDoes
  <2>2. op[t].at = "scan"
    BY <1>7, PassScanDoes
  <2>3. \A s \in DOMAIN n.load : n.load[s] \in seen[s]
    BY <1>1, <1>2, <2>1
  <2> QED
    BY <1>1, <2>1, <2>2, <2>3 DEF Advance, OpRead
<1>9. CASE PassDischarge(t)
  <2>1. PICK n \in Passes : \E cut :
          /\ Advance(t, n, "fold") /\ n.env = op[t].now.env /\ n.list = op[t].now.list
          /\ n.of = Added(Judgments(op[t].now, cut), op[t].now.of) /\ n.load = <<>>
    BY <1>9, PassDischargeDoes
  <2>2. op[t].at = "discharge" /\ op[t].now \in Passes /\ op[t].now.of \in Over(Versions \X Versions)
    BY <1>1, <1>9, PassDischargeDoes DEF Ops, Passes
  <2>3. ASSUME NEW u \in DOMAIN n.of
        PROVE  n.of[u] \in seen[u] \X seen[u]
    <3>1. PICK cut : n.of = Added(Judgments(op[t].now, cut), op[t].now.of)
      BY <2>1
    <3> DEFINE J == Judgments(op[t].now, cut)
    <3>2. /\ J \in Over(Versions \X Versions) /\ DOMAIN J = DOMAIN op[t].now.load
          /\ \A s \in DOMAIN op[t].now.load :
                J[s] \in {<<op[t].now.load[s], tree[s]>>, <<op[t].now.load[s], op[t].now.load[s]>>}
      BY <2>2, JudgmentsAre
    <3>3. n.of = Added(J, op[t].now.of)
      BY <3>1
    <3> HIDE DEF J
    <3>4. /\ DOMAIN n.of = DOMAIN J \cup DOMAIN op[t].now.of
          /\ \A s \in DOMAIN J : n.of[s] = J[s]
          /\ \A s \in DOMAIN op[t].now.of \ DOMAIN J : n.of[s] = op[t].now.of[s]
      <4> DEFINE g == op[t].now.of
      <4>1. n.of = Added(J, g)
        BY <3>3
      <4> HIDE DEF g
      <4>2. /\ DOMAIN Added(J, g) = DOMAIN J \cup DOMAIN g
            /\ \A s \in DOMAIN J : Added(J, g)[s] = J[s]
            /\ \A s \in DOMAIN g \ DOMAIN J : Added(J, g)[s] = g[s]
        BY AddedIs, Zenon
      <4> QED
        BY <4>1, <4>2 DEF g
    <3>5. CASE u \in DOMAIN J
      <4>1. u \in Subjects
        BY <2>2, <3>2, <3>5, OverIs
      <4>2. op[t].now.load[u] \in seen[u] /\ tree[u] \in seen[u]
        BY <1>1, <1>2, <3>2, <3>5, <4>1 DEF OpRead
      <4> QED
        BY <3>2, <3>4, <3>5, <4>2
    <3>6. CASE u \in DOMAIN op[t].now.of \ DOMAIN J
      BY <1>1, <3>4, <3>6 DEF OpRead
    <3> QED
      BY <3>4, <3>5, <3>6
  <2>4. DOMAIN n.load = {}
    BY <2>1, Nowhere
  <2> QED
    BY <1>1, <2>1, <2>2, <2>3, <2>4 DEF Advance, OpRead
<1>8. CASE PassFold(t)
  <2>1. PICK n \in Passes :
          /\ n.env = op[t].now.env /\ n.list = op[t].now.list /\ n.of = op[t].now.of
          /\ n.load = op[t].now.load /\ n.bytes = [s \in op[t].over |-> tree[s]]
          /\ \/ op[t].kind # "first" /\ Advance(t, n, "compare")
             \/ /\ op[t].kind = "first" /\ Others(t)
                /\ op'[t] = [op[t] EXCEPT !.kind = "second", !.at = "env", !.now = NoPass,
                                          !.began = tree, !.first = n]
    BY <1>8, PassFoldDoes
  <2>2. op[t].at = "fold"
    BY <1>8, PassFoldDoes
  <2>3. \A s \in op[t].over : n.bytes[s] \in seen[s]
    BY <1>1, <1>2, <2>1
  <2>4. CASE op[t].kind # "first"
    BY <1>1, <2>1, <2>2, <2>3, <2>4 DEF Advance, OpRead
  <2>5. CASE op[t].kind = "first"
    <3>1. op'[t].kind = "second" /\ op'[t].at = "env" /\ op'[t].now = NoPass /\ op'[t].first = n
          /\ op'[t].proofs = op[t].proofs /\ op'[t].over = op[t].over
      BY <1>1, <2>1, <2>5 DEF Ops
    <3>2. op[t].over = Subjects /\ DOMAIN op[t].now.of = Subjects /\ DOMAIN op[t].now.list = Subjects
      BY <1>1, <2>2, <2>5 DEF OpShape, Building, Complete
    <3>3. PassRead(n, Subjects, seen)
      BY <1>1, <2>1, <2>2, <2>3, <3>2 DEF OpRead, PassRead
    <3> QED
      BY <1>1, <3>1, <3>3, Nowhere DEF OpRead
  <2> QED
    BY <2>4, <2>5
<1> QED
    BY <1>3, <1>4, <1>5, <1>6, <1>7, <1>8, <1>9 DEF Pass

LEMMA CallReads ==
    ASSUME TypeOK, Sound, OpsRead, FactsRead, ProofsRead, NEW t \in Threads, Call(t)
    PROVE  OpsRead' /\ FactsRead' /\ ProofsRead'
<1> USE DEF Reading, PassSteps
<1>1. CASE Construct(t)
  <2>1. /\ views["view"].over = {} /\ \A u \in Threads : op[u].kind = "idle"
        /\ UNCHANGED views
    BY <1>1 DEF Construct
  <2>2. Started(t, "first", "view", Subjects)
    BY <1>1, ConstructDoes
  <2>3. \A u \in Threads \ {t} : OpShape(op[u], views) /\ op'[u] = op[u]
    BY <2>2 DEF Sound, Shape, Started, Others
  <2>4. \A u \in Threads : op'[u].at = "env" /\ DOMAIN op'[u].now.of = {} /\ DOMAIN op'[u].proofs = {}
                           /\ DOMAIN op'[u].now.list = {} /\ DOMAIN op'[u].now.load = {}
                           /\ op'[u].kind # "second"
    BY <2>1, <2>2, <2>3, Nowhere DEF Started, OpShape
  <2>5. OpsRead'
    BY <2>4 DEF OpsRead, OpRead
  <2>6. ~Built /\ ~Built'
    BY <2>1 DEF Built
  <2>7. \A w \in Views : DOMAIN views'[w].observable = {}
    BY <2>1, <2>6, Nowhere DEF Sound, Alone, ViewShape, NoView, Views, Built
  <2> QED
    BY <2>5, <2>6, <2>7 DEF FactsRead, ProofsRead
<1>2. ASSUME NEW w \in Views, Capture(t, w)
      PROVE  OpsRead' /\ FactsRead' /\ ProofsRead'
  <2>1. UNCHANGED <<views, facts, seen>>
    BY <1>2, CaptureDoes DEF snapshot
  <2>2. OpRead(op'[t], seen')
    BY <1>2, CaptureDoes, Nowhere DEF OpRead
  <2>3. SeenGrows(seen, seen')
    BY <2>1 DEF SeenGrows
  <2>4. OpsRead' /\ FactsRead'
    BY <1>2, <2>1, <2>2, <2>3, CaptureDoes, ReadStays DEF Built
  <2> QED
    BY <2>1, <2>4 DEF ProofsRead
<1>3. ASSUME NEW w \in Views, Validate(t, w)
      PROVE  OpsRead' /\ FactsRead' /\ ProofsRead'
  <2>1. /\ UNCHANGED <<facts, seen>>
        /\ \/ op' = op
           \/ Started(t, IF views[w].captured = {} THEN "base" ELSE "seed", w, views[w].over)
    BY <1>3, ValidateDoes
  <2>2. views' = [views EXCEPT ![w].sealed = TRUE]
    BY <1>3 DEF Validate
  <2>3. \A x \in Views : views'[x].over = views[x].over /\ views'[x].observable = views[x].observable
    BY <2>2 DEF TypeOK, ViewStates
  <2>4. SeenGrows(seen, seen')
    BY <2>1 DEF SeenGrows
  <2>5. op' = op \/ (Others(t) /\ OpRead(op'[t], seen'))
    BY <2>1, Nowhere DEF Started, OpRead
  <2>6. OpsRead' /\ FactsRead'
    BY <2>1, <2>3, <2>4, <2>5, ReadStays DEF Built, Views
  <2> QED
    BY <2>1, <2>3, <2>6 DEF ProofsRead
<1>4. ASSUME NEW w \in Views, NEW s \in Subjects, Attach(t, w, s)
      PROVE  OpsRead' /\ FactsRead' /\ ProofsRead'
  <2>1. UNCHANGED <<facts, seen, op>> /\ views' = [views EXCEPT ![w].attached = @ \cup {s}]
    BY <1>4 DEF Attach, history
  <2>2. \A x \in Views : views'[x].over = views[x].over /\ views'[x].observable = views[x].observable
    BY <2>1 DEF TypeOK, ViewStates
  <2> QED
    BY <2>1, <2>2 DEF OpsRead, FactsRead, ProofsRead, Built, Views
<1> QED
    BY <1>1, <1>2, <1>3, <1>4 DEF Call

\* At the comparison a pass has read everything.
LEMMA PassIsRead ==
    ASSUME TypeOK, Sound, OpsRead, NEW t \in Threads, op[t].at = "compare"
    PROVE  PassRead(op[t].now, op[t].over, seen)
<1>1. OpRead(op[t], seen) /\ OpShape(op[t], views)
    BY DEF OpsRead, Sound, Shape
<1> QED
    BY <1>1 DEF OpRead, OpShape, PassRead, Reading, PassSteps, Complete

\* A proof, served or made, is of something that was there.
LEMMA ProvedReads ==
    ASSUME TypeOK, Sound, TreeSeen, OpsRead, MemosTrue, ~torn, NEW t \in Threads, NEW s \in Subjects,
           ProveKey(t, s) \/ ProveLoad(t, s)
    PROVE  Others(t) /\ OpRead(op'[t], seen')
<1>0. op[t] \in Ops /\ OpRead(op[t], seen) /\ op[t].kind \in Proving /\ OpShape(op[t], views)
    BY ProveKeyDoes, ProveLoadDoes DEF TypeOK, OpsRead, Sound, Shape, OpShape
<1>1. UNCHANGED seen /\ tree[s] \in seen[s]
    BY DEF ProveKey, ProveLoad, history, TreeSeen, Parts
<1>2. PICK n \in Passes : \E a \in {"list", "load"} : \E q :
        /\ Proved(t, n, a, q) /\ n.env = op[t].now.env /\ n.list = op[t].now.list
        /\ n.load = op[t].now.load /\ n.of = op[t].now.of
        /\ q = op[t].proofs \/ \E x \in {Unavailable, tree[s]} : q = Put(op[t].proofs, s, x)
  <2>1. CASE ProveKey(t, s)
    <3>1. PICK n \in Passes : \E a \in {"list", "load"} : \E q \in Proofs :
            /\ Proved(t, n, a, q) /\ n.env = op[t].now.env /\ n.list = op[t].now.list
            /\ n.load = op[t].now.load /\ n.of = op[t].now.of
            /\ \/ q = op[t].proofs
               \/ \E x \in Versions :
                    q = Put(op[t].proofs, s, x) /\ (MemosTrue /\ ~torn => x = tree[s])
      BY <2>1, ProveKeyDoes
    <3> QED
      BY <3>1
  <2>2. CASE ProveLoad(t, s)
    <3>1. op[t].now \in Passes
      BY <1>0 DEF Ops
    <3>2. PICK x \in {Unavailable, tree[s]} : Proved(t, op[t].now, "load", Put(op[t].proofs, s, x))
      BY <2>2, ProveLoadDoes
    <3> QED
      BY <3>1, <3>2
  <2> QED
    BY <2>1, <2>2
<1>3. PICK a \in {"list", "load"} : \E q :
        /\ Proved(t, n, a, q)
        /\ q = op[t].proofs \/ \E x \in {Unavailable, tree[s]} : q = Put(op[t].proofs, s, x)
    BY <1>2
<1>4. PICK q :
        /\ Proved(t, n, a, q)
        /\ q = op[t].proofs \/ \E x \in {Unavailable, tree[s]} : q = Put(op[t].proofs, s, x)
    BY <1>3
<1>5. ASSUME NEW u \in DOMAIN q
      PROVE  q[u] \in seen[u] \cup {Unavailable}
  <2>1. CASE q = op[t].proofs
    BY <1>0, <2>1 DEF OpRead
  <2>2. ASSUME NEW x \in {Unavailable, tree[s]}, q = Put(op[t].proofs, s, x)
        PROVE  q[u] \in seen[u] \cup {Unavailable}
    <3> DEFINE p == Put(op[t].proofs, s, x)
    <3>1. u \in DOMAIN p => (u = s /\ p[u] = x)
                            \/ (u # s /\ u \in DOMAIN op[t].proofs /\ p[u] = op[t].proofs[u])
      BY PutHas
    <3>2. q = p
      BY <2>2
    <3> HIDE DEF p
    <3> QED
      BY <1>0, <1>1, <3>1, <3>2 DEF OpRead
  <2> QED
    BY <1>4, <2>1, <2>2
<1>6. op[t].at \in {"key", "load"}
    BY ProveKeyDoes, ProveLoadDoes
<1>7. CASE op'[t].now = n /\ op'[t].at = a /\ op'[t].kind = op[t].kind
    BY <1>0, <1>1, <1>2, <1>4, <1>5, <1>6, <1>7 DEF Proved, OpRead, Reading, PassSteps, Proving
<1>8. CASE op'[t].now = NoPass /\ op'[t].at = "env" /\ op'[t].kind \in {"after", "reprove"}
    BY <1>1, <1>4, <1>5, <1>8, Nowhere DEF Proved, OpRead, Reading, PassSteps
<1> QED
    BY <1>4, <1>7, <1>8 DEF Proved

LEMMA StepReads ==
    ASSUME TypeOK, Sound, TreeSeen, OpsRead, FactsRead, ProofsRead, MemosTrue, ~torn,
           NEW t \in Threads, Step(t)
    PROVE  OpsRead' /\ FactsRead' /\ ProofsRead'
<1> USE DEF Reading, PassSteps
<1>0. /\ op[t] \in Ops /\ OpRead(op[t], seen) /\ OpShape(op[t], views)
      /\ op[t].view \in Views /\ op[t].over \subseteq Subjects
    BY DEF TypeOK, OpsRead, Sound, Shape, Ops
<1>1. UNCHANGED <<tree, seen>> /\ SeenGrows(seen, seen')
    BY CallsAndStepsKeepMemos DEF Step, Construct, Constructed, Open, ProveKey, ProveLoad, CaptureCompare,
       CaptureKeep, CaptureMark, BaseCompare, SeedCompare, ReproveCompare, Settle, Fails, history, SeenGrows
<1>2. ASSUME Others(t), op'[t].now = NoPass, op'[t].at \in {"keep", "open", "settle"},
             op'[t].proofs = op[t].proofs, op'[t].kind # "second"
      PROVE  OpRead(op'[t], seen')
    BY <1>0, <1>1, <1>2, Nowhere DEF OpRead
<1>3. Becomes(t, Idle) => Others(t) /\ OpRead(op'[t], seen')
    BY IdleRead DEF Becomes
<1>4. Others(t) /\ OpRead(op'[t], seen')
  <2>1. CASE Constructed(t) \/ CaptureMark(t) \/ BaseCompare(t) \/ Settle(t) \/ Fails(t)
    BY <1>3, <2>1, Dropped DEF Constructed, CaptureMark, BaseCompare, Settle, Fails, Drop
  <2>2. CASE CaptureCompare(t) \/ SeedCompare(t) \/ ReproveCompare(t)
    <3>1. \/ Becomes(t, Idle)
          \/ /\ Others(t) /\ op'[t].now = NoPass /\ op'[t].at \in {"keep", "open", "settle"}
             /\ op'[t].proofs = op[t].proofs /\ op'[t].kind # "second"
      BY <2>2, CaptureCompareDoes, SeedCompareDoes, ReproveCompareDoes DEF Advance
    <3> QED
      BY <1>2, <1>3, <3>1
  <2>3. CASE Open(t)
    <3> DEFINE n == [op[t].now EXCEPT !.env = tree[Env]]
    <3>1. op[t].at = "open" /\ (Advance(t, n, "list") \/ Becomes(t, Idle))
      BY <2>3, OpenDoes
    <3>2. n.env = tree[Env] /\ n.list = op[t].now.list /\ n.load = op[t].now.load /\ n.of = op[t].now.of
      BY <1>0 DEF Ops, Passes
    <3> HIDE DEF n
    <3>3. tree[Env] \in seen[Env]
      BY DEF TreeSeen, Parts
    <3>4. Advance(t, n, "list") => Others(t) /\ OpRead(op'[t], seen')
      BY <1>0, <1>1, <3>2, <3>3 DEF Advance, OpRead
    <3> QED
      BY <1>3, <3>1, <3>4
  <2>4. ASSUME NEW s \in Subjects, ProveKey(t, s) \/ ProveLoad(t, s)
        PROVE  Others(t) /\ OpRead(op'[t], seen')
    BY <2>4, ProvedReads
  <2>5. CASE CaptureKeep(t)
    <3>1. CASE Becomes(t, Idle)
      BY <1>3, <3>1
    <3>2. CASE /\ Others(t) /\ op'[t].kind = op[t].kind /\ op'[t].at = "mark"
               /\ op'[t].now = op[t].now /\ op'[t].proofs = <<>> /\ op'[t].first = op[t].first
      BY <1>0, <1>1, <3>2, Nowhere DEF OpRead
    <3> QED
      BY <2>5, <3>1, <3>2, CaptureKeepDoes
  <2> QED
    BY <2>1, <2>2, <2>3, <2>4, <2>5 DEF Step
<1>5. OpsRead'
    BY <1>1, <1>4, ReadStays
<1>6. FactsRead'
  <2>1. CASE Constructed(t) /\ ~UNCHANGED facts
    <3>1. /\ op[t].kind = "second" /\ op[t].at = "compare" /\ facts' = TakeCut(op[t].first, op[t].now)
      BY <2>1 DEF Constructed, At
    <3>2. PassRead(op[t].first, Subjects, seen)
      BY <1>0, <3>1 DEF OpRead
    <3>3. op[t].first \in Passes
      BY <1>0 DEF Ops
    <3>4. facts'.env = op[t].first.env /\ facts'.list = op[t].first.list
          /\ facts'.of = op[t].first.of /\ facts'.bytes = op[t].first.bytes
      BY <3>1, <3>3 DEF TakeCut, Passes
    <3> QED
      BY <1>1, <3>2, <3>4 DEF FactsRead, PassRead
  <2>2. CASE UNCHANGED facts /\ \A x \in Views : views'[x].over = views[x].over
    BY <1>1, <2>2 DEF FactsRead, Built, Views
  <2>3. ASSUME ~Constructed(t)
        PROVE  UNCHANGED facts /\ \A x \in Views : views'[x].over = views[x].over
    <3>1. UNCHANGED facts
      BY <2>3 DEF Step, Open, ProveKey, ProveLoad, CaptureCompare, CaptureKeep, CaptureMark, BaseCompare,
                  SeedCompare, ReproveCompare, Settle, Fails, snapshot
    <3>2. CASE UNCHANGED views
      BY <3>1, <3>2
    <3>3. CASE CaptureCompare(t) \/ CaptureKeep(t) \/ CaptureMark(t) \/ SeedCompare(t)
      BY <1>0, <3>1, <3>3 DEF CaptureCompare, CaptureKeep, CaptureMark, SeedCompare, TypeOK, ViewStates
    <3> QED
      BY <2>3, <3>2, <3>3 DEF Step, Open, ProveKey, ProveLoad, BaseCompare, ReproveCompare, Settle, Fails, snapshot
  <2>4. CASE Constructed(t) /\ UNCHANGED facts
    <3>1. CASE Moved(op[t].first, op[t].now, Subjects, TRUE)
      BY <1>1, <2>4, <3>1 DEF Constructed, FactsRead, Built
    <3>2. CASE ~Moved(op[t].first, op[t].now, Subjects, TRUE)
      <4>1. op[t].kind = "second" /\ op[t].first \in Passes
            /\ facts' = TakeCut(op[t].first, op[t].now)
        BY <1>0, <2>4, <3>2 DEF Constructed, Ops
      <4>2. PassRead(op[t].first, Subjects, seen)
        BY <1>0, <4>1 DEF OpRead
      <4>3. facts'.env = op[t].first.env /\ facts'.list = op[t].first.list
            /\ facts'.of = op[t].first.of /\ facts'.bytes = op[t].first.bytes
        BY <4>1 DEF TakeCut, Passes
      <4> QED
        BY <1>1, <4>2, <4>3 DEF FactsRead, PassRead
    <3> QED
      BY <3>1, <3>2
  <2> QED
    BY <2>1, <2>2, <2>3, <2>4
<1>7. ProofsRead'
  <2>1. CASE CaptureKeep(t) /\ ~UNCHANGED views
    <3> DEFINE w == op[t].view
               f == Added(op[t].proofs, views[w].observable)
    <3>1. views' = [views EXCEPT ![w].observable = f]
      BY <1>0, <2>1 DEF CaptureKeep, TypeOK, ViewStates
    <3>2. \A s \in DOMAIN f : f[s] \in seen[s] \cup {Unavailable}
      BY <1>0 DEF Added, OpRead, ProofsRead
    <3> HIDE DEF f
    <3>3. views'[w].observable = f /\ \A x \in Views \ {w} : views'[x] = views[x]
      BY <1>0, <3>1 DEF TypeOK, ViewStates
    <3> QED
      BY <1>1, <3>2, <3>3 DEF ProofsRead
  <2>2. CASE \A x \in Views : views'[x].observable = views[x].observable
    BY <1>1, <2>2 DEF ProofsRead
  <2>3. ASSUME ~CaptureKeep(t) \/ UNCHANGED views
        PROVE  \A x \in Views : views'[x].observable = views[x].observable
    <3>1. CASE UNCHANGED views
      BY <3>1
    <3>2. CASE views' = [views EXCEPT !["view"].over = Subjects]
      BY <3>2 DEF TypeOK, ViewStates
    <3>3. CASE views' = [views EXCEPT ![op[t].view].captured = op[t].over]
      BY <1>0, <3>3 DEF TypeOK, ViewStates
    <3>4. ASSUME NEW b, views' = [views EXCEPT ![op[t].view].unavailable = b]
          PROVE  \A x \in Views : views'[x].observable = views[x].observable
      BY <1>0, <3>4, UnavailableViews
    <3>5. CASE CaptureCompare(t) \/ SeedCompare(t)
      <4> DEFINE b == views[op[t].view].unavailable \/ Compared(facts, op[t].now, op[t].over) = Unavailable
      <4>1. views' = [views EXCEPT ![op[t].view].unavailable = b]
        BY <1>0, <3>5 DEF CaptureCompare, SeedCompare, TypeOK, ViewStates
      <4> HIDE DEF b
      <4> QED
        BY <3>4, <4>1
    <3> QED
      BY <2>3, <3>1, <3>2, <3>3, <3>5
      DEF Step, Constructed, CaptureMark, Open, ProveKey, ProveLoad, BaseCompare, ReproveCompare, Settle, Fails, snapshot
  <2> QED
    BY <2>1, <2>2, <2>3
<1> QED
    BY <1>5, <1>6, <1>7

LEMMA OutsideReads ==
    ASSUME TypeOK, Sound, OpsRead, FactsRead, ProofsRead,
           \/ \E p \in Parts, x \in Versions : Move(p, x)
           \/ Prune
           \/ \E over \in Scopes : Sibling(over)
           \/ UNCHANGED vars
    PROVE  OpsRead' /\ FactsRead' /\ ProofsRead'
<1>1. SeenGrows(seen, seen') /\ UNCHANGED <<op, facts>>
    BY DEF Move, Prune, Sibling, vars, history, snapshot, SeenGrows, TypeOK
<1>2. CASE UNCHANGED views
    BY <1>1, <1>2, ReadStays DEF Built, ProofsRead
<1>3. ASSUME NEW over \in SUBSET Subjects, Sibling(over)
      PROVE  OpsRead' /\ FactsRead' /\ ProofsRead'
  <2> DEFINE v == views["view"]
             r == Restrict(v.observable, over \cap DOMAIN v.observable)
             n == [NoView EXCEPT !.over = over, !.captured = v.captured \cap over, !.observable = r]
  <2>1. views' = [views EXCEPT !["sibling"] = n] /\ UNCHANGED seen
    BY <1>3 DEF Sibling, history
  <2>2. \A s \in DOMAIN r : s \in DOMAIN v.observable /\ r[s] = v.observable[s]
    BY DEF Restrict
  <2> HIDE DEF r
  <2>3. n.observable = r
    BY DEF NoView
  <2> HIDE DEF n
  <2>4. views'["sibling"] = n /\ views'["view"] = views["view"]
    BY <2>1 DEF TypeOK, Views
  <2>5. ProofsRead'
    BY <2>1, <2>2, <2>3, <2>4 DEF ProofsRead, Views
  <2> QED
    BY <1>1, <2>4, <2>5, ReadStays DEF Built
<1> QED
    BY <1>2, <1>3, SnapshotAssumption DEF Move, Prune, vars, snapshot

LEMMA ReadStep ==
    ASSUME TypeOK, Sound, MemosTrue, TreeSeen, Read, [Next]_vars
    PROVE  Read'
<1>1. SUFFICES ASSUME ~torn'
               PROVE  OpsRead' /\ FactsRead' /\ ProofsRead'
    BY DEF Read
<1>2. ~torn /\ OpsRead /\ FactsRead /\ ProofsRead
    BY <1>1, TornStays DEF Read
<1>3. ASSUME NEW t \in Threads, Pass(t)
      PROVE  OpsRead' /\ FactsRead' /\ ProofsRead'
  <2>1. UNCHANGED <<seen, facts, views>> /\ Others(t)
    BY <1>3, PassEnvDoes, ListDoes, StoreDoes, PassKeyDoes, PassScanDoes, PassDischargeDoes, PassFoldDoes
    DEF Pass, snapshot, history, Advance
  <2>2. OpRead(op'[t], seen')
    BY <1>2, <1>3, <2>1, PassReads
  <2>3. SeenGrows(seen, seen')
    BY <2>1 DEF SeenGrows
  <2> QED
    BY <1>2, <2>1, <2>2, <2>3, ReadStays DEF Built, ProofsRead
<1> QED
    BY <1>2, <1>3, CallReads, StepReads, OutsideReads DEF Next

-----------------------------------------------------------------------------
(* Drift: two passes, or two proofs, differ only if a part was seen with two  *)
(* contents.                                                                  *)

Motion == \E p \in Parts : \E x \in seen[p] : x # tree[p]

LEMMA MovedIsMotion ==
    ASSUME NEW base, NEW current, NEW over \in SUBSET Subjects, NEW c,
           PassRead(base, over, seen), PassRead(current, over, seen), Moved(base, current, over, c)
    PROVE  Motion
<1>1. ASSUME NEW p \in Parts, NEW x \in seen[p], NEW y \in seen[p], x # y
      PROVE  Motion
    BY <1>1 DEF Motion
<1>2. CASE base.env # current.env
    BY <1>1, <1>2 DEF PassRead, Parts
<1>3. ASSUME NEW s \in over, \/ Source(base, s) # Source(current, s)
                             \/ /\ ~CutHere(base, current, s)
                                /\ \/ SharedState(base, s) # SharedState(current, s)
                                   \/ Discharged(base, s) # Discharged(current, s)
      PROVE  Motion
  <2>1. \/ base.list[s] # current.list[s]
        \/ base.bytes[s] # current.bytes[s]
        \/ base.of[s] # current.of[s]
    BY <1>3 DEF Source, CutHere, SharedState, Discharged
  <2>2. s \in Parts
    BY DEF Parts
  <2>3. /\ base.list[s] \in seen[s] /\ current.list[s] \in seen[s]
        /\ base.bytes[s] \in seen[s] /\ current.bytes[s] \in seen[s]
        /\ base.of[s] \in seen[s] \X seen[s] /\ current.of[s] \in seen[s] \X seen[s]
    BY DEF PassRead
  <2>4. base.of[s] # current.of[s] =>
            base.of[s][1] # current.of[s][1] \/ base.of[s][2] # current.of[s][2]
    BY <2>3
  <2> QED
    BY <1>1, <2>1, <2>2, <2>3, <2>4
<1> QED
    BY <1>2, <1>3 DEF Moved

LEMMA ChangedIsMotion ==
    ASSUME TypeOK, Sound, TreeSeen, OpsRead, FactsRead, ProofsRead, NEW t \in Threads, Step(t)
    PROVE  \/ Motion
           \/ \A w \in Views : verdict'[w] = verdict[w] \/ verdict'[w].outcome # "changed"
<1>0. /\ op[t] \in Ops /\ OpRead(op[t], seen) /\ OpShape(op[t], views)
      /\ op[t].view \in Views /\ op[t].over \subseteq Subjects
    BY DEF TypeOK, OpsRead, Sound, Shape, Ops
<1>1. CASE UNCHANGED verdict
    BY <1>1
<1>2. CASE Constructed(t)
  <2>1. op[t].at = "compare" /\ op[t].kind = "second" /\ op[t].over = Subjects
    BY <1>0, <1>2 DEF Constructed, At, OpShape, Building
  <2>2. PassRead(op[t].first, Subjects, seen) /\ PassRead(op[t].now, Subjects, seen)
    BY <1>0, <2>1, PassIsRead DEF OpRead
  <2>3. Moved(op[t].first, op[t].now, Subjects, TRUE) \/ UNCHANGED verdict
    BY <1>2 DEF Constructed
  <2> QED
    BY <2>2, <2>3, MovedIsMotion
<1>3. ASSUME NEW outcome, Answer(op[t].view, outcome, t),
             outcome = "changed" => Motion
      PROVE  Motion \/ \A w \in Views : verdict'[w] = verdict[w] \/ verdict'[w].outcome # "changed"
    BY <1>0, <1>3, AnswerIs
<1>4. ASSUME op[t].kind \notin Building, op[t].kind # "idle"
      PROVE  PassRead(facts, op[t].over, seen) /\ facts.env \in seen[Env]
  <2>1. Built
    BY <1>4, LaterIsBuilt DEF Sound
  <2> QED
    BY <1>0, <2>1 DEF FactsRead, PassRead
<1>5. ASSUME op[t].kind \notin Building, op[t].kind # "idle", op[t].at = "compare"
      PROVE  Compared(facts, op[t].now, op[t].over) = "changed" => Motion
    BY <1>0, <1>4, <1>5, ComparedIs, PassIsRead, MovedIsMotion
<1>6. CASE BaseCompare(t)
  <2>1. op[t].kind = "base" /\ op[t].at = "compare"
        /\ Answer(op[t].view, Compared(facts, op[t].now, op[t].over), t)
    BY <1>6 DEF BaseCompare, At
  <2> QED
    BY <1>3, <1>5, <2>1 DEF Passing, Building
<1>7. CASE SeedCompare(t)
    BY <1>1, <1>3, <1>5, <1>7, SeedCompareDoes DEF Passing, Building
<1>8. CASE ReproveCompare(t)
    BY <1>1, <1>3, <1>5, <1>8, ReproveCompareDoes DEF Passing, Building
<1>9. CASE Open(t)
  <2>1. op[t].kind \notin Building /\ op[t].kind # "idle"
    BY <1>0, <1>9, OpenDoes DEF OpShape, Proving, Building
  <2>2. facts.env \in seen[Env] /\ tree[Env] \in seen[Env]
    BY <1>4, <2>1 DEF TreeSeen, Parts
  <2>3. tree[Env] # facts.env => Motion
    BY <2>2 DEF Motion, Parts
  <2> QED
    BY <1>1, <1>3, <1>9, <2>1, <2>3, OpenDoes
<1>10. CASE Settle(t)
  <2>1. op[t].at = "settle" /\ Answer(op[t].view, Settled(t), t)
    BY <1>10 DEF Settle, At
  <2>2. op[t].kind = "reprove" /\ DOMAIN op[t].proofs = views[op[t].view].captured
        /\ views[op[t].view].captured \subseteq DOMAIN views[op[t].view].observable
        /\ DOMAIN op[t].proofs \subseteq Subjects
    BY <1>0, <2>1 DEF OpShape, Sound, ViewShape, Passing
  <2>3. ASSUME NEW s \in views[op[t].view].captured,
               ProofCompared(views[op[t].view].observable[s], op[t].proofs[s]) = "changed"
        PROVE  Motion
    <3>1. views[op[t].view].observable[s] \in seen[s] /\ op[t].proofs[s] \in seen[s]
          /\ views[op[t].view].observable[s] # op[t].proofs[s]
      BY <1>0, <2>2, <2>3 DEF ProofCompared, OpRead, ProofsRead, Unavailable
    <3>2. s \in Parts
      BY <2>2 DEF Parts
    <3> QED
      BY <3>1, <3>2 DEF Motion
  <2>4. Settled(t) = "changed" => Motion
    BY <2>3 DEF Settled, Unavailable
  <2> QED
    BY <1>3, <2>1, <2>2, <2>4 DEF Passing, Building
<1>11. CASE ~(Constructed(t) \/ BaseCompare(t) \/ SeedCompare(t) \/ ReproveCompare(t) \/ Open(t) \/ Settle(t))
    BY <1>1, <1>11 DEF Step, ProveKey, ProveLoad, CaptureCompare, CaptureKeep, CaptureMark, Fails, snapshot
<1> QED
    BY <1>2, <1>6, <1>7, <1>8, <1>9, <1>10, <1>11

LEMMA MotionStep ==
    ASSUME TypeOK, Sound, TreeSeen, Read, MotionIsReal, [Next]_vars
    PROVE  MotionIsReal'
<1>1. SUFFICES ASSUME ~torn', NEW w \in Views, verdict'[w].outcome = "changed"
               PROVE  Motion'
    BY DEF MotionIsReal, Motion
<1>2. ~torn /\ OpsRead /\ FactsRead /\ ProofsRead
    BY <1>1, TornStays DEF Read
<1>3. verdict[w].outcome = "changed" => Motion
    BY <1>2 DEF MotionIsReal, Motion
<1>4. UNCHANGED <<tree, seen>> /\ Motion => Motion'
    BY DEF Motion
<1>5. CASE UNCHANGED <<tree, seen, verdict>>
    BY <1>1, <1>3, <1>4, <1>5
<1>6. ASSUME NEW p \in Parts, NEW x \in Versions, Move(p, x)
      PROVE  Motion'
  <2>1. x # tree[p] /\ tree'[p] = x /\ tree[p] \in seen'[p]
    BY <1>6 DEF Move, TreeSeen, TypeOK, Trees
  <2> QED
    BY <2>1 DEF Motion
<1>7. ASSUME NEW t \in Threads, Pass(t)
      PROVE  Motion'
    BY <1>5, <1>7 DEF Pass, PassEnv, List, StoreListing, PassKey, PassScan, PassDischarge, PassFold,
                      snapshot, history
<1>8. ASSUME NEW t \in Threads, Call(t)
      PROVE  Motion'
  <2>1. ~Construct(t)
    BY <1>1 DEF Construct, NoVerdict, Nothing
  <2> QED
    BY <1>5, <1>8, <2>1 DEF Call, Capture, Validate, Attach, snapshot, history
<1>9. ASSUME NEW t \in Threads, Step(t)
      PROVE  Motion'
  <2>1. UNCHANGED <<tree, seen>>
    BY <1>9 DEF Step, Constructed, Open, ProveKey, ProveLoad, CaptureCompare, CaptureKeep, CaptureMark, BaseCompare,
                SeedCompare, ReproveCompare, Settle, Fails, history
  <2> QED
    BY <1>1, <1>2, <1>3, <1>4, <1>9, <2>1, ChangedIsMotion
<1> QED
    BY <1>5, <1>6, <1>7, <1>8, <1>9 DEF Next, Prune, Sibling, vars, snapshot, history

LEMMA ReadInit ==
    Init => MemosTrue /\ TreeSeen /\ Read /\ MotionIsReal
<1> SUFFICES ASSUME Init PROVE MemosTrue /\ TreeSeen /\ Read /\ MotionIsReal
    OBVIOUS
<1>1. MemosTrue /\ TreeSeen /\ MotionIsReal
    BY DEF Init, MemosTrue, TreeSeen, MotionIsReal, NoVerdict, Nothing
<1>2. OpsRead
    BY IdleRead DEF Init, OpsRead
<1>3. FactsRead /\ ProofsRead
    BY Nowhere DEF Init, FactsRead, ProofsRead, Built, Views, NoView
<1> QED
    BY <1>1, <1>2, <1>3 DEF Read

\* Drift is reported only if something moved since the construction began, for
\* any number of callers and moves: neither a cut, a lost proof, a prune nor
\* another caller's work is taken for it (compareObservations, compareObservationProof).
THEOREM MotionReal == Spec => []MotionIsReal
<1> DEFINE I == TypeOK /\ Sound /\ MemosTrue /\ TreeSeen /\ Read /\ MotionIsReal
<1>1. Init => I
    BY SoundInit, ReadInit
<1>2. I /\ [Next]_vars => I'
    BY SoundStep, MemosStep, TreeSeenStep, ReadStep, MotionStep
<1>3. I => MotionIsReal
    OBVIOUS
<1> QED
    BY <1>1, <1>2, <1>3, PTL DEF Spec

-----------------------------------------------------------------------------
(* One instant.                                                               *)

LEMMA KeptStays ==
    ASSUME TypeOK, [Next]_vars, Kept', \A t \in Threads : ~Construct(t)
    PROVE  Kept
<1>1. ~torn
    BY TornStays DEF Kept
<1>2. ASSUME NEW t \in Threads, Pass(t)
      PROVE  ~restored
    BY <1>2 DEF Kept, Pass, PassEnv, List, StoreListing, PassKey, PassScan, PassDischarge, PassFold, history
<1>3. ASSUME NEW t \in Threads, Call(t) \/ Step(t)
      PROVE  ~restored
    BY <1>3, CallsAndStepsKeepMemos DEF Kept
<1>4. ~restored
    BY <1>2, <1>3 DEF Kept, Next, Move, Prune, Sibling, vars, history
<1> QED
    BY <1>1, <1>4 DEF Kept

\* Contents that have not been there are not what was read.
LEMMA OpBetweenStays ==
    ASSUME NEW o \in Ops, NEW v, OpShape(o, v), NEW S, OpRead(o, S), NEW T, NEW U, NEW H,
           OpBetween(o, T, H),
           \A p \in Parts : \A x \in S[p] : x = U[p] => x = T[p],
           o.kind \in (Passing \cup Proving) \ {"first"} => \A p \in Parts : H[p] \in S[p]
    PROVE  OpBetween(o, U, H)
<1> USE DEF Reading, PassSteps, Building, Passing
<1>1. /\ Env \in Parts /\ Subjects \subseteq Parts /\ o.over \subseteq Subjects
      /\ DOMAIN o.now.of \subseteq DOMAIN o.now.list /\ DOMAIN o.now.load \subseteq DOMAIN o.now.list
      /\ DOMAIN o.now.list \subseteq o.over /\ DOMAIN o.proofs \subseteq o.over
    BY DEF Parts, Ops, OpShape
<1>2. ASSUME o.kind = "first"
      PROVE  FirstBetween(o, U)
    BY <1>1, <1>2 DEF OpBetween, FirstBetween, OpRead
<1>3. ASSUME o.kind = "second"
      PROVE  SecondBetween(o, U, H)
    BY <1>1, <1>3 DEF OpBetween, SecondBetween, OpRead, PassRead
<1>4. ASSUME o.kind \in Passing \ Building
      PROVE  LaterBetween(o, U, H)
    BY <1>1, <1>4 DEF OpBetween, LaterBetween
<1>5. ASSUME o.kind \in Proving
      PROVE  ProofsBetween(o, U, H)
    BY <1>1, <1>5 DEF OpBetween, ProofsBetween, Proving
<1> QED
    BY <1>2, <1>3, <1>4, <1>5 DEF OpBetween

LEMMA OutsideInstant ==
    ASSUME TypeOK, Sound, TreeSeen, OpsRead, Instant, Kept',
           \/ \E p \in Parts, x \in Versions : Move(p, x)
           \/ Prune
           \/ \E over \in Scopes : Sibling(over)
           \/ UNCHANGED vars
    PROVE  Instant'
<1>1. CASE UNCHANGED <<tree, seen, op, held, facts, views, verdict>>
    BY <1>1 DEF Instant, OpsBetween, HeldSeen, FactsAre, ProofsAre, VerdictsAre, Built
<1>2. ASSUME NEW p \in Parts, NEW x \in Versions, Move(p, x)
      PROVE  Instant'
  <2>1. /\ tree' = [tree EXCEPT ![p] = x] /\ seen' = [seen EXCEPT ![p] = @ \cup {x}]
        /\ x \notin seen[p] /\ UNCHANGED <<op, held, facts, views, verdict>>
    BY <1>2 DEF Move, Kept, snapshot
  <2>2. \A q \in Parts : \A y \in seen[q] : y = tree'[q] => y = tree[q]
    BY <2>1 DEF TypeOK, Trees
  <2>3. ASSUME NEW t \in Threads
        PROVE  OpBetween(op[t], tree', held)
    <3>1. op[t].kind \in (Passing \cup Proving) \ {"first"} => \A q \in Parts : held[q] \in seen[q]
      BY LaterIsBuilt DEF Instant, HeldSeen, Sound, Passing, Proving, Building
    <3>2. op[t] \in Ops /\ OpShape(op[t], views) /\ OpRead(op[t], seen) /\ OpBetween(op[t], tree, held)
      BY DEF TypeOK, Sound, Shape, OpsRead, Instant, OpsBetween
    <3> QED
      BY <2>2, <3>1, <3>2, OpBetweenStays
  <2>4. HeldSeen'
    BY <2>1 DEF Instant, HeldSeen, Built, TypeOK
  <2> QED
    BY <2>1, <2>3, <2>4 DEF Instant, OpsBetween, FactsAre, ProofsAre, VerdictsAre, Built
<1>3. ASSUME NEW over \in SUBSET Subjects, Sibling(over)
      PROVE  Instant'
  <2> DEFINE v == views["view"]
             r == Restrict(v.observable, over \cap DOMAIN v.observable)
             n == [NoView EXCEPT !.over = over, !.captured = v.captured \cap over, !.observable = r]
  <2>1. views' = [views EXCEPT !["sibling"] = n] /\ UNCHANGED <<tree, seen, op, held, facts, verdict>>
        /\ views["sibling"].over = {}
    BY <1>3 DEF Sibling, history
  <2>2. \A s \in DOMAIN r : s \in DOMAIN v.observable /\ r[s] = v.observable[s]
    BY DEF Restrict
  <2> HIDE DEF r
  <2>3. n.observable = r
    BY DEF NoView
  <2> HIDE DEF n
  <2>4. views'["sibling"] = n /\ views'["view"] = views["view"]
    BY <2>1 DEF TypeOK, Views
  <2>5. ProofsAre'
    BY <2>1, <2>2, <2>3, <2>4 DEF Instant, ProofsAre, Views
  <2>6. VerdictsAre'
    BY <2>1, <2>4 DEF Instant, VerdictsAre, Sound, ViewShape, Views
  <2>7. OpsBetween' /\ HeldSeen' /\ FactsAre'
    BY <2>1, <2>4 DEF Instant, OpsBetween, HeldSeen, FactsAre, Built
  <2> QED
    BY <2>5, <2>6, <2>7 DEF Instant
<1> QED
    BY <1>1, <1>2, <1>3, SnapshotAssumption DEF Prune, vars, snapshot, history

LEMMA OthersBetween ==
    ASSUME OpsBetween, NEW t \in Threads, Others(t), UNCHANGED <<tree, held>>,
           OpBetween(op'[t], tree, held)
    PROVE  OpsBetween'
BY DEF OpsBetween, Others

\* A step of a pass inside its operation.
LEMMA PassBetween ==
    ASSUME TypeOK, Sound, MemosTrue, Instant, ~torn, NEW t \in Threads, Pass(t),
           ~(PassFold(t) /\ op[t].kind = "first")
    PROVE  OpBetween(op'[t], tree, held)
<1> USE DEF Reading, PassSteps, Building, Passing
<1>1. /\ op[t] \in Ops /\ OpShape(op[t], views) /\ OpBetween(op[t], tree, held)
      /\ op[t].over \subseteq Subjects
    BY DEF TypeOK, Sound, Shape, Ops, Instant, OpsBetween
<1>2. CASE PassEnv(t)
  <2> DEFINE n == [op[t].now EXCEPT !.env = tree[Env]]
  <2>1. Advance(t, n, "list") /\ n.env = tree[Env] /\ op[t].at = "env" /\ op[t].kind \notin Proving
        /\ n.list = op[t].now.list /\ n.of = op[t].now.of /\ n.load = op[t].now.load
    BY <1>1, <1>2, PassEnvDoes DEF Ops, Passes, OpShape
  <2> HIDE DEF n
  <2>2. op[t].kind = "second" => SecondBetween(op'[t], tree, held)
    BY <1>1, <2>1 DEF Advance, OpBetween, SecondBetween
  <2>3. op[t].kind \in Passing \ Building => LaterBetween(op'[t], tree, held)
    BY <1>1, <2>1 DEF Advance, OpBetween, LaterBetween, Proven, Parts
  <2> QED
    BY <1>1, <2>1, <2>2, <2>3 DEF Advance, OpBetween, FirstBetween
<1>3. ASSUME NEW s \in Subjects, List(t, s)
      PROVE  OpBetween(op'[t], tree, held)
  <2>1. PICK n \in Passes : \E a \in {"key", "store"} :
          /\ Advance(t, n, a) /\ n.env = op[t].now.env /\ n.of = op[t].now.of
          /\ n.list = Put(op[t].now.list, s, Listing(s, op[t].now.env))
          /\ n.load = op[t].now.load
    BY <1>3, ListDoes
  <2>2. op[t].at = "list" /\ s \notin DOMAIN op[t].now.list
    BY <1>3, ListDoes
  <2>3. Listing(s, op[t].now.env) = tree[s]
    BY ListingIsTree
  <2>4. /\ DOMAIN n.list = DOMAIN op[t].now.list \cup {s} /\ n.list[s] = tree[s]
        /\ \A u \in DOMAIN op[t].now.list : n.list[u] = op[t].now.list[u]
    <3> DEFINE p == Put(op[t].now.list, s, tree[s])
    <3>1. n.list = p
      BY <2>1, <2>3
    <3>2. /\ DOMAIN p = DOMAIN op[t].now.list \cup {s} /\ p[s] = tree[s]
          /\ \A u \in DOMAIN op[t].now.list \ {s} : p[u] = op[t].now.list[u]
      BY DEF Put
    <3> HIDE DEF p
    <3> QED
      BY <2>2, <3>1, <3>2
  <2>5. DOMAIN op[t].now.of \subseteq DOMAIN op[t].now.list
        /\ DOMAIN op[t].now.load \subseteq DOMAIN op[t].now.list
    BY <1>1 DEF OpShape
  <2>6. op[t].kind = "first" => FirstBetween(op'[t], tree)
    BY <1>1, <2>1, <2>4, <2>5 DEF Advance, OpBetween, FirstBetween
  <2>7. op[t].kind = "second" => SecondBetween(op'[t], tree, held)
    BY <1>1, <2>1, <2>2, <2>4 DEF Advance, OpBetween, SecondBetween
  <2>8. op[t].kind \in Passing \ Building => LaterBetween(op'[t], tree, held)
    BY <1>1, <2>1, <2>2 DEF Advance, OpBetween, LaterBetween, Proven
  <2>9. op[t].kind \in Proving => ProofsBetween(op'[t], tree, held)
    BY <1>1, <2>1 DEF Advance, OpBetween, ProofsBetween, Proven
  <2> QED
    BY <2>1, <2>6, <2>7, <2>8, <2>9 DEF Advance, OpBetween
\* what a later step of the pass keeps
<1>4. ASSUME NEW n \in Passes, NEW a \in {"list", "key", "scan", "discharge", "fold", "compare"},
             Advance(t, n, a),
             op[t].at \in {"store", "key", "scan", "discharge", "fold"},
             n.env = op[t].now.env, n.list = op[t].now.list,
             op[t].kind = "first" => FirstBetween(op'[t], tree),
             a = "compare" => \A s \in op[t].over : n.bytes[s] = tree[s]
      PROVE  OpBetween(op'[t], tree, held)
  <2>1. op[t].kind = "second" => SecondBetween(op'[t], tree, held)
    BY <1>1, <1>4 DEF Advance, OpBetween, SecondBetween
  <2>2. op[t].kind \in Passing \ Building => LaterBetween(op'[t], tree, held)
    <3>1. \A s \in op[t].over : s \in Parts
      BY <1>1 DEF Parts
    <3> QED
      BY <1>1, <1>4, <3>1 DEF Advance, OpBetween, LaterBetween, Proven
  <2>3. op[t].kind \in Proving => ProofsBetween(op'[t], tree, held)
    BY <1>1, <1>4 DEF Advance, OpBetween, ProofsBetween, Proven
  <2> QED
    BY <1>4, <2>1, <2>2, <2>3 DEF Advance, OpBetween
<1>5. ASSUME NEW s \in Subjects, StoreListing(t, s)
      PROVE  OpBetween(op'[t], tree, held)
  <2>1. Advance(t, op[t].now, "key") /\ op[t].at = "store" /\ op[t].now \in Passes
    BY <1>1, <1>5, StoreDoes DEF Ops
  <2>2. op[t].kind = "first" => FirstBetween(op'[t], tree)
    BY <1>1, <2>1 DEF Advance, OpBetween, FirstBetween
  <2> QED
    BY <1>4, <2>1, <2>2
<1>6. ASSUME NEW s \in Subjects, PassKey(t, s)
      PROVE  OpBetween(op'[t], tree, held)
  <2>1. PICK n \in Passes : \E a \in {"list", "fold", "scan"} :
          /\ Advance(t, n, a) /\ n.env = op[t].now.env /\ n.list = op[t].now.list
          /\ n.load = op[t].now.load
          /\ \/ n.of = op[t].now.of
             \/ \E x \in Versions \X Versions :
                  /\ n.of = Put(op[t].now.of, s, x)
                  /\ MemosTrue /\ ~torn => x = <<tree[s], tree[s]>>
    BY <1>6, PassKeyDoes
  <2>2. op[t].at = "key"
    BY <1>6, PassKeyDoes
  <2> DEFINE p == Put(op[t].now.of, s, <<tree[s], tree[s]>>)
  <2>3. n.of = op[t].now.of \/ n.of = p
    BY <2>1
  <2>4. ASSUME NEW u \in DOMAIN p
        PROVE  \/ p[u] = <<tree[u], tree[u]>>
               \/ u \in DOMAIN op[t].now.of /\ p[u] = op[t].now.of[u]
    BY PutHas
  <2> HIDE DEF p
  <2>5. op[t].kind = "first" => FirstBetween(op'[t], tree)
    BY <1>1, <2>1, <2>3, <2>4 DEF Advance, OpBetween, FirstBetween
  <2> QED
    BY <1>4, <2>1, <2>2, <2>5
<1>7. CASE PassScan(t)
  <2>1. PICK n \in Passes :
          /\ Advance(t, n, "discharge") /\ n.env = op[t].now.env /\ n.list = op[t].now.list
          /\ n.of = op[t].now.of /\ n.load = [s \in op[t].over \ DOMAIN op[t].now.of |-> tree[s]]
    BY <1>7, PassScanDoes
  <2>2. op[t].at = "scan"
    BY <1>7, PassScanDoes
  <2>3. op[t].kind = "first" => FirstBetween(op'[t], tree)
    BY <1>1, <2>1, <2>2 DEF Advance, FirstBetween, OpBetween
  <2> QED
    BY <1>4, <2>1, <2>2, <2>3
<1>9. CASE PassDischarge(t)
  <2>1. PICK n \in Passes : \E cut :
          /\ Advance(t, n, "fold") /\ n.env = op[t].now.env /\ n.list = op[t].now.list
          /\ n.of = Added(Judgments(op[t].now, cut), op[t].now.of) /\ n.load = <<>>
    BY <1>9, PassDischargeDoes
  <2>2. op[t].at = "discharge" /\ op[t].now \in Passes
    BY <1>1, <1>9, PassDischargeDoes DEF Ops
  <2>3. PICK cut : n.of = Added(Judgments(op[t].now, cut), op[t].now.of)
    BY <2>1
  <2> DEFINE J == Judgments(op[t].now, cut)
  <2>4. /\ DOMAIN J = DOMAIN op[t].now.load
        /\ \A s \in DOMAIN op[t].now.load :
              J[s] \in {<<op[t].now.load[s], tree[s]>>, <<op[t].now.load[s], op[t].now.load[s]>>}
    BY <2>2, JudgmentsAre
  <2>5. n.of = Added(J, op[t].now.of)
    BY <2>3
  <2> HIDE DEF J
  <2>6. /\ DOMAIN n.of = DOMAIN J \cup DOMAIN op[t].now.of
        /\ \A s \in DOMAIN J : n.of[s] = J[s]
        /\ \A s \in DOMAIN op[t].now.of \ DOMAIN J : n.of[s] = op[t].now.of[s]
    <3> DEFINE g == op[t].now.of
    <3>1. n.of = Added(J, g)
      BY <2>5
    <3> HIDE DEF g
    <3>2. /\ DOMAIN Added(J, g) = DOMAIN J \cup DOMAIN g
          /\ \A s \in DOMAIN J : Added(J, g)[s] = J[s]
          /\ \A s \in DOMAIN g \ DOMAIN J : Added(J, g)[s] = g[s]
      BY AddedIs, Zenon
    <3> QED
      BY <3>1, <3>2 DEF g
  <2>7. ASSUME op[t].kind = "first", NEW u \in DOMAIN n.of, n.list[u] = tree[u]
        PROVE  n.of[u] = <<tree[u], tree[u]>>
    <3>1. FirstBetween(op[t], tree)
      BY <1>1, <2>7 DEF OpBetween
    <3>2. CASE u \in DOMAIN J
      <4>1. op[t].now.load[u] = tree[u]
        BY <2>1, <2>4, <2>7, <3>1, <3>2 DEF FirstBetween
      <4> QED
        BY <2>4, <2>6, <3>2, <4>1
    <3>3. CASE u \in DOMAIN op[t].now.of \ DOMAIN J
      BY <2>1, <2>6, <2>7, <3>1, <3>3 DEF FirstBetween
    <3> QED
      BY <2>6, <3>2, <3>3
  <2>8. DOMAIN n.load = {}
    BY <2>1, Nowhere
  <2>9. op[t].kind = "first" => FirstBetween(op'[t], tree)
    BY <2>1, <2>7, <2>8 DEF Advance, FirstBetween
  <2> QED
    BY <1>4, <2>1, <2>2, <2>9
<1>8. CASE PassFold(t)
  <2>1. PICK n \in Passes :
          /\ n.env = op[t].now.env /\ n.list = op[t].now.list
          /\ n.bytes = [s \in op[t].over |-> tree[s]]
          /\ op[t].kind # "first" => Advance(t, n, "compare")
    BY <1>8, PassFoldDoes
  <2>2. op[t].at = "fold"
    BY <1>8, PassFoldDoes
  <2>3. op[t].kind # "first"
    BY <1>8
  <2> QED
    BY <1>4, <2>1, <2>2, <2>3
<1> QED
    BY <1>2, <1>3, <1>5, <1>6, <1>7, <1>8, <1>9 DEF Pass

LEMMA PassInstant ==
    ASSUME TypeOK, Sound, MemosTrue, TreeSeen, Instant, ~torn, NEW t \in Threads, Pass(t)
    PROVE  Instant'
<1> USE DEF Building, Passing
<1>1. /\ Others(t) /\ UNCHANGED <<tree, seen, facts, views, verdict>>
    BY PassEnvDoes, ListDoes, StoreDoes, PassKeyDoes, PassScanDoes, PassDischargeDoes, PassFoldDoes
    DEF Pass, snapshot, history, Advance
<1>2. CASE ~(PassFold(t) /\ op[t].kind = "first")
  <2>1. UNCHANGED held /\ op'[t].kind = op[t].kind
    <3>1. CASE PassFold(t)
      BY <1>2, <3>1, PassFoldDoes DEF Advance
    <3>2. CASE ~PassFold(t)
      BY <3>2, PassEnvDoes, ListDoes, StoreDoes, PassKeyDoes, PassScanDoes, PassDischargeDoes
      DEF Pass, history, Advance
    <3> QED
      BY <3>1, <3>2
  <2>2. OpsBetween'
    BY <1>1, <1>2, <2>1, PassBetween, OthersBetween DEF Instant
  <2>3. HeldSeen'
    BY <1>1, <2>1 DEF Instant, HeldSeen, Built, Others
  <2> QED
    BY <1>1, <2>1, <2>2, <2>3 DEF Instant, FactsAre, ProofsAre, VerdictsAre, Built
<1>3. CASE PassFold(t) /\ op[t].kind = "first"
  <2>1. PICK n \in Passes :
          /\ n.list = op[t].now.list /\ n.of = op[t].now.of
          /\ n.bytes = [s \in op[t].over |-> tree[s]] /\ held' = tree
          /\ op'[t] = [op[t] EXCEPT !.kind = "second", !.at = "env", !.now = NoPass,
                                    !.began = tree, !.first = n]
    BY <1>3, PassFoldDoes
  <2>2. op[t] \in Ops /\ OpShape(op[t], views) /\ FirstBetween(op[t], tree) /\ op[t].at = "fold"
    BY <1>3, PassFoldDoes DEF TypeOK, Sound, Shape, Instant, OpsBetween, OpBetween
  <2>3. op[t].over = Subjects /\ DOMAIN op[t].now.of = Subjects
    BY <1>3, <2>2 DEF OpShape
  <2>4. op'[t].kind = "second" /\ op'[t].at = "env" /\ op'[t].first = n
    BY <2>1, <2>2 DEF Ops
  <2>5. SecondBetween(op'[t], tree, tree)
    <3>1. DOMAIN op'[t].now.list = {}
      BY <2>1, <2>2, Nowhere DEF Ops
    <3> QED
      BY <2>1, <2>2, <2>3, <2>4, <3>1 DEF SecondBetween, FirstBetween, Reading, PassSteps
  <2>6. ~Built /\ \A u \in Threads \ {t} : op'[u].kind = "idle"
    BY <1>1, <1>3 DEF Sound, Alone, Others
  <2>7. \A u \in Threads : OpBetween(op'[u], tree, tree)
    BY <2>4, <2>5, <2>6 DEF OpBetween, Proving
  <2>8. HeldSeen'
    BY <1>1, <2>1 DEF HeldSeen, TreeSeen
  <2>9. \A w \in Views : views[w] = NoView /\ verdict[w].outcome \notin {"valid", Unavailable}
    BY <2>6 DEF Built, Sound, Alone, ViewShape, Views
  <2>10. ProofsAre' /\ VerdictsAre' /\ FactsAre'
    BY <1>1, <2>6, <2>9, Nowhere DEF ProofsAre, VerdictsAre, FactsAre, Built, NoView
  <2> QED
    BY <1>1, <2>1, <2>7, <2>8, <2>10 DEF Instant, OpsBetween
<1> QED
    BY <1>2, <1>3

LEMMA CallInstant ==
    ASSUME TypeOK, Sound, Instant, NEW t \in Threads, Call(t), ~Construct(t)
    PROVE  Instant'
<1> USE DEF Building, Passing
<1>0. UNCHANGED <<tree, seen>>
    BY CallsAndStepsKeepMemos
<1>1. ASSUME NEW w \in Views, Capture(t, w)
      PROVE  Instant'
  <2>1. /\ Others(t) /\ UNCHANGED <<held, facts, views, verdict>>
        /\ DOMAIN op'[t].proofs = {}
        /\ (op'[t].kind = "after" /\ op'[t].at = "mark") \/ op'[t].kind = "capture"
    BY <1>1, CaptureDoes, Nowhere DEF snapshot
  <2>2. OpBetween(op'[t], tree, held)
    BY <2>1 DEF OpBetween, LaterBetween, ProofsBetween, Reading, PassSteps, Proving
  <2>3. OpsBetween'
    BY <1>0, <2>1, <2>2, OthersBetween DEF Instant
  <2>4. HeldSeen'
    BY <1>0, <2>1 DEF Instant, HeldSeen, Built, Others
  <2> QED
    BY <2>1, <2>3, <2>4 DEF Instant, FactsAre, ProofsAre, VerdictsAre, Built
<1>2. ASSUME NEW w \in Views, Validate(t, w)
      PROVE  Instant'
  <2>1. /\ UNCHANGED <<held, facts, verdict>>
        /\ \/ op' = op
           \/ Started(t, IF views[w].captured = {} THEN "base" ELSE "seed", w, views[w].over)
    BY <1>2, ValidateDoes
  <2>2. views' = [views EXCEPT ![w].sealed = TRUE]
    BY <1>2 DEF Validate
  <2>3. \A x \in Views : views'[x].over = views[x].over /\ views'[x].observable = views[x].observable
    BY <2>2 DEF TypeOK, ViewStates
  <2>4. ASSUME Started(t, IF views[w].captured = {} THEN "base" ELSE "seed", w, views[w].over)
        PROVE  OpsBetween' /\ HeldSeen'
    <3>1. Others(t) /\ op'[t].kind \in {"base", "seed"} /\ op'[t].at = "env" /\ op'[t].began = tree
          /\ DOMAIN op'[t].proofs = {}
      BY <2>4, Nowhere DEF Started
    <3>2. OpBetween(op'[t], tree, held)
      BY <3>1 DEF OpBetween, LaterBetween, Reading, PassSteps, Proving
    <3>3. OpsBetween'
      BY <1>0, <2>1, <3>1, <3>2, OthersBetween DEF Instant
    <3> QED
      BY <1>0, <2>1, <2>3, <3>1, <3>3 DEF Instant, HeldSeen, Built, Others, Views
  <2>5. OpsBetween' /\ HeldSeen'
    BY <1>0, <2>1, <2>3, <2>4 DEF Instant, OpsBetween, HeldSeen, Built, Views
  <2> QED
    BY <2>1, <2>3, <2>5 DEF Instant, FactsAre, ProofsAre, VerdictsAre, Built, Views
<1>3. ASSUME NEW w \in Views, NEW s \in Subjects, Attach(t, w, s)
      PROVE  Instant'
  <2>1. UNCHANGED <<facts, op, held, verdict>> /\ views' = [views EXCEPT ![w].attached = @ \cup {s}]
    BY <1>3 DEF Attach, history
  <2>2. \A x \in Views : views'[x].over = views[x].over /\ views'[x].observable = views[x].observable
    BY <2>1 DEF TypeOK, ViewStates
  <2> QED
    BY <1>0, <2>1, <2>2 DEF Instant, OpsBetween, HeldSeen, FactsAre, ProofsAre, VerdictsAre, Built, Views
<1> QED
    BY <1>1, <1>2, <1>3 DEF Call

\* A pass that agrees with the facts agrees with the instant they are of.
LEMMA NotMovedIsHeld ==
    ASSUME TypeOK, Sound, Instant, NEW t \in Threads, op[t].kind \in Passing \ Building,
           op[t].at = "compare", ~Moved(facts, op[t].now, op[t].over, FALSE)
    PROVE  /\ \A p \in op[t].over \cup {Env} : op[t].began[p] = held[p]
           /\ \A s \in DOMAIN op[t].proofs : Proven(op[t], s, held)
<1>1. /\ OpBetween(op[t], tree, held) /\ OpShape(op[t], views) /\ op[t].over \subseteq Subjects
    BY DEF TypeOK, Ops, Sound, Shape, Instant, OpsBetween
<1>2. LaterBetween(op[t], tree, held) /\ DOMAIN op[t].proofs \subseteq op[t].over
    BY <1>1 DEF OpBetween, OpShape
<1>3. Built
    BY LaterIsBuilt DEF Sound, Passing, Building
<1>4. op[t].now.env = held[Env] /\ \A s \in op[t].over : op[t].now.bytes[s] = held[s]
    BY <1>1, <1>3 DEF Instant, FactsAre, Moved, Source
<1> QED
    BY <1>2, <1>4 DEF LaterBetween, Reading, PassSteps

\* Two passes of a construction that agree are of the instant between them.
LEMMA ConstructedInstant ==
    ASSUME TypeOK, Sound, Instant, NEW t \in Threads, Constructed(t)
    PROVE  Instant'
<1>1. /\ op[t].kind = "second" /\ op[t].at = "compare" /\ Becomes(t, Idle)
      /\ UNCHANGED <<tree, seen, held>>
    BY Dropped DEF Constructed, At, Drop
<1>2. op[t] \in Ops /\ SecondBetween(op[t], tree, held)
    BY <1>1 DEF TypeOK, Instant, OpsBetween, OpBetween
<1>3. ~Built /\ \A u \in Threads : op'[u].kind = "idle"
    BY <1>1, IdleIs DEF Sound, Alone, Building, Becomes, Others
<1>4. \A w \in Views : views[w] = NoView /\ verdict[w].outcome \notin {"valid", Unavailable}
    BY <1>3 DEF Built, Sound, Alone, ViewShape, Views
<1>5. OpsBetween' /\ HeldSeen'
    BY <1>1, <1>3 DEF OpsBetween, OpBetween, Instant, HeldSeen, Passing, Proving
<1>6. CASE Moved(op[t].first, op[t].now, Subjects, TRUE)
  <2>1. UNCHANGED views /\ Answer("view", "changed", t)
    BY <1>6 DEF Constructed
  <2>2. \A w \in Views : verdict'[w].outcome \notin {"valid", Unavailable}
    BY <1>4, <2>1, AnswerIs DEF Views, Unavailable
  <2> QED
    BY <1>3, <1>4, <1>5, <2>1, <2>2, Nowhere
    DEF Instant, FactsAre, ProofsAre, VerdictsAre, Built, NoView
<1>7. CASE ~Moved(op[t].first, op[t].now, Subjects, TRUE)
  <2>1. /\ facts' = TakeCut(op[t].first, op[t].now) /\ UNCHANGED verdict
        /\ views' = [views EXCEPT !["view"].over = Subjects]
    BY <1>7 DEF Constructed
  <2>2. op[t].first \in Passes
    BY <1>2 DEF Ops
  <2>3. facts'.env = op[t].first.env /\ facts'.list = op[t].first.list
        /\ facts'.of = op[t].first.of /\ facts'.bytes = op[t].first.bytes
    BY <2>1, <2>2 DEF TakeCut, Passes
  <2>4. op[t].now.env = op[t].first.env
        /\ \A s \in Subjects : op[t].now.list[s] = op[t].first.list[s]
    BY <1>7 DEF Moved, Source
  <2>5. FactsAre'
    <3>1. DOMAIN op[t].now.list = Subjects
      BY <1>1 DEF Sound, Shape, OpShape, Building, Complete
    <3> QED
      BY <1>1, <1>2, <2>3, <2>4, <3>1 DEF FactsAre, SecondBetween, Reading, PassSteps
  <2>6. \A w \in Views : views'[w].observable = views[w].observable
    BY <2>1 DEF TypeOK, ViewStates
  <2>7. ProofsAre' /\ VerdictsAre'
    BY <1>4, <2>1, <2>6, Nowhere DEF ProofsAre, VerdictsAre, NoView
  <2> QED
    BY <1>5, <2>5, <2>7 DEF Instant
<1> QED
    BY <1>6, <1>7

\* A proof, served or made, is of the instant if the tree still is.
LEMMA ProvedBetween ==
    ASSUME TypeOK, Sound, MemosTrue, Instant, ~torn, NEW t \in Threads, NEW s \in Subjects,
           ProveKey(t, s) \/ ProveLoad(t, s)
    PROVE  Others(t) /\ OpBetween(op'[t], tree, held) /\ op'[t].kind # "second"
<1>0. /\ op[t] \in Ops /\ op[t].kind \in Proving /\ OpShape(op[t], views)
      /\ OpBetween(op[t], tree, held)
    BY ProveKeyDoes, ProveLoadDoes DEF TypeOK, Instant, OpsBetween, Sound, Shape, OpShape
<1>1. ProofsBetween(op[t], tree, held)
    BY <1>0 DEF OpBetween
<1>2. PICK n, a, q :
        /\ Proved(t, n, a, q)
        /\ q = op[t].proofs \/ \E x \in {Unavailable, tree[s]} : q = Put(op[t].proofs, s, x)
  <2>1. CASE ProveKey(t, s)
    <3>1. \E n \in Passes : \E a \in {"list", "load"} : \E q \in Proofs :
            /\ Proved(t, n, a, q)
            /\ \/ q = op[t].proofs
               \/ \E x \in Versions :
                    q = Put(op[t].proofs, s, x) /\ (MemosTrue /\ ~torn => x = tree[s])
      BY <2>1, ProveKeyDoes
    <3> QED
      BY <3>1
  <2>2. CASE ProveLoad(t, s)
    <3>1. PICK x \in {Unavailable, tree[s]} : Proved(t, op[t].now, "load", Put(op[t].proofs, s, x))
      BY <2>2, ProveLoadDoes
    <3> QED
      BY <3>1
  <2> QED
    BY <2>1, <2>2
<1>3. ASSUME NEW u \in DOMAIN q, held[u] = tree[u]
      PROVE  q[u] \in {Unavailable, held[u]}
  <2>1. CASE q = op[t].proofs
    BY <1>1, <1>3, <2>1 DEF ProofsBetween, Proven
  <2>2. ASSUME NEW x \in {Unavailable, tree[s]}, q = Put(op[t].proofs, s, x)
        PROVE  q[u] \in {Unavailable, held[u]}
    <3> DEFINE p == Put(op[t].proofs, s, x)
    <3>1. u \in DOMAIN p => (u = s /\ p[u] = x)
                            \/ (u # s /\ u \in DOMAIN op[t].proofs /\ p[u] = op[t].proofs[u])
      BY PutHas
    <3>2. q = p
      BY <2>2
    <3> HIDE DEF p
    <3> QED
      BY <1>1, <1>3, <3>1, <3>2 DEF ProofsBetween, Proven
  <2> QED
    BY <1>2, <2>1, <2>2
<1>4. op'[t].proofs = q /\ Others(t)
    BY <1>2 DEF Proved
<1>5. CASE op'[t].kind = op[t].kind
    BY <1>0, <1>3, <1>4, <1>5 DEF OpBetween, ProofsBetween, Proven, Proving, Passing, Building
<1>6. CASE op'[t].kind \in {"after", "reprove"} /\ op'[t].at = "env" /\ op'[t].began = tree
    BY <1>3, <1>4, <1>6
    DEF OpBetween, LaterBetween, Proven, Proving, Passing, Building, Reading, PassSteps
<1> QED
    BY <1>2, <1>5, <1>6 DEF Proved

\* The steps of a capture and of a validation: what the views hold, and answer.
LEMMA StepInstant ==
    ASSUME TypeOK, Sound, MemosTrue, Instant, ~torn, NEW t \in Threads, Step(t), ~Constructed(t)
    PROVE  Instant'
<1> USE DEF Building, Passing
<1>0. /\ op[t] \in Ops /\ OpShape(op[t], views) /\ OpBetween(op[t], tree, held)
      /\ op[t].view \in Views /\ views[op[t].view] \in ViewStates
      /\ UNCHANGED <<tree, seen, held, facts>>
  <2>1. UNCHANGED <<tree, seen, held, facts>>
    BY DEF Step, Open, ProveKey, ProveLoad, CaptureCompare, CaptureKeep, CaptureMark, BaseCompare,
           SeedCompare, ReproveCompare, Settle, Fails, history, snapshot
  <2> QED
    BY <2>1 DEF TypeOK, Ops, Sound, Shape, Instant, OpsBetween
<1>1. Becomes(t, Idle) => Others(t) /\ OpBetween(op'[t], tree, held) /\ op'[t].kind # "second"
    BY IdleIs DEF Becomes, OpBetween, Proving
<1>2. ASSUME NEW a \in {"keep", "settle"}, NEW n, Advance(t, n, a),
             op[t].kind \in Passing \ Building,
             a = "keep" => \A s \in DOMAIN op[t].proofs : Proven(op[t], s, held),
             a = "settle" => \A p \in op[t].over \cup {Env} : op[t].began[p] = held[p]
      PROVE  Others(t) /\ OpBetween(op'[t], tree, held) /\ op'[t].kind # "second"
    BY <1>2 DEF Advance, OpBetween, LaterBetween, Proven, Reading, PassSteps, Proving
<1>3. ASSUME op[t].kind \in Passing \ Building, op[t].at = "compare",
             Compared(facts, op[t].now, op[t].over) # "changed"
      PROVE  /\ \A p \in op[t].over \cup {Env} : op[t].began[p] = held[p]
             /\ \A s \in DOMAIN op[t].proofs : Proven(op[t], s, held)
  <2>1. ~Moved(facts, op[t].now, op[t].over, FALSE)
    BY <1>3, ComparedIs
  <2> QED
    BY <1>3, <2>1, NotMovedIsHeld
<1>4. Others(t) /\ OpBetween(op'[t], tree, held) /\ op'[t].kind # "second"
  <2>1. CASE CaptureMark(t) \/ BaseCompare(t) \/ Settle(t) \/ Fails(t)
    BY <1>1, <2>1, Dropped DEF CaptureMark, BaseCompare, Settle, Fails, Drop
  <2>2. CASE CaptureCompare(t)
    BY <1>1, <1>2, <1>3, <2>2, CaptureCompareDoes
  <2>3. CASE SeedCompare(t)
    <3>1. op[t].kind = "seed" /\ DOMAIN op[t].proofs = {}
      BY <1>0, <2>3, SeedCompareDoes, Nowhere DEF OpShape
    <3>2. CASE Becomes(t, Idle)
      BY <1>1, <3>2
    <3>3. CASE Others(t) /\ op'[t].kind = "again" /\ op'[t].proofs = op[t].proofs
      BY <3>1, <3>3 DEF OpBetween, ProofsBetween, Proving
    <3> QED
      BY <2>3, <3>2, <3>3, SeedCompareDoes
  <2>4. CASE ReproveCompare(t)
    BY <1>1, <1>2, <1>3, <2>4, ReproveCompareDoes
  <2>5. CASE Open(t)
    <3>1. op[t].kind \in Proving
      BY <1>0, <2>5, OpenDoes DEF OpShape
    <3>2. Advance(t, [op[t].now EXCEPT !.env = tree[Env]], "list") \/ Becomes(t, Idle)
      BY <2>5, OpenDoes
    <3> QED
      BY <1>0, <1>1, <3>1, <3>2 DEF Advance, OpBetween, ProofsBetween, Proven, Proving
  <2>6. ASSUME NEW s \in Subjects, ProveKey(t, s) \/ ProveLoad(t, s)
        PROVE  Others(t) /\ OpBetween(op'[t], tree, held) /\ op'[t].kind # "second"
    BY <2>6, ProvedBetween
  <2>7. CASE CaptureKeep(t)
    <3>1. op[t].at = "keep" /\ op[t].kind = "after"
      BY <1>0, <2>7, CaptureKeepDoes DEF OpShape
    <3>2. CASE Becomes(t, Idle)
      BY <1>1, <3>2
    <3>3. CASE Others(t) /\ op'[t].kind = op[t].kind /\ op'[t].at = "mark" /\ op'[t].proofs = <<>>
      BY <3>1, <3>3 DEF OpBetween, LaterBetween, Reading, PassSteps, Proving
    <3> QED
      BY <2>7, <3>2, <3>3, CaptureKeepDoes
  <2> QED
    BY <2>1, <2>2, <2>3, <2>4, <2>5, <2>6, <2>7 DEF Step
<1>5. OpsBetween'
    BY <1>0, <1>4, OthersBetween DEF Instant
<1>6. /\ \A x \in Views : views'[x].over = views[x].over
      /\ \/ \A x \in Views : views'[x].observable = views[x].observable
         \/ CaptureKeep(t) /\ ~views[op[t].view].sealed
  <2>1. CASE UNCHANGED views
    BY <2>1
  <2>2. CASE CaptureMark(t) /\ ~UNCHANGED views
    <3>1. views' = [views EXCEPT ![op[t].view].captured = op[t].over]
      BY <2>2 DEF CaptureMark
    <3> QED
      BY <1>0, <3>1 DEF TypeOK, ViewStates
  <2>3. CASE CaptureCompare(t) \/ SeedCompare(t)
    <3> DEFINE b == views[op[t].view].unavailable \/ Compared(facts, op[t].now, op[t].over) = Unavailable
    <3>1. views' = [views EXCEPT ![op[t].view].unavailable = b]
      BY <1>0, <2>3 DEF CaptureCompare, SeedCompare, TypeOK, ViewStates
    <3> HIDE DEF b
    <3> QED
      BY <1>0, <3>1, UnavailableViews
  <2>4. CASE CaptureKeep(t) /\ ~UNCHANGED views
    <3> DEFINE f == Added(op[t].proofs, views[op[t].view].observable)
    <3>1. ~views[op[t].view].sealed /\ views' = [views EXCEPT ![op[t].view].observable = f]
      BY <1>0, <2>4 DEF CaptureKeep, TypeOK, ViewStates
    <3> HIDE DEF f
    <3> QED
      BY <1>0, <2>4, <3>1 DEF TypeOK, ViewStates
  <2> QED
    BY <2>1, <2>2, <2>3, <2>4 DEF Step, Open, ProveKey, ProveLoad, BaseCompare, ReproveCompare, Settle, Fails, snapshot
<1>7. ProofsAre'
  <2>1. CASE \A x \in Views : views'[x].observable = views[x].observable
    BY <1>0, <2>1 DEF Instant, ProofsAre
  <2>2. CASE CaptureKeep(t) /\ ~views[op[t].view].sealed
    <3> DEFINE w == op[t].view
               f == Added(op[t].proofs, views[w].observable)
    <3>1. views' = [views EXCEPT ![w].observable = f]
      BY <1>0, <2>2 DEF CaptureKeep, TypeOK, ViewStates
    <3>2. op[t].at = "keep" /\ op[t].kind = "after"
      BY <1>0, <2>2, CaptureKeepDoes DEF OpShape
    <3>3. \A s \in DOMAIN f : f[s] \in {Unavailable, held[s]}
      BY <1>0, <3>2 DEF Added, OpBetween, LaterBetween, Proven, Instant, ProofsAre
    <3> HIDE DEF f
    <3>4. views'[w].observable = f /\ \A x \in Views \ {w} : views'[x] = views[x]
      BY <1>0, <3>1 DEF TypeOK, ViewStates
    <3> QED
      BY <1>0, <3>3, <3>4 DEF Instant, ProofsAre
  <2> QED
    BY <1>6, <2>1, <2>2
<1>8. VerdictsAre'
  <2>1. CASE UNCHANGED verdict
    BY <1>0, <1>6, <2>1 DEF Instant, VerdictsAre
  <2>2. ASSUME NEW outcome, Answer(op[t].view, outcome, t), op[t].kind \in Passing \ Building,
               outcome = "changed" \/ \A p \in op[t].over \cup {Env} : op[t].began[p] = held[p]
        PROVE  VerdictsAre'
    <3>1. op[t].over = views[op[t].view].over
      BY <1>0, <2>2 DEF OpShape
    <3>2. /\ verdict'[op[t].view].outcome = outcome /\ verdict'[op[t].view].began = op[t].began
          /\ \A x \in Views \ {op[t].view} : verdict'[x] = verdict[x]
      BY <1>0, <2>2, AnswerIs
    <3> QED
      BY <1>0, <1>6, <2>2, <3>1, <3>2 DEF Instant, VerdictsAre, Unavailable
  <2>3. CASE BaseCompare(t)
    <3>1. op[t].kind = "base" /\ op[t].at = "compare"
          /\ Answer(op[t].view, Compared(facts, op[t].now, op[t].over), t)
      BY <2>3 DEF BaseCompare, At
    <3> QED
      BY <1>3, <2>2, <3>1
  <2>4. CASE Settle(t)
    <3>1. op[t].at = "settle" /\ Answer(op[t].view, Settled(t), t)
      BY <2>4 DEF Settle, At
    <3>2. op[t].kind = "reprove"
      BY <1>0, <3>1 DEF OpShape
    <3>3. \A p \in op[t].over \cup {Env} : op[t].began[p] = held[p]
      BY <1>0, <3>1, <3>2 DEF OpBetween, LaterBetween
    <3> QED
      BY <2>2, <3>1, <3>2, <3>3
  <2>5. CASE Open(t)
    <3>1. UNCHANGED verdict \/ Answer(op[t].view, "changed", t)
      BY <2>5, OpenDoes
    <3>2. Answer(op[t].view, "changed", t) =>
             /\ verdict'[op[t].view].outcome = "changed"
             /\ \A x \in Views \ {op[t].view} : verdict'[x] = verdict[x]
      BY <1>0, AnswerIs
    <3> QED
      BY <1>0, <1>6, <2>1, <3>1, <3>2 DEF Instant, VerdictsAre, Unavailable
  <2>6. CASE SeedCompare(t)
    BY <2>1, <2>2, <2>6, SeedCompareDoes
  <2>7. CASE ReproveCompare(t)
    BY <2>1, <2>2, <2>7, ReproveCompareDoes
  <2> QED
    BY <2>1, <2>3, <2>4, <2>5, <2>6, <2>7
    DEF Step, ProveKey, ProveLoad, CaptureCompare, CaptureKeep, CaptureMark, Fails, snapshot
<1>9. HeldSeen' /\ FactsAre'
    BY <1>0, <1>4, <1>6 DEF Instant, HeldSeen, FactsAre, Built, Others, Views
<1> QED
    BY <1>5, <1>7, <1>8, <1>9 DEF Instant

\* A construction begins another life: what was remembered is of no snapshot.
LEMMA ConstructInstant ==
    ASSUME TypeOK, Sound, NEW t \in Threads, Construct(t)
    PROVE  Instant'
<1>1. /\ views["view"].over = {} /\ \A u \in Threads : op[u].kind = "idle"
      /\ verdict' = [v \in Views |-> NoVerdict] /\ UNCHANGED <<views, facts, held>>
    BY DEF Construct
<1>2. Others(t) /\ op'[t].kind = "first" /\ op'[t].at = "env"
    BY ConstructDoes DEF Started
<1>3. ~Built /\ ~Built' /\ \A u \in Threads : op'[u].kind \in {"idle", "first"} /\ op'[u].kind # "second"
    BY <1>1, <1>2 DEF Built, Others
<1>4. \A u \in Threads : op'[u].kind = "first" => op'[u].at = "env"
    BY <1>1, <1>2 DEF Others
<1>5. OpsBetween' /\ HeldSeen'
  <2>1. \A u \in Threads : op'[u].kind = "first" => DOMAIN op'[u].now.of = {} /\ DOMAIN op'[u].now.load = {}
    BY <1>1, <1>2, Nowhere, ConstructDoes DEF Started, Others
  <2> QED
    BY <1>3, <2>1 DEF OpsBetween, HeldSeen, OpBetween, FirstBetween, Passing, Proving, Building
<1>6. \A w \in Views : DOMAIN views'[w].observable = {}
    BY <1>1, <1>3, Nowhere DEF Sound, Alone, ViewShape, NoView, Views, Built
<1> QED
    BY <1>1, <1>3, <1>5, <1>6
    DEF Instant, FactsAre, ProofsAre, VerdictsAre, NoVerdict, Nothing, Unavailable

LEMMA HeldStep ==
    ASSUME TypeOK, Sound, MemosTrue, TreeSeen, Read, Held, [Next]_vars
    PROVE  Held'
<1>1. SUFFICES ASSUME Kept' PROVE Instant'
    BY DEF Held
<1>2. ASSUME NEW t \in Threads, Construct(t)
      PROVE  Instant'
    BY <1>2, ConstructInstant
<1>3. ASSUME \A t \in Threads : ~Construct(t)
      PROVE  Instant'
  <2>1. Kept /\ Instant /\ ~torn /\ OpsRead
    BY <1>1, <1>3, KeptStays DEF Kept, Held, Read
  <2>2. ASSUME NEW t \in Threads, Pass(t)
        PROVE  Instant'
    BY <2>1, <2>2, PassInstant
  <2>3. ASSUME NEW t \in Threads, Call(t)
        PROVE  Instant'
    BY <1>3, <2>1, <2>3, CallInstant
  <2>4. ASSUME NEW t \in Threads, Step(t)
        PROVE  Instant'
    BY <2>1, <2>4, StepInstant, ConstructedInstant
  <2>5. CASE \/ \E p \in Parts, x \in Versions : Move(p, x)
             \/ Prune
             \/ \E over \in Scopes : Sibling(over)
             \/ UNCHANGED vars
    BY <1>1, <2>1, <2>5, OutsideInstant
  <2> QED
    BY <2>2, <2>3, <2>4, <2>5 DEF Next
<1> QED
    BY <1>2, <1>3

LEMMA HeldInit ==
    Init => Held
<1> SUFFICES ASSUME Init PROVE Instant
    BY DEF Held
<1>1. /\ \A t \in Threads : op[t].kind = "idle"
      /\ \A w \in Views : views[w].over = {} /\ DOMAIN views[w].observable = {}
      /\ \A w \in Views : verdict[w].outcome = Nothing
    BY IdleIs, Nowhere DEF Init, NoView, NoVerdict
<1> QED
    BY <1>1 DEF Instant, OpsBetween, OpBetween, HeldSeen, FactsAre, ProofsAre, VerdictsAre, Built, Views,
                Passing, Proving, Building, Nothing, Unavailable

\* The invariant: shapes, what was read, and the instant of the construction.
IInv == TypeOK /\ Sound /\ MemosTrue /\ TreeSeen /\ Read /\ Held

LEMMA Inductive ==
    Spec => []IInv
<1>1. Init => IInv
    BY SoundInit, ReadInit, HeldInit DEF IInv
<1>2. IInv /\ [Next]_vars => IInv'
    BY SoundStep, MemosStep, TreeSeenStep, ReadStep, HeldStep DEF IInv
<1> QED
    BY <1>1, <1>2, PTL DEF Spec

\* What a snapshot records was true at one instant between its two passes,
\* although guards, listings, bytes and judgments were read one by one and some
\* served from memos other passes filled (newViewFor, observeView).
THEOREM FactsHeld == Spec => []FactsHeldAtOneInstant
<1>1. IInv => FactsHeldAtOneInstant
    BY DEF IInv, Held, Instant, FactsAre, FactsHeldAtOneInstant, Source
<1> QED
    BY <1>1, Inductive, PTL

\* A proof that a view or its sibling holds was derived from the sources the
\* facts record, whoever proved it and whatever moved meanwhile
\* (ensureObservable: the closing pass brackets the proof).
THEOREM ProofsHeld == Spec => []ProofIsOfTheFacts
<1>1. IInv => ProofIsOfTheFacts
    BY DEF IInv, Held, Instant, ProofsAre, ProofIsOfTheFacts
<1> QED
    BY <1>1, Inductive, PTL

\* A validation that reports no motion began its last pass in the very tree of
\* the construction: valid and unavailable both vouch for it (Validate,
\* validateObserved).
THEOREM ValidationRight == Spec => []ValidationHeld
<1>1. IInv => ValidationHeld
    BY DEF IInv, Held, Instant, VerdictsAre, ValidationHeld
<1> QED
    BY <1>1, Inductive, PTL

=============================================================================
