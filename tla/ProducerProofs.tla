--------------------------- MODULE ProducerProofs ---------------------------
(* Proofs about one producing process and the movements around it, for any    *)
(* paths, any number of operations and of movements. A time is never used     *)
(* twice, so a path that is as it was at the capture was not moved since, or  *)
(* is absent at both ends (Changes); what was read or digested is what lies   *)
(* there now unless the path or what it leads to has changed, and a path      *)
(* absent at both ends held nothing but what the process minted (Reads,       *)
(* Digested). The second look at the bracket then says which of these hold.   *)
EXTENDS Producer, TLAPS

OwnNode == <<"file", "own", 0>>
Quiet == {Absent, OwnNode}
Line == {l \in [op : {"open", "stat", "chdir"}, path : Paths \cup {Package}, strayed : BOOLEAN] :
            l.op = "chdir" => l.path = Package}
IsNode(n, t) == n = Absent \/ (n = <<n[1], n[2], n[3]>> /\ n[3] \in 0..t /\ Foreign(n[1], n[2]))

Sound ==
    /\ phase \in {"new", "running", "classify", "digest", "done"}
    /\ clock \in Nat /\ restored \in BOOLEAN
    /\ fs = [p \in Paths |-> fs[p]] /\ began = [p \in Paths |-> began[p]] /\ changed \subseteq Paths
    /\ \A p \in Paths : (fs[p] = OwnNode \/ IsNode(fs[p], clock)) /\ IsNode(began[p], clock)
    /\ phase \in {"new", "running"} => entries = << >> /\ next = 1 /\ reasons = {}
    /\ phase = "new" => seen = {} /\ changed = {} /\ began = fs
    /\ DOMAIN entries \subseteq (Paths \cup {Package}) \ Silenced
    /\ \A p \in DOMAIN entries : /\ DOMAIN entries[p] = {"metadata", "digest", "taken"}
                                 /\ entries[p].metadata \in BOOLEAN /\ entries[p].taken \in BOOLEAN
    /\ next \in Nat \ {0} /\ log \in Seq(Line)
Changes ==
    \A p \in Paths :
        /\ p \notin changed => fs[p] = began[p]
        /\ p \in changed /\ began[p] # Absent => fs[p] = Absent \/ fs[p][3] > began[p][3]
BracketIs ==
    phase # "new" =>
        /\ \A m \in bracket.members : m \in Watched /\ began[m] # Absent
        /\ bracket.complete => \A m \in Watched : began[m] # Absent => m \in bracket.members
        /\ \A m \in DOMAIN bracket.types : m \in Watched /\ bracket.types[m] = began[m][1]
        /\ \A m \in DOMAIN bracket.full : m \in Watched /\ bracket.full[m] = began[m]
        /\ ~bracket.reason => bracket.complete /\ bracket.members \subseteq DOMAIN bracket.full

\* q is p, or what p has led to all along.
Via(p, q) == q = p \/ (p \notin changed /\ q = Resolved(p))
ValueIs(p, v) ==
    /\ p \in changed \/ Resolved(p) \in changed \/ v = Object(p)
    /\ ~restored => \A q \in Paths : Via(p, q) /\ began[q] = Absent /\ fs[q] \in Quiet => v \in Quiet
    /\ Place[p] = "temp" /\ fs[p] \in Quiet => v \in Quiet
NamesAre(v) ==
    /\ v \subseteq Watched
    /\ \A m \in Watched :
          /\ m \notin changed => (m \in v <=> began[m] # Absent)
          /\ ~restored /\ began[m] = Absent /\ fs[m] \in Quiet => m \notin v
Logged(r) == \E i \in 1..Len(log) : log[i].path = r.path /\ (r.stat => log[i].op = "stat")
Reads ==
    \A r \in seen :
        /\ r.path \in Paths \cup {Package} /\ r.stat \in BOOLEAN /\ Logged(r)
        /\ IF r.path = Package THEN NamesAre(r.value) ELSE ValueIs(r.path, r.value)

\* A line is recorded, or no input of the process.
Recorded(line) ==
    /\ line.path \in DOMAIN entries
    /\ line.op = "stat" => entries[line.path].metadata \/ line.path \in bound
LeftOut(p) ==
    /\ p # Package
    /\ p \in Silenced \/ Place[p] = "guard" \/ \A r \in seen : r.path = p => r.value \in Quiet
Classified ==
    reasons = {} /\ ~restored =>
        \A i \in 1..Len(log) : \A line \in {log[i]} : i < next => Recorded(line) \/ LeftOut(line.path)
Covered ==
    phase \in {"digest", "done"} /\ reasons = {} =>
        \A p \in DOMAIN entries \ (bound \cup {Package}) :
            p \in Watched /\ (p \notin changed => Resolved(p) \in Watched)

DigestIs(p, metadata, d) ==
    /\ p \in changed \/ Resolved(p) \in changed \/ d = Digest(p, metadata)
    /\ ~restored => \A q \in Paths : Via(p, q) /\ began[q] = Absent /\ fs[q] = Absent => d = Absent
ListingIs(d) ==
    \A m \in Watched :
        /\ m \notin changed => ((\E e \in d[2] : e[1] = m) <=> began[m] # Absent)
        /\ ~restored /\ began[m] = Absent /\ fs[m] = Absent => ~\E e \in d[2] : e[1] = m
Digested ==
    \A p \in DOMAIN entries : \A e \in {entries[p]} : e.taken =>
        /\ phase \in {"digest", "done"}
        /\ IF p = Package THEN ListingIs(e.digest) ELSE DigestIs(p, e.metadata, e.digest)
Ended ==
    /\ phase = "digest" => next > Len(log)
    /\ phase = "done" /\ final # Incomplete =>
        /\ next > Len(log) /\ \A p \in DOMAIN entries : entries[p].taken
        /\ final.entries = entries /\ final.bound = bound /\ reasons \subseteq final.reasons
        /\ final.moved => changed \cap Watched # {}
        /\ ~final.moved => /\ final.look.complete => bracket.members \subseteq Present
                           /\ bracket.complete => \A m \in final.look.members : began[m] # Absent
        /\ final.look.members \subseteq Watched
        /\ ~final.moved /\ final.reasons = {} => \A m \in Watched : fs[m] = began[m]
IInv ==
    /\ Sound /\ Changes /\ BracketIs /\ Reads /\ Classified /\ Covered /\ Digested /\ Ended

-----------------------------------------------------------------------------
(* Nodes, and the second look.                                                *)

LEMMA NodeIs ==
    ASSUME NEW a, NEW b, NEW c
    PROVE  /\ <<a, b, c>> # Absent /\ <<a, b, c>>[1] = a /\ <<a, b, c>>[2] = b /\ <<a, b, c>>[3] = c
           /\ Undated(<<a, b, c>>) = <<a, b>>
<1>1. <<a, b, c>> # Absent
    BY DEF Absent
<1> QED
    BY <1>1 DEF Undated

LEMMA OwnIs ==
    /\ OwnNode # Absent /\ OwnNode[2] = "own" /\ OwnNode[1] = "file" /\ OwnNode[3] = 0
    /\ Undated(OwnNode) = <<"file", "own">> /\ Undated(Absent) = Absent /\ Absent # <<"file", "own">>
BY NodeIs DEF OwnNode, Undated, Absent

LEMMA ForeignNode ==
    ASSUME NEW n, NEW t, IsNode(n, t), n # Absent
    PROVE  /\ n = <<n[1], n[2], n[3]>> /\ n[2] # "own" /\ n # OwnNode /\ Undated(n) = <<n[1], n[2]>>
           /\ Undated(n) # <<"file", "own">> /\ n[1] \in {"file", "link"} /\ n[3] \in 0..t
           /\ n[1] = "link" => n[2] \in Paths
<1>1. n = <<n[1], n[2], n[3]>> /\ n[2] # "own" /\ n[1] \in {"file", "link"} /\ n[3] \in 0..t
      /\ (n[1] = "link" => n[2] \in Paths) /\ Undated(n) = <<n[1], n[2]>>
    BY DEF IsNode, Foreign, Undated
<1>2. <<n[1], n[2]>> # <<"file", "own">>
    BY <1>1
<1> QED
    BY <1>1, <1>2, OwnIs

LEMMA WatchedIs ==
    Watched \subseteq Paths /\ Package \notin Watched /\ \A m \in Watched : Place[m] \in Inside
BY ProducerAssumption DEF Watched, Members, Inside

LEMMA ResolvedIs ==
    ASSUME Sound, NEW p \in Paths
    PROVE  /\ Resolved(p) \in Paths
           /\ fs[p] \in Quiet => Resolved(p) = p
           /\ Resolved(p) # p => fs[p] # Absent /\ fs[p][1] = "link"
<1>1. fs[p] = OwnNode \/ IsNode(fs[p], clock)
    BY DEF Sound
<1>2. CASE fs[p] \in Quiet
    BY <1>2, OwnIs DEF Resolved, Quiet
<1>3. CASE fs[p] \notin Quiet
    BY <1>1, <1>3, ForeignNode DEF Resolved, Quiet
<1> QED
    BY <1>2, <1>3 DEF Resolved

\* A walk names what is there, all of it when its listing is complete, and
\* knows of it what is so.
LEMMA WalkIs ==
    ASSUME NEW now \in Walks
    PROVE  /\ \A m \in now.members : m \in Watched /\ fs[m] # Absent
           /\ now.complete => \A m \in Watched : fs[m] # Absent => m \in now.members
           /\ \A m \in DOMAIN now.types : m \in Watched /\ now.types[m] = fs[m][1]
           /\ \A m \in DOMAIN now.full : m \in Watched /\ now.full[m] = fs[m]
           /\ ~now.reason => now.complete /\ now.members \subseteq DOMAIN now.full
           /\ now.complete \in BOOLEAN
<1>1. PICK complete \in BOOLEAN, named \in SUBSET Present, unread \in SUBSET Watched :
         now = Facts(complete, named, unread) /\ (complete => named = Present)
  <2>1. PICK unread \in {{}} \cup {{m} : m \in Watched} :
             now \in {Facts(TRUE, Present, unread)} \cup {Facts(FALSE, named, unread) : named \in SUBSET Present}
    BY DEF Walks
  <2>2. unread \in SUBSET Watched
    BY <2>1
  <2>3. CASE now = Facts(TRUE, Present, unread)
    BY <2>2, <2>3
  <2>4. CASE now \in {Facts(FALSE, named, unread) : named \in SUBSET Present}
    <3>1. PICK named \in SUBSET Present : now = Facts(FALSE, named, unread)
      BY <2>4
    <3> QED
      BY <2>2, <3>1
  <2> QED
    BY <2>1, <2>3, <2>4
<1> DEFINE it == Facts(complete, named, unread)
<1>2. /\ it.members = named /\ it.complete = complete
      /\ DOMAIN it.types = named /\ \A m \in named : it.types[m] = fs[m][1]
      /\ DOMAIN it.full = named \ unread /\ \A m \in named \ unread : it.full[m] = fs[m]
      /\ it.reason <=> ~complete \/ named \cap unread # {}
    BY DEF Facts
<1>3. now = it
    BY <1>1
<1> HIDE DEF it
<1>4. \A m \in named : m \in Watched /\ fs[m] # Absent
    BY DEF Present
<1>5. ~now.reason => complete /\ named \subseteq named \ unread
    BY <1>2, <1>3
<1> QED
    BY <1>1, <1>2, <1>3, <1>4, <1>5 DEF Present

\* A bracket that is not contradicted, and a second look that could read all:
\* what is watched is as it was at the capture.
LEMMA Standing ==
    ASSUME BracketIs, phase # "new", NEW now \in Walks,
           ~Contradicts(bracket, now), ~bracket.reason, ~now.reason, NEW m \in Watched
    PROVE  fs[m] = began[m]
<1>1. now.complete /\ bracket.complete
    BY WalkIs DEF BracketIs
<1>2. /\ bracket.members \subseteq now.members /\ now.members \subseteq bracket.members
      /\ \A q \in DOMAIN bracket.full \cap DOMAIN now.full : bracket.full[q] = now.full[q]
    BY <1>1 DEF Contradicts
<1>3. CASE fs[m] = Absent
    BY <1>1, <1>2, <1>3, WalkIs DEF BracketIs
<1>4. CASE fs[m] # Absent
  <2>1. m \in now.members /\ m \in DOMAIN now.full
    BY <1>1, <1>4, WalkIs
  <2>2. m \in DOMAIN bracket.full
    BY <1>2, <2>1 DEF BracketIs
  <2> QED
    BY <1>2, <2>1, <2>2, WalkIs DEF BracketIs
<1> QED
    BY <1>3, <1>4

\* What two looks contradict each other in was changed.
LEMMA Moved ==
    ASSUME BracketIs, Changes, phase # "new", NEW now \in Walks, Contradicts(bracket, now)
    PROVE  changed \cap Watched # {}
<1> SUFFICES ASSUME changed \cap Watched = {} PROVE FALSE
    OBVIOUS
<1>1. \A m \in Watched : fs[m] = began[m]
    BY WatchedIs DEF Changes
<1>2. /\ bracket.complete => now.members \subseteq bracket.members
      /\ now.complete => bracket.members \subseteq now.members
    BY <1>1, WalkIs DEF BracketIs
<1>3. /\ \A m \in DOMAIN bracket.types \cap DOMAIN now.types : bracket.types[m] = now.types[m]
      /\ \A m \in DOMAIN bracket.full \cap DOMAIN now.full : bracket.full[m] = now.full[m]
    BY <1>1, WalkIs DEF BracketIs
<1> QED
    BY <1>2, <1>3 DEF Contradicts

-----------------------------------------------------------------------------
(* What a change of the file system after the capture does.                   *)

Disturbs(p, node) ==
    /\ fs' = [fs EXCEPT ![p] = node] /\ changed' = changed \cup {p}
    /\ UNCHANGED <<phase, bracket, log, made, seen, began>> /\ phase \notin {"new", "done"}
    /\ restored => restored'
    /\ \/ \* by others
          /\ node # Absent /\ clock' = clock + 1 /\ IsNode(node, clock') /\ node[3] = clock'
       \/ /\ node = Absent /\ Place[p] # "temp" /\ clock' = clock + 1
          /\ began[p] = Absent \/ p \in changed => restored'
       \/ \* by the process
          /\ node = OwnNode /\ phase = "running" /\ fs[p] = Absent /\ p \notin changed /\ clock' = clock
       \/ /\ node = Absent /\ phase = "running" /\ clock' = clock
          /\ fs[p] = OwnNode \/ (Place[p] = "namespace" /\ began[p] # Absent)

\* What a path becomes by a turn of others.
Turned(t) == IF t[1] = "gone" THEN Absent ELSE <<t[1], t[2], clock + 1>>

LEMMA MoveDoes ==
    ASSUME Sound, NEW p \in Paths, NEW t \in Turns[p], Move(p, t[1], t[2])
    PROVE  /\ fs' = [fs EXCEPT ![p] = Turned(t)] /\ IsNode(Turned(t), clock')
           /\ Turned(t) # Absent => Turned(t)[3] = clock'
           /\ Turned(t) = Absent => Place[p] # "temp"
           /\ restored' = (restored \/ (Turned(t) = Absent /\ phase # "new" /\ (began[p] = Absent \/ p \in changed)))
           /\ clock' = clock + 1 /\ clock \in Nat /\ restored' \in BOOLEAN
           /\ changed' = IF phase = "new" THEN changed ELSE changed \cup {p}
           /\ began' = IF phase = "new" THEN fs' ELSE began
           /\ phase # "done" /\ UNCHANGED <<phase, bracket, log, made, seen>>
<1>1. /\ fs' = [fs EXCEPT ![p] = Turned(t)] /\ clock' = clock + 1 /\ clock \in Nat
      /\ restored' = (restored \/ (Turned(t) = Absent /\ phase # "new" /\ (began[p] = Absent \/ p \in changed)))
      /\ changed' = IF phase = "new" THEN changed ELSE changed \cup {p}
      /\ began' = IF phase = "new" THEN fs' ELSE began
      /\ phase # "done" /\ UNCHANGED <<phase, bracket, log, made, seen>>
    BY DEF Move, Sound, Turned
<1>2. IF t[1] = "gone" THEN Place[p] # "temp" ELSE Foreign(t[1], t[2])
    BY ProducerAssumption
<1>3. restored' \in BOOLEAN
    BY <1>1 DEF Sound
<1>4. CASE t[1] = "gone"
    BY <1>1, <1>2, <1>3, <1>4 DEF IsNode, Turned
<1>5. CASE t[1] # "gone"
  <2>1. Turned(t) = <<t[1], t[2], clock + 1>> /\ Turned(t) # Absent
        /\ Turned(t)[1] = t[1] /\ Turned(t)[2] = t[2] /\ Turned(t)[3] = clock + 1
    BY <1>5, NodeIs DEF Turned
  <2>2. IsNode(Turned(t), clock + 1)
    BY <1>1, <1>2, <1>5, <2>1 DEF IsNode
  <2> QED
    BY <1>1, <1>3, <2>1, <2>2
<1> QED
    BY <1>4, <1>5

LEMMA Disturbing ==
    ASSUME Sound, NEW p \in Paths, phase # "new",
           (\E t \in Turns[p] : Move(p, t[1], t[2])) \/ Mint(p) \/ Drop(p)
    PROVE  \E node : Disturbs(p, node) /\ restored' \in BOOLEAN
<1>1. ASSUME NEW t \in Turns[p], Move(p, t[1], t[2])
      PROVE  Disturbs(p, Turned(t)) /\ restored' \in BOOLEAN
  <2>1. /\ fs' = [fs EXCEPT ![p] = Turned(t)] /\ IsNode(Turned(t), clock')
        /\ Turned(t) # Absent => Turned(t)[3] = clock'
        /\ Turned(t) = Absent => Place[p] # "temp"
        /\ clock' = clock + 1 /\ restored' \in BOOLEAN
        /\ changed' = changed \cup {p} /\ began' = began
        /\ phase # "done" /\ UNCHANGED <<phase, bracket, log, made, seen>>
    BY <1>1, MoveDoes
  <2>2. (restored => restored') /\ (Turned(t) = Absent /\ (began[p] = Absent \/ p \in changed) => restored')
    BY <1>1, MoveDoes
  <2> QED
    BY <2>1, <2>2 DEF Disturbs
<1>2. CASE Mint(p)
    BY <1>2 DEF Mint, Disturbs, OwnNode, Sound
<1>3. CASE Drop(p)
  <2>1. Undated(fs[p]) = <<"file", "own">> => fs[p] = OwnNode
    BY <1>3, ForeignNode DEF Sound, Drop
  <2> QED
    BY <1>3, <2>1 DEF Drop, Disturbs, Sound
<1> QED
    BY <1>1, <1>2, <1>3

LEMMA DisturbedIs ==
    ASSUME Sound, Changes, NEW p \in Paths, NEW node, Disturbs(p, node)
    PROVE  /\ \A q \in Paths : fs'[q] = IF q = p THEN node ELSE fs[q]
           /\ \A q \in Paths : q \notin changed' => q \notin changed /\ fs'[q] = fs[q]
           /\ \A q \in Paths : ~restored' /\ began[q] = Absent /\ fs'[q] \in Quiet => fs[q] \in Quiet
           /\ \A q \in Paths : ~restored' /\ began[q] = Absent /\ fs'[q] = Absent =>
                 fs[q] = Absent \/ phase = "running"
           /\ \A q \in Paths : Place[q] = "temp" /\ fs'[q] \in Quiet => fs[q] \in Quiet
<1>1. \A q \in Paths : fs'[q] = IF q = p THEN node ELSE fs[q]
    BY DEF Disturbs, Sound
<1>2. changed' = changed \cup {p}
    BY DEF Disturbs
<1>3. /\ ~restored' /\ began[p] = Absent /\ node \in Quiet => fs[p] \in Quiet
      /\ ~restored' /\ began[p] = Absent /\ node = Absent => fs[p] = Absent \/ phase = "running"
      /\ Place[p] = "temp" /\ node \in Quiet => fs[p] \in Quiet
    BY ForeignNode, OwnIs DEF Disturbs, Quiet
<1> QED
    BY <1>1, <1>2, <1>3

LEMMA DisturbedSound ==
    ASSUME Sound, Changes, NEW p \in Paths, NEW node, Disturbs(p, node), restored' \in BOOLEAN
    PROVE  Sound' /\ Changes'
<1>1. /\ \A q \in Paths : fs'[q] = IF q = p THEN node ELSE fs[q]
      /\ fs' = [q \in Paths |-> fs'[q]] /\ clock' \in {clock, clock + 1} /\ clock \in Nat
      /\ changed' = changed \cup {p} /\ began' = began /\ changed \subseteq Paths
      /\ phase # "new" /\ UNCHANGED <<phase, bracket, log, made, seen, began>>
    BY DEF Disturbs, Sound
<1>2. \A n : IsNode(n, clock) => IsNode(n, clock')
    BY <1>1 DEF IsNode
<1>3. node = OwnNode \/ IsNode(node, clock')
    BY DEF Disturbs, IsNode
<1>4. \A q \in Paths : (fs[q] = OwnNode \/ IsNode(fs[q], clock)) /\ IsNode(began[q], clock)
    BY DEF Sound
<1>5. \A q \in Paths : (fs'[q] = OwnNode \/ IsNode(fs'[q], clock')) /\ IsNode(began'[q], clock')
    BY <1>1, <1>2, <1>3, <1>4
<1>6. Sound'
    BY <1>1, <1>5 DEF Sound, made
<1>7. began[p] # Absent => node = Absent \/ node[3] > began[p][3]
  <2>1. began[p] # Absent => began[p][3] \in 0..clock
    BY <1>4, ForeignNode
  <2>2. fs[p] = Absent /\ p \notin changed => began[p] = Absent
    BY DEF Changes
  <2> QED
    BY <1>1, <2>1, <2>2 DEF Disturbs
<1>8. Changes'
    BY <1>1, <1>7 DEF Changes
<1> QED
    BY <1>6, <1>8

LEMMA ReadsDisturbed ==
    ASSUME Sound, Changes, NEW p \in Paths, NEW node, Disturbs(p, node), NEW r \in Paths, NEW v
    PROVE  /\ ValueIs(r, v) => ValueIs(r, v)'
           /\ NamesAre(v) => NamesAre(v)'
           /\ Resolved(r) \in Paths /\ (r \notin changed' => Resolved(r)' = Resolved(r))
<1>1. /\ \A q \in Paths : q \notin changed' => q \notin changed /\ fs'[q] = fs[q]
      /\ \A q \in Paths : ~restored' /\ began[q] = Absent /\ fs'[q] \in Quiet => fs[q] \in Quiet
      /\ \A q \in Paths : Place[q] = "temp" /\ fs'[q] \in Quiet => fs[q] \in Quiet
    BY DisturbedIs
<1>2. /\ began' = began /\ (restored => restored')
      /\ Resolved(r) \in Paths
  <2>1. Resolved(r) \in Paths
    BY ResolvedIs
  <2> QED
    BY <2>1 DEF Disturbs
<1>3. r \notin changed' => Resolved(r)' = Resolved(r)
    BY <1>1 DEF Resolved
<1>4. r \notin changed' /\ Resolved(r)' \notin changed' => Object(r)' = Object(r)
    BY <1>1, <1>2, <1>3 DEF Object
<1>5. ASSUME ValueIs(r, v)
      PROVE  ValueIs(r, v)'
  <2>1. r \in changed' \/ Resolved(r)' \in changed' \/ v = Object(r)'
    BY <1>1, <1>2, <1>3, <1>4, <1>5 DEF ValueIs
  <2>2. ASSUME ~restored', NEW q \in Paths, Via(r, q)', began'[q] = Absent, fs'[q] \in Quiet
        PROVE  v \in Quiet
    <3>1. Via(r, q)
      BY <1>1, <1>3, <2>2 DEF Via
    <3> QED
      BY <1>1, <1>2, <1>5, <2>2, <3>1 DEF ValueIs
  <2>3. Place[r] = "temp" /\ fs'[r] \in Quiet => v \in Quiet
    BY <1>1, <1>5 DEF ValueIs
  <2> QED
    BY <2>1, <2>2, <2>3 DEF ValueIs
<1>6. ASSUME NamesAre(v)
      PROVE  NamesAre(v)'
    BY <1>1, <1>2, <1>6, WatchedIs DEF NamesAre
<1> QED
    BY <1>2, <1>3, <1>5, <1>6

LEMMA DigestsDisturbed ==
    ASSUME Sound, Changes, NEW p \in Paths, NEW node, Disturbs(p, node), phase # "running",
           NEW r \in Paths, NEW metadata, NEW d
    PROVE  /\ DigestIs(r, metadata, d) => DigestIs(r, metadata, d)'
           /\ ListingIs(d) => ListingIs(d)'
<1>1. /\ \A q \in Paths : q \notin changed' => q \notin changed /\ fs'[q] = fs[q]
      /\ \A q \in Paths : ~restored' /\ began[q] = Absent /\ fs'[q] = Absent => fs[q] = Absent
    BY DisturbedIs
<1>2. began' = began /\ (restored => restored') /\ r # Package
    BY ProducerAssumption DEF Disturbs
<1>3. Resolved(r) \in Paths /\ (r \notin changed' => Resolved(r)' = Resolved(r))
    BY ReadsDisturbed
<1>4. r \notin changed' /\ Resolved(r)' \notin changed' => Digest(r, metadata)' = Digest(r, metadata)
    BY <1>1, <1>2, <1>3 DEF Digest, Object
<1>5. ASSUME DigestIs(r, metadata, d)
      PROVE  DigestIs(r, metadata, d)'
  <2>1. r \in changed' \/ Resolved(r)' \in changed' \/ d = Digest(r, metadata)'
    BY <1>1, <1>2, <1>3, <1>4, <1>5 DEF DigestIs
  <2>2. ASSUME ~restored', NEW q \in Paths, Via(r, q)', began'[q] = Absent, fs'[q] = Absent
        PROVE  d = Absent
    <3>1. Via(r, q)
      BY <1>1, <1>3, <2>2 DEF Via
    <3> QED
      BY <1>1, <1>2, <1>5, <2>2, <3>1 DEF DigestIs
  <2> QED
    BY <2>1, <2>2 DEF DigestIs
<1>6. ASSUME ListingIs(d)
      PROVE  ListingIs(d)'
    BY <1>1, <1>2, <1>6, WatchedIs DEF ListingIs
<1> QED
    BY <1>5, <1>6

LEMMA Disturbed ==
    ASSUME IInv, NEW p \in Paths, NEW node, Disturbs(p, node), restored' \in BOOLEAN
    PROVE  IInv'
<1>1. UNCHANGED <<phase, bracket, log, made, seen, began>> /\ (restored => restored')
      /\ phase \notin {"new", "done"} /\ Sound /\ Changes /\ changed \subseteq changed'
    BY DEF Disturbs, IInv
<1>2. Sound' /\ Changes'
    BY <1>1, DisturbedSound
<1>3. BracketIs'
    BY <1>1 DEF IInv, BracketIs
<1>4. Reads'
  <2>1. ASSUME NEW r \in seen
        PROVE  /\ r.path \in Paths \cup {Package} /\ r.stat \in BOOLEAN /\ Logged(r)
               /\ IF r.path = Package THEN NamesAre(r.value) ELSE ValueIs(r.path, r.value)
    BY DEF IInv, Reads
  <2>2. ASSUME NEW r \in seen
        PROVE  IF r.path = Package THEN NamesAre(r.value)' ELSE ValueIs(r.path, r.value)'
    BY <1>1, <2>1, ReadsDisturbed
  <2>3. \A r \in seen : Logged(r)'
    BY <1>1, <2>1 DEF Logged
  <2> QED
    BY <1>1, <2>1, <2>2, <2>3 DEF Reads
<1>5. Classified'
    BY <1>1 DEF IInv, Classified, Recorded, LeftOut, made
<1>6. Covered'
  <2>1. ASSUME NEW q \in Watched, q \notin changed'
        PROVE  q \notin changed /\ Resolved(q)' = Resolved(q)
    BY <1>1, <2>1, WatchedIs, ReadsDisturbed
  <2> QED
    BY <1>1, <2>1 DEF IInv, Covered, made
<1>7. Digested'
  <2>1. CASE phase = "running"
    BY <1>1, <2>1 DEF IInv, Sound, Digested, made
  <2>2. CASE phase # "running"
    <3>1. ASSUME NEW q \in DOMAIN entries, NEW e \in {entries[q]}, e.taken
          PROVE  /\ phase \in {"digest", "done"} /\ q \in Paths \cup {Package}
                 /\ IF q = Package THEN ListingIs(e.digest) ELSE DigestIs(q, e.metadata, e.digest)
      BY <1>1, <3>1 DEF IInv, Digested, Sound
    <3>2. ASSUME NEW q \in DOMAIN entries, NEW e \in {entries[q]}, e.taken
          PROVE  IF q = Package THEN ListingIs(e.digest)' ELSE DigestIs(q, e.metadata, e.digest)'
      BY <1>1, <2>2, <3>1, <3>2, DigestsDisturbed
    <3> QED
      BY <1>1, <3>1, <3>2 DEF Digested, made
  <2> QED
    BY <2>1, <2>2
<1>8. Ended'
    BY <1>1 DEF IInv, Ended, made
<1> QED
    BY <1>2, <1>3, <1>4, <1>5, <1>6, <1>7, <1>8 DEF IInv

-----------------------------------------------------------------------------
(* The steps that leave the file system alone.                                *)

LEMMA Steady ==
    ASSUME UNCHANGED <<fs, began, changed, restored>>, NEW p, NEW v, NEW metadata
    PROVE  /\ ValueIs(p, v)' <=> ValueIs(p, v)
           /\ NamesAre(v)' <=> NamesAre(v)
           /\ DigestIs(p, metadata, v)' <=> DigestIs(p, metadata, v)
           /\ ListingIs(v)' <=> ListingIs(v)
<1>1. Resolved(p)' = Resolved(p) /\ Object(p)' = Object(p)
    BY DEF Resolved, Object
<1>2. Digest(p, metadata)' = Digest(p, metadata)
    BY <1>1 DEF Digest, Listing, Resolved
<1>3. ValueIs(p, v)' <=> ValueIs(p, v)
    BY <1>1 DEF ValueIs, Via
<1>4. DigestIs(p, metadata, v)' <=> DigestIs(p, metadata, v)
    BY <1>1, <1>2 DEF DigestIs, Via
<1> QED
    BY <1>3, <1>4 DEF NamesAre, ListingIs

LEMMA ReadsStay ==
    ASSUME Reads, UNCHANGED <<fs, began, changed, restored, seen, log>>
    PROVE  Reads'
<1>1. \A r \in seen : IF r.path = Package THEN NamesAre(r.value)' ELSE ValueIs(r.path, r.value)'
    BY Steady DEF Reads
<1> QED
    BY <1>1 DEF Reads, Logged

LEMMA DigestedStays ==
    ASSUME Digested, UNCHANGED <<fs, began, changed, restored, entries>>,
           phase \in {"digest", "done"} => phase' \in {"digest", "done"}
    PROVE  Digested'
<1>1. ASSUME NEW p \in DOMAIN entries, NEW e \in {entries[p]}, e.taken
      PROVE  IF p = Package THEN ListingIs(e.digest)' ELSE DigestIs(p, e.metadata, e.digest)'
    BY <1>1, Steady DEF Digested
<1> QED
    BY <1>1 DEF Digested

LEMMA CoveredStays ==
    ASSUME Covered, UNCHANGED <<fs, changed, bound>>, DOMAIN entries' = DOMAIN entries,
           reasons \subseteq reasons',
           phase' \in {"digest", "done"} => phase \in {"digest", "done"} \/ DOMAIN entries = {}
    PROVE  Covered'
BY DEF Covered, Resolved

LEMMA NewMove ==
    ASSUME IInv, phase = "new", NEW p \in Paths, NEW t \in Turns[p], Move(p, t[1], t[2])
    PROVE  IInv'
<1>1. /\ fs' = [fs EXCEPT ![p] = Turned(t)] /\ IsNode(Turned(t), clock') /\ clock' = clock + 1
      /\ clock \in Nat /\ restored' \in BOOLEAN /\ changed' = changed /\ began' = fs'
      /\ UNCHANGED <<phase, bracket, log, entries, bound, reasons, next, final, seen>>
    BY MoveDoes DEF IInv, made
<1>2. /\ fs = [q \in Paths |-> fs[q]] /\ seen = {} /\ changed = {} /\ entries = << >> /\ next = 1
      /\ \A q \in Paths : IsNode(fs[q], clock)
    BY DEF IInv, Sound
<1>3. \A q \in Paths : IsNode(fs'[q], clock')
    BY <1>1, <1>2 DEF IsNode
<1>4. fs' = [q \in Paths |-> fs'[q]]
    BY <1>1, <1>2
<1>5. Sound'
    BY <1>1, <1>2, <1>3, <1>4 DEF IInv, Sound
<1>6. Changes' /\ BracketIs' /\ Reads'
    BY <1>1, <1>2 DEF Changes, BracketIs, Reads
<1>7. Classified' /\ Covered' /\ Digested' /\ Ended'
    BY <1>1, <1>2 DEF Classified, Covered, Digested, Ended
<1> QED
    BY <1>5, <1>6, <1>7 DEF IInv

LEMMA Captured ==
    ASSUME IInv, Capture
    PROVE  IInv'
<1>1. PICK now \in Walks : bracket' = now
    BY DEF Capture
<1>2. /\ phase = "new" /\ phase' = "running" /\ began' = fs
      /\ UNCHANGED <<fs, log, entries, bound, reasons, next, final, seen, changed, restored, clock>>
    BY DEF Capture, made
<1>3. seen = {} /\ changed = {} /\ entries = << >> /\ next = 1 /\ began = fs
    BY <1>2 DEF IInv, Sound
<1>4. Sound' /\ Changes'
    BY <1>2, <1>3 DEF IInv, Sound, Changes
<1>5. BracketIs'
  <2>1. bracket' = now /\ began' = fs /\ Watched' = Watched
    BY <1>1, <1>2 DEF Watched, Members
  <2> QED
    BY <2>1, WalkIs DEF BracketIs
<1>6. Reads' /\ Classified' /\ Covered' /\ Digested' /\ Ended'
    BY <1>2, <1>3 DEF Reads, Classified, Covered, Digested, Ended
<1> QED
    BY <1>4, <1>5, <1>6 DEF IInv

LEMMA ReadIs ==
    ASSUME Sound, Changes, NEW p \in Paths \cup {Package}
    PROVE  IF p = Package THEN NamesAre(Names) ELSE ValueIs(p, Object(p))
<1>1. CASE p = Package
  <2>1. ASSUME NEW m \in Watched
        PROVE  /\ m \notin changed => (m \in Names <=> began[m] # Absent)
               /\ fs[m] \in Quiet => m \notin Names
    <3>1. m \in Paths /\ IsNode(began[m], clock) /\ (m \notin changed => fs[m] = began[m])
      BY WatchedIs DEF Sound, Changes
    <3>2. m \in Names <=> fs[m] # Absent /\ fs[m][2] # "own"
      BY DEF Names
    <3>3. began[m] # Absent => began[m][2] # "own"
      BY <3>1, ForeignNode
    <3>4. fs[m] \in Quiet => m \notin Names
      BY <3>2, OwnIs DEF Quiet
    <3> QED
      BY <3>1, <3>2, <3>3, <3>4
  <2>2. Names \subseteq Watched
    BY DEF Names
  <2> QED
    BY <1>1, <2>1, <2>2 DEF NamesAre
<1>2. CASE p # Package
  <2>1. p \in Paths /\ Object(p) = fs[Resolved(p)] /\ (fs[p] \in Quiet => Object(p) = fs[p])
    BY <1>2, ResolvedIs DEF Object
  <2> QED
    BY <1>2, <2>1 DEF ValueIs, Via
<1> QED
    BY <1>1, <1>2

LEMMA Logging ==
    ASSUME IInv, phase = "running", NEW line, log' = Append(log, line),
           line \in Line,
           UNCHANGED <<fs, phase, bracket, made, began, changed, restored, clock>>,
           NEW new, seen' = seen \cup new,
           \A r \in new : /\ r.path = line.path /\ r.stat \in BOOLEAN
                          /\ r.stat => line.op = "stat"
                          /\ r.value = IF r.path = Package THEN Names ELSE Object(r.path)
    PROVE  IInv'
<1>1. log \in Seq(Line)
      /\ next = 1 /\ entries = << >>
    BY DEF IInv, Sound
<1>2. /\ log' \in Seq(Line)
      /\ Len(log) \in Nat /\ Len(log') = Len(log) + 1 /\ log'[Len(log) + 1] = line
      /\ \A i \in 1..Len(log) : log'[i] = log[i]
    BY <1>1
<1>3. Sound' /\ Changes' /\ BracketIs'
    BY <1>1, <1>2 DEF IInv, Sound, Changes, BracketIs, made
<1>4. Reads'
  <2>1. ASSUME NEW r, Logged(r)
        PROVE  Logged(r)'
    BY <1>2, <2>1 DEF Logged
  <2>2. ASSUME NEW r \in seen
        PROVE  /\ r.path \in Paths \cup {Package} /\ r.stat \in BOOLEAN /\ Logged(r)'
               /\ IF r.path = Package THEN NamesAre(r.value)' ELSE ValueIs(r.path, r.value)'
    BY <2>1, Steady DEF IInv, Reads
  <2>3. ASSUME NEW r \in new
        PROVE  /\ r.path \in Paths \cup {Package} /\ r.stat \in BOOLEAN /\ Logged(r)'
               /\ IF r.path = Package THEN NamesAre(r.value)' ELSE ValueIs(r.path, r.value)'
    <3>1. r.path \in Paths \cup {Package} /\ Sound /\ Changes
      BY DEF IInv, Line
    <3>2. Logged(r)'
      <4>1. Len(log) + 1 \in 1..Len(log') /\ log'[Len(log) + 1] = line
        BY <1>2
      <4>2. r.path = line.path /\ (r.stat => line.op = "stat")
        OBVIOUS
      <4> QED
        BY <4>1, <4>2 DEF Logged
    <3>3. IF r.path = Package THEN NamesAre(r.value) ELSE ValueIs(r.path, r.value)
      BY <3>1, ReadIs
    <3> QED
      BY <3>1, <3>2, <3>3, Steady
  <2> QED
    BY <2>2, <2>3 DEF Reads
<1>5. Classified' /\ Covered' /\ Digested' /\ Ended'
    BY <1>1 DEF Classified, Covered, Digested, Ended, made
<1> QED
    BY <1>3, <1>4, <1>5 DEF IInv

LEMMA Running ==
    ASSUME IInv,
           (\E p \in Paths \cup {Package}, op \in {"open", "stat"} : Read(p, op)) \/ Chdir
           \/ (\E requireOutcomes \in BOOLEAN : Ends(requireOutcomes)) \/ EndsAbnormally
    PROVE  IInv'
<1>0. Strayed \in BOOLEAN
    BY DEF Strayed
<1>1. ASSUME NEW p \in Paths \cup {Package}, NEW op \in {"open", "stat"}, Read(p, op)
      PROVE  IInv'
  <2> DEFINE line == [op |-> op, path |-> p, strayed |-> Strayed]
             read == [path |-> p, stat |-> op = "stat", value |-> IF p = Package THEN Names ELSE Object(p)]
             new == {read}
  <2>1. /\ phase = "running" /\ log' = Append(log, line) /\ seen' = seen \cup new
        /\ UNCHANGED <<fs, phase, bracket, made, began, changed, restored, clock>>
    BY <1>1 DEF Read
  <2>2. line.path = p /\ line.op = op
    OBVIOUS
  <2>6. line \in [op : {"open", "stat", "chdir"}, path : Paths \cup {Package}, strayed : BOOLEAN]
    BY <1>0
  <2>7. line \in Line
    BY <2>2, <2>6 DEF Line
  <2>3. \A r \in new : /\ r.path = line.path /\ r.stat \in BOOLEAN
                       /\ r.stat => line.op = "stat"
                       /\ r.value = IF r.path = Package THEN Names ELSE Object(r.path)
    <3>1. /\ read.path = p /\ read.stat = (op = "stat")
          /\ read.value = IF p = Package THEN Names ELSE Object(p)
      OBVIOUS
    <3> HIDE DEF read, line
    <3>2. read.stat \in BOOLEAN /\ (read.stat => line.op = "stat")
      BY <2>2, <3>1
    <3> QED
      BY <2>2, <3>1, <3>2
  <2> HIDE DEF line, new
  <2> QED
    BY <2>1, <2>2, <2>3, <2>7, Logging
<1>2. CASE Chdir
  <2> DEFINE line == [op |-> "chdir", path |-> Package, strayed |-> FALSE]
  <2>1. /\ phase = "running" /\ log' = Append(log, line) /\ seen' = seen \cup {}
        /\ UNCHANGED <<fs, phase, bracket, made, began, changed, restored, clock>>
    BY <1>2 DEF Chdir, history
  <2>2. line \in Line
    BY DEF Line
  <2> DEFINE none == {}
  <2>3. \A r \in none : FALSE
    OBVIOUS
  <2>4. seen' = seen \cup none
    BY <2>1
  <2> HIDE DEF line, none
  <2> QED
    BY <2>1, <2>2, <2>3, <2>4, Logging
<1>3. CASE (\E requireOutcomes \in BOOLEAN : Ends(requireOutcomes)) \/ EndsAbnormally
  <2>1. /\ phase = "running" /\ phase' \in {"classify", "done"} /\ (phase' = "done" => final' = Incomplete)
        /\ UNCHANGED <<fs, bracket, log, entries, bound, reasons, next, history>>
    BY <1>3 DEF Ends, EndsAbnormally, made
  <2>2. entries = << >> /\ next = 1
    BY <2>1 DEF IInv, Sound
  <2>3. Sound' /\ Changes' /\ BracketIs'
    BY <2>1 DEF IInv, Sound, Changes, BracketIs, history
  <2>4. Reads'
    BY <2>1, ReadsStay DEF IInv, history
  <2>5. Classified' /\ Covered' /\ Digested' /\ Ended'
    BY <2>1, <2>2 DEF IInv, Sound, Classified, Covered, Digested, Ended
  <2> QED
    BY <2>3, <2>4, <2>5 DEF IInv
<1> QED
    BY <1>1, <1>2, <1>3

\* A line is left out only when it is no input of the process.
LEMMA LeavesOut ==
    ASSUME IInv, phase = "classify", ~restored, NEW p \in Paths, Elides(p)
    PROVE  LeftOut(p)
<1>0. p # Package /\ phase # "new"
    BY ProducerAssumption
<1>1. CASE GuardCovered(p)
    BY <1>0, <1>1 DEF GuardCovered, LeftOut
<1>2. ASSUME fs[p] = Absent, Place[p] = "temp" \/ began[p] = Absent
      PROVE  LeftOut(p)
  <2>1. ASSUME NEW r \in seen, r.path = p
        PROVE  r.value \in Quiet
    <3>1. ValueIs(p, r.value)
      BY <1>0, <2>1 DEF IInv, Reads
    <3> QED
      BY <1>2, <3>1 DEF ValueIs, Via, Quiet
  <2> QED
    BY <1>0, <2>1 DEF LeftOut
<1>3. CASE Scratch(p)
    BY <1>2, <1>3 DEF Scratch
<1>4. CASE Ephemera(p)
  <2>1. fs[p] = Absent /\ p \in Watched /\ p \notin bracket.members /\ ~bracket.reason
    BY <1>4 DEF Ephemera
  <2>2. began[p] = Absent
    BY <1>0, <2>1 DEF IInv, BracketIs
  <2> QED
    BY <1>2, <2>1, <2>2
<1> QED
    BY <1>1, <1>3, <1>4 DEF Elides

\* What one classified line leaves behind: entries and bounds only grow, no
\* digest is taken, and the line is recorded, or left out.
LEMMA ClassifyDoes ==
    ASSUME IInv, Classify, NEW line, line = log[next]
    PROVE  /\ phase = "classify" /\ next <= Len(log) /\ next' = next + 1
           /\ UNCHANGED <<fs, phase, bracket, log, final, history>>
           /\ reasons \subseteq reasons' /\ bound \subseteq bound'
           /\ DOMAIN entries \subseteq DOMAIN entries' /\ DOMAIN entries' \subseteq (Paths \cup {Package}) \ Silenced
           /\ \A p \in DOMAIN entries' : /\ DOMAIN entries'[p] = {"metadata", "digest", "taken"}
                                         /\ entries'[p].metadata \in BOOLEAN /\ entries'[p].taken = FALSE
           /\ \A p \in DOMAIN entries : entries[p].metadata => entries'[p].metadata
           /\ ~restored => Recorded(line)' \/ LeftOut(line.path)
<1> DEFINE p == line.path
<1>1. /\ phase = "classify" /\ next <= Len(log) /\ next' = next + 1
      /\ UNCHANGED <<fs, phase, bracket, log, final, history>>
    BY DEF Classify
<1>2. line \in Line
  <2>1. log \in Seq(Line) /\ next \in Nat \ {0}
    BY DEF IInv, Sound
  <2> QED
    BY <1>1, <2>1
<1>3. \A q \in DOMAIN entries : /\ DOMAIN entries[q] = {"metadata", "digest", "taken"}
                                /\ entries[q].metadata \in BOOLEAN /\ entries[q].taken = FALSE
    BY <1>1 DEF IInv, Sound, Digested
<1>4. /\ DOMAIN entries \subseteq (Paths \cup {Package}) \ Silenced /\ p \in Paths \cup {Package}
      /\ line.op = "chdir" => p \notin Silenced
    BY <1>2, ProducerAssumption DEF IInv, Sound, Line
<1>5. \/ UNCHANGED <<entries, bound, reasons>> /\ (Elides(p) \/ p \in Silenced)
      \/ entries' = Upserted(p, FALSE) /\ bound' = bound \cup {p} /\ reasons' = reasons /\ p \notin Silenced
      \/ /\ entries' = Upserted(p, line.op = "stat") /\ reasons \subseteq reasons' /\ bound' = bound
         /\ p \notin Silenced
    BY <1>4 DEF Classify
<1>6. CASE UNCHANGED <<entries, bound, reasons>> /\ (Elides(p) \/ p \in Silenced)
  <2>1. ~restored => LeftOut(p)
    <3>1. CASE p \in Silenced
      BY <3>1, ProducerAssumption DEF LeftOut
    <3>2. CASE Elides(p)
      <4>1. p \in Paths
        BY <1>4, <3>2 DEF Elides, GuardCovered, Scratch, Ephemera
      <4> QED
        BY <1>1, <3>2, <4>1, LeavesOut
    <3> QED
      BY <1>6, <3>1, <3>2
  <2> QED
    BY <1>1, <1>3, <1>4, <1>6, <2>1
<1>7. CASE entries' = Upserted(p, FALSE) /\ bound' = bound \cup {p} /\ reasons' = reasons /\ p \notin Silenced
  <2>1. /\ DOMAIN entries' = DOMAIN entries \cup {p}
        /\ \A q \in DOMAIN entries \cup {p} : /\ DOMAIN entries'[q] = {"metadata", "digest", "taken"}
                                             /\ entries'[q].metadata \in BOOLEAN
                                             /\ entries'[q].taken = FALSE
        /\ \A q \in DOMAIN entries : entries[q].metadata => entries'[q].metadata
    BY <1>3, <1>7 DEF Upserted
  <2>2. Recorded(line)'
    BY <1>7, <2>1 DEF Recorded
  <2> QED
    BY <1>1, <1>4, <1>7, <2>1, <2>2
<1>8. CASE /\ entries' = Upserted(p, line.op = "stat") /\ reasons \subseteq reasons' /\ bound' = bound
           /\ p \notin Silenced
  <2>1. /\ DOMAIN entries' = DOMAIN entries \cup {p}
        /\ \A q \in DOMAIN entries \cup {p} : /\ DOMAIN entries'[q] = {"metadata", "digest", "taken"}
                                             /\ entries'[q].metadata \in BOOLEAN
                                             /\ entries'[q].taken = FALSE
        /\ \A q \in DOMAIN entries : entries[q].metadata => entries'[q].metadata
        /\ line.op = "stat" => entries'[p].metadata
    BY <1>3, <1>8 DEF Upserted
  <2>2. Recorded(line)'
    BY <2>1 DEF Recorded
  <2> QED
    BY <1>1, <1>4, <1>8, <2>1, <2>2
<1> QED
    BY <1>5, <1>6, <1>7, <1>8

LEMMA Classifying ==
    ASSUME IInv, Classify
    PROVE  IInv'
<1> DEFINE line == log[next]
<1>1. /\ phase = "classify" /\ next <= Len(log) /\ next' = next + 1
      /\ UNCHANGED <<fs, phase, bracket, log, final, history>>
      /\ reasons \subseteq reasons' /\ bound \subseteq bound'
      /\ DOMAIN entries \subseteq DOMAIN entries' /\ DOMAIN entries' \subseteq (Paths \cup {Package}) \ Silenced
      /\ \A p \in DOMAIN entries' : /\ DOMAIN entries'[p] = {"metadata", "digest", "taken"}
                                    /\ entries'[p].metadata \in BOOLEAN /\ entries'[p].taken = FALSE
      /\ \A p \in DOMAIN entries : entries[p].metadata => entries'[p].metadata
    BY ClassifyDoes
<1>2. \A u \in {line} : ~restored => Recorded(u)' \/ LeftOut(u.path)
    BY ClassifyDoes
<1>3. Sound' /\ Changes' /\ BracketIs'
  <2>1. Changes' /\ BracketIs'
    BY <1>1 DEF IInv, Changes, BracketIs, history
  <2>2. next' \in Nat \ {0}
    BY <1>1 DEF IInv, Sound
  <2>3. Sound'
    BY <1>1, <2>2 DEF IInv, Sound, history
  <2> QED
    BY <2>1, <2>3
<1>4. Reads'
    BY <1>1, ReadsStay DEF IInv, history
<1>5. Covered' /\ Digested' /\ Ended'
    BY <1>1 DEF Covered, Digested, Ended
<1>6. Classified'
  <2>1. ASSUME NEW u, Recorded(u)
        PROVE  Recorded(u)'
    BY <1>1, <2>1 DEF Recorded
  <2>2. \A p : LeftOut(p)' <=> LeftOut(p)
    BY <1>1 DEF LeftOut, history
  <2>3. ASSUME reasons' = {}, ~restored', NEW i \in 1..Len(log), NEW u \in {log[i]}, i < next'
        PROVE  Recorded(u)' \/ LeftOut(u.path)'
    <3>1. reasons = {} /\ ~restored
      BY <1>1, <2>3 DEF history
    <3>2. CASE i < next
      <4>1. Recorded(u) \/ LeftOut(u.path)
        BY <2>3, <3>1, <3>2 DEF IInv, Classified
      <4> QED
        BY <2>1, <2>2, <4>1
    <3>3. CASE i = next
      BY <1>2, <2>2, <2>3, <3>1, <3>3
    <3>4. next \in Nat
      BY DEF IInv, Sound
    <3> QED
      BY <1>1, <2>3, <3>2, <3>3, <3>4
  <2> QED
    BY <1>1, <2>3 DEF Classified
<1> QED
    BY <1>3, <1>4, <1>5, <1>6 DEF IInv

LEMMA Covering ==
    ASSUME IInv, Cover
    PROVE  IInv'
<1>1. /\ phase = "classify" /\ next > Len(log) /\ phase' = "digest" /\ reasons \subseteq reasons'
      /\ reasons' = {} => \A p \in DOMAIN entries \ bound : Covers(p)
      /\ UNCHANGED <<fs, bracket, log, entries, bound, next, final, history>>
    BY DEF Cover
<1>2. Sound' /\ Changes' /\ BracketIs'
    BY <1>1 DEF IInv, Sound, Changes, BracketIs, history
<1>3. Reads'
    BY <1>1, ReadsStay DEF IInv, history
<1>4. Classified'
    BY <1>1 DEF IInv, Classified, Recorded, LeftOut, history
<1>5. Digested'
    BY <1>1, DigestedStays DEF IInv, history
<1>6. Covered'
  <2>1. ASSUME NEW p \in DOMAIN entries \ (bound \cup {Package}), Covers(p)
        PROVE  p \in Watched /\ Resolved(p)' \in Watched
    <3>1. Resolved(p)' = Resolved(p) /\ p \in Paths
      BY <1>1 DEF Resolved, IInv, Sound
    <3>2. Resolved(p) \in Watched /\ (fs[p] # Absent /\ fs[p][1] = "link" => p \in Watched)
      BY <2>1 DEF Covers
    <3>3. Resolved(p) # p => fs[p] # Absent /\ fs[p][1] = "link"
      BY <3>1, ResolvedIs DEF IInv
    <3> QED
      BY <3>1, <3>2, <3>3
  <2> QED
    BY <1>1, <2>1 DEF Covered
<1>7. Ended'
    BY <1>1 DEF Ended
<1> QED
    BY <1>2, <1>3, <1>4, <1>5, <1>6, <1>7 DEF IInv

LEMMA DigestingIs ==
    ASSUME Sound, Changes, NEW p \in Paths \cup {Package}, NEW metadata
    PROVE  IF p = Package THEN ListingIs(Digest(p, metadata))
           ELSE DigestIs(p, metadata, Digest(p, metadata))
<1>1. CASE p = Package
  <2>1. ASSUME NEW m \in Watched
        PROVE  (\E e \in Listing : e[1] = m) <=> fs[m] # Absent
    <3>1. m \in Members
      BY DEF Watched
    <3>2. ASSUME fs[m] # Absent
          PROVE  \E e \in Listing : e[1] = m
      <4>1. <<m, Undated(fs[m])>> \in Listing
        BY <3>1, <3>2 DEF Listing
      <4> QED
        BY <4>1
    <3>3. ASSUME NEW e \in Listing, e[1] = m
          PROVE  fs[m] # Absent
      BY <3>3 DEF Listing
    <3> QED
      BY <3>2, <3>3
  <2>2. Digest(p, metadata)[2] = Listing
    BY <1>1 DEF Digest
  <2>3. \A m \in Watched : m \notin changed => fs[m] = began[m]
    BY WatchedIs DEF Changes
  <2> QED
    BY <1>1, <2>1, <2>2, <2>3 DEF ListingIs
<1>2. CASE p # Package
  <2>1. p \in Paths /\ (fs[p] = Absent => Resolved(p) = p)
    BY <1>2, ResolvedIs DEF Quiet
  <2>2. Object(p) = Absent => Digest(p, metadata) = Absent
    BY <1>2 DEF Digest, Undated
  <2> QED
    BY <1>2, <2>1, <2>2 DEF DigestIs, Via, Object
<1> QED
    BY <1>1, <1>2

LEMMA Digesting ==
    ASSUME IInv, NEW p \in Paths \cup {Package}, TakeDigest(p)
    PROVE  IInv'
<1>1. /\ phase = "digest" /\ p \in DOMAIN entries /\ reasons \subseteq reasons'
      /\ entries' = [entries EXCEPT ![p].digest = Digest(p, entries[p].metadata), ![p].taken = TRUE]
      /\ UNCHANGED <<fs, phase, bracket, log, bound, next, final, history>>
    BY DEF TakeDigest
<1>2. /\ DOMAIN entries' = DOMAIN entries /\ \A q \in DOMAIN entries \ {p} : entries'[q] = entries[q]
      /\ DOMAIN entries'[p] = {"metadata", "digest", "taken"} /\ entries'[p].taken = TRUE
      /\ entries'[p].metadata = entries[p].metadata
      /\ entries'[p].digest = Digest(p, entries[p].metadata)
    BY <1>1 DEF IInv, Sound
<1>3. Sound' /\ Changes' /\ BracketIs'
    BY <1>1, <1>2 DEF IInv, Sound, Changes, BracketIs, history
<1>4. Reads'
    BY <1>1, ReadsStay DEF IInv, history
<1>5. Classified'
  <2>1. \A line : Recorded(line) => Recorded(line)'
    BY <1>1, <1>2 DEF Recorded
  <2>2. \A q : LeftOut(q)' <=> LeftOut(q)
    BY <1>1 DEF LeftOut, history
  <2>3. ASSUME reasons' = {}, ~restored', NEW i \in 1..Len(log), NEW line \in {log[i]}, i < next
        PROVE  Recorded(line)' \/ LeftOut(line.path)'
    <3>1. Recorded(line) \/ LeftOut(line.path)
      BY <1>1, <2>3 DEF IInv, Classified, history
    <3> QED
      BY <2>1, <2>2, <3>1
  <2> QED
    BY <1>1, <2>3 DEF Classified
<1>6. Covered'
    BY <1>1, <1>2, CoveredStays DEF IInv, history
<1>7. Digested'
  <2>1. ASSUME NEW q \in DOMAIN entries, NEW e \in {entries'[q]}, e.taken
        PROVE  IF q = Package THEN ListingIs(e.digest) ELSE DigestIs(q, e.metadata, e.digest)
    <3>1. CASE q = p
      <4>1. e.digest = Digest(p, e.metadata)
        BY <1>2, <3>1
      <4>2. Sound /\ Changes
        BY DEF IInv
      <4> QED
        BY <3>1, <4>1, <4>2, DigestingIs
    <3>2. CASE q # p
      BY <1>2, <2>1, <3>2 DEF IInv, Digested
    <3> QED
      BY <3>1, <3>2
  <2>2. ASSUME NEW q \in DOMAIN entries, NEW e \in {entries'[q]}, e.taken
        PROVE  IF q = Package THEN ListingIs(e.digest)' ELSE DigestIs(q, e.metadata, e.digest)'
    BY <1>1, <2>1, <2>2, Steady DEF history
  <2> QED
    BY <1>1, <1>2, <2>2 DEF Digested
<1>8. Ended'
    BY <1>1 DEF IInv, Ended
<1> QED
    BY <1>3, <1>4, <1>5, <1>6, <1>7, <1>8 DEF IInv

\* The second look, after the last digest.
LEMMA Ending ==
    ASSUME IInv, Revalidate
    PROVE  IInv'
<1>1. PICK now \in Walks :
         final' = [entries |-> entries, bound |-> bound, look |-> Known(now),
                   moved |-> Revalidated(now).moved,
                   reasons |-> reasons \cup Revalidated(now).reasons]
    BY DEF Revalidate
<1>2. /\ phase = "digest" /\ phase' = "done" /\ \A p \in DOMAIN entries : entries[p].taken
      /\ UNCHANGED <<fs, bracket, log, entries, bound, reasons, next, history>>
    BY DEF Revalidate
<1> DEFINE seenAgain == Revalidated(now)
<1>3. /\ seenAgain.moved => Contradicts(bracket, now)
      /\ ~seenAgain.moved => ~Contradicts(bracket, now)
      /\ seenAgain.reasons = {} => ~bracket.reason /\ ~now.reason
    BY DEF Revalidated
<1>4. now.members \subseteq Watched /\ (now.complete => Present \subseteq now.members)
      /\ (now.complete => now.members \subseteq Present)
    BY WalkIs DEF Present
<1>5. seenAgain.moved => changed \cap Watched # {}
    BY <1>2, <1>3, Moved DEF IInv
<1>6. ~seenAgain.moved => /\ now.complete => bracket.members \subseteq Present
                          /\ bracket.complete => \A m \in now.members : began[m] # Absent
  <2>1. ASSUME ~seenAgain.moved
        PROVE  /\ now.complete => bracket.members \subseteq now.members
               /\ bracket.complete => now.members \subseteq bracket.members
    BY <1>3, <2>1 DEF Contradicts
  <2> QED
    BY <1>2, <1>4, <2>1 DEF IInv, BracketIs
<1>7. ~seenAgain.moved /\ seenAgain.reasons = {} => \A m \in Watched : fs[m] = began[m]
    BY <1>2, <1>3, Standing DEF IInv
<1>8. /\ final'.entries = entries /\ final'.bound = bound /\ final'.moved = seenAgain.moved
      /\ final'.reasons = reasons \cup seenAgain.reasons
      /\ final'.look.complete = now.complete /\ final'.look.members = now.members
    BY <1>1 DEF Known
<1> HIDE DEF seenAgain
<1>9. Ended'
  <2>1. next > Len(log)
    BY <1>2 DEF IInv, Ended
  <2> QED
    BY <1>2, <1>4, <1>5, <1>6, <1>7, <1>8, <2>1 DEF Ended, Present, Watched, Members, history
<1>10. Sound' /\ Changes' /\ BracketIs'
    BY <1>2 DEF IInv, Sound, Changes, BracketIs, history
<1>11. Reads'
    BY <1>2, ReadsStay DEF IInv, history
<1>12. Classified'
    BY <1>2 DEF IInv, Classified, Recorded, LeftOut, history
<1>13. Covered' /\ Digested'
    BY <1>2, CoveredStays, DigestedStays DEF IInv, history
<1> QED
    BY <1>9, <1>10, <1>11, <1>12, <1>13 DEF IInv

-----------------------------------------------------------------------------
(* The theorems.                                                              *)

LEMMA InvInit ==
    Init => IInv
<1> SUFFICES ASSUME Init PROVE IInv
    OBVIOUS
<1>0. fs = [p \in Paths |-> fs[p]] /\ began = [p \in Paths |-> began[p]]
    BY DEF Init
<1>1. /\ \A p \in Paths : fs[p] \in Start[p]
      /\ phase = "new" /\ began = fs /\ entries = << >> /\ reasons = {} /\ next = 1 /\ seen = {}
      /\ changed = {} /\ restored = FALSE /\ clock = 0 /\ log = << >>
    BY DEF Init
<1>2. \A p \in Paths : IsNode(fs[p], 0)
  <2>1. ASSUME NEW p \in Paths, fs[p] # Absent
        PROVE  IsNode(fs[p], 0)
    <3>1. fs[p] = <<fs[p][1], fs[p][2], 0>> /\ Foreign(fs[p][1], fs[p][2])
      BY <1>1, <2>1, ProducerAssumption
    <3>2. fs[p][3] = 0
      BY <3>1
    <3> QED
      BY <3>1, <3>2 DEF IsNode
  <2> QED
    BY <2>1 DEF IsNode
<1>3. Sound
  <2>1. log \in Seq(Line) /\ DOMAIN entries = {}
    BY <1>1
  <2>2. \A p \in Paths : (fs[p] = OwnNode \/ IsNode(fs[p], clock)) /\ IsNode(began[p], clock)
    BY <1>1, <1>2
  <2>4. clock \in Nat /\ next \in Nat \ {0}
    BY <1>1
  <2>6. restored \in BOOLEAN /\ changed \subseteq Paths
    BY <1>1
  <2>5. phase \in {"new", "running", "classify", "digest", "done"}
    BY <1>1
  <2> QED
    BY <1>0, <1>1, <2>1, <2>2, <2>4, <2>5, <2>6 DEF Sound
<1>4. Changes /\ BracketIs /\ Reads
    BY <1>1 DEF Changes, BracketIs, Reads
<1>5. Classified /\ Covered /\ Digested /\ Ended
    BY <1>1 DEF Classified, Covered, Digested, Ended
<1> QED
    BY <1>3, <1>4, <1>5 DEF IInv

LEMMA InvStep ==
    IInv /\ [Next]_vars => IInv'
<1> SUFFICES ASSUME IInv, [Next]_vars PROVE IInv'
    OBVIOUS
<1>1. ASSUME NEW p \in Paths, NEW t \in Turns[p], Move(p, t[1], t[2])
      PROVE  IInv'
  <2>1. CASE phase = "new"
    BY <1>1, <2>1, NewMove
  <2>2. CASE phase # "new"
    <3>1. Sound
      BY DEF IInv
    <3>2. PICK node : Disturbs(p, node) /\ restored' \in BOOLEAN
      BY <1>1, <2>2, <3>1, Disturbing
    <3> QED
      BY <3>2, Disturbed
  <2> QED
    BY <2>1, <2>2
<1>2. ASSUME NEW p \in Paths, Mint(p) \/ Drop(p)
      PROVE  IInv'
  <2>1. Sound /\ phase # "new"
    BY <1>2 DEF IInv, Mint, Drop
  <2>2. PICK node : Disturbs(p, node) /\ restored' \in BOOLEAN
    BY <1>2, <2>1, Disturbing
  <2> QED
    BY <2>2, Disturbed
<1>3. CASE UNCHANGED vars
  <2>1. Reads' /\ Digested' /\ Covered'
    BY <1>3, ReadsStay, DigestedStays, CoveredStays DEF IInv, vars
  <2>2. Sound' /\ Changes' /\ BracketIs'
    BY <1>3 DEF IInv, Sound, Changes, BracketIs, vars
  <2>3. Classified' /\ Ended'
    BY <1>3 DEF IInv, Classified, Recorded, LeftOut, Ended, Present, Watched, Members, vars
  <2> QED
    BY <2>1, <2>2, <2>3 DEF IInv
<1> QED
    BY <1>1, <1>2, <1>3, Captured, Running, Classifying, Covering, Digesting, Ending DEF Next

\* MovementIsExact: what the second look calls moved was changed, and a member
\* that came or went is called moved whatever could not be read (revalidate,
\* movedBracketRoot).
THEOREM MovementExact == Spec => []MovementIsExact
<1>1. ASSUME IInv, phase = "done", final # Incomplete
      PROVE  /\ final.moved => changed \cap Watched # {}
             /\ \A m \in Watched : CameOrWent(m) => final.moved
    BY <1>1 DEF IInv, Ended, Present, CameOrWent
<1>2. IInv => MovementIsExact
    BY <1>1 DEF MovementIsExact
<1> QED
    BY <1>2, InvInit, InvStep, PTL DEF Spec

\* What the lines and the entries say of each operation, at a verifiable end.
LEMMA Accounted ==
    ASSUME IInv, phase = "done", final.reasons = {}, ~restored
    PROVE  /\ reasons = {} /\ final.entries = entries /\ final.bound = bound
           /\ \A p \in DOMAIN entries : entries[p].taken
           /\ ~final.moved => \A m \in Watched : fs[m] = began[m]
           /\ \A r \in seen : \/ /\ r.path \in DOMAIN entries
                                 /\ r.stat => entries[r.path].metadata \/ r.path \in bound
                              \/ LeftOut(r.path)
<1>1. final # Incomplete
    BY DEF Incomplete
<1>2. /\ next > Len(log) /\ \A p \in DOMAIN entries : entries[p].taken
      /\ final.entries = entries /\ final.bound = bound /\ reasons = {}
      /\ ~final.moved => \A m \in Watched : fs[m] = began[m]
    BY <1>1 DEF IInv, Ended
<1>3. ASSUME NEW r \in seen
      PROVE  \/ /\ r.path \in DOMAIN entries
                /\ r.stat => entries[r.path].metadata \/ r.path \in bound
             \/ LeftOut(r.path)
  <2>1. PICK i \in 1..Len(log) : log[i].path = r.path /\ (r.stat => log[i].op = "stat")
    BY DEF IInv, Reads, Logged
  <2>2. i < next
    BY <1>2, <2>1 DEF IInv, Sound
  <2>3. Recorded(log[i]) \/ LeftOut(log[i].path)
    BY <1>2, <2>2 DEF IInv, Classified
  <2> QED
    BY <2>1, <2>3 DEF Recorded
<1> QED
    BY <1>2, <1>3

\* What stands since the capture was absent at both ends, or never changed.
LEMMA Stood ==
    ASSUME Sound, Changes, NEW m \in Paths, fs[m] = began[m], m \in changed
    PROVE  fs[m] = Absent /\ began[m] = Absent
<1>1. IsNode(began[m], clock) /\ clock \in Nat
    BY DEF Sound
<1>2. began[m] # Absent => began[m][3] \in 0..clock
    BY <1>1, ForeignNode
<1>3. began[m] # Absent => fs[m][3] > began[m][3]
    BY DEF Changes
<1> QED
    BY <1>1, <1>2, <1>3

\* The names the process saw in the package are the members of its digest.
LEMMA NamesAgree ==
    ASSUME Sound, Changes, \A m \in Watched : fs[m] = began[m], ~restored,
           NEW v, NamesAre(v), NEW d, ListingIs(d)
    PROVE  {e[1] : e \in {f \in d[2] : f[1] \in Watched}} = v
<1>1. ASSUME NEW m \in Watched
      PROVE  (\E e \in d[2] : e[1] = m) <=> m \in v
  <2>1. CASE m \notin changed
    BY <2>1 DEF NamesAre, ListingIs
  <2>2. CASE m \in changed
    <3>1. fs[m] = Absent /\ began[m] = Absent
      BY <2>2, Stood, WatchedIs
    <3> QED
      BY <3>1 DEF NamesAre, ListingIs, Quiet
  <2> QED
    BY <2>1, <2>2
<1>2. v \subseteq Watched
    BY DEF NamesAre
<1> QED
    BY <1>1, <1>2

\* What was read at a recorded path is what is digested, or its own, or both
\* say that nothing was there.
LEMMA FileAgrees ==
    ASSUME Sound, Changes, \A m \in Watched : fs[m] = began[m], ~restored,
           NEW p \in Watched, p \notin changed => Resolved(p) \in Watched,
           NEW v, ValueIs(p, v), NEW metadata \in BOOLEAN, NEW d, DigestIs(p, metadata, d)
    PROVE  \/ v \in Quiet /\ d = Absent
           \/ v = Object(p) /\ d = IF metadata THEN Object(p) ELSE Undated(Object(p))
<1>1. p \in Paths /\ p # Package /\ Resolved(p) \in Paths
    BY WatchedIs, ResolvedIs
<1>2. ASSUME NEW q \in Watched, Via(p, q), q \in changed
      PROVE  v \in Quiet /\ d = Absent
  <2>1. fs[q] = Absent /\ began[q] = Absent /\ q \in Paths
    BY <1>2, Stood, WatchedIs
  <2> QED
    BY <1>2, <2>1 DEF ValueIs, DigestIs, Quiet
<1>3. CASE p \in changed
    BY <1>2, <1>3 DEF Via
<1>4. CASE p \notin changed /\ Resolved(p) \in changed
    BY <1>2, <1>4 DEF Via
<1>5. CASE p \notin changed /\ Resolved(p) \notin changed
  <2>1. v = Object(p) /\ d = Digest(p, metadata)
    BY <1>5 DEF ValueIs, DigestIs
  <2>2. Place[Resolved(p)] \in Inside
    BY <1>5, WatchedIs
  <2> QED
    BY <1>1, <2>1, <2>2 DEF Digest
<1> QED
    BY <1>3, <1>4, <1>5

\* BoundToTheRun: an observation with neither a reason nor movement binds what
\* the process saw (Bracket, ObserveTestLog, Complete).
THEOREM ReadsAreBound == Spec => []BoundToTheRun
<1>1. ASSUME IInv, phase = "done", final.reasons = {}, ~final.moved, ~restored, NEW r \in seen
      PROVE  \/ r.path \in DOMAIN final.entries /\ AgreesWith(r, final.entries[r.path])
             \/ r.path \in final.bound
             \/ r.path # Package /\ r.path \notin DOMAIN final.entries /\ Excused(r)
             \/ r.path # Package /\ Undated(r.value) = <<"file", "own">>
  <2> DEFINE p == r.path
  <2>1. /\ reasons = {} /\ final.entries = entries /\ final.bound = bound /\ \A q \in DOMAIN entries : entries[q].taken
        /\ \A m \in Watched : fs[m] = began[m]
        /\ (p \in DOMAIN entries /\ (r.stat => entries[p].metadata \/ p \in bound)) \/ LeftOut(p)
        /\ Sound /\ Changes
    BY <1>1, Accounted DEF IInv
  <2>2. /\ p \in Paths \cup {Package} /\ r.stat \in BOOLEAN
        /\ IF p = Package THEN NamesAre(r.value) ELSE ValueIs(p, r.value)
    BY <1>1 DEF IInv, Reads
  <2>3. p \in DOMAIN entries =>
            IF p = Package THEN ListingIs(entries[p].digest) ELSE DigestIs(p, entries[p].metadata, entries[p].digest)
    BY <1>1, <2>1 DEF IInv, Digested
  <2>4. CASE p = Package
    <3>1. p \in DOMAIN entries
      BY <2>1, <2>4 DEF LeftOut
    <3>2. {e[1] : e \in {f \in entries[p].digest[2] : f[1] \in Watched}} = r.value
      BY <1>1, <2>1, <2>2, <2>3, <2>4, <3>1, NamesAgree
    <3> QED
      BY <2>1, <2>4, <3>1, <3>2 DEF AgreesWith
  <2>5. CASE p # Package /\ r.value = OwnNode
    BY <2>5, OwnIs
  <2>6. CASE p # Package /\ r.value # OwnNode /\ p \notin DOMAIN entries
    <3>1. p \in Silenced \/ Place[p] = "guard" \/ r.value \in Quiet
      BY <1>1, <2>1, <2>6 DEF LeftOut
    <3> QED
      BY <2>1, <2>6, <3>1 DEF Excused, Quiet
  <2>7. CASE p # Package /\ r.value # OwnNode /\ p \in DOMAIN entries /\ p \notin bound
    <3>1. p \in Watched /\ (p \notin changed => Resolved(p) \in Watched)
      BY <1>1, <2>1, <2>7 DEF IInv, Covered
    <3>2. Place[p] # "guard" /\ p \notin Silenced /\ entries[p].metadata \in BOOLEAN
      BY <2>1, <2>7, <3>1, WatchedIs DEF Sound, Inside
    <3>3. \/ r.value \in Quiet /\ entries[p].digest = Absent
          \/ /\ r.value = Object(p)
             /\ entries[p].digest = IF entries[p].metadata THEN Object(p) ELSE Undated(Object(p))
      BY <1>1, <2>1, <2>2, <2>3, <2>7, <3>1, <3>2, FileAgrees
    <3>4. r.stat /\ ~entries[p].metadata => r.value \in Quiet
      BY <1>1, <2>1, <2>7, <3>2 DEF LeftOut
    <3>5. r.value \in Quiet => r.value = Absent
      BY <2>7 DEF Quiet
    <3>6. AgreesWith(r, entries[p])
      BY <2>2, <2>7, <3>3, <3>4, <3>5, OwnIs DEF AgreesWith
    <3> QED
      BY <2>1, <2>7, <3>6
  <2>8. CASE p \in bound
    BY <2>1, <2>8
  <2> QED
    BY <2>4, <2>5, <2>6, <2>7, <2>8
<1>2. IInv => BoundToTheRun
    BY <1>1 DEF BoundToTheRun
<1> QED
    BY <1>2, InvInit, InvStep, PTL DEF Spec

=============================================================================
