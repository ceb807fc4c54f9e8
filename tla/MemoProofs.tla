------------------------------ MODULE MemoProofs ------------------------------
(***************************************************************************)
(* Theorems about the memo store, for any keys, items, files, calls and    *)
(* ceiling, and any number of crashes and damages.                         *)
(*                                                                         *)
(* What a load serves rests on Wholes: a renamed entry was written to its  *)
(* end, and only damage cuts one short, which the entry shows.  The        *)
(* ceiling rests on the account of Unclaimed: the bytes on disk that no    *)
(* call still owes to the accounting.  A walk reads each file at its own   *)
(* moment while others keep renaming, so what it adds up is no state of    *)
(* the store at all; but everything it misses is owed by a call at the     *)
(* mutex, which the one holder of the mutex keeps there.                   *)
(* The last parts are about what fills the memo's answers: the one-shot    *)
(* holder of a go command (Once) and one collected go command (Collected). *)
(***************************************************************************)
EXTENDS MemoStore, Once, Collected, FiniteSetTheorems, TLAPS

Places == {"idle", "load", "create", "write", "rename", "lock", "walk", "evict", "returned"}
Storing == {"load", "create", "write", "rename"}
Walking == {"walk", "evict"}

\* What each variable holds, with what the arguments of a call depend on.
Typed ==
    /\ disk \in [Files -> Entries \cup {NoEntry}]
    /\ pc \in [Calls -> Places] /\ request \in [Calls -> Requests]
    /\ \A c \in Calls : pc[c] \in Storing => request[c].kind # "prune"
    /\ temp \in [Calls -> {"none", "partial", "whole"}]
    /\ found \in [Calls -> [Files -> (SUBSET Items) \cup {Unseen}]]
    /\ \A c \in Calls : pc[c] = "evict" => found[c] \in [Files -> SUBSET Items]
    /\ remaining \in [Calls -> Int]
    /\ known \in [Processes -> Int \cup {Unknown}]
    /\ mutex \in [Processes -> Calls \cup {NoOne}]
    /\ stored \in [Keys -> SUBSET Payloads]

\* An entry about to be renamed is whole, and a whole entry on disk was stored.
Wholes ==
    /\ \A c \in Calls : pc[c] = "rename" => temp[c] = "whole"
    /\ \A f \in Files : disk[f] # NoEntry /\ disk[f].whole =>
          disk[f].payload \in stored[disk[f].key]

\* The call at work on a walk holds the mutex of its process, and nobody else.
Exclusive ==
    /\ \A c \in Calls : pc[c] \in Walking => mutex[Home[c]] = c
    /\ \A p \in Processes : mutex[p] # NoOne => Home[mutex[p]] = p /\ pc[mutex[p]] \in Walking

USE MemoAssumption

-----------------------------------------------------------------------------
(* Types.                                                                  *)

\* What a request carries.
LEMMA RequestIs ==
    ASSUME NEW r \in Requests, r.kind # "prune"
    PROVE  /\ r \in [kind : {"store", "merge"}, key : Keys, payload : Payloads]
           /\ r.key \in Keys /\ r.payload \in Payloads /\ Path[r.key] \in Files
BY DEF Requests

LEMMA ServedIs ==
    ASSUME NEW d \in [Files -> Entries \cup {NoEntry}], disk = d, NEW k \in Keys
    PROVE  Served(k) \in SUBSET Items
BY DEF Served, Entries, Payloads

LEMMA HeldIs ==
    ASSUME disk \in [Files -> Entries \cup {NoEntry}], NEW f \in Files
    PROVE  Held(f) \in SUBSET Items
BY DEF Held, Entries, Payloads

\* The bytes of a set of items at places, and of one item per place.
LEMMA SizeIs ==
    ASSUME NEW S \in SUBSET (Files \X Items)
    PROVE  IsFiniteSet(S) /\ Cardinality(S) \in Nat
BY FS_Product, FS_Subset, FS_CardinalityType

LEMMA ItemsAre ==
    ASSUME NEW S \in SUBSET Items
    PROVE  IsFiniteSet(S) /\ Cardinality(S) \in Nat
BY FS_Subset, FS_CardinalityType

LEMMA PlacedIs ==
    ASSUME NEW at
    PROVE  Placed(at) \in SUBSET (Files \X Items)
BY DEF Placed

LEMMA NoWalkIs == NoWalk \in [Files -> (SUBSET Items) \cup {Unseen}]
BY Zenon DEF NoWalk

\* The request of nobody.
LEMMA NoRequestIs == NoRequest \in Requests /\ NoRequest.kind = "prune"
<1>1. NoRequest \in [kind : {"prune"}, target : 0..Limit]
    BY DEF NoRequest
<1> QED
    BY <1>1 DEF Requests

\* The initial states are typed.
LEMMA TypedInit == Init => Typed /\ Wholes /\ Exclusive
<1> SUFFICES ASSUME Init PROVE Typed /\ Wholes /\ Exclusive
    OBVIOUS
<1>3. Typed
    BY NoRequestIs, NoWalkIs DEF Init, Typed, Places, Storing
<1>4. Wholes /\ Exclusive
    BY DEF Init, Wholes, Exclusive, Walking
<1> QED
    BY <1>3, <1>4

\* A request whose payload has grown by a load is a request still.
LEMMA Grows ==
    ASSUME NEW r \in Requests, r.kind # "prune", NEW more \in SUBSET Items
    PROVE  /\ [r EXCEPT !.payload = @ \cup more] \in Requests
           /\ [r EXCEPT !.payload = @ \cup more].kind # "prune"
<1>1. r \in [kind : {"store", "merge"}, key : Keys, payload : Payloads]
    BY RequestIs
<1>2. r.payload \cup more \in Payloads
  <2>1. r.payload \in SUBSET Items /\ r.payload # {}
    BY <1>1 DEF Payloads
  <2>2. r.payload \cup more \in SUBSET Items /\ r.payload \cup more # {}
    BY <2>1, Zenon
  <2> QED
    BY <2>2, Zenon DEF Payloads
<1>3. [r EXCEPT !.payload = @ \cup more]
          \in [kind : {"store", "merge"}, key : Keys, payload : Payloads]
    BY <1>1, <1>2
<1> QED
    BY <1>1, <1>3 DEF Requests

\* The places of a request that begins.
LEMMA TypedBegin ==
    ASSUME Typed, NEW c \in Calls, Begin(c)
    PROVE  Typed'
<1>1. PICK r \in Requests :
          /\ request' = [request EXCEPT ![c] = r]
          /\ pc' = [pc EXCEPT ![c] = IF r.kind = "merge" THEN "load"
                                       ELSE IF r.kind = "store" THEN "create"
                                       ELSE "lock"]
    BY DEF Begin
<1> QED
    BY <1>1 DEF Begin, Typed, Places, Storing

\* The end of a call.
LEMMA CallsEnd ==
    ASSUME Typed, NEW c \in Calls, CallEnds(c)
    PROVE  /\ pc' \in [Calls -> Places] /\ request' \in [Calls -> Requests]
           /\ pc'[c] = "returned"
           /\ \A d \in Calls : d # c => pc'[d] = pc[d] /\ request'[d] = request[d]
           /\ \A d \in Calls : pc'[d] \in Storing => pc[d] \in Storing /\ request'[d] = request[d]
           /\ \A d \in Calls : pc'[d] \in Walking => pc'[d] = pc[d]
BY NoRequestIs DEF Typed, CallEnds, Places, Storing, Walking

LEMMA TypedStoring ==
    ASSUME Typed, NEW c \in Calls,
           MergeLoad(c) \/ StoreCreate(c) \/ StoreWrite(c) \/ StoreRename(c)
    PROVE  Typed'
<1> USE DEF Typed
<1>1. CASE MergeLoad(c)
  <2>1. pc[c] = "load" /\ request[c] \in Requests /\ request[c].kind # "prune"
    BY <1>1 DEF MergeLoad, Storing
  <2>2. Served(request[c].key) \in SUBSET Items
    BY <2>1, RequestIs, ServedIs
  <2>3. /\ request'[c] \in Requests /\ request'[c].kind # "prune"
        /\ \A d \in Calls : d # c => request'[d] = request[d]
        /\ request' = [request EXCEPT ![c] = [request[c] EXCEPT !.payload =
                                                 @ \cup Served(request[c].key)]]
    BY <1>1, <2>1, <2>2, Grows DEF MergeLoad
  <2>4. request' \in [Calls -> Requests]
    BY <2>3
  <2>5. \A d \in Calls : pc'[d] \in Storing => request'[d].kind # "prune"
    BY <1>1, <2>3 DEF MergeLoad, Storing
  <2> QED
    BY <1>1, <2>4, <2>5 DEF MergeLoad, Places
<1>2. CASE StoreCreate(c)
  <2>1. CASE CallEnds(c) /\ UNCHANGED temp
    BY <1>2, <2>1, CallsEnd DEF StoreCreate
  <2>2. CASE /\ temp' = [temp EXCEPT ![c] = "partial"] /\ pc' = [pc EXCEPT ![c] = "write"]
             /\ UNCHANGED request
    <3>1. pc[c] = "create" /\ UNCHANGED <<disk, found, remaining, known, mutex, stored>>
      BY <1>2 DEF StoreCreate
    <3> QED
      BY <2>2, <3>1 DEF Places, Storing
  <2> QED
    BY <1>2, <2>1, <2>2 DEF StoreCreate
<1>3. CASE StoreWrite(c)
  <2>1. pc[c] = "write" /\ UNCHANGED <<disk, found, remaining, known, mutex, stored>>
    BY <1>3 DEF StoreWrite
  <2>2. CASE temp' = [temp EXCEPT ![c] = "none"] /\ CallEnds(c)
    BY <2>1, <2>2, CallsEnd
  <2>3. CASE /\ temp' = [temp EXCEPT ![c] = "whole"] /\ pc' = [pc EXCEPT ![c] = "rename"]
             /\ UNCHANGED request
    BY <2>1, <2>3 DEF Places, Storing
  <2> QED
    BY <1>3, <2>2, <2>3 DEF StoreWrite
<1>4. CASE StoreRename(c)
  <2>1. /\ pc[c] = "rename" /\ request[c] \in Requests /\ request[c].kind # "prune"
        /\ request[c].key \in Keys /\ request[c].payload \in Payloads
    BY <1>4, RequestIs DEF StoreRename, Storing
  <2> DEFINE entry == [key |-> request[c].key, payload |-> request[c].payload,
                       whole |-> temp[c] = "whole"]
  <2>2. entry \in Entries
    BY <2>1 DEF Entries
  <2>3. disk' \in [Files -> Entries \cup {NoEntry}]
    BY <1>4, <2>2 DEF StoreRename, CallEnds
  <2>4. stored' \in [Keys -> SUBSET Payloads]
    <3>1. stored[request[c].key] \cup {request[c].payload} \in SUBSET Payloads
      BY <2>1
    <3>2. \/ stored' = stored
          \/ stored' = [stored EXCEPT ![request[c].key] = @ \cup {request[c].payload}]
      BY <1>4 DEF StoreRename
    <3> QED
      BY <2>1, <3>1, <3>2
  <2>5. /\ pc' \in [Calls -> Places] /\ request' \in [Calls -> Requests]
        /\ \A d \in Calls : pc'[d] \in Storing => pc[d] \in Storing /\ request'[d] = request[d]
    <3>1. CASE CallEnds(c)
      BY <3>1, CallsEnd
    <3>2. CASE pc' = [pc EXCEPT ![c] = "lock"] /\ UNCHANGED request
      BY <3>2 DEF Places, Storing
    <3> QED
      BY <1>4, <3>1, <3>2 DEF StoreRename
  <2>6. temp' \in [Calls -> {"none", "partial", "whole"}] /\ UNCHANGED <<found, remaining, known, mutex>>
    BY <1>4 DEF StoreRename
  <2>7. \A d \in Calls : pc'[d] = "evict" => pc[d] = "evict"
    BY <1>4 DEF StoreRename, CallEnds
  <2> QED
    BY <2>3, <2>4, <2>5, <2>6, <2>7
<1> QED
    BY <1>1, <1>2, <1>3, <1>4

LEMMA TypedCounting ==
    ASSUME Typed, NEW c \in Calls, Lock(c) \/ WalkFails(c) \/ WalkDone(c) \/ EvictDone(c)
    PROVE  Typed'
<1> USE DEF Typed
<1> Home[c] \in Processes
    OBVIOUS
<1>1. CASE Lock(c)
  <2>1. CASE Fits(c) /\ known' = [known EXCEPT ![Home[c]] = @ + Weight(c)]
             /\ CallEnds(c) /\ UNCHANGED <<mutex, found>>
    <3>1. request[c].payload \in SUBSET Items /\ known[Home[c]] \in Int
      BY <2>1, RequestIs DEF Fits, Payloads
    <3>2. Weight(c) \in Nat
      BY <3>1, ItemsAre DEF Weight
    <3>3. known' \in [Processes -> Int \cup {Unknown}]
      BY <2>1, <3>1, <3>2
    <3> QED
      BY <1>1, <2>1, <3>3, NoRequestIs DEF Lock, Places, Storing, CallEnds
  <2>2. CASE mutex' = [mutex EXCEPT ![Home[c]] = c] /\ found' = [found EXCEPT ![c] = NoWalk]
             /\ pc' = [pc EXCEPT ![c] = "walk"] /\ UNCHANGED <<known, request>>
    <3>1. UNCHANGED <<disk, temp, remaining, stored>>
      BY <1>1 DEF Lock
    <3> QED
      BY <2>2, <3>1, NoWalkIs DEF Places, Storing
  <2> QED
    BY <1>1, <2>1, <2>2 DEF Lock
<1>2. CASE WalkDone(c)
  <2>1. Bytes(found[c]) \in Nat
    BY PlacedIs, SizeIs DEF Bytes
  <2>2. found[c] \in [Files -> SUBSET Items]
    <3>1. \A f \in Files : found[c][f] \in (SUBSET Items) \cup {Unseen} /\ found[c][f] # Unseen
      BY <1>2 DEF WalkDone
    <3>2. \A f \in Files : found[c][f] \in SUBSET Items
      BY <3>1
    <3>3. found[c] = [f \in Files |-> found[c][f]]
      OBVIOUS
    <3> QED
      BY <3>2, <3>3, Zenon
  <2> QED
    BY <1>2, <2>1, <2>2 DEF WalkDone, Places, Storing
<1>3. CASE EvictDone(c)
    BY <1>3, NoRequestIs, NoWalkIs DEF EvictDone, Places, Storing, CallEnds
<1>4. CASE WalkFails(c)
    BY <1>4, NoRequestIs DEF WalkFails, Places, Storing, CallEnds
<1> QED
    BY <1>1, <1>2, <1>3, <1>4

\* What a walk records of a file.
LEMMA FoundOne ==
    ASSUME Typed, NEW c \in Calls, NEW f \in Files, NEW what \in SUBSET Items
    PROVE  [found EXCEPT ![c][f] = what] \in [Calls -> [Files -> (SUBSET Items) \cup {Unseen}]]
BY DEF Typed

LEMMA TypedWalking ==
    ASSUME Typed, NEW c \in Calls, NEW f \in Files, Walk(c, f) \/ Evict(c, f)
    PROVE  Typed'
<1> USE DEF Typed
<1>1. CASE Walk(c, f)
  <2>1. Held(f) \in SUBSET Items
    BY HeldIs
  <2> QED
    <3>1. found' \in [Calls -> [Files -> (SUBSET Items) \cup {Unseen}]]
      <4>1. PICK what \in SUBSET Items : found' = [found EXCEPT ![c][f] = what]
        BY <1>1, <2>1 DEF Walk
      <4>2. [found EXCEPT ![c][f] = what] \in [Calls -> [Files -> (SUBSET Items) \cup {Unseen}]]
        BY FoundOne
      <4> QED
        BY <4>1, <4>2
    <3>2. pc[c] = "walk" /\ UNCHANGED <<disk, pc, request, temp, remaining, known, mutex, stored>>
      BY <1>1 DEF Walk
    <3>3. \A d \in Calls : d # c => found'[d] = found[d]
      BY <1>1 DEF Walk
    <3> QED
      BY <3>1, <3>2, <3>3
<1>2. CASE Evict(c, f)
  <2>1. found[c][f] \in SUBSET Items
    BY <1>2 DEF Evict
  <2>2. Cardinality(found[c][f]) \in Nat
    BY <2>1, ItemsAre
  <2>3. remaining' \in [Calls -> Int] /\ disk' \in [Files -> Entries \cup {NoEntry}]
    BY <1>2, <2>2 DEF Evict
  <2> QED
    BY <1>2, <2>3 DEF Evict, Storing
<1> QED
    BY <1>1, <1>2

LEMMA TypedOutside ==
    ASSUME Typed, (\E p \in Processes : Crash(p)) \/ (\E f \in Files : Damage(f))
    PROVE  Typed'
<1> USE DEF Typed
<1>1. ASSUME NEW p \in Processes, Crash(p)
      PROVE  Typed'
    BY <1>1, NoRequestIs, NoWalkIs DEF Crash, Places, Storing
<1>2. ASSUME NEW f \in Files, Damage(f)
      PROVE  Typed'
  <2>1. disk[f] \in Entries
    BY <1>2 DEF Damage
  <2>2. PICK rest \in (SUBSET disk[f].payload) \ {{}} :
           disk' = [disk EXCEPT ![f].whole = FALSE, ![f].payload = rest]
    BY <1>2 DEF Damage
  <2>3. rest \in Payloads
    BY <2>1, <2>2 DEF Entries, Payloads
  <2>4. [disk[f] EXCEPT !.whole = FALSE, !.payload = rest] \in Entries
    BY <2>1, <2>3 DEF Entries
  <2>5. disk' \in [Files -> Entries \cup {NoEntry}]
    BY <2>2, <2>4
  <2> QED
    BY <1>2, <2>5 DEF Damage, callVars
<1> QED
    BY <1>1, <1>2

LEMMA TypedStep == Typed /\ [Next]_vars => Typed'
<1>1. ASSUME Typed, UNCHANGED vars
      PROVE  Typed'
    BY <1>1 DEF Typed, vars, callVars
<1> QED
    BY <1>1, TypedBegin, TypedStoring, TypedCounting, TypedWalking, TypedOutside DEF Next, Call

-----------------------------------------------------------------------------
(* What a load serves.                                                     *)

LEMMA WholesCall ==
    ASSUME Typed, Wholes, NEW c \in Calls, Begin(c) \/ Call(c)
    PROVE  Wholes'
<1> USE DEF Wholes
<1>1. CASE Begin(c)
  <2>1. \A d \in Calls : pc'[d] = "rename" => pc[d] = "rename"
    BY <1>1 DEF Begin, Typed
  <2> QED
    BY <1>1, <2>1 DEF Begin
<1>2. CASE MergeLoad(c)
    BY <1>2 DEF MergeLoad, Typed
<1>3. CASE StoreCreate(c)
    BY <1>3 DEF StoreCreate, Typed, CallEnds
<1>4. CASE StoreWrite(c)
    BY <1>4 DEF StoreWrite, Typed, CallEnds
<1>5. CASE StoreRename(c)
  <2>1. \A d \in Calls : pc'[d] = "rename" => pc[d] = "rename" /\ temp'[d] = temp[d]
    BY <1>5 DEF StoreRename, Typed, CallEnds
  <2>2. /\ request[c].kind # "prune" /\ request[c].key \in Keys
        /\ \A f \in Files : disk[f] # NoEntry => disk[f].key \in Keys
    BY <1>5, RequestIs DEF StoreRename, Typed, Storing, Entries
  <2>3. \A f \in Files : disk'[f] # NoEntry /\ disk'[f].whole =>
           disk'[f].payload \in stored'[disk'[f].key]
    <3> SUFFICES ASSUME NEW f \in Files, disk'[f] # NoEntry, disk'[f].whole
                 PROVE  disk'[f].payload \in stored'[disk'[f].key]
        OBVIOUS
    <3>1. CASE UNCHANGED <<disk, stored>>
      BY <3>1
    <3>2. CASE /\ disk' = [disk EXCEPT ![Path[request[c].key]] =
                              [key |-> request[c].key, payload |-> request[c].payload,
                               whole |-> temp[c] = "whole"]]
               /\ stored' = [stored EXCEPT ![request[c].key] = @ \cup {request[c].payload}]
      <4>1. \A k \in Keys : stored[k] \subseteq stored'[k]
        BY <2>2, <3>2 DEF Typed
      <4>2. CASE f = Path[request[c].key]
        BY <2>2, <3>2, <4>2 DEF Typed
      <4>3. CASE f # Path[request[c].key]
        BY <2>2, <3>2, <4>1, <4>3 DEF Typed
      <4> QED
        BY <4>2, <4>3
    <3> QED
      BY <1>5, <3>1, <3>2 DEF StoreRename
  <2> QED
    BY <2>1, <2>3
<1>6. CASE Lock(c)
    BY <1>6 DEF Lock, Typed, CallEnds
<1>7. CASE WalkDone(c)
    BY <1>7 DEF WalkDone, Typed
<1>8. CASE EvictDone(c) \/ WalkFails(c)
    BY <1>8 DEF EvictDone, WalkFails, Typed, CallEnds
<1>9. ASSUME NEW f \in Files, Walk(c, f) \/ Evict(c, f)
      PROVE  Wholes'
    BY <1>9 DEF Walk, Evict, Typed
<1> QED
    BY <1>1, <1>2, <1>3, <1>4, <1>5, <1>6, <1>7, <1>8, <1>9 DEF Call

LEMMA WholesStep == Typed /\ Wholes /\ [Next]_vars => Wholes'
<1>1. ASSUME Typed, Wholes, UNCHANGED vars
      PROVE  Wholes'
    BY <1>1 DEF Wholes, vars, callVars
<1>2. ASSUME Typed, Wholes, NEW p \in Processes, Crash(p)
      PROVE  Wholes'
    BY <1>2 DEF Wholes, Crash, Typed
<1>3. ASSUME Typed, Wholes, NEW f \in Files, Damage(f)
      PROVE  Wholes'
  <2>1. disk[f] \in Entries /\ UNCHANGED <<pc, temp, stored>>
    BY <1>3 DEF Damage, Typed, callVars
  <2>2. PICK rest \in (SUBSET disk[f].payload) \ {{}} :
           disk' = [disk EXCEPT ![f].whole = FALSE, ![f].payload = rest]
    BY <1>3 DEF Damage
  <2>3. /\ ~disk'[f].whole
        /\ \A g \in Files : g # f => disk'[g] = disk[g]
    BY <2>1, <2>2, <1>3 DEF Typed, Entries
  <2> QED
    BY <1>3, <2>1, <2>3 DEF Wholes
<1> QED
    BY <1>1, <1>2, <1>3, WholesCall DEF Next

\* A load never serves what was not stored whole under its own key, by any
\* process, whatever crashed or was damaged meanwhile (Load, Store, Merge).
THEOREM LoadsWhatWasStored == Spec => []ServesWhatWasStored
<1>1. Typed /\ Wholes => ServesWhatWasStored
    BY DEF Typed, Wholes, ServesWhatWasStored, Served
<1>2. (Typed /\ Wholes) /\ [Next]_vars => (Typed /\ Wholes)'
    BY TypedStep, WholesStep
<1> QED
    BY TypedInit, <1>1, <1>2, PTL DEF Spec

-----------------------------------------------------------------------------
(* The mutex.                                                              *)

LEMMA ExclusiveStep == Typed /\ Exclusive /\ [Next]_vars => Exclusive'
<1> SUFFICES ASSUME Typed, Exclusive, [Next]_vars
             PROVE  Exclusive'
    OBVIOUS
<1> USE DEF Exclusive
<1> DEFINE Apart(c) == /\ mutex' = mutex
                       /\ \A d \in Calls : pc'[d] \in Walking <=> pc[d] \in Walking
<1>1. CASE UNCHANGED vars
    BY <1>1 DEF vars, callVars
<1>2. ASSUME NEW c \in Calls, Apart(c)
      PROVE  Exclusive'
    BY <1>2 DEF Typed
<1>3. ASSUME NEW c \in Calls, Begin(c)
      PROVE  Exclusive'
    BY <1>2, <1>3 DEF Begin, Typed, Walking
<1>4. ASSUME NEW c \in Calls, MergeLoad(c) \/ StoreCreate(c) \/ StoreWrite(c) \/ StoreRename(c)
      PROVE  Exclusive'
  <2>1. /\ pc[c] \in Storing /\ mutex' = mutex
        /\ \E place \in {"create", "write", "rename", "lock", "returned"} :
              pc' = [pc EXCEPT ![c] = place]
    BY <1>4 DEF MergeLoad, StoreCreate, StoreWrite, StoreRename, Storing, CallEnds
  <2> QED
    BY <1>2, <2>1 DEF Typed, Storing, Walking
<1>5. ASSUME NEW c \in Calls, Lock(c)
      PROVE  Exclusive'
  <2>1. /\ pc[c] = "lock" /\ mutex[Home[c]] = NoOne /\ Home[c] \in Processes
        /\ \/ mutex' = mutex /\ pc' = [pc EXCEPT ![c] = "returned"]
           \/ mutex' = [mutex EXCEPT ![Home[c]] = c] /\ pc' = [pc EXCEPT ![c] = "walk"]
    BY <1>5 DEF Lock, CallEnds
  <2>2. CASE mutex' = mutex /\ pc' = [pc EXCEPT ![c] = "returned"]
    BY <1>2, <2>1, <2>2 DEF Typed, Walking
  <2>3. CASE mutex' = [mutex EXCEPT ![Home[c]] = c] /\ pc' = [pc EXCEPT ![c] = "walk"]
    <3>1. /\ mutex'[Home[c]] = c /\ pc'[c] = "walk" /\ c # NoOne
          /\ \A p \in Processes : p # Home[c] => mutex'[p] = mutex[p]
          /\ \A d \in Calls : d # c => pc'[d] = pc[d]
      BY <2>1, <2>3 DEF Typed
    <3>2. \A d \in Calls : pc[d] \in Walking => Home[d] \in Processes /\ Home[d] # Home[c]
      BY <2>1 DEF Typed
    <3>3. \A d \in Calls : pc'[d] \in Walking => mutex'[Home[d]] = d
      BY <3>1, <3>2
    <3>4. ASSUME NEW p \in Processes, mutex'[p] # NoOne
          PROVE  Home[mutex'[p]] = p /\ pc'[mutex'[p]] \in Walking
      <4>1. CASE p = Home[c]
        BY <3>1, <4>1 DEF Walking
      <4>2. CASE p # Home[c]
        BY <2>1, <3>1, <3>4, <4>2 DEF Typed, Walking
      <4> QED
        BY <4>1, <4>2
    <3> QED
      BY <3>3, <3>4
  <2> QED
    BY <2>1, <2>2, <2>3
<1>6. ASSUME NEW c \in Calls, WalkDone(c)
      PROVE  Exclusive'
    BY <1>2, <1>6 DEF WalkDone, Typed, Walking
<1>7. ASSUME NEW c \in Calls, EvictDone(c) \/ WalkFails(c)
      PROVE  Exclusive'
  <2>1. /\ pc[c] \in Walking /\ mutex' = [mutex EXCEPT ![Home[c]] = NoOne] /\ CallEnds(c)
    BY <1>7 DEF EvictDone, WalkFails, Walking
  <2> QED
    BY <2>1 DEF CallEnds, Typed, Walking
<1>8. ASSUME NEW c \in Calls, NEW f \in Files, Walk(c, f) \/ Evict(c, f)
      PROVE  Exclusive'
    BY <1>2, <1>8 DEF Walk, Evict, Typed
<1>9. ASSUME NEW p \in Processes, Crash(p)
      PROVE  Exclusive'
    BY <1>9 DEF Crash, Typed, Walking
<1>10. ASSUME NEW f \in Files, Damage(f)
       PROVE  Exclusive'
    BY <1>10 DEF Damage, callVars
<1> QED
    BY <1>1, <1>3, <1>4, <1>5, <1>6, <1>7, <1>8, <1>9, <1>10 DEF Next, Call

-----------------------------------------------------------------------------
(* The bytes nobody owes to the accounting.                                *)

\* What a call at the mutex still has to account for: its entry, if it stored
\* one.
Owed(c) == IF pc[c] = "lock" /\ request[c].kind # "prune"
           THEN {Path[request[c].key]} \X request[c].payload ELSE {}

\* The bytes on disk that no call owes and no walk missed.
Unclaimed == {x \in Files \X Items : /\ x[2] \in Held(x[1]) /\ x[1] \notin uncounted
                                     /\ \A c \in Calls : x \notin Owed(c)}

\* Bytes that cannot be removed.
Stuck(S) == \A x \in S : x[1] \in Unremovable

LEMMA UnclaimedIs == Unclaimed \in SUBSET (Files \X Items)
BY DEF Unclaimed

LEMMA OwedIs ==
    ASSUME Typed, NEW c \in Calls, pc[c] = "lock", request[c].kind # "prune"
    PROVE  /\ Owed(c) \in SUBSET (Files \X Items)
           /\ Cardinality(Owed(c)) = Weight(c) /\ Weight(c) \in Nat
<1>1. /\ request[c].payload \in SUBSET Items /\ Path[request[c].key] \in Files
    BY RequestIs DEF Typed, Payloads
<1>2. /\ IsFiniteSet(request[c].payload) /\ Weight(c) \in Nat
    BY <1>1, ItemsAre DEF Weight
<1> DEFINE at == Path[request[c].key]
<1>3. IsFiniteSet({at}) /\ Cardinality({at}) = 1
    BY FS_Singleton
<1>4. Cardinality({at} \X request[c].payload) = 1 * Weight(c)
    BY <1>2, <1>3, FS_Product DEF Weight
<1>5. {at} \X request[c].payload \in SUBSET (Files \X Items)
    BY <1>1
<1> QED
    BY <1>2, <1>4, <1>5 DEF Owed

\* Steps that release nothing: what they place is owed by the call that did.
LEMMA NothingReleased ==
    ASSUME Typed, NEW c \in Calls,
           \/ Begin(c) \/ MergeLoad(c) \/ StoreCreate(c) \/ StoreWrite(c) \/ StoreRename(c)
           \/ WalkFails(c) \/ WalkDone(c) \/ EvictDone(c)
           \/ \E f \in Files : Evict(c, f)
    PROVE  Unclaimed' \subseteq Unclaimed
<1>0. uncounted' = uncounted
    BY DEF Begin, MergeLoad, StoreCreate, StoreWrite, StoreRename, WalkFails, WalkDone,
           EvictDone, Evict
<1>1. ASSUME disk' = disk,
             \A d \in Calls : Owed(d) \subseteq Owed(d)'
      PROVE  Unclaimed' \subseteq Unclaimed
    BY <1>0, <1>1 DEF Unclaimed, Held
<1>2. ASSUME disk' = disk,
             \A d \in Calls : pc[d] = "lock" => pc'[d] = "lock" /\ request'[d] = request[d]
      PROVE  Unclaimed' \subseteq Unclaimed
    BY <1>1, <1>2 DEF Owed
<1>3. CASE Begin(c)
  <2>1. /\ disk' = disk /\ pc[c] = "idle"
        /\ \A d \in Calls : d # c => pc'[d] = pc[d] /\ request'[d] = request[d]
    BY <1>3 DEF Begin, Typed
  <2>2. \A d \in Calls : Owed(d) \subseteq Owed(d)'
    BY <2>1 DEF Owed
  <2> QED
    BY <1>1, <2>1, <2>2
<1>4. CASE MergeLoad(c)
  <2>1. /\ disk' = disk /\ pc[c] = "load"
        /\ \A d \in Calls : d # c => pc'[d] = pc[d] /\ request'[d] = request[d]
    BY <1>4 DEF MergeLoad, Typed
  <2>2. \A d \in Calls : Owed(d) \subseteq Owed(d)'
    BY <2>1 DEF Owed
  <2> QED
    BY <1>1, <2>1, <2>2
<1>5. CASE StoreCreate(c)
    BY <1>2, <1>5 DEF StoreCreate, Typed, CallEnds
<1>6. CASE StoreWrite(c)
    BY <1>2, <1>6 DEF StoreWrite, Typed, CallEnds
<1>7. CASE StoreRename(c)
  <2>1. CASE disk' = disk
    BY <1>2, <1>7, <2>1 DEF StoreRename, Typed, CallEnds
  <2>2. CASE /\ disk' = [disk EXCEPT ![Path[request[c].key]] =
                            [key |-> request[c].key, payload |-> request[c].payload,
                             whole |-> temp[c] = "whole"]]
             /\ pc' = [pc EXCEPT ![c] = "lock"] /\ request' = request
    <3> DEFINE at == Path[request[c].key]
    <3>1. /\ pc[c] = "rename" /\ request' = request /\ request[c].kind # "prune" /\ at \in Files
      BY <1>7, <2>2, RequestIs DEF StoreRename, Typed, Storing
    <3>2. Owed(c)' = {at} \X request[c].payload /\ Owed(c) = {}
      BY <2>2, <3>1 DEF Owed, Typed
    <3>3. \A d \in Calls : d # c => Owed(d)' = Owed(d)
      BY <2>2, <3>1 DEF Owed, Typed
    <3>4. /\ \A f \in Files : f = at => Held(f)' \subseteq request[c].payload
          /\ \A f \in Files : f # at => Held(f)' = Held(f)
      BY <2>2, <3>1 DEF Held, Typed
    <3> SUFFICES ASSUME NEW x \in Files \X Items, x \in Unclaimed'
                 PROVE  x \in Unclaimed
        BY DEF Unclaimed
    <3> HIDE DEF at
    <3>5. x[1] # at
      <4>1. x[1] \in Files /\ x[2] \in Held(x[1])' /\ x = <<x[1], x[2]>>
        BY DEF Unclaimed
      <4>2. x[1] = at => x \in {at} \X request[c].payload
        BY <3>4, <4>1
      <4> QED
        BY <3>2, <4>2 DEF Unclaimed
    <3>6. x[2] \in Held(x[1])
      BY <3>4, <3>5 DEF Unclaimed
    <3>7. \A d \in Calls : x \notin Owed(d)
      BY <3>2, <3>3 DEF Unclaimed
    <3> QED
      BY <1>0, <3>6, <3>7 DEF Unclaimed
  <2> QED
    BY <1>7, <2>1, <2>2 DEF StoreRename
<1>8. CASE WalkDone(c)
    BY <1>2, <1>8 DEF WalkDone, Typed
<1>9. CASE EvictDone(c)
    BY <1>2, <1>9 DEF EvictDone, Typed, CallEnds
<1>10. CASE WalkFails(c)
    BY <1>2, <1>10 DEF WalkFails, Typed, CallEnds
<1>11. ASSUME NEW f \in Files, Evict(c, f)
       PROVE  Unclaimed' \subseteq Unclaimed
  <2>1. \A d \in Calls : Owed(d)' = Owed(d)
    BY <1>11 DEF Evict, Owed
  <2>2. \A g \in Files : Held(g)' \subseteq Held(g)
    BY <1>11 DEF Evict, Held, Typed
  <2> QED
    BY <1>0, <2>1, <2>2 DEF Unclaimed
<1> QED
    BY <1>3, <1>4, <1>5, <1>6, <1>7, <1>8, <1>9, <1>10, <1>11

\* A call that passes the mutex leaves what it owed to the account, or to the
\* walk, which has yet to count it.
LEMMA Released ==
    ASSUME Typed, NEW c \in Calls, Lock(c)
    PROVE  /\ Unclaimed' \subseteq Unclaimed \cup Owed(c)
           /\ uncounted' = uncounted \cup Written(c) => Unclaimed' \subseteq Unclaimed
<1>1. /\ disk' = disk
      /\ \A d \in Calls : d # c => pc'[d] = pc[d] /\ request'[d] = request[d]
      /\ uncounted \subseteq uncounted'
    BY DEF Lock, Typed, CallEnds
<1>2. \A d \in Calls : d # c => Owed(d)' = Owed(d)
    BY <1>1 DEF Owed
<1>3. \A f \in Files : Held(f)' = Held(f)
    BY <1>1 DEF Held
<1>4. Unclaimed' \subseteq Unclaimed \cup Owed(c)
    BY <1>1, <1>2, <1>3 DEF Unclaimed
<1>5. \A x \in Owed(c) : x[1] \in Written(c)
    BY DEF Owed, Written
<1>6. ASSUME uncounted' = uncounted \cup Written(c)
      PROVE  Unclaimed' \subseteq Unclaimed
  <2>1. \A x \in Unclaimed' : x \notin Owed(c)
    BY <1>5, <1>6 DEF Unclaimed
  <2> QED
    BY <1>4, <2>1
<1> QED
    BY <1>4, <1>6

\* A walk releases at most what it has just found.
LEMMA WalkReleases ==
    ASSUME Typed, NEW c \in Calls, NEW f \in Files, Walk(c, f)
    PROVE  \A x \in Unclaimed' : \/ x \in Unclaimed
                                 \/ x[1] = f /\ found'[c][f] = Held(f)
<1>1. /\ \A d \in Calls : Owed(d)' = Owed(d)
      /\ \A g \in Files : Held(g)' = Held(g)
    BY DEF Walk, Owed, Held
<1>2. CASE found' = [found EXCEPT ![c][f] = Held(f)] /\ uncounted' = uncounted \ {f}
  <2>1. found'[c][f] = Held(f)
    BY <1>2 DEF Typed
  <2> QED
    BY <1>1, <1>2, <2>1 DEF Unclaimed
<1>3. CASE uncounted' = uncounted \cup {f}
    BY <1>1, <1>3 DEF Unclaimed
<1> QED
    BY <1>2, <1>3 DEF Walk

LEMMA DamagedShrinks ==
    ASSUME Typed, NEW f \in Files, Damage(f)
    PROVE  Unclaimed' \subseteq Unclaimed
<1>1. \A d \in Calls : Owed(d)' = Owed(d)
    BY DEF Damage, Owed, callVars
<1>2. disk[f] \in Entries /\ disk[f] # NoEntry
    BY DEF Damage, Typed
<1>3. PICK rest \in (SUBSET disk[f].payload) \ {{}} :
         disk' = [disk EXCEPT ![f].whole = FALSE, ![f].payload = rest]
    BY DEF Damage
<1>4. disk'[f].payload \subseteq disk[f].payload /\ \A g \in Files : g # f => disk'[g] = disk[g]
    BY <1>2, <1>3 DEF Typed, Entries
<1>5. \A g \in Files : Held(g)' \subseteq Held(g)
    BY <1>2, <1>4 DEF Held
<1>6. uncounted' = uncounted
    BY DEF Damage
<1> QED
    BY <1>1, <1>5, <1>6 DEF Unclaimed

-----------------------------------------------------------------------------
(* The ceiling.                                                            *)

\* Nobody is at the account of a process, or a walk that may still fail.
Settled(p) == mutex[p] = NoOne \/ (pc[mutex[p]] = "walk" /\ found[mutex[p]] = NoWalk)

\* The account of a settled process covers what nobody owes, and is within the
\* ceiling unless nothing of that can be removed.
Accounts ==
    \A p \in Processes : Settled(p) /\ known[p] # Unknown =>
        /\ Cardinality(Unclaimed) <= known[p]
        /\ known[p] <= Limit \/ Stuck(Unclaimed)

\* A walk has found all that nobody owes at the files it looked at.
Walks ==
    \A c \in Calls : pc[c] = "walk" =>
        \A x \in Unclaimed : found[c][x[1]] # Unseen => x[2] \in found[c][x[1]]

\* What an eviction still counts covers what it may yet remove and what it left
\* behind, which cannot be removed.
Evicts ==
    \A c \in Calls : pc[c] = "evict" =>
        /\ Cardinality(Placed(found[c])) + Cardinality(Unclaimed \ Placed(found[c])) <= remaining[c]
        /\ Stuck(Unclaimed \ Placed(found[c]))

\* Fewer unclaimed bytes, and more found ones, only help.
LEMMA CoversMore ==
    ASSUME NEW S \in SUBSET (Files \X Items), NEW T \in SUBSET (Files \X Items),
           NEW F \in SUBSET (Files \X Items), NEW r \in Int, T \subseteq S,
           Cardinality(F) + Cardinality(S \ F) <= r, Stuck(S \ F)
    PROVE  Cardinality(F) + Cardinality(T \ F) <= r /\ Stuck(T \ F)
<1>1. IsFiniteSet(S \ F) /\ T \ F \in SUBSET (S \ F)
    BY SizeIs
<1>2. Cardinality(T \ F) <= Cardinality(S \ F)
    BY <1>1, FS_Subset
<1>3. Cardinality(F) \in Nat /\ Cardinality(T \ F) \in Nat /\ Cardinality(S \ F) \in Nat
    BY SizeIs
<1>4. Stuck(T \ F)
    BY <1>1 DEF Stuck
<1> QED
    BY <1>2, <1>3, <1>4

LEMMA FewerFit ==
    ASSUME NEW S \in SUBSET (Files \X Items), NEW T \in SUBSET (Files \X Items),
           T \subseteq S, NEW n \in Int, Cardinality(S) <= n
    PROVE  Cardinality(T) <= n
<1>1. Cardinality(T) <= Cardinality(S)
    BY SizeIs, FS_Subset
<1> QED
    BY <1>1, SizeIs

LEMMA MoreFit ==
    ASSUME NEW S \in SUBSET (Files \X Items), NEW T \in SUBSET (Files \X Items),
           NEW W \in SUBSET (Files \X Items), T \subseteq S \cup W,
           NEW n \in Int, Cardinality(S) <= n
    PROVE  Cardinality(T) <= n + Cardinality(W)
<1>1. /\ IsFiniteSet(S) /\ IsFiniteSet(W) /\ IsFiniteSet(S \cup W)
      /\ Cardinality(S) \in Nat /\ Cardinality(W) \in Nat /\ Cardinality(S \cap W) \in Nat
      /\ Cardinality(T) \in Nat /\ Cardinality(S \cup W) \in Nat
    BY SizeIs
<1>2. Cardinality(S \cup W) = Cardinality(S) + Cardinality(W) - Cardinality(S \cap W)
    BY <1>1, FS_Union
<1>3. Cardinality(T) <= Cardinality(S \cup W)
    BY <1>1, FS_Subset
<1> QED
    BY <1>1, <1>2, <1>3

\* A set splits into what a part finds and the rest.
LEMMA Splits ==
    ASSUME NEW S \in SUBSET (Files \X Items), NEW F \in SUBSET (Files \X Items)
    PROVE  Cardinality(S) <= Cardinality(F) + Cardinality(S \ F)
<1>1. /\ IsFiniteSet(S) /\ IsFiniteSet(F) /\ Cardinality(S) \in Nat /\ Cardinality(F) \in Nat
      /\ Cardinality(S \cap F) \in Nat
    BY SizeIs
<1>2. Cardinality(S \ F) = Cardinality(S) - Cardinality(S \cap F)
    BY <1>1, FS_Difference
<1>3. Cardinality(S \cap F) <= Cardinality(F)
    BY <1>1, FS_Subset
<1> QED
    BY <1>1, <1>2, <1>3

\* The bytes found at one place, and without it.
LEMMA OnePlaceLess ==
    ASSUME NEW at \in [Files -> SUBSET Items], NEW f \in Files,
           NEW less, less = [at EXCEPT ![f] = {}]
    PROVE  /\ Placed(less) = Placed(at) \ ({f} \X at[f])
           /\ {f} \X at[f] \subseteq Placed(at)
           /\ Cardinality(Placed(less)) = Cardinality(Placed(at)) - Cardinality(at[f])
           /\ Cardinality(at[f]) \in Nat /\ Cardinality({f} \X at[f]) = Cardinality(at[f])
<1> DEFINE gone == {f} \X at[f]
<1>1. IsFiniteSet(at[f]) /\ Cardinality(at[f]) \in Nat
    BY ItemsAre
<1>2. gone \subseteq Placed(at)
    BY DEF Placed
<1>3. Placed(less) = Placed(at) \ gone
  <2>1. ASSUME NEW x \in Files \X Items
        PROVE  x \in Placed(less) <=> x \in Placed(at) /\ x \notin gone
    BY DEF Placed
  <2>2. Placed(less) \in SUBSET (Files \X Items) /\ Placed(at) \in SUBSET (Files \X Items)
    BY PlacedIs
  <2> HIDE DEF gone
  <2> QED
    BY <2>1, <2>2
<1>4. IsFiniteSet({f}) /\ Cardinality({f}) = 1
    BY FS_Singleton
<1>5. Cardinality(gone) = 1 * Cardinality(at[f])
    BY <1>1, <1>4, FS_Product
<1>6. IsFiniteSet(Placed(at)) /\ Cardinality(Placed(at)) \in Nat
    BY PlacedIs, SizeIs
<1>7. Placed(at) \cap gone = gone
    BY <1>2
<1> HIDE DEF gone
<1>8. Cardinality(Placed(at) \ gone) = Cardinality(Placed(at)) - Cardinality(gone)
    BY <1>6, <1>7, FS_Difference
<1>9. Cardinality(gone) = Cardinality(at[f])
    BY <1>1, <1>5
<1> QED
    BY <1>1, <1>2, <1>3, <1>8, <1>9 DEF gone

\* A step that releases nothing, leaves the account and settles no process keeps
\* the account; so for the walks and evictions it does not itself move.
LEMMA AccountsStay ==
    ASSUME Typed, Accounts, Unclaimed' \subseteq Unclaimed, known' = known,
           \A p \in Processes : Settled(p)' => Settled(p)
    PROVE  Accounts'
<1> SUFFICES ASSUME NEW p \in Processes, Settled(p), known[p] # Unknown
             PROVE  /\ Cardinality(Unclaimed') <= known[p]
                    /\ known[p] <= Limit \/ Stuck(Unclaimed')
    BY DEF Accounts, Stuck
<1>1. /\ Cardinality(Unclaimed) <= known[p] /\ known[p] \in Int
      /\ known[p] <= Limit \/ Stuck(Unclaimed)
    BY DEF Accounts, Typed
<1>2. Unclaimed' \in SUBSET (Files \X Items)
    BY UnclaimedIs
<1>3. Cardinality(Unclaimed') <= known[p]
    BY <1>1, <1>2, UnclaimedIs, FewerFit
<1> QED
    BY <1>1, <1>3 DEF Stuck

LEMMA WalksStay ==
    ASSUME Walks, Unclaimed' \subseteq Unclaimed, found' = found,
           \A d \in Calls : pc'[d] = "walk" => pc[d] = "walk"
    PROVE  Walks'
BY DEF Walks

LEMMA EvictsStay ==
    ASSUME Typed, Evicts, Unclaimed' \subseteq Unclaimed, NEW S \in SUBSET Calls,
           \A d \in S : /\ found'[d] = found[d] /\ remaining'[d] = remaining[d]
                        /\ pc'[d] = "evict" => pc[d] = "evict"
    PROVE  \A d \in S : pc'[d] = "evict" =>
              /\ Cardinality(Placed(found'[d])) + Cardinality(Unclaimed' \ Placed(found'[d]))
                    <= remaining'[d]
              /\ Stuck(Unclaimed' \ Placed(found'[d]))
<1> SUFFICES ASSUME NEW d \in S, pc[d] = "evict"
             PROVE  /\ Cardinality(Placed(found[d])) + Cardinality(Unclaimed' \ Placed(found[d]))
                          <= remaining[d]
                    /\ Stuck(Unclaimed' \ Placed(found[d]))
    OBVIOUS
<1>1. /\ Cardinality(Placed(found[d])) + Cardinality(Unclaimed \ Placed(found[d])) <= remaining[d]
      /\ Stuck(Unclaimed \ Placed(found[d])) /\ remaining[d] \in Int
    BY DEF Evicts, Typed
<1>2. Unclaimed' \in SUBSET (Files \X Items)
    BY UnclaimedIs
<1> QED
    BY <1>1, <1>2, UnclaimedIs, PlacedIs, CoversMore

Bounded == Accounts /\ Walks /\ Evicts

LEMMA BoundedStay ==
    ASSUME Typed, Bounded, Unclaimed' \subseteq Unclaimed,
           UNCHANGED <<known, mutex, found, remaining>>,
           \A d \in Calls : pc'[d] \in Walking => pc'[d] = pc[d]
    PROVE  Bounded'
<1>0. \A q \in Processes : Settled(q)' => Settled(q)
    BY DEF Settled, Typed, Walking
<1>1. Accounts'
    BY <1>0, AccountsStay DEF Bounded
<1>2. Walks'
    BY WalksStay DEF Bounded, Walking
<1>3. \A d \in Calls : pc'[d] = "evict" =>
         /\ Cardinality(Placed(found'[d])) + Cardinality(Unclaimed' \ Placed(found'[d]))
               <= remaining'[d]
         /\ Stuck(Unclaimed' \ Placed(found'[d]))
    BY EvictsStay DEF Bounded, Walking
<1>4. Evicts'
    BY <1>3 DEF Evicts, Stuck
<1> QED
    BY <1>1, <1>2, <1>4 DEF Bounded

\* Storing leaves every account as it is.
LEMMA BoundedStoring ==
    ASSUME Typed, Bounded, NEW c \in Calls,
           Begin(c) \/ MergeLoad(c) \/ StoreCreate(c) \/ StoreWrite(c) \/ StoreRename(c)
    PROVE  Bounded'
<1>1. UNCHANGED <<known, mutex, found, remaining>>
    BY DEF Begin, MergeLoad, StoreCreate, StoreWrite, StoreRename
<1>2. \A d \in Calls : pc'[d] \in Walking => pc'[d] = pc[d]
  <2>1. CASE Begin(c)
    BY <2>1 DEF Begin, Typed, Walking
  <2>2. CASE MergeLoad(c)
    BY <2>2 DEF MergeLoad, Typed, Walking
  <2>3. CASE StoreCreate(c)
    BY <2>3 DEF StoreCreate, Typed, Walking, CallEnds
  <2>4. CASE StoreWrite(c)
    BY <2>4 DEF StoreWrite, Typed, Walking, CallEnds
  <2>5. CASE StoreRename(c)
    BY <2>5 DEF StoreRename, Typed, Walking, CallEnds
  <2> QED
    BY <2>1, <2>2, <2>3, <2>4, <2>5
<1> QED
    BY <1>1, <1>2, BoundedStay, NothingReleased

\* The mutex of the only process is free, so nobody walks or evicts.
LEMMA NobodyWalks ==
    ASSUME Typed, Exclusive, NEW p, Processes = {p}, mutex[p] = NoOne
    PROVE  \A c \in Calls : pc[c] \notin Walking
BY DEF Exclusive

LEMMA BoundedLock ==
    ASSUME Typed, Exclusive, Bounded, NEW p, Processes = {p}, NEW c \in Calls, Lock(c)
    PROVE  Bounded'
<1>1. /\ Home[c] = p /\ p \in Processes /\ mutex[p] = NoOne /\ pc[c] = "lock" /\ c # NoOne
    BY DEF Lock
<1>2. \A d \in Calls : pc[d] \notin Walking
    BY <1>1, NobodyWalks
<1>3. CASE /\ Fits(c) /\ known' = [known EXCEPT ![p] = @ + Weight(c)]
           /\ CallEnds(c) /\ UNCHANGED <<mutex, found>>
  <2>1. \A d \in Calls : pc'[d] \notin Walking
    BY <1>2, <1>3 DEF Typed, Walking, CallEnds
  <2>2. Walks' /\ Evicts'
    BY <2>1 DEF Walks, Evicts, Walking
  <2>3. /\ request[c].kind # "prune" /\ known[p] # Unknown /\ known[p] + Weight(c) <= Limit
        /\ known[p] \in Int /\ known'[p] = known[p] + Weight(c)
    BY <1>1, <1>3 DEF Fits, Typed
  <2>4. Cardinality(Unclaimed) <= known[p]
    BY <1>1, <2>3 DEF Bounded, Accounts, Settled
  <2>5. /\ Owed(c) \in SUBSET (Files \X Items) /\ Cardinality(Owed(c)) = Weight(c)
    BY <1>1, <2>3, OwedIs
  <2>6. Unclaimed' \in SUBSET (Files \X Items) /\ Unclaimed' \subseteq Unclaimed \cup Owed(c)
    <3>1. Unclaimed' \in SUBSET (Files \X Items)
      BY DEF Unclaimed
    <3> QED
      BY <3>1, Released
  <2>7. Cardinality(Unclaimed') <= known[p] + Cardinality(Owed(c))
    BY <2>3, <2>4, <2>5, <2>6, UnclaimedIs, MoreFit
  <2>8. Cardinality(Unclaimed') <= known'[p] /\ known'[p] <= Limit
    BY <2>3, <2>5, <2>7
  <2>9. Accounts'
    BY <2>8 DEF Accounts
  <2> QED
    BY <2>2, <2>9 DEF Bounded
<1>4. CASE /\ mutex' = [mutex EXCEPT ![p] = c] /\ found' = [found EXCEPT ![c] = NoWalk]
           /\ pc' = [pc EXCEPT ![c] = "walk"] /\ uncounted' = uncounted \cup Written(c)
           /\ known' = known
  <2>1. Unclaimed' \subseteq Unclaimed /\ \A q \in Processes : Settled(q)
    BY <1>1, <1>4, Released DEF Settled
  <2>2. Accounts'
    BY <1>4, <2>1, AccountsStay DEF Bounded
  <2>3. \A d \in Calls : /\ pc'[d] = "walk" => d = c /\ found'[d] = NoWalk
                         /\ pc'[d] # "evict"
    BY <1>2, <1>4 DEF Typed, Walking
  <2>4. \A x \in Unclaimed' : NoWalk[x[1]] = Unseen
    BY DEF NoWalk, Unclaimed
  <2>5. Walks'
    BY <2>3, <2>4 DEF Walks
  <2> QED
    BY <2>2, <2>3, <2>5 DEF Bounded, Evicts
<1> QED
    BY <1>1, <1>3, <1>4 DEF Lock

\* Once a walk has met a file it does not fail, and nobody else is at work.
LEMMA BoundedWalk ==
    ASSUME Typed, Exclusive, Bounded, NEW p, Processes = {p},
           NEW c \in Calls, NEW f \in Files, Walk(c, f)
    PROVE  Bounded'
<1>1. /\ UNCHANGED <<pc, mutex, disk>> /\ pc[c] = "walk" /\ c # NoOne
      /\ found[c] \in [Files -> (SUBSET Items) \cup {Unseen}]
      /\ found'[c][f] # Unseen /\ \A g \in Files : g # f => found'[c][g] = found[c][g]
  <2>1. Held(f) \in SUBSET Items
    BY HeldIs DEF Typed
  <2> QED
    BY <2>1 DEF Walk, Typed
<1>2. Home[c] = p /\ mutex[p] = c /\ \A d \in Calls : pc[d] \in Walking => d = c
    BY <1>1 DEF Exclusive, Walking
<1>3. ~Settled(p)'
  <2>1. NoWalk[f] = Unseen
    BY DEF NoWalk
  <2> QED
    BY <1>1, <1>2, <2>1 DEF Settled
<1>4. Accounts'
    BY <1>3 DEF Accounts
<1>5. Walks'
  <2> SUFFICES ASSUME NEW x \in Unclaimed', found'[c][x[1]] # Unseen
               PROVE  x[2] \in found'[c][x[1]]
      BY <1>1, <1>2 DEF Walks, Walking
  <2>1. x[1] \in Files /\ x[2] \in Held(x[1])
    BY <1>1 DEF Unclaimed, Held
  <2>2. x \in Unclaimed \/ (x[1] = f /\ found'[c][f] = Held(f))
    BY WalkReleases
  <2>3. CASE x[1] = f /\ found'[c][f] = Held(f)
    BY <2>1, <2>3
  <2>4. CASE x \in Unclaimed /\ x[1] # f
    BY <1>1, <2>1, <2>4 DEF Bounded, Walks
  <2>5. CASE x \in Unclaimed /\ x[1] = f /\ found'[c][f] # Held(f)
    <3>1. f \in uncounted'
      BY <1>1, <2>5 DEF Walk, Typed
    <3> QED
      BY <2>5, <3>1 DEF Unclaimed
  <2> QED
    BY <2>2, <2>3, <2>4, <2>5
<1>6. Evicts'
    BY <1>1, <1>2 DEF Evicts, Walking
<1> QED
    BY <1>4, <1>5, <1>6 DEF Bounded

\* A walk that fails leaves the account as it was, and the write uncounted.
LEMMA BoundedWalkFails ==
    ASSUME Typed, Exclusive, Bounded, NEW p, Processes = {p}, NEW c \in Calls, WalkFails(c)
    PROVE  Bounded'
<1>1. Unclaimed' \subseteq Unclaimed
    BY NothingReleased
<1>2. /\ Home[c] = p /\ mutex[p] = c /\ pc[c] = "walk" /\ found[c] = NoWalk
      /\ known' = known /\ \A d \in Calls : pc'[d] \notin Walking
    BY DEF WalkFails, CallEnds, Exclusive, Typed, Walking
<1>3. Accounts'
  <2>1. \A q \in Processes : Settled(q)
    BY <1>2 DEF Settled
  <2> QED
    BY <1>1, <1>2, <2>1, AccountsStay DEF Bounded
<1> QED
    BY <1>2, <1>3 DEF Bounded, Walks, Evicts, Walking

\* The walk ends: what it found is what there is to remove.
LEMMA BoundedWalkDone ==
    ASSUME Typed, Bounded, NEW c \in Calls, WalkDone(c)
    PROVE  Bounded'
<1>1. Unclaimed' \subseteq Unclaimed
    BY NothingReleased
<1>2. Accounts'
  <2>1. \A q \in Processes : Settled(q)' => Settled(q)
    BY DEF WalkDone, Settled, Typed
  <2> QED
    BY <1>1, <2>1, AccountsStay DEF WalkDone, Bounded
<1>3. Walks'
  <2>1. found' = found /\ \A d \in Calls : pc'[d] = "walk" => pc[d] = "walk"
    BY DEF WalkDone, Typed
  <2> QED
    BY <1>1, <2>1, WalksStay DEF Bounded
<1>4. \A d \in Calls \ {c} : pc'[d] = "evict" =>
         /\ Cardinality(Placed(found'[d])) + Cardinality(Unclaimed' \ Placed(found'[d]))
               <= remaining'[d]
         /\ Stuck(Unclaimed' \ Placed(found'[d]))
  <2>1. \A d \in Calls \ {c} : /\ found'[d] = found[d] /\ remaining'[d] = remaining[d]
                               /\ pc'[d] = "evict" => pc[d] = "evict"
    BY DEF WalkDone, Typed
  <2> QED
    BY <1>1, <2>1, EvictsStay DEF Bounded
<1>5. /\ found'[c] = found[c] /\ remaining'[c] = Cardinality(Placed(found[c]))
    BY DEF WalkDone, Typed, Bytes
<1>6. Unclaimed' \ Placed(found[c]) = {}
  <2> SUFFICES ASSUME NEW x \in Unclaimed'
               PROVE  x \in Placed(found[c])
      OBVIOUS
  <2>1. x \in Unclaimed /\ x \in Files \X Items /\ x[1] \in Files
    BY <1>1 DEF Unclaimed
  <2>2. pc[c] = "walk" /\ found[c][x[1]] # Unseen
    BY <2>1 DEF WalkDone
  <2>3. x[2] \in found[c][x[1]]
    BY <2>1, <2>2 DEF Bounded, Walks
  <2> QED
    BY <2>1, <2>3 DEF Placed
<1>7. /\ Cardinality(Placed(found'[c])) + Cardinality(Unclaimed' \ Placed(found'[c]))
            <= remaining'[c]
      /\ Stuck(Unclaimed' \ Placed(found'[c]))
  <2>1. Cardinality(Placed(found[c])) \in Nat
    BY PlacedIs, SizeIs
  <2>2. Cardinality({}) = 0 /\ Stuck({})
    BY FS_EmptySet DEF Stuck
  <2>3. Cardinality(Placed(found[c])) + 0 <= Cardinality(Placed(found[c]))
    BY <2>1
  <2> QED
    BY <1>5, <1>6, <2>2, <2>3
<1>8. Evicts'
    BY <1>4, <1>7 DEF Evicts, Stuck
<1> QED
    BY <1>2, <1>3, <1>8 DEF Bounded

\* A removal takes what it counted off both sides; a refusal moves it to what
\* cannot be removed.
LEMMA BoundedEvict ==
    ASSUME Typed, Bounded, NEW c \in Calls, NEW f \in Files, Evict(c, f)
    PROVE  Bounded'
<1>1. Unclaimed' \subseteq Unclaimed
    BY NothingReleased
<1>2. Accounts'
  <2>1. \A q \in Processes : Settled(q)' => Settled(q)
    BY DEF Evict, Settled, Typed
  <2> QED
    BY <1>1, <2>1, AccountsStay DEF Evict, Bounded
<1> DEFINE at == found[c] F == Placed(found[c]) gone == {f} \X found[c][f] U == Unclaimed
<1>3. /\ at \in [Files -> SUBSET Items] /\ found'[c] = [at EXCEPT ![f] = {}] /\ pc' = pc
      /\ pc[c] = "evict" /\ \A d \in Calls : d # c => found'[d] = found[d] /\ remaining'[d] = remaining[d]
    BY DEF Evict, Typed
<1>4. /\ Placed(found'[c]) = F \ gone /\ gone \subseteq F
      /\ Cardinality(Placed(found'[c])) = Cardinality(F) - Cardinality(at[f])
      /\ Cardinality(at[f]) \in Nat /\ Cardinality(gone) = Cardinality(at[f])
  <2>1. \A less : less = [at EXCEPT ![f] = {}] =>
           /\ Placed(less) = Placed(at) \ ({f} \X at[f])
           /\ {f} \X at[f] \subseteq Placed(at)
           /\ Cardinality(Placed(less)) = Cardinality(Placed(at)) - Cardinality(at[f])
           /\ Cardinality(at[f]) \in Nat /\ Cardinality({f} \X at[f]) = Cardinality(at[f])
    BY <1>3, OnePlaceLess
  <2> QED
    BY <1>3, <2>1
<1>5. Walks'
  <2>1. ASSUME NEW d \in Calls, pc[d] = "walk"
        PROVE  found'[d] = found[d]
    BY <1>3, <2>1
  <2> QED
    BY <1>1, <1>3, <2>1 DEF Bounded, Walks
<1>6. \A d \in Calls \ {c} : pc'[d] = "evict" =>
         /\ Cardinality(Placed(found'[d])) + Cardinality(Unclaimed' \ Placed(found'[d]))
               <= remaining'[d]
         /\ Stuck(Unclaimed' \ Placed(found'[d]))
    BY <1>1, <1>3, EvictsStay DEF Bounded
<1>7. /\ Cardinality(F) + Cardinality(U \ F) <= remaining[c] /\ remaining[c] \in Int
      /\ Stuck(U \ F) /\ F \in SUBSET (Files \X Items) /\ U \in SUBSET (Files \X Items)
      /\ Unclaimed' \in SUBSET (Files \X Items)
    BY <1>1, <1>3, PlacedIs, UnclaimedIs DEF Bounded, Evicts, Typed
<1>8. /\ Cardinality(F) \in Nat /\ Cardinality(U \ F) \in Nat /\ Cardinality(gone) \in Nat
      /\ IsFiniteSet(U \ F) /\ IsFiniteSet(gone)
    BY <1>4, <1>7, SizeIs
<1>9. ASSUME f \in Unremovable /\ disk[f] # NoEntry
      PROVE  /\ Cardinality(Placed(found'[c])) + Cardinality(Unclaimed' \ Placed(found'[c]))
                   <= remaining'[c]
             /\ Stuck(Unclaimed' \ Placed(found'[c]))
  <2>1. remaining' = remaining
    BY <1>9 DEF Evict
  <2> DEFINE rest == (U \ F) \cup gone
  <2>2. rest \in SUBSET (Files \X Items) /\ Unclaimed' \ (F \ gone) \subseteq rest
    BY <1>1, <1>4, <1>7
  <2>3. (U \ F) \cap gone = {}
    BY <1>4
  <2>4. Cardinality(rest) = Cardinality(U \ F) + Cardinality(gone)
    <3>1. Cardinality((U \ F) \cap gone) = 0
      BY <2>3, FS_EmptySet
    <3>2. Cardinality(rest) = Cardinality(U \ F) + Cardinality(gone) - Cardinality((U \ F) \cap gone)
      BY <1>8, FS_Union
    <3> QED
      BY <1>8, <3>1, <3>2
  <2>5. IsFiniteSet(rest) /\ Cardinality(Unclaimed' \ (F \ gone)) \in Nat
    BY <1>7, <2>2, SizeIs
  <2>6. Stuck(rest)
    BY <1>7, <1>9 DEF Stuck
  <2> HIDE DEF rest
  <2>7. Cardinality(Unclaimed' \ (F \ gone)) <= Cardinality(rest)
    BY <2>2, <2>5, FS_Subset
  <2>8. Stuck(Unclaimed' \ (F \ gone))
    BY <2>2, <2>6 DEF Stuck
  <2> HIDE DEF at, F, gone, U
  <2>9. Cardinality(F \ gone) + Cardinality(Unclaimed' \ (F \ gone)) <= remaining[c]
    BY <1>4, <1>7, <1>8, <2>4, <2>5, <2>7
  <2> QED
    BY <1>4, <2>1, <2>8, <2>9
<1>10. ASSUME ~(f \in Unremovable /\ disk[f] # NoEntry)
       PROVE  /\ Cardinality(Placed(found'[c])) + Cardinality(Unclaimed' \ Placed(found'[c]))
                    <= remaining'[c]
              /\ Stuck(Unclaimed' \ Placed(found'[c]))
  <2>1. /\ remaining'[c] = remaining[c] - Cardinality(at[f])
        /\ disk'[f] = NoEntry
    BY <1>10 DEF Evict, Typed
  <2>2. Unclaimed' \ (F \ gone) \subseteq U \ F
    <3>1. ASSUME NEW x \in Unclaimed'
          PROVE  x \notin gone
      <4>1. x[2] \in Held(x[1])'
        BY DEF Unclaimed
      <4>2. Held(f)' = {}
        BY <2>1 DEF Held
      <4> QED
        BY <4>1, <4>2
    <3> HIDE DEF gone
    <3> QED
      BY <1>1, <3>1
  <2>3. Cardinality(Unclaimed' \ (F \ gone)) <= Cardinality(U \ F)
    BY <1>8, <2>2, FS_Subset
  <2>4. Cardinality(Unclaimed' \ (F \ gone)) \in Nat
    BY <1>7, SizeIs
  <2>5. Stuck(Unclaimed' \ (F \ gone))
    BY <1>7, <2>2 DEF Stuck
  <2> HIDE DEF F, gone, U
  <2>6. Cardinality(F \ gone) + Cardinality(Unclaimed' \ (F \ gone))
           <= remaining[c] - Cardinality(at[f])
    BY <1>4, <1>7, <1>8, <2>3, <2>4
  <2> QED
    BY <1>4, <2>1, <2>5, <2>6
<1>11. Evicts'
    BY <1>3, <1>6, <1>9, <1>10 DEF Evicts, Stuck
<1> QED
    BY <1>2, <1>5, <1>11 DEF Bounded

\* The account an eviction leaves behind.
LEMMA BoundedEvictDone ==
    ASSUME Typed, Exclusive, Bounded, NEW p, Processes = {p}, NEW c \in Calls, EvictDone(c)
    PROVE  Bounded'
<1>1. Unclaimed' \subseteq Unclaimed
    BY NothingReleased
<1>2. /\ Home[c] = p /\ pc[c] = "evict" /\ found[c] \in [Files -> SUBSET Items]
      /\ known'[p] = remaining[c]
      /\ remaining[c] <= Target(c) \/ Listed(c) = {}
    BY DEF EvictDone, Typed
<1>3. \A d \in Calls : pc'[d] \notin Walking
    BY <1>2 DEF EvictDone, CallEnds, Exclusive, Typed, Walking
<1>4. Walks' /\ Evicts'
    BY <1>3 DEF Walks, Evicts, Walking
<1> DEFINE F == Placed(found[c])
<1>5. /\ Cardinality(F) + Cardinality(Unclaimed \ F) <= remaining[c] /\ remaining[c] \in Int
      /\ Stuck(Unclaimed \ F)
    BY <1>2 DEF Bounded, Evicts, Typed
<1>6. /\ F \in SUBSET (Files \X Items) /\ Unclaimed \in SUBSET (Files \X Items)
      /\ Unclaimed' \in SUBSET (Files \X Items)
    BY <1>1, PlacedIs, UnclaimedIs
<1>7. Cardinality(Unclaimed) <= Cardinality(F) + Cardinality(Unclaimed \ F)
    BY <1>6, Splits
<1>8. /\ Cardinality(F) \in Nat /\ Cardinality(Unclaimed \ F) \in Nat
      /\ Cardinality(Unclaimed) \in Nat
    BY <1>6, SizeIs
<1>9. Cardinality(Unclaimed) <= remaining[c]
    BY <1>5, <1>7, <1>8
<1>10. Cardinality(Unclaimed') <= remaining[c]
    BY <1>1, <1>5, <1>6, <1>9, FewerFit
<1>11. remaining[c] <= Limit \/ Stuck(Unclaimed')
  <2>1. CASE remaining[c] <= Target(c)
    <3>1. Target(c) \in Int /\ Target(c) <= Limit
      BY DEF Target, Typed, Requests
    <3> QED
      BY <1>5, <2>1, <3>1
  <2>2. CASE Listed(c) = {}
    <3>1. F = {}
      BY <2>2 DEF Listed, Placed
    <3> QED
      BY <1>1, <1>5, <3>1 DEF Stuck
  <2> QED
    BY <1>2, <2>1, <2>2
<1>12. Accounts'
    BY <1>2, <1>10, <1>11 DEF Accounts, Stuck
<1> QED
    BY <1>4, <1>12 DEF Bounded

LEMMA BoundedOutside ==
    ASSUME Typed, Exclusive, Bounded, NEW p, Processes = {p},
           (\E q \in Processes : Crash(q)) \/ (\E f \in Files : Damage(f)) \/ UNCHANGED vars
    PROVE  Bounded'
<1>1. CASE \E q \in Processes : Crash(q)
  <2>1. known' = [known EXCEPT ![p] = Unknown] /\ \A d \in Calls : pc'[d] \notin Walking
    BY <1>1 DEF Crash, Typed, Walking
  <2>2. known'[p] = Unknown
    BY <2>1 DEF Typed
  <2> QED
    BY <2>1, <2>2 DEF Bounded, Accounts, Walks, Evicts, Walking
<1>2. ASSUME NEW f \in Files, Damage(f)
      PROVE  Bounded'
  <2>1. Unclaimed' \subseteq Unclaimed
    BY <1>2, DamagedShrinks
  <2> QED
    BY <1>2, <2>1, BoundedStay DEF Damage, callVars
<1>3. CASE UNCHANGED vars
  <2>1. Unclaimed' = Unclaimed
    BY <1>3 DEF vars, callVars, Unclaimed, Held, Owed
  <2> QED
    BY <1>3, <2>1, BoundedStay DEF vars, callVars
<1> QED
    BY <1>1, <1>2, <1>3

LEMMA BoundedStep ==
    ASSUME NEW p, Processes = {p}
    PROVE  Typed /\ Exclusive /\ Bounded /\ [Next]_vars => Bounded'
<1> SUFFICES ASSUME Typed, Exclusive, Bounded, [Next]_vars
             PROVE  Bounded'
    OBVIOUS
<1>1. ASSUME NEW c \in Calls, Begin(c) \/ Call(c)
      PROVE  Bounded'
  <2>1. CASE Begin(c) \/ MergeLoad(c) \/ StoreCreate(c) \/ StoreWrite(c) \/ StoreRename(c)
    BY <2>1, BoundedStoring
  <2>2. CASE Lock(c)
    BY <2>2, BoundedLock
  <2>3. CASE WalkFails(c) \/ WalkDone(c)
    BY <2>3, BoundedWalkFails, BoundedWalkDone
  <2>4. CASE EvictDone(c)
    BY <2>4, BoundedEvictDone
  <2>5. ASSUME NEW f \in Files, Walk(c, f) \/ Evict(c, f)
        PROVE  Bounded'
    BY <2>5, BoundedWalk, BoundedEvict
  <2> QED
    BY <1>1, <2>1, <2>2, <2>3, <2>4, <2>5 DEF Call
<1>2. CASE (\E q \in Processes : Crash(q)) \/ (\E f \in Files : Damage(f)) \/ UNCHANGED vars
    BY <1>2, BoundedOutside
<1> QED
    BY <1>1, <1>2 DEF Next

LEMMA BoundedInit == Init => Bounded
BY DEF Init, Bounded, Accounts, Walks, Evicts

\* What the accounts say of a store at rest.
LEMMA AtRest ==
    ASSUME NEW p, Processes = {p}
    PROVE  Typed /\ Exclusive /\ Bounded => StoreIsBounded
<1> DEFINE counted == [f \in Files |-> Counted(f)]
<1> SUFFICES ASSUME Typed, Exclusive, Bounded, Quiet, known[p] # Unknown
             PROVE  Bytes(counted) <= Limit \/ \A f \in Files : Counted(f) # {} => f \in Unremovable
    BY DEF StoreIsBounded
<1>1. mutex[p] = NoOne
    BY DEF Exclusive, Quiet, Typed, Walking
<1>2. \A c \in Calls : Owed(c) = {}
    BY DEF Quiet, Owed
<1>3. Unclaimed = Placed(counted)
  <2>1. ASSUME NEW x \in Files \X Items
        PROVE  x \in Unclaimed <=> x \in Placed(counted)
    BY <1>2 DEF Unclaimed, Placed, Counted
  <2>2. Unclaimed \subseteq Files \X Items /\ Placed(counted) \subseteq Files \X Items
    BY DEF Unclaimed, Placed
  <2> QED
    BY <2>1, <2>2
<1>4. /\ Bytes(counted) <= known[p] /\ known[p] \in Int
      /\ known[p] <= Limit \/ Stuck(Unclaimed)
    BY <1>1, <1>3 DEF Bounded, Accounts, Settled, Typed, Bytes
<1>5. CASE known[p] <= Limit
  <2>1. Bytes(counted) \in Nat
    BY <1>3, UnclaimedIs, SizeIs DEF Bytes
  <2> QED
    BY <1>4, <1>5, <2>1
<1>6. CASE Stuck(Unclaimed)
  <2> SUFFICES ASSUME NEW f \in Files, Counted(f) # {}
               PROVE  f \in Unremovable
      OBVIOUS
  <2>1. Counted(f) \in SUBSET Items
    BY HeldIs DEF Typed, Counted
  <2>2. PICK i \in Items : i \in Counted(f)
    BY <2>1
  <2>3. <<f, i>> \in Unclaimed
    BY <1>3, <2>2 DEF Placed
  <2> QED
    BY <1>6, <2>3 DEF Stuck
<1> QED
    BY <1>4, <1>5, <1>6

\* The byte ceiling of one process, whatever it stores and however its calls
\* overlap: once nobody is at work and a walk has been made, what the walks could
\* see of the store is within the ceiling or only what cannot be removed
\* (recordWriteAndEnforce, pruneDirLocked).  Of two processes neither knows what
\* the other wrote.
THEOREM CeilingHolds ==
    ASSUME NEW p, Processes = {p}
    PROVE  Spec => []StoreIsBounded
<1> DEFINE I == Typed /\ Exclusive /\ Bounded
<1>1. Init => I
    BY TypedInit, BoundedInit
<1>2. I /\ [Next]_vars => I'
    BY TypedStep, ExclusiveStep, BoundedStep
<1>3. I => StoreIsBounded
    BY AtRest
<1> QED
    BY <1>1, <1>2, <1>3, PTL DEF Spec

-----------------------------------------------------------------------------
(* The one-shot holder of gotool, for any number of asks, answers and        *)
(* failures.                                                                 *)

\* The take that runs is the one in flight, and nothing is held meanwhile.
TakeIsInflight ==
    \A a \in Asks : where[a] \in Owning => inflight = a /\ held = NoAnswer

\* A judged cancellation is that of the ask, and an ended ask stays so.
TakenCancelledIsOwn ==
    \A a \in Asks : /\ got[a] # Killed
                    /\ got[a] = "cancelled" => a \in dead

\* What is held is an answer that no cancellation caused.
HeldIsAnAnswer == held # Killed

HolderInv == HolderTypeOK /\ TakeIsInflight /\ TakenCancelledIsOwn /\ HeldIsAnAnswer
        /\ OneAnswer /\ CancellationIsOwn

USE OnceAssumption DEF Answered, Goes, Killed, Errors, Answers, Returns, Stations, Owning

\* The initial states satisfy the invariant.
LEMMA HolderInit == OnceInit => HolderInv
  BY DEF OnceInit, HolderInv, HolderTypeOK, TakeIsInflight, TakenCancelledIsOwn, HeldIsAnAnswer, OneAnswer,
         CancellationIsOwn

\* A step that leaves all variables alone keeps the invariant.
LEMMA HolderStutter == HolderInv /\ UNCHANGED onceVars => HolderInv'
  BY DEF onceVars, HolderInv, HolderTypeOK, TakeIsInflight, TakenCancelledIsOwn, HeldIsAnAnswer, OneAnswer,
         CancellationIsOwn

\* Every step of the holder, of the go command and of a caller keeps it.
LEMMA HolderNext == HolderInv /\ OnceNext => HolderInv'
  <1> SUFFICES ASSUME HolderInv, NEW a \in Asks, Ask(a) \/ Holder(a) \/ Take(a) \/ GiveUp(a)
               PROVE  HolderInv'
      BY DEF OnceNext
  <1> USE DEF HolderInv, HolderTypeOK, TakeIsInflight, TakenCancelledIsOwn, HeldIsAnAnswer, OneAnswer,
              CancellationIsOwn
  <1>1. CASE Ask(a)
    BY <1>1 DEF Ask
  <1>2. CASE Loop(a)
    BY <1>2 DEF Loop
  <1>3. CASE Enter(a)
    <2>1. CASE held # NoAnswer /\ Answered(a, held) /\ UNCHANGED <<inflight, waits>>
      BY <1>3, <2>1 DEF Enter
    <2>2. CASE held = NoAnswer /\ inflight = NoAsk /\ inflight' = a /\ Goes(a, "taking")
               /\ UNCHANGED waits
      BY <1>3, <2>2 DEF Enter
    <2>3. CASE held = NoAnswer /\ inflight # NoAsk /\ waits' = [waits EXCEPT ![a] = inflight]
               /\ Goes(a, "waiting") /\ UNCHANGED inflight
      BY <1>3, <2>3 DEF Enter
    <2> QED
      BY <1>3, <2>1, <2>2, <2>3 DEF Enter
  <1>4. CASE Wake(a)
    BY <1>4 DEF Wake
  <1>5. CASE Complete(a)
    BY <1>5 DEF Complete
  <1>6. CASE Take(a)
    BY <1>6 DEF Take
  <1>7. CASE GiveUp(a)
    BY <1>7 DEF GiveUp
  <1> QED
    BY <1>1, <1>2, <1>3, <1>4, <1>5, <1>6, <1>7 DEF Holder

\* Every reachable state satisfies the invariant.
LEMMA HolderInductive == OnceSpec => []HolderInv
  <1>1. HolderInv /\ [OnceNext]_onceVars => HolderInv'
    BY HolderNext, HolderStutter
  <1> QED
    BY HolderInit, <1>1, PTL DEF OnceSpec

\* Every variable keeps its type in every reachable state.
THEOREM HolderTypeCorrect == OnceSpec => []HolderTypeOK
  BY HolderInductive, PTL DEF HolderInv

\* At most one go command runs for a holder, and none after its answer (take).
THEOREM SpawnsOnce == OnceSpec => []OneSpawn
  <1>1. HolderInv => OneSpawn
    BY DEF HolderInv, TakeIsInflight, OneSpawn
  <1> QED
    BY HolderInductive, <1>1, PTL

\* All asks of a judged run hear the same answer (Sampler, EnvReader).
THEOREM AnswersAgree == OnceSpec => []OneAnswer
  BY HolderInductive, PTL DEF HolderInv

\* No ask hears of another caller's cancellation (take).
THEOREM CancellationStaysOwn == OnceSpec => []CancellationIsOwn
  BY HolderInductive, PTL DEF HolderInv

-----------------------------------------------------------------------------
(* The go command a holder spawns, collected under its containment.  The     *)
(* hazard is the number of the group: it is a stranger's as soon as the       *)
(* leader is reaped, so every signal has to be over by then.                 *)

\* What every variable of a run may hold.
CommandTypes ==
    /\ stage \in Stages /\ result \in Results \cup {"none"}
    /\ finished \in BOOLEAN /\ inGrace \in BOOLEAN /\ timedOut \in BOOLEAN
    /\ owned \in {"unknown", "yes", "no"} /\ swept \in {"none", "done", "refused"}
    /\ copied \in [Streams -> {"copying", "eof", "cut"}]
    /\ watch \in {"watching", "cancel", "grace", "delayed", "killed", "done"}
    /\ watchErr \in BOOLEAN /\ ctxDone \in BOOLEAN
    /\ leader \in {"none", "running", "zombie", "reaped"}
    /\ status \in {"none", "success", "failure"}
    /\ kin \in BOOLEAN /\ holding \in SUBSET Streams
    /\ reused \in BOOLEAN /\ signalled \in BOOLEAN /\ struck \in BOOLEAN

\* The number is the group's as long as a signal may still be sent: the leader
\* is reaped only after signals are over, and a Cancel in its grace keeps them
\* from being over.
NumberIsOurs ==
    /\ ~struck
    /\ reused => leader = "reaped"
    /\ leader = "none" => ~kin
    /\ leader = "none" <=> stage = "start" \/ result = "notStarted"
    /\ leader = "reaped" => stage \in {"await", "returned"}
    /\ stage \in {"wait", "await"} => finished
    /\ stage = "returned" => result = "notStarted" \/ finished
    /\ inGrace <=> watch = "grace"
    /\ watch = "grace" => ~finished /\ leader # "none"

\* A group that was owned has no running leader any more, and once it was swept
\* it has nobody who could fork.
SweptForGood ==
    /\ stage \in {"start", "exited"} => owned = "unknown"
    /\ owned = "yes" => leader \in {"zombie", "reaped"}
    /\ swept = "done" => owned = "yes" /\ ~kin
    /\ stage \in {"drain", "sweep", "wait", "await"} => owned # "unknown"
    /\ stage \in {"wait", "await"} /\ owned = "yes" => swept # "none"

\* A signal that reached the group is reported, or its grace is not over.
SignalIsReported ==
    /\ signalled => watch \notin {"watching", "cancel"}
    /\ signalled => watch = "grace" \/ watchErr

\* The copiers ended before the sweep; one was cut only by the wait delay.
CopiersEnded ==
    /\ \A s \in Streams : copied[s] = "cut" => timedOut
    /\ stage \in {"sweep", "wait", "await"} => \A s \in Streams : copied[s] # "copying"

\* A returned answer is final: the leader is reaped and nobody watches.
AnswerIsFinal ==
    /\ stage # "returned" => result = "none"
    /\ stage = "await" => leader = "reaped"
    /\ result \notin {"none", "notStarted"} => leader = "reaped" /\ watch = "done"
    /\ result \notin {"none", "notStarted", "containment"} => swept = "done"
    /\ AnswersAreEarned

CommandInv ==
    /\ CommandTypes /\ NumberIsOurs /\ SweptForGood
    /\ SignalIsReported /\ CopiersEnded /\ AnswerIsFinal

USE DEF runVars, watchVars, groupVars, CommandTypes, NumberIsOurs, SweptForGood, SignalIsReported,
        CopiersEnded, AnswerIsFinal, AnswersAreEarned, GroupLives, Stages, Results

\* The initial state satisfies the invariant.
LEMMA CommandStarts == CommandInit => CommandInv
BY DEF CommandInit, CommandInv, Streams

\* Every step of the run, of the watching goroutine and of the processes keeps it.
LEMMA CommandStep == CommandInv /\ [CommandNext]_commandVars => CommandInv'
<1> SUFFICES ASSUME CommandInv, [CommandNext]_commandVars PROVE CommandInv'
    OBVIOUS
<1> USE DEF CommandInv
<1>1. CASE Start
    BY <1>1 DEF Start
<1>2. CASE Exited
    BY <1>2 DEF Exited
<1>3. CASE Disown
  <2>1. CommandTypes'
    BY <1>3 DEF Disown, KillLeader
  <2>2. NumberIsOurs'
    BY <1>3 DEF Disown, KillLeader
  <2>3. SweptForGood'
    BY <1>3 DEF Disown, KillLeader
  <2>4. SignalIsReported'
    BY <1>3 DEF Disown, KillLeader
  <2>5. CopiersEnded'
    BY <1>3 DEF Disown, KillLeader
  <2>6. AnswerIsFinal'
    BY <1>3 DEF Disown, KillLeader
  <2> QED
    BY <2>1, <2>2, <2>3, <2>4, <2>5, <2>6
<1>4. CASE DrainExpires
    BY <1>4 DEF DrainExpires
<1>5. CASE DrainDone
    BY <1>5 DEF DrainDone
<1>6. CASE Sweep
  <2>1. CASE owned = "yes" /\ swept' = "done" /\ KillGroup
    BY <1>6, <2>1 DEF Sweep, KillGroup
  <2>2. CASE owned = "yes" /\ swept' = "refused" /\ UNCHANGED <<groupVars, struck>>
    BY <1>6, <2>2 DEF Sweep, KillGroup
  <2>3. CASE owned # "yes"
    BY <1>6, <2>3 DEF Sweep, KillGroup
  <2> QED
    BY <1>6, <2>1, <2>2, <2>3 DEF Sweep
<1>7. CASE Reap
    BY <1>7 DEF Reap
<1>8. CASE Return
    BY <1>8 DEF Return, Outcome
<1>9. CASE WatchWakes
    BY <1>9 DEF WatchWakes
<1>10. CASE Cancel
  <2>1. CASE finished
    BY <1>10, <2>1 DEF Cancel, KillGroup
  <2>2. CASE ~finished /\ ~GroupLives
    <3>1. leader = "none" /\ ~kin /\ ~signalled
      BY <1>10, <2>2 DEF Cancel
    <3>2. /\ UNCHANGED <<leader, status, kin, holding, inGrace>> /\ watch' = "delayed"
          /\ watchErr' = FALSE /\ signalled' = FALSE /\ struck' = FALSE
      BY <1>10, <2>2, <3>1 DEF Cancel, KillGroup
    <3> QED
      BY <1>10, <3>1, <3>2, <2>2 DEF Cancel
  <2>3. CASE ~finished /\ GroupLives
    <3>1. leader \in {"running", "zombie"}
      BY <1>10, <2>3 DEF Cancel
    <3>2. CASE watchErr' = GroupLives /\ KillGroup /\ signalled' = GroupLives
               /\ watch' = "delayed" /\ UNCHANGED inGrace
      <4>1. watchErr' = TRUE /\ signalled' = TRUE /\ struck' = FALSE
        BY <2>3, <3>2 DEF KillGroup
      <4>2. /\ kin' = FALSE /\ holding' = {} /\ UNCHANGED <<runVars, ctxDone, reused, inGrace>>
            /\ leader' = "zombie" /\ (leader = "zombie" => status' = status)
            /\ (leader = "running" => status' = "failure") /\ watch # "grace"
        BY <1>10, <2>3, <3>1, <3>2 DEF Cancel, KillGroup
      <4>3. CommandTypes'
        <5>1. /\ finished' \in BOOLEAN /\ timedOut' \in BOOLEAN /\ ctxDone' \in BOOLEAN /\ kin' \in BOOLEAN
              /\ reused' \in BOOLEAN /\ signalled' \in BOOLEAN /\ struck' \in BOOLEAN
              /\ inGrace' \in BOOLEAN /\ watchErr' \in BOOLEAN
          BY <4>1, <4>2
        <5>2. /\ stage' \in Stages /\ result' \in Results \cup {"none"}
              /\ owned' \in {"unknown", "yes", "no"} /\ swept' \in {"none", "done", "refused"}
              /\ leader' \in {"none", "running", "zombie", "reaped"}
              /\ status' \in {"none", "success", "failure"} /\ holding' \in SUBSET Streams
              /\ copied' \in [Streams -> {"copying", "eof", "cut"}]
          BY <3>1, <4>2
        <5>3. watch' \in {"watching", "cancel", "grace", "delayed", "killed", "done"}
          BY <3>2
        <5> QED
          BY <5>1, <5>2, <5>3
      <4>4. NumberIsOurs'
        <5>1. watch' = "delayed"
          BY <3>2
        <5> QED
          BY <2>3, <3>1, <4>1, <4>2, <5>1
      <4>5. SignalIsReported'
        <5>1. watch' = "delayed"
          BY <3>2
        <5> QED
          BY <4>1, <5>1
      <4>6. SweptForGood' /\ CopiersEnded' /\ AnswerIsFinal'
        BY <2>3, <3>1, <4>2
      <4> QED
        BY <4>3, <4>4, <4>5, <4>6
    <3>3. CASE watch' = "grace" /\ inGrace' = TRUE /\ signalled' = TRUE
               /\ UNCHANGED <<watchErr, groupVars, struck>>
      BY <1>10, <2>3, <3>1, <3>3 DEF Cancel
    <3>4. CASE watch' = "delayed" /\ watchErr' = TRUE
               /\ UNCHANGED <<inGrace, groupVars, signalled, struck>>
      BY <1>10, <2>3, <3>1, <3>4 DEF Cancel
    <3> QED
      BY <1>10, <2>3, <3>2, <3>3, <3>4 DEF Cancel
  <2> QED
    BY <2>1, <2>2, <2>3
<1>11. CASE GraceEnds
  <2>1. GroupLives /\ leader \in {"running", "zombie"} /\ ~finished
    BY <1>11 DEF GraceEnds
  <2>2. watchErr' = TRUE
    BY <1>11, <2>1 DEF GraceEnds
  <2>3. CASE KillGroup
    <3>1. struck' = FALSE
      BY <2>1, <2>3 DEF KillGroup
    <3> QED
      BY <1>11, <2>1, <2>2, <2>3, <3>1 DEF GraceEnds, KillGroup
  <2>4. CASE UNCHANGED <<groupVars, struck>>
    <3>1. /\ UNCHANGED <<leader, status, kin, holding, struck>> /\ UNCHANGED <<runVars, ctxDone, reused, signalled>>
          /\ watch' = "delayed" /\ inGrace' = FALSE
      BY <1>11, <2>4 DEF GraceEnds
    <3>2. CommandTypes' /\ SignalIsReported'
      <4>1. watchErr' \in BOOLEAN /\ watch' \in {"watching", "cancel", "grace", "delayed", "killed", "done"}
        BY <2>2, <3>1
      <4>2. CommandTypes'
        <5>1. /\ finished' \in BOOLEAN /\ timedOut' \in BOOLEAN /\ ctxDone' \in BOOLEAN /\ kin' \in BOOLEAN
              /\ reused' \in BOOLEAN /\ signalled' \in BOOLEAN /\ struck' \in BOOLEAN
              /\ inGrace' \in BOOLEAN
          BY <3>1
        <5>2. /\ stage' \in Stages /\ result' \in Results \cup {"none"}
              /\ owned' \in {"unknown", "yes", "no"} /\ swept' \in {"none", "done", "refused"}
              /\ leader' \in {"none", "running", "zombie", "reaped"}
              /\ status' \in {"none", "success", "failure"} /\ holding' \in SUBSET Streams
              /\ copied' \in [Streams -> {"copying", "eof", "cut"}]
          BY <3>1
        <5> QED
          BY <4>1, <5>1, <5>2
      <4>3. SignalIsReported'
        BY <2>2, <3>1
      <4> QED
        BY <4>2, <4>3
    <3>3. NumberIsOurs'
      BY <2>1, <3>1
    <3>4. SweptForGood' /\ CopiersEnded'
      BY <3>1
    <3>5. AnswerIsFinal'
      BY <2>1, <3>1
    <3> QED
      BY <3>2, <3>3, <3>4, <3>5
  <2> QED
    BY <1>11, <2>3, <2>4 DEF GraceEnds
<1>12. CASE DelayEnds
    BY <1>12 DEF DelayEnds, KillLeader
<1>13. CASE Fork
    BY <1>13 DEF Fork
<1>14. CASE KinEnds
  <2>0. holding' \in SUBSET Streams /\ kin' \in BOOLEAN
    BY <1>14 DEF KinEnds
  <2>1. CommandTypes'
    BY <1>14, <2>0 DEF KinEnds
  <2>2. NumberIsOurs'
    BY <1>14 DEF KinEnds
  <2>3. SweptForGood'
    BY <1>14 DEF KinEnds
  <2>4. SignalIsReported'
    BY <1>14 DEF KinEnds
  <2>5. CopiersEnded'
    BY <1>14 DEF KinEnds
  <2>6. AnswerIsFinal'
    BY <1>14 DEF KinEnds
  <2> QED
    BY <2>1, <2>2, <2>3, <2>4, <2>5, <2>6
<1>15. CASE LeaderExits
    BY <1>15 DEF LeaderExits
<1>16. CASE Reuse
    BY <1>16 DEF Reuse
<1>17. CASE ContextEnds
    BY <1>17 DEF ContextEnds
<1>18. ASSUME NEW s \in Streams, Copier(s) PROVE CommandInv'
    BY <1>18 DEF Copier
<1>19. CASE UNCHANGED commandVars
    BY <1>19 DEF commandVars
<1> QED
    BY <1>1, <1>2, <1>3, <1>4, <1>5, <1>6, <1>7, <1>8, <1>9, <1>10, <1>11, <1>12, <1>13, <1>14, <1>15, <1>16, <1>17, <1>18, <1>19 DEF CommandNext, Run, Watch

\* Every reachable state satisfies the invariant.
LEMMA CommandInductive == CommandSpec => []CommandInv
BY CommandStarts, CommandStep, PTL DEF CommandSpec

\* No signal of a run, however late the cancellation, reaches a stranger that
\* took the number of its group (runContained).
THEOREM StrangersAreSpared == CommandSpec => []NoStrangerIsStruck
<1>1. CommandInv => NoStrangerIsStruck
    BY DEF CommandInv, NoStrangerIsStruck
<1> QED
    BY CommandInductive, <1>1, PTL

\* A run that returns an answer or an ordinary error leaves nobody of its group
\* behind (Run).
THEOREM GroupIsEnded == CommandSpec => []NobodyIsLeft
<1>1. CommandInv => NobodyIsLeft
    BY DEF CommandInv, NobodyIsLeft
<1> QED
    BY CommandInductive, <1>1, PTL

\* An answer is that of a leader that succeeded uncancelled, whole or salvaged
\* after the sweep (runContained, Salvaged).
THEOREM AnswersEarned == CommandSpec => []AnswersAreEarned
<1>1. CommandInv => AnswersAreEarned
    BY DEF CommandInv
<1> QED
    BY CommandInductive, <1>1, PTL
=============================================================================
