------------------------------ MODULE MemoStore ------------------------------
(***************************************************************************)
(* The persistent memo store of gofresh (internal/cachefile): a directory  *)
(* of entries shared by every process of a user, each entry written to a   *)
(* temporary file and renamed into place, and a byte ceiling that every    *)
(* process enforces from its own account of the bytes in use.              *)
(*                                                                         *)
(* Calls of Store, Merge and Prune run concurrently in several goroutines  *)
(* of several processes.  Reading an entry, writing, renaming, looking at  *)
(* one file of a walk and removing one file are steps of their own; only   *)
(* the accounting is under a mutex, one per process.  A process may crash  *)
(* anywhere, and entries may be cut short by others.                       *)
(*                                                                         *)
(* A payload is a set of items and weighs one byte per item.  The order in *)
(* which an eviction takes files (modification time, then write sequence)  *)
(* is left open, but for the rule that the entry just written goes last.   *)
(*                                                                         *)
(* A definition introduced by "Mutant:" is a bug the code could have; it is *)
(* used by no action and shows that a property notices it.                 *)
(***************************************************************************)
EXTENDS Naturals, FiniteSets

CONSTANTS
    Processes,
    Calls,        \* calls of Store, Merge or Prune
    Home,         \* the process of each call
    Keys, Items,
    Files,        \* entry paths
    Path,         \* the path of each key
    Unremovable,  \* paths the file system refuses to remove
    Limit,        \* the byte ceiling
    MaxHarm,      \* bound on crashes and damages
    NoOne, NoEntry, Unknown, Unseen

ASSUME MemoAssumption ==
    /\ Home \in [Calls -> Processes] /\ Path \in [Keys -> Files]
    /\ Unremovable \subseteq Files /\ Limit \in Nat /\ MaxHarm \in Nat
    /\ IsFiniteSet(Files) /\ IsFiniteSet(Items)
    /\ NoOne \notin Calls /\ Unknown \notin Nat /\ \A S \in SUBSET Items : S # Unseen

Payloads == (SUBSET Items) \ {{}}
\* What a path can hold; a damaged entry no longer decodes.
Entries == [key : Keys, payload : Payloads, whole : BOOLEAN]
Requests == [kind : {"store", "merge"}, key : Keys, payload : Payloads]
            \cup [kind : {"prune"}, target : 0..Limit]

VARIABLES
    disk,      \* what each path holds
    pc,        \* where each call stands
    request,   \* its arguments; for a merge the merged payload once it has loaded
    temp,      \* its temporary file: "none", "partial" or "whole"
    found,     \* its walk: what it found at each path, Unseen before; the code
               \* keeps the size alone
    remaining, \* its RemainingBytes
    known,     \* knownBytes of each process, Unknown until a walk (knownValid)
    mutex,     \* the holder of pruneMu of each process
    stored,    \* history: the payloads stored under each key
    uncounted, \* history: the paths whose bytes the account may miss
    harm       \* crashes and damages so far

callVars == <<pc, request, temp, found, remaining>>
vars == <<disk, callVars, known, mutex, stored, uncounted, harm>>

Held(f) == IF disk[f] = NoEntry THEN {} ELSE disk[f].payload
\* The bytes of a collection of files: one for each item at a path.
Placed(at) == {x \in Files \X Items : x[2] \in at[x[1]]}
Bytes(at) == Cardinality(Placed(at))
NoRequest == [kind |-> "prune", target |-> 0]
NoWalk == [f \in Files |-> Unseen]

\* A call returns; its arguments and locals are gone.
CallEnds(c) ==
    /\ pc' = [pc EXCEPT ![c] = "returned"]
    /\ request' = [request EXCEPT ![c] = NoRequest]

Init ==
    /\ disk = [f \in Files |-> NoEntry]
    /\ pc = [c \in Calls |-> "idle"] /\ request = [c \in Calls |-> NoRequest]
    /\ temp = [c \in Calls |-> "none"] /\ found = [c \in Calls |-> NoWalk]
    /\ remaining = [c \in Calls |-> 0]
    /\ known = [p \in Processes |-> Unknown] /\ mutex = [p \in Processes |-> NoOne]
    /\ stored = [k \in Keys |-> {}] /\ uncounted = {} /\ harm = 0

-----------------------------------------------------------------------------
\* Mutant: the key an entry restates is not compared.
ServedAnyKey(key) ==
    LET entry == disk[Path[key]]
    IN IF entry # NoEntry /\ entry.whole THEN entry.payload ELSE {}

\* Load: an entry that does not decode or restates another key is a miss.
Served(key) ==
    LET entry == disk[Path[key]]
    IN IF entry # NoEntry /\ entry.whole /\ entry.key = key THEN entry.payload ELSE {}

Begin(c) ==
    /\ pc[c] = "idle"
    /\ \E r \in Requests :
          /\ request' = [request EXCEPT ![c] = r]
          /\ pc' = [pc EXCEPT ![c] = IF r.kind = "merge" THEN "load"
                                       ELSE IF r.kind = "store" THEN "create"
                                       ELSE "lock"]
    /\ UNCHANGED <<disk, temp, found, remaining, known, mutex, stored, uncounted, harm>>

\* Merge reads the entry without any lock and stores the union.
MergeLoad(c) ==
    /\ pc[c] = "load"
    /\ request' = [request EXCEPT ![c].payload = @ \cup Served(request[c].key)]
    /\ pc' = [pc EXCEPT ![c] = "create"]
    /\ UNCHANGED <<disk, temp, found, remaining, known, mutex, stored, uncounted, harm>>

\* CreateTemp and Write; a failure gives the call up, silently.
StoreCreate(c) ==
    /\ pc[c] = "create"
    /\ \/ temp' = [temp EXCEPT ![c] = "partial"] /\ pc' = [pc EXCEPT ![c] = "write"]
          /\ UNCHANGED request
       \/ CallEnds(c) /\ UNCHANGED temp
    /\ UNCHANGED <<disk, found, remaining, known, mutex, stored, uncounted, harm>>

StoreWrite(c) ==
    /\ pc[c] = "write"
    /\ \/ /\ temp' = [temp EXCEPT ![c] = "whole"] /\ pc' = [pc EXCEPT ![c] = "rename"]
          /\ UNCHANGED request
       \/ temp' = [temp EXCEPT ![c] = "none"] /\ CallEnds(c)
    /\ UNCHANGED <<disk, found, remaining, known, mutex, stored, uncounted, harm>>

StoreRename(c) ==
    /\ pc[c] = "rename"
    /\ temp' = [temp EXCEPT ![c] = "none"]
    /\ LET r == request[c]
       IN \/ /\ disk' = [disk EXCEPT ![Path[r.key]] =
                            [key |-> r.key, payload |-> r.payload, whole |-> temp[c] = "whole"]]
             /\ stored' = [stored EXCEPT ![r.key] = @ \cup {r.payload}]
             /\ pc' = [pc EXCEPT ![c] = "lock"] /\ UNCHANGED request
          \/ CallEnds(c) /\ UNCHANGED <<disk, stored>>
    /\ UNCHANGED <<found, remaining, known, mutex, uncounted, harm>>

-----------------------------------------------------------------------------
Weight(c) == Cardinality(request[c].payload)
Target(c) == IF request[c].kind = "prune" THEN request[c].target ELSE Limit

\* The account of the process covers the write, or a walk is due.
Fits(c) == /\ request[c].kind # "prune" /\ known[Home[c]] # Unknown
           /\ known[Home[c]] + Weight(c) <= Limit

\* The entry whose bytes a call hands to the accounting.
Written(c) == IF request[c].kind = "prune" THEN {} ELSE {Path[request[c].key]}

\* recordWriteAndEnforce: the fast path only adds; otherwise, and in Prune,
\* the mutex is kept over the whole walk and eviction, and the write counts
\* once the walk has met it.
Lock(c) ==
    LET p == Home[c] IN
    /\ pc[c] = "lock" /\ mutex[p] = NoOne
    /\ \/ /\ Fits(c)
          /\ known' = [known EXCEPT ![p] = @ + Weight(c)]
          /\ CallEnds(c)
          /\ UNCHANGED <<mutex, found, uncounted>>
       \/ /\ ~Fits(c)
          /\ mutex' = [mutex EXCEPT ![p] = c]
          /\ found' = [found EXCEPT ![c] = NoWalk]
          /\ pc' = [pc EXCEPT ![c] = "walk"]
          /\ uncounted' = uncounted \cup Written(c)
          /\ UNCHANGED <<known, request>>
    /\ UNCHANGED <<disk, temp, remaining, stored, harm>>

\* The root cannot be looked at: the call ends with the account as it was, a
\* store's own write not in it.
WalkFails(c) ==
    /\ pc[c] = "walk" /\ found[c] = NoWalk
    /\ mutex' = [mutex EXCEPT ![Home[c]] = NoOne]
    /\ CallEnds(c)
    /\ UNCHANGED <<disk, temp, found, remaining, known, stored, uncounted, harm>>

\* The walk finds each file at its own moment, or skips what it cannot read.
Walk(c, f) ==
    /\ pc[c] = "walk" /\ found[c][f] = Unseen
    /\ \/ /\ found' = [found EXCEPT ![c][f] = Held(f)]
          /\ uncounted' = uncounted \ {f}
       \/ /\ Held(f) # {}
          /\ found' = [found EXCEPT ![c][f] = {}]
          /\ uncounted' = uncounted \cup {f}
    /\ UNCHANGED <<disk, pc, request, temp, remaining, known, mutex, stored, harm>>

WalkDone(c) ==
    /\ pc[c] = "walk" /\ \A f \in Files : found[c][f] # Unseen
    /\ remaining' = [remaining EXCEPT ![c] = Bytes(found[c])]
    /\ pc' = [pc EXCEPT ![c] = "evict"]
    /\ UNCHANGED <<disk, request, temp, found, known, mutex, stored, uncounted, harm>>

\* Entries of the walk not considered yet; the one just written goes last.
Listed(c) == {f \in Files : found[c][f] # {}}

Preserved(c) == {f \in Listed(c) : request[c].kind # "prune" /\ f = Path[request[c].key]
                                   /\ Cardinality(found[c][f]) <= Target(c)}
Candidates(c) == IF Listed(c) \ Preserved(c) # {} THEN Listed(c) \ Preserved(c) ELSE Listed(c)

\* os.Remove: a file already gone counts as reclaimed, a refusal is skipped.
Evict(c, f) ==
    /\ pc[c] = "evict" /\ remaining[c] > Target(c) /\ f \in Candidates(c)
    /\ found' = [found EXCEPT ![c][f] = {}]
    /\ IF f \in Unremovable /\ disk[f] # NoEntry
       THEN UNCHANGED <<disk, remaining>>
       ELSE /\ disk' = [disk EXCEPT ![f] = NoEntry]
            /\ remaining' = [remaining EXCEPT ![c] = @ - Cardinality(found[c][f])]
    /\ UNCHANGED <<pc, request, temp, known, mutex, stored, uncounted, harm>>

\* Mutant: the account starts from nothing after an eviction.
EvictDoneReset(c) ==
    /\ pc[c] = "evict" /\ (remaining[c] <= Target(c) \/ Listed(c) = {})
    /\ known' = [known EXCEPT ![Home[c]] = 0]
    /\ mutex' = [mutex EXCEPT ![Home[c]] = NoOne]
    /\ CallEnds(c)
    /\ found' = [found EXCEPT ![c] = NoWalk] /\ remaining' = [remaining EXCEPT ![c] = 0]
    /\ UNCHANGED <<disk, temp, stored, uncounted, harm>>

EvictDone(c) ==
    /\ pc[c] = "evict" /\ (remaining[c] <= Target(c) \/ Listed(c) = {})
    /\ known' = [known EXCEPT ![Home[c]] = remaining[c]]
    /\ mutex' = [mutex EXCEPT ![Home[c]] = NoOne]
    /\ CallEnds(c)
    /\ found' = [found EXCEPT ![c] = NoWalk] /\ remaining' = [remaining EXCEPT ![c] = 0]
    /\ UNCHANGED <<disk, temp, stored, uncounted, harm>>

Call(c) == \/ MergeLoad(c) \/ StoreCreate(c) \/ StoreWrite(c) \/ StoreRename(c)
           \/ Lock(c) \/ WalkFails(c) \/ WalkDone(c) \/ EvictDone(c)
           \/ \E f \in Files : Walk(c, f) \/ Evict(c, f)

-----------------------------------------------------------------------------
\* A crash ends the calls of a process and forgets its account; a temporary
\* file it leaves is nobody's.
Crash(p) ==
    /\ harm < MaxHarm /\ harm' = harm + 1
    /\ pc' = [c \in Calls |-> IF Home[c] = p /\ pc[c] # "idle" THEN "returned" ELSE pc[c]]
    /\ request' = [c \in Calls |-> IF Home[c] = p THEN NoRequest ELSE request[c]]
    /\ temp' = [c \in Calls |-> IF Home[c] = p THEN "none" ELSE temp[c]]
    /\ found' = [c \in Calls |-> IF Home[c] = p THEN NoWalk ELSE found[c]]
    /\ remaining' = [c \in Calls |-> IF Home[c] = p THEN 0 ELSE remaining[c]]
    /\ known' = [known EXCEPT ![p] = Unknown] /\ mutex' = [mutex EXCEPT ![p] = NoOne]
    /\ UNCHANGED <<disk, stored, uncounted>>

\* Somebody else cuts an entry short.
Damage(f) ==
    /\ harm < MaxHarm /\ harm' = harm + 1 /\ disk[f] # NoEntry
    /\ \E rest \in (SUBSET disk[f].payload) \ {{}} :
          disk' = [disk EXCEPT ![f].whole = FALSE, ![f].payload = rest]
    /\ UNCHANGED <<callVars, known, mutex, stored, uncounted>>

Next == \/ \E c \in Calls : Begin(c) \/ Call(c)
        \/ \E p \in Processes : Crash(p)
        \/ \E f \in Files : Damage(f)

Spec == Init /\ [][Next]_vars /\ \A c \in Calls : WF_vars(Call(c))
-----------------------------------------------------------------------------
\* A load never serves what was not stored whole under its own key, whatever
\* path two keys share and whatever crashed or was damaged meanwhile.
ServesWhatWasStored == \A k \in Keys : Served(k) # {} => Served(k) \in stored[k]

\* The ceiling: once no call is at work and the account is known, what the
\* store holds is within the ceiling, or only what cannot be removed.  The
\* bytes no walk could see are not in the account, and not in the promise.
Quiet == \A c \in Calls : pc[c] \in {"idle", "returned"}
Counted(f) == IF f \in uncounted THEN {} ELSE Held(f)
StoreIsBounded ==
    Quiet /\ (\A p \in Processes : known[p] # Unknown) =>
        \/ Bytes([f \in Files |-> Counted(f)]) <= Limit
        \/ \A f \in Files : Counted(f) # {} => f \in Unremovable
=============================================================================
