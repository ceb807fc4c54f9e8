------------------------------- MODULE Reach -------------------------------
(***************************************************************************)
(* The attributed rapid type analysis every closure fact rests on          *)
(* (internal/closure/internal/rta).  One run serves a batch of subjects:   *)
(* each function, address taken, call site and runtime type carries the    *)
(* set of subjects (the Go code's bit mask) that reach it, and a dynamic   *)
(* edge belongs only to the subjects that reach both of its sides.  What   *)
(* one instruction adds depends on what was recorded before it, so each    *)
(* handler works on the difference between the two; the instructions of a  *)
(* body, the work list and Go's maps are taken in any order.               *)
(*                                                                         *)
(* A program is data: the instructions of each function, the signatures,   *)
(* the interfaces each type implements and the types it exposes.           *)
(***************************************************************************)
CONSTANTS Subjects, Fns, Sigs, Ifaces, Types,
          Programs,   \* the programs analysed
          Start       \* nothing is being visited: seeds and roots are entered

Instructions == ({"call", "take"} \X Fns) \cup ({"dyn"} \X Sigs)
                  \cup ({"invoke"} \X Ifaces) \cup ({"make"} \X Types)

\* roots and the two kinds of seed carry subjects; impls names the method a
\* type answers an interface with (a pair is absent when it does not
\* implement it); a type exposes elems as values and parts structurally only.
ProgramAssumption ==
    \A p \in Programs :
        /\ p.body \in [Fns -> SUBSET Instructions]
        /\ p.sig \in [Fns -> Sigs]
        /\ p.roots \in [Fns -> SUBSET Subjects]
        /\ p.seedTaken \in [Fns -> SUBSET Subjects]
        /\ p.seedTypes \in [Types -> SUBSET Subjects]
        /\ p.concrete \subseteq Types
        /\ p.generic \subseteq Types
        /\ p.exported \in [Types -> SUBSET Fns]
        /\ p.impls \subseteq p.concrete \X Ifaces \X Fns
        /\ p.elems \in [Types -> SUBSET Types]
        /\ p.parts \in [Types -> SUBSET Types]
        /\ p.reflects \in BOOLEAN

ASSUME ProgramsGiven == Programs # {} /\ Start \notin Fns /\ ProgramAssumption

VARIABLES prog,        \* the program under analysis
          current,     \* the function whose body is visited
          body,        \* its instructions still to visit: <<op, arg, subjects>>
          descent,     \* types still to record: <<type, subjects, skip>>
          reached,     \* Reachable: the subjects that reach each function
          pending,     \* those its body has not been visited for
          queued,      \* the functions on the work list
          taken,       \* addrTakenFuncsBySig
          sites,       \* dynCallSites
          invokers,    \* invokeSites
          types,       \* runtimeTypes, and concreteTypes' masks
          traversed,   \* traversedTypes
          known,       \* concreteTypes' keys
          ifaces,      \* interfaceTypes' keys
          links,       \* which of known implement which of ifaces
          targets      \* Targets: <<site, function, subject>>

vars == <<prog, current, body, descent, reached, pending, queued, taken, sites,
          invokers, types, traversed, known, ifaces, links, targets>>

\* An instruction in flight, and an edge attributed to a subject.
Work == {<<i[1], i[2], m>> : i \in Instructions, m \in SUBSET Subjects}
Edges == (Fns \X {"dyn", "invoke"} \X (Sigs \cup Ifaces)) \X Fns \X Subjects

TypeOK ==
    /\ prog \in Programs
    /\ current \in Fns \cup {Start}
    /\ body \subseteq Work
    /\ descent \subseteq Types \X (SUBSET Subjects) \X BOOLEAN
    /\ reached \in [Fns -> SUBSET Subjects]
    /\ pending \in [Fns -> SUBSET Subjects]
    /\ queued \subseteq Fns
    /\ taken \in [Fns -> SUBSET Subjects]
    /\ sites \in [Fns \X Sigs -> SUBSET Subjects]
    /\ invokers \in [Fns \X Ifaces -> SUBSET Subjects]
    /\ types \in [Types -> SUBSET Subjects]
    /\ traversed \in [Types -> SUBSET Subjects]
    /\ known \subseteq Types
    /\ ifaces \subseteq Ifaces
    /\ links \subseteq Types \X Ifaces \X Fns
    /\ targets \subseteq Edges

\* The seeds enter as instructions nobody owns, then the roots.
Init ==
    /\ prog \in Programs
    /\ current = Start
    /\ body = {i \in {<<"take", f, prog.seedTaken[f]>> : f \in Fns}
                     \cup {<<"make", t, prog.seedTypes[t]>> : t \in Types}
                     \cup {<<"call", f, prog.roots[f]>> : f \in Fns} : i[3] # {}}
    /\ descent = {} /\ queued = {} /\ known = {} /\ ifaces = {} /\ links = {} /\ targets = {}
    /\ reached = [f \in Fns |-> {}]
    /\ pending = [f \in Fns |-> {}]
    /\ taken = [f \in Fns |-> {}]
    /\ sites = [x \in Fns \X Sigs |-> {}]
    /\ invokers = [x \in Fns \X Ifaces |-> {}]
    /\ types = [t \in Types |-> {}]
    /\ traversed = [t \in Types |-> {}]

-----------------------------------------------------------------------------
\* With no test for subjects already there.
AddReachableAlways(new) ==
    /\ reached' = [f \in Fns |-> reached[f] \cup new[f]]
    /\ pending' = [f \in Fns |-> pending[f] \cup new[f]]
    /\ queued' = queued \cup {f \in Fns : new[f] # {}}

\* A function visited before is not visited for the subjects that come later.
AddReachableOnce(new) ==
    /\ reached' = [f \in Fns |-> reached[f] \cup new[f]]
    /\ pending' = [f \in Fns |-> IF reached[f] = {} THEN new[f] ELSE pending[f]]
    /\ queued' = queued \cup {f \in Fns : reached[f] = {} /\ new[f] # {}}

\* addReachable for several functions: only subjects new to a function make
\* work for it, and a function waits on the work list once.
AddReachable(new) ==
    /\ reached' = [f \in Fns |-> reached[f] \cup new[f]]
    /\ pending' = [f \in Fns |-> pending[f] \cup (new[f] \ reached[f])]
    /\ queued' = queued \cup {f \in Fns : ~(new[f] \subseteq reached[f])}

\* One instruction of the current body is visited.
Take(i) ==
    /\ descent = {}
    /\ i \in body
    /\ body' = body \ {i}
    /\ UNCHANGED <<prog, current>>

\* The visitor takes a function off the work list with all it is pending for.
Visit(f) ==
    /\ body = {} /\ descent = {}
    /\ f \in queued
    /\ queued' = queued \ {f}
    /\ pending' = [pending EXCEPT ![f] = {}]
    /\ current' = f
    /\ body' = {<<i[1], i[2], pending[f]>> : i \in prog.body[f]}
    /\ UNCHANGED <<prog, descent, reached, taken, sites, invokers, types, traversed,
                   known, ifaces, links, targets>>

\* A static call, and the entry of a root.
VisitCall(g, m) ==
    /\ Take(<<"call", g, m>>)
    /\ AddReachable([f \in Fns |-> IF f = g THEN m ELSE {}])
    /\ UNCHANGED <<descent, taken, sites, invokers, types, traversed, known, ifaces,
                   links, targets>>

\* All of them as soon as somebody reaches such a site.
MatchingAny(g, m) ==
    IF \E f \in Fns : sites[<<f, prog.sig[g]>>] # {} THEN m ELSE {}

\* The subjects among m that reach a dynamic call site of g's signature.
Matching(g, m) == {s \in m : \E f \in Fns : s \in sites[<<f, prog.sig[g]>>]}

\* The address of g is taken: every matching site is resolved for the
\* subjects new to g that reach the site too, and for all of them when the
\* program can call by reflection.
VisitAddrTaken(g, m) ==
    LET delta == m \ taken[g] IN
    /\ Take(<<"take", g, m>>)
    /\ taken' = [taken EXCEPT ![g] = @ \cup delta]
    /\ AddReachable([f \in Fns |-> IF f # g THEN {}
                                   ELSE IF prog.reflects THEN delta ELSE Matching(g, delta)])
    /\ targets' = targets \cup
           {<<<<x[1], "dyn", prog.sig[g]>>, g, x[2]>> :
                x \in {y \in Fns \X delta : y[2] \in sites[<<y[1], prog.sig[g]>>]}}
    /\ UNCHANGED <<descent, sites, invokers, types, traversed, known, ifaces, links>>

\* A dynamic call: the same edge, found from its other side.
VisitDynCall(sig, m) ==
    LET site == <<current, sig>>
        delta == m \ sites[site]
        found == [f \in Fns |-> IF prog.sig[f] = sig THEN delta \cap taken[f] ELSE {}]
    IN
    /\ Take(<<"dyn", sig, m>>)
    /\ sites' = [sites EXCEPT ![site] = @ \cup delta]
    /\ AddReachable(found)
    /\ targets' = targets \cup {<<<<current, "dyn", sig>>, x[1], x[2]>> :
                                   x \in {y \in Fns \X delta : y[2] \in found[y[1]]}}
    /\ UNCHANGED <<descent, taken, invokers, types, traversed, known, ifaces, links>>

\* The types known before the interface was met are left out.
ImplementationsAfter(iface) == links

\* implementations: an interface met for the first time is matched with the
\* concrete types known so far.
Implementations(iface) ==
    IF iface \in ifaces THEN links
    ELSE links \cup {x \in prog.impls : x[1] \in known /\ x[2] = iface}

\* An interface call: its methods are reached by the subjects new to the
\* site that also hold the type.
VisitInvoke(iface, m) ==
    LET site == <<current, iface>>
        delta == m \ invokers[site]
        edges == {x \in links' : x[2] = iface}
        found == [f \in Fns |-> {s \in delta : \E x \in edges : x[3] = f /\ s \in types[x[1]]}]
    IN
    /\ Take(<<"invoke", iface, m>>)
    /\ IF delta = {} THEN UNCHANGED <<ifaces, links>>
       ELSE ifaces' = ifaces \cup {iface} /\ links' = Implementations(iface)
    /\ invokers' = [invokers EXCEPT ![site] = @ \cup delta]
    /\ AddReachable(found)
    /\ targets' = targets \cup {<<<<current, "invoke", iface>>, x[1], x[2]>> :
                                   x \in {y \in Fns \X delta : y[2] \in found[y[1]]}}
    /\ UNCHANGED <<descent, taken, sites, types, traversed, known>>

\* A value is made an interface: its type becomes a runtime type.
VisitMake(t, m) ==
    /\ Take(<<"make", t, m>>)
    /\ descent' = {<<t, m, FALSE>>}
    /\ UNCHANGED <<reached, pending, queued, taken, sites, invokers, types, traversed,
                   known, ifaces, links, targets>>

\* addRuntimeType has nothing to add, or meets a type with a free parameter.
Refused(t, m, skip) ==
    \/ (skip \/ m \subseteq types[t]) /\ m \subseteq traversed[t]
    \/ traversed[t] = {} /\ t \in prog.generic

\* interfaces: a concrete type met for the first time is matched with the
\* interfaces known so far.
Interfaces(t) ==
    IF t \in known THEN links ELSE links \cup {x \in prog.impls : x[1] = t /\ x[2] \in ifaces}

RefuseType(t, m, skip) ==
    /\ <<t, m, skip>> \in descent
    /\ Refused(t, m, skip)
    /\ descent' = descent \ {<<t, m, skip>>}
    /\ UNCHANGED <<prog, current, body, reached, pending, queued, taken, sites, invokers,
                   types, traversed, known, ifaces, links, targets>>

\* The exported methods of a type and those the interface calls so far can
\* pick are reached, then what the type exposes is recorded in its turn.
AddRuntimeType(t, m, skip) ==
    LET access == IF skip THEN {} ELSE m \ types[t]
        deeper == m \ traversed[t]
        held == IF t \in prog.concrete THEN access ELSE {}
        edges == {x \in links' : x[1] = t}
    IN
    /\ <<t, m, skip>> \in descent
    /\ ~Refused(t, m, skip)
    /\ types' = [types EXCEPT ![t] = @ \cup access]
    /\ IF held = {} THEN UNCHANGED <<known, links>>
       ELSE known' = known \cup {t} /\ links' = Interfaces(t)
    /\ AddReachable([f \in Fns |->
           {s \in held : \/ f \in prog.exported[t]
                         \/ \E x \in edges, g \in Fns : x[3] = f /\ s \in invokers[<<g, x[2]>>]}])
    /\ targets' = targets \cup
           {<<<<y[1], "invoke", y[2][2]>>, y[2][3], y[3]>> :
                y \in {z \in Fns \X edges \X held : z[3] \in invokers[<<z[1], z[2][2]>>]}}
    /\ traversed' = [traversed EXCEPT ![t] = @ \cup deeper]
    /\ descent' = (descent \ {<<t, m, skip>>}) \cup
           (IF deeper = {} THEN {}
            ELSE {<<e, deeper, FALSE>> : e \in prog.elems[t]}
                   \cup {<<e, deeper, TRUE>> : e \in prog.parts[t]})
    /\ UNCHANGED <<prog, current, body, taken, sites, invokers, ifaces>>

Next ==
    \/ \E f \in queued : Visit(f)
    \/ \E i \in body :
         \/ VisitCall(i[2], i[3])
         \/ VisitAddrTaken(i[2], i[3])
         \/ VisitDynCall(i[2], i[3])
         \/ VisitInvoke(i[2], i[3])
         \/ VisitMake(i[2], i[3])
    \/ \E d \in descent : RefuseType(d[1], d[2], d[3]) \/ AddRuntimeType(d[1], d[2], d[3])

Spec == Init /\ [][Next]_vars

\* The analysis is one sequential loop: it runs until its work list is empty.
FairSpec == Spec /\ WF_vars(Next)

-----------------------------------------------------------------------------
Done == body = {} /\ descent = {} /\ queued = {}

\* What an analysis for the subject s alone must contain: the functions fns
\* with the runtime types acc and the structural types trav, closed under the
\* program's calls, and under its types.
TakenBy(s, fns) ==
    {g \in Fns : s \in prog.seedTaken[g] \/ \E f \in fns : <<"take", g>> \in prog.body[f]}

CallsClosed(s, fns) ==
    /\ \A f \in Fns : s \in prog.roots[f] => f \in fns
    /\ \A f \in fns, g \in Fns : <<"call", g>> \in prog.body[f] => g \in fns
    /\ \A g \in TakenBy(s, fns) :
         prog.reflects \/ (\E f \in fns : <<"dyn", prog.sig[g]>> \in prog.body[f]) => g \in fns

TypesClosed(s, fns, acc, trav) ==
    /\ \A t \in Types \ prog.generic : s \in prog.seedTypes[t] => t \in acc
    /\ \A f \in fns, t \in Types \ prog.generic : <<"make", t>> \in prog.body[f] => t \in acc
    /\ \A f \in fns, x \in prog.impls :
         <<"invoke", x[2]>> \in prog.body[f] /\ x[1] \in acc => x[3] \in fns
    /\ \A t \in acc \cap prog.concrete : prog.exported[t] \subseteq fns
    /\ \A t \in acc \cup trav :
         /\ prog.elems[t] \ prog.generic \subseteq acc
         /\ prog.parts[t] \ prog.generic \subseteq acc \cup trav

FnsOf(s) == {f \in Fns : s \in reached[f]}
TypesOf(s) == {t \in Types : s \in types[t]}
TraversedOf(s) == {t \in Types : s \in traversed[t]}

\* No subject is given a function it does not reach by itself: no set closed
\* for a subject alone misses a function the batch attributes to it, whatever
\* the other subjects of the batch reach, take, call or make.
NothingForeign ==
    \A s \in Subjects, fns \in SUBSET Fns :
        ~(FnsOf(s) \subseteq fns) /\ CallsClosed(s, fns)
          => \A acc, trav \in SUBSET Types : ~TypesClosed(s, fns, acc, trav)

\* No subject misses a function it reaches: when the work list is empty the
\* functions, runtime types and structural types attributed to a subject are
\* closed for it, in whatever order edges, types and interfaces were met.
NothingLost ==
    Done => \A s \in Subjects :
        /\ CallsClosed(s, FnsOf(s))
        /\ TypesClosed(s, FnsOf(s), TypesOf(s), TraversedOf(s))

\* The subjects an edge is attributed to are those that reach both sides of
\* it: the caller's body and the value or type that makes the callee one.
BothSides(site, g, s) ==
    /\ s \in reached[site[1]]
    /\ \/ site[2] = "dyn" /\ site[3] = prog.sig[g] /\ s \in taken[g]
       \/ site[2] = "invoke" /\ \E t \in Types : <<t, site[3], g>> \in prog.impls /\ s \in types[t]

EdgesAreAttributed ==
    /\ \A x \in targets : BothSides(x[1], x[2], x[3]) /\ x[3] \in reached[x[2]]
    /\ Done => \A f, g \in Fns, s \in Subjects :
          /\ <<"dyn", prog.sig[g]>> \in prog.body[f] /\ BothSides(<<f, "dyn", prog.sig[g]>>, g, s)
                => <<<<f, "dyn", prog.sig[g]>>, g, s>> \in targets
          /\ \A i \in Ifaces :
               <<"invoke", i>> \in prog.body[f] /\ BothSides(<<f, "invoke", i>>, g, s)
                 => <<<<f, "invoke", i>>, g, s>> \in targets

\* The analysis ends: a function is visited again only for subjects it has
\* not been visited for.
AnalysisEnds == <>Done
=============================================================================
