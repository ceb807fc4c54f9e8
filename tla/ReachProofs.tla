---------------------------- MODULE ReachProofs ----------------------------
(***************************************************************************)
(* Proofs about the attributed analysis, for every program, batch of       *)
(* subjects and order of visits: what it attributes to a subject is what   *)
(* an analysis for that subject alone must contain (NothingForeign), and   *)
(* all of it once the work list is empty (NothingLost).                    *)
(***************************************************************************)
EXTENDS Reach, TLAPS

Masks == [Fns -> SUBSET Subjects]

\* Seeds and roots hold no call site: a site has a function around it.
Owned == \A i \in body : current = Start => i[1] \in {"call", "take", "make"}

Typed == TypeOK /\ Owned

\* The program's parts, typed.
LEMMA ProgramParts ==
    ASSUME prog \in Programs
    PROVE  /\ prog.body \in [Fns -> SUBSET Instructions]
           /\ prog.sig \in [Fns -> Sigs]
           /\ prog.roots \in Masks
           /\ prog.seedTaken \in Masks
           /\ prog.seedTypes \in [Types -> SUBSET Subjects]
           /\ prog.concrete \subseteq Types
           /\ prog.generic \subseteq Types
           /\ prog.exported \in [Types -> SUBSET Fns]
           /\ prog.impls \subseteq prog.concrete \X Ifaces \X Fns
           /\ prog.elems \in [Types -> SUBSET Types]
           /\ prog.parts \in [Types -> SUBSET Types]
           /\ prog.reflects \in BOOLEAN
BY ProgramsGiven DEF ProgramAssumption, Masks

\* What addReachable leaves is typed.
LEMMA AddedTyped ==
    ASSUME NEW new \in Masks, TypeOK, AddReachable(new)
    PROVE  reached' \in Masks /\ pending' \in Masks /\ queued' \subseteq Fns
BY DEF AddReachable, TypeOK, Masks

\* An instruction of the visited body is one of the program's.
LEMMA BodyTyped ==
    ASSUME Typed, NEW op, NEW arg, NEW m, <<op, arg, m>> \in body
    PROVE  /\ <<op, arg>> \in Instructions
           /\ m \in SUBSET Subjects
           /\ op \in {"call", "take"} => arg \in Fns
           /\ op = "dyn" => arg \in Sigs /\ current \in Fns
           /\ op = "invoke" => arg \in Ifaces /\ current \in Fns
           /\ op = "make" => arg \in Types
<1>1. <<op, arg>> \in Instructions /\ m \in SUBSET Subjects
  BY DEF Typed, TypeOK, Work, Instructions
<1>2. op \in {"dyn", "invoke"} => current \in Fns
  BY DEF Typed, Owned, TypeOK
<1> QED BY <1>1, <1>2 DEF Instructions

\* The edges a handler records are typed.
LEMMA EdgeTyped ==
    ASSUME NEW f \in Fns, NEW op \in {"dyn", "invoke"}, NEW arg \in Sigs \cup Ifaces,
           NEW g \in Fns, NEW s \in Subjects
    PROVE  <<<<f, op, arg>>, g, s>> \in Edges
BY DEF Edges

LEMMA TypedInit == Init => Typed
<1> SUFFICES ASSUME Init PROVE Typed
  OBVIOUS
<1>p. /\ prog.roots \in Masks /\ prog.seedTaken \in Masks
      /\ prog.seedTypes \in [Types -> SUBSET Subjects]
  BY ProgramParts DEF Init
<1>1. ASSUME NEW z \in body
      PROVE  /\ z \in Work
             /\ z[1] \in {"call", "take", "make"}
  <2>1. CASE \E f \in Fns : z = <<"take", f, prog.seedTaken[f]>>
    <3>1. PICK f \in Fns : z = <<"take", f, prog.seedTaken[f]>>
      BY <2>1
    <3>2. <<"take", f>> \in Instructions /\ prog.seedTaken[f] \in SUBSET Subjects
      BY <1>p DEF Instructions, Masks
    <3> QED BY <3>1, <3>2 DEF Work
  <2>2. CASE \E t \in Types : z = <<"make", t, prog.seedTypes[t]>>
    <3>1. PICK t \in Types : z = <<"make", t, prog.seedTypes[t]>>
      BY <2>2
    <3>2. <<"make", t>> \in Instructions /\ prog.seedTypes[t] \in SUBSET Subjects
      BY <1>p DEF Instructions
    <3> QED BY <3>1, <3>2 DEF Work
  <2>3. CASE \E f \in Fns : z = <<"call", f, prog.roots[f]>>
    <3>1. PICK f \in Fns : z = <<"call", f, prog.roots[f]>>
      BY <2>3
    <3>2. <<"call", f>> \in Instructions /\ prog.roots[f] \in SUBSET Subjects
      BY <1>p DEF Instructions, Masks
    <3> QED BY <3>1, <3>2 DEF Work
  <2> QED BY <2>1, <2>2, <2>3 DEF Init
<1> QED BY <1>1 DEF Init, TypeOK, Typed, Owned

LEMMA TypedStep == Typed /\ [Next]_vars => Typed'
<1> SUFFICES ASSUME Typed, [Next]_vars PROVE Typed'
  OBVIOUS
<1>0. /\ prog.body \in [Fns -> SUBSET Instructions] /\ prog.sig \in [Fns -> Sigs]
      /\ prog.impls \subseteq prog.concrete \X Ifaces \X Fns /\ prog.concrete \subseteq Types
      /\ prog.elems \in [Types -> SUBSET Types] /\ prog.parts \in [Types -> SUBSET Types]
      /\ prog.exported \in [Types -> SUBSET Fns]
  BY ProgramParts DEF Typed, TypeOK
<1>1. ASSUME NEW f \in queued, Visit(f) PROVE Typed'
  <2>1. body' \subseteq Work
    BY <1>0, <1>1 DEF Visit, Typed, TypeOK, Work
  <2>2. current' \in Fns
    BY <1>1 DEF Visit, Typed, TypeOK
  <2>3. TypeOK'
    BY <1>1, <2>1, <2>2 DEF Visit, Typed, TypeOK
  <2> QED BY <2>2, <2>3, ProgramsGiven DEF Typed, Owned
<1>2. ASSUME NEW g, NEW m, VisitCall(g, m) PROVE Typed'
  <2>1. m \in SUBSET Subjects
    BY <1>2, BodyTyped DEF VisitCall, Take
  <2>2. [f \in Fns |-> IF f = g THEN m ELSE {}] \in Masks
    BY <2>1 DEF Masks
  <2> QED BY <1>2, <2>2, AddedTyped DEF VisitCall, Take, Typed, TypeOK, Owned, Masks
<1>3. ASSUME NEW g, NEW m, VisitAddrTaken(g, m) PROVE Typed'
  <2> DEFINE delta == m \ taken[g]
             new == [f \in Fns |-> IF f # g THEN {}
                      ELSE IF prog.reflects THEN delta ELSE Matching(g, delta)]
             met == {y \in Fns \X delta : y[2] \in sites[<<y[1], prog.sig[g]>>]}
             more == {<<<<x[1], "dyn", prog.sig[g]>>, g, x[2]>> : x \in met}
  <2>0. AddReachable(new) /\ targets' = targets \cup more /\ Take(<<"take", g, m>>)
    BY <1>3 DEF VisitAddrTaken
  <2>1. m \in SUBSET Subjects /\ g \in Fns
    BY <2>0, BodyTyped DEF Take
  <2>2. new \in Masks
    BY <2>1 DEF Matching, Masks
  <2>3. more \subseteq Edges
    <3>1. ASSUME NEW x \in met
          PROVE  <<<<x[1], "dyn", prog.sig[g]>>, g, x[2]>> \in Edges
      <4>1. x[1] \in Fns /\ x[2] \in Subjects /\ prog.sig[g] \in Sigs \cup Ifaces
        BY <2>1, <1>0
      <4> QED BY <4>1, <2>1, EdgeTyped
    <3> QED BY <3>1
  <2>4. taken' \in Masks
    BY <1>3, <2>1 DEF VisitAddrTaken, Typed, TypeOK, Masks
  <2>5. reached' \in Masks /\ pending' \in Masks /\ queued' \subseteq Fns
    BY <2>0, <2>2, AddedTyped DEF Typed
  <2> HIDE DEF more, new
  <2>7. TypeOK'
    BY <1>3, <2>0, <2>3, <2>4, <2>5 DEF VisitAddrTaken, Take, Typed, TypeOK, Masks
  <2> QED BY <2>0, <2>7 DEF Take, Typed, Owned
<1>4. ASSUME NEW sig, NEW m, VisitDynCall(sig, m) PROVE Typed'
  <2> DEFINE delta == m \ sites[<<current, sig>>]
             found == [f \in Fns |-> IF prog.sig[f] = sig THEN delta \cap taken[f] ELSE {}]
             met == {y \in Fns \X delta : y[2] \in found[y[1]]}
             more == {<<<<current, "dyn", sig>>, x[1], x[2]>> : x \in met}
  <2>0. Take(<<"dyn", sig, m>>) /\ AddReachable(found) /\ targets' = targets \cup more
    BY <1>4 DEF VisitDynCall
  <2>1. m \in SUBSET Subjects /\ sig \in Sigs /\ current \in Fns
    BY <2>0, BodyTyped DEF Take
  <2>2. found \in Masks
    BY <2>1 DEF Typed, TypeOK, Masks
  <2>3. more \subseteq Edges
    <3>1. ASSUME NEW x \in met
          PROVE  <<<<current, "dyn", sig>>, x[1], x[2]>> \in Edges
      <4>1. x[1] \in Fns /\ x[2] \in Subjects
        BY <2>1
      <4> QED BY <4>1, <2>1, EdgeTyped
    <3> QED BY <3>1
  <2>4. sites' \in [Fns \X Sigs -> SUBSET Subjects]
    BY <1>4, <2>1 DEF VisitDynCall, Typed, TypeOK
  <2>5. reached' \in Masks /\ pending' \in Masks /\ queued' \subseteq Fns
    BY <2>0, <2>2, AddedTyped DEF Typed
  <2> HIDE DEF more, found
  <2>7. TypeOK'
    BY <1>4, <2>0, <2>3, <2>4, <2>5 DEF VisitDynCall, Take, Typed, TypeOK, Masks
  <2> QED BY <2>0, <2>7 DEF Take, Typed, Owned
<1>5. ASSUME NEW iface, NEW m, VisitInvoke(iface, m) PROVE Typed'
  <2> DEFINE delta == m \ invokers[<<current, iface>>]
             edges == {x \in links' : x[2] = iface}
             found == [f \in Fns |-> {s \in delta : \E x \in edges : x[3] = f /\ s \in types[x[1]]}]
             met == {y \in Fns \X delta : y[2] \in found[y[1]]}
             more == {<<<<current, "invoke", iface>>, x[1], x[2]>> : x \in met}
  <2>0. Take(<<"invoke", iface, m>>) /\ AddReachable(found) /\ targets' = targets \cup more
    BY <1>5 DEF VisitInvoke
  <2>1. m \in SUBSET Subjects /\ iface \in Ifaces /\ current \in Fns
    BY <2>0, BodyTyped DEF Take
  <2>2. found \in Masks
    BY <2>1 DEF Masks
  <2>3. more \subseteq Edges
    <3>1. ASSUME NEW x \in met
          PROVE  <<<<current, "invoke", iface>>, x[1], x[2]>> \in Edges
      <4>1. x[1] \in Fns /\ x[2] \in Subjects
        BY <2>1
      <4> QED BY <4>1, <2>1, EdgeTyped
    <3> QED BY <3>1
  <2>4. invokers' \in [Fns \X Ifaces -> SUBSET Subjects]
    BY <1>5, <2>1 DEF VisitInvoke, Typed, TypeOK
  <2>5. reached' \in Masks /\ pending' \in Masks /\ queued' \subseteq Fns
    BY <2>0, <2>2, AddedTyped DEF Typed
  <2>6. links' \subseteq Types \X Ifaces \X Fns /\ ifaces' \subseteq Ifaces
    BY <1>0, <1>5, <2>1 DEF VisitInvoke, Implementations, Typed, TypeOK
  <2> HIDE DEF more, found
  <2>7. TypeOK'
    BY <1>5, <2>0, <2>3, <2>4, <2>5, <2>6 DEF VisitInvoke, Take, Typed, TypeOK, Masks
  <2> QED BY <2>0, <2>7 DEF Take, Typed, Owned
<1>6. ASSUME NEW t, NEW m, VisitMake(t, m) PROVE Typed'
  <2>1. m \in SUBSET Subjects /\ t \in Types
    BY <1>6, BodyTyped DEF VisitMake, Take
  <2>2. descent' \subseteq Types \X (SUBSET Subjects) \X BOOLEAN
    <3>1. <<t, m, FALSE>> \in Types \X (SUBSET Subjects) \X BOOLEAN
      BY <2>1
    <3>2. descent' = {<<t, m, FALSE>>}
      BY <1>6 DEF VisitMake
    <3> QED BY <3>1, <3>2
  <2>3. body' \subseteq Work
    BY <1>6 DEF VisitMake, Take, Typed, TypeOK
  <2>4. TypeOK'
    BY <1>6, <2>2, <2>3 DEF VisitMake, Take, Typed, TypeOK
  <2> QED BY <1>6, <2>4 DEF VisitMake, Take, Typed, Owned
<1>7. ASSUME NEW t, NEW m, NEW skip, RefuseType(t, m, skip) PROVE Typed'
  BY <1>7 DEF RefuseType, Typed, TypeOK, Owned
<1>8. ASSUME NEW t, NEW m, NEW skip, AddRuntimeType(t, m, skip) PROVE Typed'
  <2> DEFINE access == IF skip THEN {} ELSE m \ types[t]
             deeper == m \ traversed[t]
             held == IF t \in prog.concrete THEN access ELSE {}
             edges == {x \in links' : x[1] = t}
             new == [f \in Fns |->
               {s \in held : \/ f \in prog.exported[t]
                             \/ \E x \in edges, g \in Fns : x[3] = f /\ s \in invokers[<<g, x[2]>>]}]
             met == {z \in Fns \X edges \X held : z[3] \in invokers[<<z[1], z[2][2]>>]}
             more == {<<<<y[1], "invoke", y[2][2]>>, y[2][3], y[3]>> : y \in met}
             below == IF deeper = {} THEN {}
                      ELSE {<<e, deeper, FALSE>> : e \in prog.elems[t]}
                             \cup {<<e, deeper, TRUE>> : e \in prog.parts[t]}
  <2>0. AddReachable(new) /\ targets' = targets \cup more
        /\ descent' = (descent \ {<<t, m, skip>>}) \cup below
    BY <1>8 DEF AddRuntimeType
  <2>1. m \in SUBSET Subjects /\ t \in Types /\ skip \in BOOLEAN
    BY <1>8 DEF AddRuntimeType, Typed, TypeOK
  <2>2. new \in Masks
    BY <2>1 DEF Masks
  <2>6. links' \subseteq Types \X Ifaces \X Fns /\ known' \subseteq Types
    BY <1>0, <1>8, <2>1 DEF AddRuntimeType, Interfaces, Typed, TypeOK
  <2>3. more \subseteq Edges
    <3>1. ASSUME NEW y \in met
          PROVE  <<<<y[1], "invoke", y[2][2]>>, y[2][3], y[3]>> \in Edges
      <4>1. y[2] \in Types \X Ifaces \X Fns /\ y[1] \in Fns /\ y[3] \in Subjects
        BY <2>1, <2>6
      <4>2. y[2][2] \in Sigs \cup Ifaces /\ y[2][3] \in Fns
        BY <4>1
      <4> QED BY <4>1, <4>2, EdgeTyped
    <3> QED BY <3>1
  <2>4. types' \in [Types -> SUBSET Subjects] /\ traversed' \in [Types -> SUBSET Subjects]
    BY <1>8, <2>1 DEF AddRuntimeType, Typed, TypeOK
  <2>5. reached' \in Masks /\ pending' \in Masks /\ queued' \subseteq Fns
    BY <2>0, <2>2, AddedTyped DEF Typed
  <2>7. below \subseteq Types \X (SUBSET Subjects) \X BOOLEAN
    <3>1. prog.elems[t] \subseteq Types /\ prog.parts[t] \subseteq Types /\ deeper \in SUBSET Subjects
      BY <1>0, <2>1
    <3>2. \A e \in Types, b \in BOOLEAN :
             <<e, deeper, b>> \in Types \X (SUBSET Subjects) \X BOOLEAN
      BY <3>1
    <3> HIDE DEF deeper
    <3> QED BY <3>1, <3>2
  <2> HIDE DEF more, new, below
  <2>8. TypeOK'
    BY <1>8, <2>0, <2>3, <2>4, <2>5, <2>6, <2>7 DEF AddRuntimeType, Typed, TypeOK, Masks
  <2> QED BY <1>8, <2>8 DEF AddRuntimeType, Typed, Owned
<1>9. CASE UNCHANGED vars
  BY <1>9 DEF vars, Typed, TypeOK, Owned
<1> QED BY <1>1, <1>2, <1>3, <1>4, <1>5, <1>6, <1>7, <1>8, <1>9 DEF Next

\* Every variable stays in its type, and every call site has a function.
THEOREM TypeCorrect == Spec => []Typed
BY TypedInit, TypedStep, PTL DEF Spec

-----------------------------------------------------------------------------
(***************************************************************************)
(* Nothing foreign.  Everything recorded for a subject s, waiting as well  *)
(* as done, lies within any sets closed for s alone.                       *)
(***************************************************************************)
AloneClosed(s, fns, acc, trav) == CallsClosed(s, fns) /\ TypesClosed(s, fns, acc, trav)

\* An instruction in flight is one of a function in fns, a root or a seed.
Justified(op, arg, s, fns) ==
    \/ current \in fns /\ <<op, arg>> \in prog.body[current]
    \/ current = Start /\ \/ op = "call" /\ s \in prog.roots[arg]
                          \/ op = "take" /\ s \in prog.seedTaken[arg]
                          \/ op = "make" /\ s \in prog.seedTypes[arg]

FnsWithin(s, fns) == \A f \in Fns : s \in reached[f] \cup pending[f] => f \in fns

UsesWithin(s, fns) ==
    /\ \A f \in Fns : s \in taken[f] => f \in TakenBy(s, fns)
    /\ \A f \in Fns, c \in Sigs : s \in sites[<<f, c>>] => f \in fns /\ <<"dyn", c>> \in prog.body[f]
    /\ \A f \in Fns, c \in Ifaces :
         s \in invokers[<<f, c>>] => f \in fns /\ <<"invoke", c>> \in prog.body[f]

TypesWithin(s, acc, trav) ==
    \A t \in Types : (s \in types[t] => t \in acc) /\ (s \in traversed[t] => t \in acc \cup trav)

BodyWithin(s, fns) == \A i \in body : s \in i[3] => Justified(i[1], i[2], s, fns)

DescentWithin(s, acc, trav) ==
    \A d \in descent : s \in d[2] =>
        d[1] \in prog.generic \/ d[1] \in acc \/ (d[3] /\ d[1] \in trav)

Within(s, fns, acc, trav) ==
    /\ FnsWithin(s, fns)
    /\ UsesWithin(s, fns)
    /\ TypesWithin(s, acc, trav)
    /\ BodyWithin(s, fns)
    /\ DescentWithin(s, acc, trav)

\* A type with a free parameter is never recorded, and methods are linked to
\* the interfaces they answer.
Grounded == links \subseteq prog.impls /\ \A t \in prog.generic : traversed[t] = {}

INothingForeign ==
    /\ Grounded
    /\ \A s \in Subjects, fns \in SUBSET Fns, acc, trav \in SUBSET Types :
         AloneClosed(s, fns, acc, trav) => Within(s, fns, acc, trav)

LEMMA GroundedStep == Typed /\ Grounded /\ [Next]_vars => Grounded'
<1> SUFFICES ASSUME Typed, Grounded, [Next]_vars PROVE Grounded'
  OBVIOUS
<1>1. ASSUME NEW f \in queued, Visit(f) PROVE Grounded'
  BY <1>1 DEF Visit, Grounded
<1>2. ASSUME NEW g, NEW m, VisitCall(g, m) PROVE Grounded'
  BY <1>2 DEF VisitCall, Take, Grounded
<1>3. ASSUME NEW g, NEW m, VisitAddrTaken(g, m) PROVE Grounded'
  BY <1>3 DEF VisitAddrTaken, Take, Grounded
<1>4. ASSUME NEW sig, NEW m, VisitDynCall(sig, m) PROVE Grounded'
  BY <1>4 DEF VisitDynCall, Take, Grounded
<1>5. ASSUME NEW iface, NEW m, VisitInvoke(iface, m) PROVE Grounded'
  BY <1>5 DEF VisitInvoke, Implementations, Take, Grounded
<1>6. ASSUME NEW t, NEW m, VisitMake(t, m) PROVE Grounded'
  BY <1>6 DEF VisitMake, Take, Grounded
<1>7. ASSUME NEW t, NEW m, NEW skip, RefuseType(t, m, skip) PROVE Grounded'
  BY <1>7 DEF RefuseType, Grounded
<1>8. ASSUME NEW t, NEW m, NEW skip, AddRuntimeType(t, m, skip) PROVE Grounded'
  <2>1. t \notin prog.generic
    BY <1>8 DEF AddRuntimeType, Refused, Grounded
  <2>2. \A c \in prog.generic : traversed'[c] = traversed[c]
    BY <1>8, <2>1, ProgramParts DEF AddRuntimeType, Typed, TypeOK
  <2> QED BY <1>8, <2>2 DEF AddRuntimeType, Interfaces, Grounded
<1>9. CASE UNCHANGED vars
  BY <1>9 DEF vars, Grounded
<1> QED BY <1>1, <1>2, <1>3, <1>4, <1>5, <1>6, <1>7, <1>8, <1>9 DEF Next

\* addReachable stays within fns when what it adds does.
LEMMA AddedWithin ==
    ASSUME Typed, NEW new \in Masks, AddReachable(new), NEW s, NEW fns,
           FnsWithin(s, fns), \A f \in Fns : s \in new[f] => f \in fns
    PROVE  FnsWithin(s, fns)'
BY DEF AddReachable, FnsWithin, Masks, Typed, TypeOK

\* What is left of a body stays justified.
LEMMA TakeWithin ==
    ASSUME NEW i, Take(i), NEW s, NEW fns, BodyWithin(s, fns)
    PROVE  BodyWithin(s, fns)'
BY DEF Take, BodyWithin, Justified

LEMMA TakeJustified ==
    ASSUME NEW op, NEW arg, NEW m, Take(<<op, arg, m>>), NEW s \in m, NEW fns, BodyWithin(s, fns)
    PROVE  Justified(op, arg, s, fns)
BY DEF Take, BodyWithin

\* What calls and types reach for one subject depends on its program only.
LEMMA SameProgram ==
    ASSUME prog' = prog, NEW s, NEW fns, NEW acc, NEW trav
    PROVE  /\ TakenBy(s, fns)' = TakenBy(s, fns)
           /\ AloneClosed(s, fns, acc, trav)' = AloneClosed(s, fns, acc, trav)
BY DEF TakenBy, AloneClosed, CallsClosed, TypesClosed

LEMMA WithinStep ==
    ASSUME Typed, Grounded, [Next]_vars,
           NEW s \in Subjects, NEW fns \in SUBSET Fns,
           NEW acc \in SUBSET Types, NEW trav \in SUBSET Types,
           AloneClosed(s, fns, acc, trav), Within(s, fns, acc, trav)
    PROVE  Within(s, fns, acc, trav)'
<1>0. /\ prog.body \in [Fns -> SUBSET Instructions] /\ prog.sig \in [Fns -> Sigs]
      /\ prog.impls \subseteq prog.concrete \X Ifaces \X Fns /\ prog.concrete \subseteq Types
      /\ prog.elems \in [Types -> SUBSET Types] /\ prog.parts \in [Types -> SUBSET Types]
      /\ prog.exported \in [Types -> SUBSET Fns]
  BY ProgramParts DEF Typed, TypeOK
<1>c. Start \notin fns /\ Start \notin Fns
  BY ProgramsGiven
<1>1. ASSUME NEW f \in queued, Visit(f) PROVE Within(s, fns, acc, trav)'
  <2>1. FnsWithin(s, fns)'
    BY <1>1 DEF Within, FnsWithin, Visit, Typed, TypeOK
  <2>2. BodyWithin(s, fns)'
    <3> SUFFICES ASSUME NEW i \in body', s \in i[3] PROVE Justified(i[1], i[2], s, fns)'
      BY DEF BodyWithin
    <3>1. PICK j \in prog.body[f] : i = <<j[1], j[2], pending[f]>>
      BY <1>1 DEF Visit
    <3>2. f \in Fns /\ s \in pending[f]
      BY <1>1, <3>1 DEF Typed, TypeOK
    <3>3. f \in fns
      BY <3>2 DEF Within, FnsWithin
    <3>4. j \in Instructions /\ j = <<j[1], j[2]>>
      BY <1>0, <3>1, <3>2 DEF Instructions
    <3> QED BY <1>1, <3>1, <3>3, <3>4 DEF Visit, Justified
  <2>3. UsesWithin(s, fns)'
    BY <1>1, SameProgram DEF Within, UsesWithin, Visit
  <2> QED BY <1>1, <2>1, <2>2, <2>3 DEF Within, Visit, TypesWithin, DescentWithin
<1>2. ASSUME NEW g, NEW m, VisitCall(g, m) PROVE Within(s, fns, acc, trav)'
  <2> DEFINE new == [f \in Fns |-> IF f = g THEN m ELSE {}]
  <2>0. Take(<<"call", g, m>>) /\ AddReachable(new)
    BY <1>2 DEF VisitCall
  <2>1. m \in SUBSET Subjects /\ g \in Fns
    BY <2>0, BodyTyped DEF Take
  <2>2. s \in m => g \in fns
    <3>1. s \in m => Justified("call", g, s, fns)
      BY <2>0, TakeJustified DEF Within
    <3> QED BY <2>1, <3>1 DEF Justified, AloneClosed, CallsClosed
  <2>3. FnsWithin(s, fns)'
    <3>1. new \in Masks /\ \A f \in Fns : s \in new[f] => f \in fns
      BY <2>1, <2>2 DEF Masks
    <3> HIDE DEF new
    <3> QED BY <2>0, <3>1, AddedWithin DEF Within
  <2>4. BodyWithin(s, fns)'
    BY <2>0, TakeWithin DEF Within
  <2>5. UsesWithin(s, fns)'
    BY <1>2, SameProgram DEF Within, UsesWithin, VisitCall, Take
  <2> QED BY <1>2, <2>3, <2>4, <2>5 DEF Within, VisitCall, Take, TypesWithin, DescentWithin
<1>3. ASSUME NEW g, NEW m, VisitAddrTaken(g, m) PROVE Within(s, fns, acc, trav)'
  <2> DEFINE delta == m \ taken[g]
             new == [f \in Fns |-> IF f # g THEN {}
                      ELSE IF prog.reflects THEN delta ELSE Matching(g, delta)]
  <2>0. AddReachable(new) /\ Take(<<"take", g, m>>) /\ taken' = [taken EXCEPT ![g] = @ \cup delta]
    BY <1>3 DEF VisitAddrTaken
  <2>1. m \in SUBSET Subjects /\ g \in Fns
    BY <2>0, BodyTyped DEF Take
  <2>2. s \in m => g \in TakenBy(s, fns)
    <3>1. s \in m => Justified("take", g, s, fns)
      BY <2>0, TakeJustified DEF Within
    <3> QED BY <2>1, <3>1 DEF Justified, TakenBy
  <2>3. s \in Matching(g, delta) =>
          \E f \in fns : <<"dyn", prog.sig[g]>> \in prog.body[f]
    BY <1>0, <2>1 DEF Matching, Within, UsesWithin
  <2>4. \A f \in Fns : s \in new[f] => f \in fns
    BY <2>1, <2>2, <2>3 DEF AloneClosed, CallsClosed, Matching
  <2>5. FnsWithin(s, fns)'
    <3>1. new \in Masks
      BY <2>1 DEF Masks, Matching
    <3> HIDE DEF new
    <3> QED BY <2>0, <2>4, <3>1, AddedWithin DEF Within
  <2>6. BodyWithin(s, fns)'
    BY <2>0, TakeWithin DEF Within
  <2>7. UsesWithin(s, fns)'
    <3>1. \A f \in Fns : s \in taken'[f] => f \in TakenBy(s, fns)
      BY <2>0, <2>1, <2>2 DEF Within, UsesWithin, Typed, TypeOK
    <3> QED BY <1>3, <3>1, SameProgram DEF Within, UsesWithin, VisitAddrTaken, Take
  <2> QED BY <1>3, <2>5, <2>6, <2>7 DEF Within, VisitAddrTaken, Take, TypesWithin, DescentWithin
<1>4. ASSUME NEW sig, NEW m, VisitDynCall(sig, m) PROVE Within(s, fns, acc, trav)'
  <2> DEFINE site == <<current, sig>>
             delta == m \ sites[site]
             found == [f \in Fns |-> IF prog.sig[f] = sig THEN delta \cap taken[f] ELSE {}]
  <2>0. Take(<<"dyn", sig, m>>) /\ AddReachable(found)
        /\ sites' = [sites EXCEPT ![site] = @ \cup delta]
    BY <1>4 DEF VisitDynCall
  <2>1. m \in SUBSET Subjects /\ sig \in Sigs /\ current \in Fns
    BY <2>0, BodyTyped DEF Take
  <2>2. s \in m => current \in fns /\ <<"dyn", sig>> \in prog.body[current]
    <3>1. s \in m => Justified("dyn", sig, s, fns)
      BY <2>0, TakeJustified DEF Within
    <3> QED BY <1>c, <2>1, <3>1 DEF Justified
  <2>4. \A f \in Fns : s \in found[f] => f \in fns
    BY <2>2 DEF AloneClosed, CallsClosed, Within, UsesWithin
  <2>5. FnsWithin(s, fns)'
    <3>1. found \in Masks
      BY <2>1 DEF Masks
    <3> HIDE DEF found
    <3> QED BY <2>0, <2>4, <3>1, AddedWithin DEF Within
  <2>6. BodyWithin(s, fns)'
    BY <2>0, TakeWithin DEF Within
  <2>7. UsesWithin(s, fns)'
    <3>1. \A f \in Fns, c \in Sigs :
            s \in sites'[<<f, c>>] => f \in fns /\ <<"dyn", c>> \in prog.body[f]
      BY <2>0, <2>1, <2>2 DEF Within, UsesWithin, Typed, TypeOK
    <3> QED BY <1>4, <3>1, SameProgram DEF Within, UsesWithin, VisitDynCall, Take
  <2> QED BY <1>4, <2>5, <2>6, <2>7 DEF Within, VisitDynCall, Take, TypesWithin, DescentWithin
<1>5. ASSUME NEW iface, NEW m, VisitInvoke(iface, m) PROVE Within(s, fns, acc, trav)'
  <2> DEFINE site == <<current, iface>>
             delta == m \ invokers[site]
             edges == {x \in links' : x[2] = iface}
             found == [f \in Fns |-> {z \in delta : \E x \in edges : x[3] = f /\ z \in types[x[1]]}]
  <2>0. Take(<<"invoke", iface, m>>) /\ AddReachable(found)
        /\ invokers' = [invokers EXCEPT ![site] = @ \cup delta]
    BY <1>5 DEF VisitInvoke
  <2>1. m \in SUBSET Subjects /\ iface \in Ifaces /\ current \in Fns
    BY <2>0, BodyTyped DEF Take
  <2>2. s \in m => current \in fns /\ <<"invoke", iface>> \in prog.body[current]
    <3>1. s \in m => Justified("invoke", iface, s, fns)
      BY <2>0, TakeJustified DEF Within
    <3> QED BY <1>c, <2>1, <3>1 DEF Justified
  <2>3. edges \subseteq prog.impls
    BY <1>5 DEF VisitInvoke, Implementations, Grounded
  <2>4. \A f \in Fns : s \in found[f] => f \in fns
    <3> SUFFICES ASSUME NEW f \in Fns, s \in found[f] PROVE f \in fns
      OBVIOUS
    <3>1. PICK x \in edges : x[3] = f /\ s \in types[x[1]]
      OBVIOUS
    <3>2. x \in prog.impls /\ x[2] = iface /\ x[1] \in Types
      BY <1>0, <2>3
    <3>3. x[1] \in acc
      BY <3>1, <3>2 DEF Within, TypesWithin
    <3> QED BY <2>2, <3>1, <3>2, <3>3 DEF AloneClosed, TypesClosed
  <2>5. FnsWithin(s, fns)'
    <3>1. found \in Masks
      BY <2>1 DEF Masks
    <3> HIDE DEF found
    <3> QED BY <2>0, <2>4, <3>1, AddedWithin DEF Within
  <2>6. BodyWithin(s, fns)'
    BY <2>0, TakeWithin DEF Within
  <2>7. UsesWithin(s, fns)'
    <3>1. \A f \in Fns, c \in Ifaces :
            s \in invokers'[<<f, c>>] => f \in fns /\ <<"invoke", c>> \in prog.body[f]
      BY <2>0, <2>1, <2>2 DEF Within, UsesWithin, Typed, TypeOK
    <3> QED BY <1>5, <3>1, SameProgram DEF Within, UsesWithin, VisitInvoke, Take
  <2> QED BY <1>5, <2>5, <2>6, <2>7 DEF Within, VisitInvoke, Take, TypesWithin, DescentWithin
<1>6. ASSUME NEW t, NEW m, VisitMake(t, m) PROVE Within(s, fns, acc, trav)'
  <2>0. Take(<<"make", t, m>>) /\ descent' = {<<t, m, FALSE>>}
    BY <1>6 DEF VisitMake
  <2>1. m \in SUBSET Subjects /\ t \in Types
    BY <2>0, BodyTyped DEF Take
  <2>2. s \in m => t \in prog.generic \/ t \in acc
    <3>1. s \in m => Justified("make", t, s, fns)
      BY <2>0, TakeJustified DEF Within
    <3> QED BY <2>1, <3>1 DEF Justified, AloneClosed, TypesClosed
  <2>3. DescentWithin(s, acc, trav)'
    BY <2>0, <2>2, <1>6 DEF DescentWithin, Take
  <2>4. BodyWithin(s, fns)'
    BY <2>0, TakeWithin DEF Within
  <2>5. UsesWithin(s, fns)'
    BY <1>6, SameProgram DEF Within, UsesWithin, VisitMake, Take
  <2> QED BY <1>6, <2>3, <2>4, <2>5 DEF Within, VisitMake, Take, TypesWithin, FnsWithin
<1>7. ASSUME NEW t, NEW m, NEW skip, RefuseType(t, m, skip) PROVE Within(s, fns, acc, trav)'
  <2>1. UsesWithin(s, fns)'
    BY <1>7, SameProgram DEF Within, UsesWithin, RefuseType
  <2> QED BY <1>7, <2>1
          DEF RefuseType, Within, FnsWithin, TypesWithin, BodyWithin, Justified, DescentWithin
<1>8. ASSUME NEW t, NEW m, NEW skip, AddRuntimeType(t, m, skip)
      PROVE  Within(s, fns, acc, trav)'
  <2> DEFINE access == IF skip THEN {} ELSE m \ types[t]
             deeper == m \ traversed[t]
             held == IF t \in prog.concrete THEN access ELSE {}
             edges == {x \in links' : x[1] = t}
             new == [f \in Fns |->
               {z \in held : \/ f \in prog.exported[t]
                             \/ \E x \in edges, g \in Fns : x[3] = f /\ z \in invokers[<<g, x[2]>>]}]
             below == IF deeper = {} THEN {}
                      ELSE {<<e, deeper, FALSE>> : e \in prog.elems[t]}
                             \cup {<<e, deeper, TRUE>> : e \in prog.parts[t]}
  <2>0. /\ AddReachable(new) /\ <<t, m, skip>> \in descent
        /\ descent' = (descent \ {<<t, m, skip>>}) \cup below
        /\ types' = [types EXCEPT ![t] = @ \cup access]
        /\ traversed' = [traversed EXCEPT ![t] = @ \cup deeper]
    BY <1>8 DEF AddRuntimeType
  <2>1. m \in SUBSET Subjects /\ t \in Types /\ skip \in BOOLEAN
    BY <2>0 DEF Typed, TypeOK
  <2>2. t \notin prog.generic
    BY <1>8 DEF AddRuntimeType, Refused, Grounded
  <2>3. s \in m => t \in acc \/ (skip /\ t \in trav)
    BY <2>0, <2>2 DEF Within, DescentWithin
  <2>4. TypesWithin(s, acc, trav)'
    BY <2>0, <2>1, <2>3 DEF TypesWithin, Within, Typed, TypeOK
  <2>5. \A f \in Fns : s \in new[f] => f \in fns
    <3> SUFFICES ASSUME NEW f \in Fns, s \in new[f] PROVE f \in fns
      OBVIOUS
    <3>1. s \in held /\ t \in prog.concrete /\ t \in acc
      BY <2>3
    <3>2. CASE f \in prog.exported[t]
      BY <3>1, <3>2 DEF AloneClosed, TypesClosed
    <3>3. CASE \E x \in edges, g \in Fns : x[3] = f /\ s \in invokers[<<g, x[2]>>]
      <4>1. PICK x \in edges, g \in Fns : x[3] = f /\ s \in invokers[<<g, x[2]>>]
        BY <3>3
      <4>2. x \in prog.impls /\ x[1] = t /\ x[2] \in Ifaces
        BY <1>0, <1>8 DEF AddRuntimeType, Interfaces, Grounded
      <4>3. g \in fns /\ <<"invoke", x[2]>> \in prog.body[g]
        BY <4>1, <4>2 DEF Within, UsesWithin
      <4> QED BY <3>1, <4>1, <4>2, <4>3 DEF AloneClosed, TypesClosed
    <3> QED BY <3>2, <3>3
  <2>6. FnsWithin(s, fns)'
    <3>1. new \in Masks
      BY <2>1 DEF Masks
    <3> HIDE DEF new
    <3> QED BY <2>0, <2>5, <3>1, AddedWithin DEF Within
  <2>7. DescentWithin(s, acc, trav)'
    <3> SUFFICES ASSUME NEW d \in below, s \in d[2]
                 PROVE  d[1] \in prog.generic \/ d[1] \in acc \/ (d[3] /\ d[1] \in trav)
      BY <1>8, <2>0 DEF AddRuntimeType, Within, DescentWithin
    <3>0. d[2] = deeper
      <4>1. CASE \E e \in prog.elems[t] : d = <<e, deeper, FALSE>>
        BY <4>1
      <4>2. CASE \E e \in prog.parts[t] : d = <<e, deeper, TRUE>>
        BY <4>2
      <4> QED BY <4>1, <4>2
    <3>1. s \in deeper /\ t \in acc \cup trav
      <4>1. s \in m
        BY <3>0
      <4> QED BY <2>3, <3>0, <4>1
    <3>2. CASE \E e \in prog.elems[t] : d = <<e, deeper, FALSE>>
      <4>1. PICK e \in prog.elems[t] : d = <<e, deeper, FALSE>>
        BY <3>2
      <4>2. e \in prog.generic \/ e \in acc
        BY <3>1 DEF AloneClosed, TypesClosed
      <4> QED BY <4>1, <4>2
    <3>3. CASE \E e \in prog.parts[t] : d = <<e, deeper, TRUE>>
      <4>1. PICK e \in prog.parts[t] : d = <<e, deeper, TRUE>>
        BY <3>3
      <4>2. e \in prog.generic \/ e \in acc \cup trav
        BY <3>1 DEF AloneClosed, TypesClosed
      <4> QED BY <4>1, <4>2
    <3>4. deeper # {} /\ \/ \E e \in prog.elems[t] : d = <<e, deeper, FALSE>>
                         \/ \E e \in prog.parts[t] : d = <<e, deeper, TRUE>>
      OBVIOUS
    <3> QED BY <3>2, <3>3, <3>4
  <2>8. UsesWithin(s, fns)'
    BY <1>8, SameProgram DEF Within, UsesWithin, AddRuntimeType
  <2>9. BodyWithin(s, fns)'
    BY <1>8 DEF Within, BodyWithin, Justified, AddRuntimeType
  <2> QED BY <2>4, <2>6, <2>7, <2>8, <2>9 DEF Within
<1>9. CASE UNCHANGED vars
  <2>1. UsesWithin(s, fns)'
    BY <1>9, SameProgram DEF vars, Within, UsesWithin
  <2> QED BY <1>9, <2>1
          DEF vars, Within, FnsWithin, TypesWithin, BodyWithin, Justified, DescentWithin
<1> QED BY <1>1, <1>2, <1>3, <1>4, <1>5, <1>6, <1>7, <1>8, <1>9 DEF Next

LEMMA ForeignInit == Init => INothingForeign
<1> SUFFICES ASSUME Init PROVE INothingForeign
  OBVIOUS
<1>1. Grounded
  BY ProgramParts DEF Init, Grounded
<1>2. ASSUME NEW s \in Subjects, NEW fns \in SUBSET Fns
      PROVE  BodyWithin(s, fns)
  BY DEF Init, BodyWithin, Justified
<1>3. ASSUME NEW s \in Subjects, NEW fns \in SUBSET Fns,
             NEW acc \in SUBSET Types, NEW trav \in SUBSET Types
      PROVE  Within(s, fns, acc, trav)
  BY <1>2 DEF Init, Within, FnsWithin, UsesWithin, TypesWithin, DescentWithin
<1> QED BY <1>1, <1>3 DEF INothingForeign

LEMMA ForeignStep == Typed /\ INothingForeign /\ [Next]_vars => INothingForeign'
<1> SUFFICES ASSUME Typed, INothingForeign, [Next]_vars PROVE INothingForeign'
  OBVIOUS
<1>1. prog' = prog
  BY DEF Next, vars, Visit, VisitCall, VisitAddrTaken, VisitDynCall, VisitInvoke, VisitMake,
         Take, RefuseType, AddRuntimeType
<1>2. ASSUME NEW s \in Subjects, NEW fns \in SUBSET Fns,
             NEW acc \in SUBSET Types, NEW trav \in SUBSET Types,
             AloneClosed(s, fns, acc, trav)'
      PROVE  Within(s, fns, acc, trav)'
  <2>1. AloneClosed(s, fns, acc, trav)
    BY <1>1, <1>2, SameProgram
  <2> QED BY <2>1, WithinStep DEF INothingForeign
<1>3. Grounded'
  BY GroundedStep DEF INothingForeign
<1> QED BY <1>2, <1>3, Zenon DEF INothingForeign

LEMMA ForeignInvariant == Spec => []INothingForeign
BY TypedInit, TypedStep, ForeignInit, ForeignStep, PTL DEF Spec

\* No subject is given a function it does not reach by itself.
THEOREM NothingForeignHolds == Spec => []NothingForeign
<1>1. INothingForeign => NothingForeign
  <2> SUFFICES ASSUME INothingForeign,
                      NEW s \in Subjects, NEW fns \in SUBSET Fns,
                      NEW acc \in SUBSET Types, NEW trav \in SUBSET Types,
                      CallsClosed(s, fns), TypesClosed(s, fns, acc, trav)
               PROVE  FnsOf(s) \subseteq fns
    BY DEF NothingForeign
  <2>1. Within(s, fns, acc, trav)
    BY DEF INothingForeign, AloneClosed
  <2> QED BY <2>1 DEF Within, FnsWithin, FnsOf
<1> QED BY <1>1, ForeignInvariant, PTL

-----------------------------------------------------------------------------
(***************************************************************************)
(* Nothing lost.  Whatever a subject must come to hold, it holds already   *)
(* or something in flight will give it.                                    *)
(***************************************************************************)
Awaited(op, arg, s) == \E i \in body : i[1] = op /\ i[2] = arg /\ s \in i[3]

\* A type's value, or only its structure, is recorded or about to be.
Recorded(t, s) ==
    \/ t \in prog.generic
    \/ s \in types[t]
    \/ \E d \in descent : d[1] = t /\ s \in d[2] /\ ~d[3]

Structured(t, s) ==
    \/ t \in prog.generic
    \/ s \in traversed[t]
    \/ \E d \in descent : d[1] = t /\ s \in d[2]

\* An instruction of f has been visited for s.
Served(f, op, arg, s) ==
    /\ op = "call" => s \in reached[arg]
    /\ op = "take" => s \in taken[arg]
    /\ op = "dyn" => s \in sites[<<f, arg>>]
    /\ op = "invoke" => s \in invokers[<<f, arg>>]
    /\ op = "make" => Recorded(arg, s)

BodiesKept ==
    \A f \in Fns : \A i \in prog.body[f], s \in reached[f] \ pending[f] :
        (current = f /\ Awaited(i[1], i[2], s)) \/ Served(f, i[1], i[2], s)

EntriesKept ==
    /\ \A f \in Fns : \A s \in prog.roots[f] :
         (current = Start /\ Awaited("call", f, s)) \/ s \in reached[f]
    /\ \A f \in Fns : \A s \in prog.seedTaken[f] :
         (current = Start /\ Awaited("take", f, s)) \/ s \in taken[f]
    /\ \A t \in Types : \A s \in prog.seedTypes[t] :
         (current = Start /\ Awaited("make", t, s)) \/ Recorded(t, s)

QueueKept == \A f \in Fns : pending[f] # {} => f \in queued

\* Both sides of an edge met: the edge was taken.
DynKept ==
    \A g \in Fns : \A s \in taken[g] :
        prog.reflects \/ (\E f \in Fns : s \in sites[<<f, prog.sig[g]>>]) => s \in reached[g]

InvokeKept ==
    \A x \in prog.impls, f \in Fns :
        \A s \in invokers[<<f, x[2]>>] \cap types[x[1]] : s \in reached[x[3]]

LinksKept ==
    /\ links = {x \in prog.impls : x[1] \in known /\ x[2] \in ifaces}
    /\ \A t \in prog.concrete : types[t] # {} => t \in known
    /\ \A f \in Fns, c \in Ifaces : invokers[<<f, c>>] # {} => c \in ifaces

TypesKept ==
    /\ \A t \in prog.concrete : \A g \in prog.exported[t] : types[t] \subseteq reached[g]
    /\ \A t \in Types : types[t] \subseteq traversed[t]
    /\ \A t \in Types : \A s \in traversed[t] :
         /\ \A e \in prog.elems[t] : Recorded(e, s)
         /\ \A e \in prog.parts[t] : Structured(e, s)

INothingLost ==
    /\ BodiesKept
    /\ EntriesKept
    /\ QueueKept
    /\ DynKept
    /\ InvokeKept
    /\ LinksKept
    /\ TypesKept

\* Nothing recorded is taken back.
Grows ==
    /\ prog' = prog
    /\ \A f \in Fns : reached[f] \subseteq reached'[f] /\ taken[f] \subseteq taken'[f]
    /\ \A f \in Fns, c \in Sigs : sites[<<f, c>>] \subseteq sites'[<<f, c>>]
    /\ \A f \in Fns, c \in Ifaces : invokers[<<f, c>>] \subseteq invokers'[<<f, c>>]
    /\ \A t \in Types : types[t] \subseteq types'[t] /\ traversed[t] \subseteq traversed'[t]
    /\ \A t \in Types, s \in Subjects :
         (Recorded(t, s) => Recorded(t, s)') /\ (Structured(t, s) => Structured(t, s)')

\* A step visits a body further when no instruction leaves it unserved.
Advances ==
    /\ current' = current
    /\ \A f \in Fns : reached'[f] \ pending'[f] \subseteq reached[f] \ pending[f]
    /\ \A i \in body : i \in body' \/ \A s \in i[3] : Served(current, i[1], i[2], s)'

LEMMA AddedGrows ==
    ASSUME Typed, NEW new \in Masks, AddReachable(new)
    PROVE  /\ \A f \in Fns : reached[f] \subseteq reached'[f] /\ new[f] \subseteq reached'[f]
           /\ \A f \in Fns : reached'[f] \ pending'[f] \subseteq reached[f] \ pending[f]
           /\ QueueKept => QueueKept'
BY DEF AddReachable, Masks, QueueKept, Typed, TypeOK

LEMMA AdvancesKeeps ==
    ASSUME Typed, BodiesKept, EntriesKept, Grows, Advances
    PROVE  BodiesKept' /\ EntriesKept'
<1>0. /\ prog.body \in [Fns -> SUBSET Instructions] /\ prog.roots \in Masks
      /\ prog.seedTaken \in Masks /\ prog.seedTypes \in [Types -> SUBSET Subjects]
  BY ProgramParts DEF Typed, TypeOK
<1>1. prog' = prog /\ current' = current
  BY DEF Grows, Advances
<1>2. ASSUME NEW op, NEW arg, NEW s, Awaited(op, arg, s)
      PROVE  Awaited(op, arg, s)' \/ Served(current, op, arg, s)'
  <2>1. PICK i \in body : i[1] = op /\ i[2] = arg /\ s \in i[3]
    BY <1>2 DEF Awaited
  <2>2. CASE i \in body'
    BY <2>1, <2>2 DEF Awaited
  <2>3. CASE i \notin body'
    BY <2>1, <2>3 DEF Advances
  <2> QED BY <2>2, <2>3
<1>3. BodiesKept'
  <2> SUFFICES ASSUME NEW f \in Fns, NEW i \in prog.body[f], NEW s \in reached'[f] \ pending'[f]
               PROVE  (current = f /\ Awaited(i[1], i[2], s)') \/ Served(f, i[1], i[2], s)'
    BY <1>1 DEF BodiesKept
  <2>1. s \in reached[f] \ pending[f] /\ s \in Subjects
    BY DEF Advances, Typed, TypeOK
  <2>2. <<i[1], i[2]>> \in Instructions
    BY <1>0 DEF Instructions
  <2>3. CASE current = f /\ Awaited(i[1], i[2], s)
    BY <1>1, <1>2, <2>3
  <2>4. CASE Served(f, i[1], i[2], s)
    <3>1. /\ i[1] \in {"call", "take"} => i[2] \in Fns
          /\ i[1] = "dyn" => i[2] \in Sigs
          /\ i[1] = "invoke" => i[2] \in Ifaces
          /\ i[1] = "make" => i[2] \in Types
      BY <2>2 DEF Instructions
    <3>2. i[1] = "make" => Recorded(i[2], s)'
      BY <2>1, <2>4, <3>1 DEF Served, Grows
    <3>3. /\ i[1] = "call" => s \in reached'[i[2]]
          /\ i[1] = "take" => s \in taken'[i[2]]
          /\ i[1] = "dyn" => s \in sites'[<<f, i[2]>>]
          /\ i[1] = "invoke" => s \in invokers'[<<f, i[2]>>]
      BY <2>4, <3>1 DEF Served, Grows
    <3> QED BY <3>2, <3>3 DEF Served
  <2> QED BY <2>1, <2>3, <2>4 DEF BodiesKept
<1>4. EntriesKept'
  <2>1. ASSUME NEW f \in Fns, NEW s \in prog.roots[f]
        PROVE  (current = Start /\ Awaited("call", f, s)') \/ s \in reached'[f]
    BY <1>2 DEF EntriesKept, Grows, Served
  <2>2. ASSUME NEW f \in Fns, NEW s \in prog.seedTaken[f]
        PROVE  (current = Start /\ Awaited("take", f, s)') \/ s \in taken'[f]
    BY <1>2 DEF EntriesKept, Grows, Served
  <2>3. ASSUME NEW t \in Types, NEW s \in prog.seedTypes[t]
        PROVE  (current = Start /\ Awaited("make", t, s)') \/ Recorded(t, s)'
    <3>1. s \in Subjects
      BY <1>0
    <3>2. CASE current = Start /\ Awaited("make", t, s)
      BY <1>2, <3>2 DEF Served
    <3>3. CASE Recorded(t, s)
      BY <3>1, <3>3 DEF Grows
    <3> QED BY <3>2, <3>3 DEF EntriesKept
  <2> SUFFICES /\ \A f \in Fns : \A s \in prog.roots[f] :
                    (current = Start /\ Awaited("call", f, s)') \/ s \in reached'[f]
               /\ \A f \in Fns : \A s \in prog.seedTaken[f] :
                    (current = Start /\ Awaited("take", f, s)') \/ s \in taken'[f]
               /\ \A t \in Types : \A s \in prog.seedTypes[t] :
                    (current = Start /\ Awaited("make", t, s)') \/ Recorded(t, s)'
    BY <1>1 DEF EntriesKept
  <2> QED BY <2>1, <2>2, <2>3
<1> QED BY <1>3, <1>4

\* What an action leaves alone stays kept.
LEMMA DynSame ==
    ASSUME Typed, Grows, DynKept, taken' = taken, sites' = sites
    PROVE  DynKept'
BY DEF DynKept, Grows

LEMMA InvokeSame ==
    ASSUME Typed, Grows, InvokeKept, invokers' = invokers, types' = types
    PROVE  InvokeKept'
<1>1. prog.impls \subseteq prog.concrete \X Ifaces \X Fns
  BY ProgramParts DEF Typed, TypeOK
<1> QED BY <1>1 DEF InvokeKept, Grows

LEMMA TypesSame ==
    ASSUME Typed, Grows, TypesKept, types' = types, traversed' = traversed
    PROVE  TypesKept'
<1>1. /\ prog.elems \in [Types -> SUBSET Types] /\ prog.parts \in [Types -> SUBSET Types]
      /\ prog.exported \in [Types -> SUBSET Fns] /\ prog.concrete \subseteq Types
  BY ProgramParts DEF Typed, TypeOK
<1>2. ASSUME NEW t \in prog.concrete, NEW g \in prog.exported[t]
      PROVE  types[t] \subseteq reached'[g]
  BY <1>1 DEF TypesKept, Grows
<1>3. ASSUME NEW t \in Types, NEW s \in traversed[t]
      PROVE  /\ \A e \in prog.elems[t] : Recorded(e, s)'
             /\ \A e \in prog.parts[t] : Structured(e, s)'
  <2>1. s \in Subjects
    BY DEF Typed, TypeOK
  <2> QED BY <1>1, <2>1 DEF TypesKept, Grows
<1>4. prog' = prog
  BY DEF Grows
<1> QED BY <1>2, <1>3, <1>4 DEF TypesKept

LEMMA LinksSame ==
    ASSUME LinksKept, prog' = prog, links' = links, known' = known, ifaces' = ifaces,
           types' = types, invokers' = invokers
    PROVE  LinksKept'
BY DEF LinksKept

\* With descent and types left alone, so is what is recorded.
LEMMA RecordedSame ==
    ASSUME prog' = prog, types' = types, traversed' = traversed, descent \subseteq descent'
    PROVE  \A t, s : (Recorded(t, s) => Recorded(t, s)') /\ (Structured(t, s) => Structured(t, s)')
BY DEF Recorded, Structured

\* An instruction taken off the body was served: the visit advances.
LEMMA TakeAdvances ==
    ASSUME NEW op, NEW arg, NEW m, Take(<<op, arg, m>>),
           \A f \in Fns : reached'[f] \ pending'[f] \subseteq reached[f] \ pending[f],
           \A s \in m : Served(current, op, arg, s)'
    PROVE  Advances
BY DEF Take, Advances

LEMMA LostCall ==
    ASSUME Typed, INothingLost, NEW g, NEW m, VisitCall(g, m) PROVE INothingLost'
<1> DEFINE new == [f \in Fns |-> IF f = g THEN m ELSE {}]
<1>0. Take(<<"call", g, m>>) /\ AddReachable(new)
  BY DEF VisitCall
<1>1. m \in SUBSET Subjects /\ g \in Fns
  BY <1>0, BodyTyped DEF Take
<1>2. new \in Masks
  BY <1>1 DEF Masks
<1>3. /\ \A f \in Fns : reached[f] \subseteq reached'[f] /\ new[f] \subseteq reached'[f]
      /\ \A f \in Fns : reached'[f] \ pending'[f] \subseteq reached[f] \ pending[f]
      /\ QueueKept'
  BY <1>0, <1>2, AddedGrows DEF INothingLost
<1>4. Grows
  BY <1>3, RecordedSame DEF Grows, VisitCall, Take
<1>5. \A s \in m : Served(current, "call", g, s)'
  BY <1>1, <1>3 DEF Served
<1>6. Advances
  BY <1>0, <1>3, <1>5, TakeAdvances
<1> QED BY <1>3, <1>4, <1>6, AdvancesKeeps, DynSame, InvokeSame, TypesSame, LinksSame
        DEF INothingLost, VisitCall, Take

LEMMA LostAddrTaken ==
    ASSUME Typed, INothingLost, NEW g, NEW m, VisitAddrTaken(g, m) PROVE INothingLost'
<1> DEFINE delta == m \ taken[g]
           new == [f \in Fns |-> IF f # g THEN {}
                    ELSE IF prog.reflects THEN delta ELSE Matching(g, delta)]
<1>0. AddReachable(new) /\ Take(<<"take", g, m>>) /\ taken' = [taken EXCEPT ![g] = @ \cup delta]
  BY DEF VisitAddrTaken
<1>1. m \in SUBSET Subjects /\ g \in Fns
  BY <1>0, BodyTyped DEF Take
<1>2. new \in Masks
  BY <1>1 DEF Masks, Matching
<1>3. /\ \A f \in Fns : reached[f] \subseteq reached'[f] /\ new[f] \subseteq reached'[f]
      /\ \A f \in Fns : reached'[f] \ pending'[f] \subseteq reached[f] \ pending[f]
      /\ QueueKept'
  BY <1>0, <1>2, AddedGrows DEF INothingLost
<1>t. \A f \in Fns : taken'[f] = IF f = g THEN taken[g] \cup m ELSE taken[f]
  BY <1>0, <1>1 DEF Typed, TypeOK
<1>4. Grows
  <2>1. \A f \in Fns : taken[f] \subseteq taken'[f]
    BY <1>t
  <2> QED BY <1>3, <2>1, RecordedSame DEF Grows, VisitAddrTaken, Take
<1>5. \A s \in m : Served(current, "take", g, s)'
  BY <1>1, <1>t DEF Served
<1>6. Advances
  BY <1>0, <1>3, <1>5, TakeAdvances
<1>7. DynKept'
  <2> SUFFICES ASSUME NEW f \in Fns, NEW s \in taken'[f],
                      prog.reflects \/ (\E h \in Fns : s \in sites[<<h, prog.sig[f]>>])
               PROVE  s \in reached'[f]
    BY DEF DynKept, VisitAddrTaken, Take
  <2>1. CASE s \in taken[f]
    BY <1>3, <2>1 DEF INothingLost, DynKept
  <2>2. CASE s \notin taken[f]
    <3>1. f = g /\ s \in delta
      BY <1>t, <2>2
    <3>2. s \in new[g]
      BY <1>1, <3>1 DEF Matching
    <3> QED BY <1>1, <1>3, <3>1, <3>2
  <2> QED BY <2>1, <2>2
<1> QED BY <1>3, <1>4, <1>6, <1>7, AdvancesKeeps, InvokeSame, TypesSame, LinksSame
        DEF INothingLost, VisitAddrTaken, Take

LEMMA LostDynCall ==
    ASSUME Typed, INothingLost, NEW sig, NEW m, VisitDynCall(sig, m) PROVE INothingLost'
<1> DEFINE site == <<current, sig>>
           delta == m \ sites[site]
           found == [f \in Fns |-> IF prog.sig[f] = sig THEN delta \cap taken[f] ELSE {}]
<1>0. Take(<<"dyn", sig, m>>) /\ AddReachable(found)
      /\ sites' = [sites EXCEPT ![site] = @ \cup delta]
  BY DEF VisitDynCall
<1>1. m \in SUBSET Subjects /\ sig \in Sigs /\ current \in Fns
  BY <1>0, BodyTyped DEF Take
<1>2. found \in Masks
  BY <1>1 DEF Masks
<1>3. /\ \A f \in Fns : reached[f] \subseteq reached'[f] /\ found[f] \subseteq reached'[f]
      /\ \A f \in Fns : reached'[f] \ pending'[f] \subseteq reached[f] \ pending[f]
      /\ QueueKept'
  BY <1>0, <1>2, AddedGrows DEF INothingLost
<1>t. \A f \in Fns, c \in Sigs :
        sites'[<<f, c>>] = IF f = current /\ c = sig THEN sites[<<f, c>>] \cup m ELSE sites[<<f, c>>]
  BY <1>0, <1>1 DEF Typed, TypeOK
<1>4. Grows
  <2>1. \A f \in Fns, c \in Sigs : sites[<<f, c>>] \subseteq sites'[<<f, c>>]
    BY <1>t
  <2> QED BY <1>3, <2>1, RecordedSame DEF Grows, VisitDynCall, Take
<1>5. \A s \in m : Served(current, "dyn", sig, s)'
  <2>1. \A s \in m : s \in sites'[<<current, sig>>]
    BY <1>1, <1>t
  <2> QED BY <1>0, <2>1 DEF Served, Take
<1>6. Advances
  BY <1>0, <1>3, <1>5, TakeAdvances
<1>7. DynKept'
  <2> SUFFICES ASSUME NEW f \in Fns, NEW s \in taken[f],
                      prog.reflects \/ (\E h \in Fns : s \in sites'[<<h, prog.sig[f]>>])
               PROVE  s \in reached'[f]
    BY DEF DynKept, VisitDynCall, Take
  <2>0. prog.sig[f] \in Sigs
    BY ProgramParts DEF Typed, TypeOK
  <2>1. CASE prog.reflects \/ (\E h \in Fns : s \in sites[<<h, prog.sig[f]>>])
    BY <1>3, <2>1 DEF INothingLost, DynKept
  <2>2. CASE \E h \in Fns : s \in sites'[<<h, prog.sig[f]>>] /\ s \notin sites[<<h, prog.sig[f]>>]
    <3>1. prog.sig[f] = sig /\ s \in delta
      BY <1>t, <2>0, <2>2
    <3> QED BY <1>3, <3>1
  <2> QED BY <2>1, <2>2
<1> QED BY <1>3, <1>4, <1>6, <1>7, AdvancesKeeps, InvokeSame, TypesSame, LinksSame
        DEF INothingLost, VisitDynCall, Take

LEMMA LostInvoke ==
    ASSUME Typed, INothingLost, NEW iface, NEW m, VisitInvoke(iface, m) PROVE INothingLost'
<1> DEFINE site == <<current, iface>>
           delta == m \ invokers[site]
           edges == {x \in links' : x[2] = iface}
           found == [f \in Fns |-> {s \in delta : \E x \in edges : x[3] = f /\ s \in types[x[1]]}]
<1>0. Take(<<"invoke", iface, m>>) /\ AddReachable(found)
      /\ invokers' = [invokers EXCEPT ![site] = @ \cup delta]
  BY DEF VisitInvoke
<1>1. m \in SUBSET Subjects /\ iface \in Ifaces /\ current \in Fns
  BY <1>0, BodyTyped DEF Take
<1>2. found \in Masks
  BY <1>1 DEF Masks
<1>3. /\ \A f \in Fns : reached[f] \subseteq reached'[f] /\ found[f] \subseteq reached'[f]
      /\ \A f \in Fns : reached'[f] \ pending'[f] \subseteq reached[f] \ pending[f]
      /\ QueueKept'
  BY <1>0, <1>2, AddedGrows DEF INothingLost
<1>t. \A f \in Fns, c \in Ifaces :
        invokers'[<<f, c>>] = IF f = current /\ c = iface THEN invokers[<<f, c>>] \cup m
                              ELSE invokers[<<f, c>>]
  BY <1>0, <1>1 DEF Typed, TypeOK
<1>p. prog.impls \subseteq prog.concrete \X Ifaces \X Fns /\ prog.concrete \subseteq Types
  BY ProgramParts DEF Typed, TypeOK
<1>4. Grows
  <2>1. \A f \in Fns, c \in Ifaces : invokers[<<f, c>>] \subseteq invokers'[<<f, c>>]
    BY <1>t
  <2> QED BY <1>3, <2>1, RecordedSame DEF Grows, VisitInvoke, Take
<1>5. \A s \in m : Served(current, "invoke", iface, s)'
  <2>1. \A s \in m : s \in invokers'[<<current, iface>>]
    BY <1>1, <1>t
  <2> QED BY <1>0, <2>1 DEF Served, Take
<1>6. Advances
  BY <1>0, <1>3, <1>5, TakeAdvances
<1>7. LinksKept'
  <2>1. CASE delta = {}
    <3>1. ifaces' = ifaces /\ links' = links
      BY <2>1 DEF VisitInvoke
    <3>2. invokers' = invokers
      <4>1. invokers[site] \cup delta = invokers[site] /\ site \in Fns \X Ifaces
        BY <1>1, <2>1
      <4>2. invokers \in [Fns \X Ifaces -> SUBSET Subjects]
        BY DEF Typed, TypeOK
      <4> HIDE DEF site, delta
      <4> QED BY <1>0, <4>1, <4>2
    <3> QED BY <3>1, <3>2, LinksSame DEF INothingLost, VisitInvoke, Take
  <2>2. CASE delta # {}
    <3>1. ifaces' = ifaces \cup {iface} /\ links' = Implementations(iface)
      BY <2>2 DEF VisitInvoke
    <3>2. links' = {x \in prog.impls : x[1] \in known /\ x[2] \in ifaces'}
      BY <1>p, <3>1 DEF Implementations, INothingLost, LinksKept
    <3>3. \A f \in Fns, c \in Ifaces : invokers'[<<f, c>>] # {} => c \in ifaces'
      BY <1>t, <3>1 DEF INothingLost, LinksKept
    <3> QED BY <3>2, <3>3 DEF INothingLost, LinksKept, VisitInvoke, Take
  <2> QED BY <2>1, <2>2
<1>8. InvokeKept'
  <2> SUFFICES ASSUME NEW x \in prog.impls, NEW f \in Fns,
                      NEW s \in invokers'[<<f, x[2]>>] \cap types[x[1]]
               PROVE  s \in reached'[x[3]]
    BY DEF InvokeKept, VisitInvoke, Take
  <2>0. x[1] \in prog.concrete /\ x[1] \in Types /\ x[2] \in Ifaces /\ x[3] \in Fns
    BY <1>p
  <2>1. CASE s \in invokers[<<f, x[2]>>]
    BY <1>3, <2>0, <2>1 DEF INothingLost, InvokeKept
  <2>2. CASE s \notin invokers[<<f, x[2]>>]
    <3>1. f = current /\ x[2] = iface /\ s \in delta
      BY <1>t, <2>0, <2>2
    <3>2. x[1] \in known /\ iface \in ifaces'
      BY <2>0, <3>1 DEF INothingLost, LinksKept, VisitInvoke
    <3>3. x \in links'
      BY <1>7, <3>1, <3>2 DEF LinksKept, VisitInvoke, Take
    <3>4. s \in found[x[3]]
      BY <2>0, <3>1, <3>3
    <3> QED BY <1>3, <2>0, <3>4
  <2> QED BY <2>1, <2>2
<1> QED BY <1>3, <1>4, <1>6, <1>7, <1>8, AdvancesKeeps, DynSame, TypesSame
        DEF INothingLost, VisitInvoke, Take

LEMMA LostMake ==
    ASSUME Typed, INothingLost, NEW t, NEW m, VisitMake(t, m) PROVE INothingLost'
<1>0. Take(<<"make", t, m>>) /\ descent' = {<<t, m, FALSE>>} /\ descent = {}
  BY DEF VisitMake, Take
<1>1. m \in SUBSET Subjects /\ t \in Types
  BY <1>0, BodyTyped DEF Take
<1>4. Grows
  BY <1>0, RecordedSame DEF Grows, VisitMake, Take
<1>5. \A s \in m : Served(current, "make", t, s)'
  <2>1. \A s \in m : Recorded(t, s)'
    BY <1>0 DEF Recorded
  <2> QED BY <2>1 DEF Served
<1>6. Advances
  BY <1>0, <1>5, TakeAdvances DEF VisitMake
<1>7. QueueKept'
  BY DEF INothingLost, QueueKept, VisitMake
<1> QED BY <1>4, <1>6, <1>7, AdvancesKeeps, DynSame, InvokeSame, TypesSame, LinksSame
        DEF INothingLost, VisitMake, Take

LEMMA LostRefused ==
    ASSUME Typed, INothingLost, NEW t, NEW m, NEW skip, RefuseType(t, m, skip)
    PROVE  INothingLost'
<1>0. /\ <<t, m, skip>> \in descent /\ descent' = descent \ {<<t, m, skip>>}
      /\ (((skip \/ m \subseteq types[t]) /\ m \subseteq traversed[t]) \/ t \in prog.generic)
      /\ prog' = prog /\ types' = types /\ traversed' = traversed
  BY DEF RefuseType, Refused
<1>1. \A c, s : (Recorded(c, s) => Recorded(c, s)') /\ (Structured(c, s) => Structured(c, s)')
  BY <1>0 DEF Recorded, Structured
<1>2. Grows
  BY <1>1 DEF Grows, RefuseType
<1>3. Advances
  BY DEF Advances, RefuseType
<1>4. QueueKept'
  BY DEF INothingLost, QueueKept, RefuseType
<1> QED BY <1>2, <1>3, <1>4, AdvancesKeeps, DynSame, InvokeSame, TypesSame, LinksSame
        DEF INothingLost, RefuseType

LEMMA LostAdded ==
    ASSUME Typed, INothingLost, NEW t, NEW m, NEW skip, AddRuntimeType(t, m, skip)
    PROVE  INothingLost'
<1> DEFINE access == IF skip THEN {} ELSE m \ types[t]
           deeper == m \ traversed[t]
           held == IF t \in prog.concrete THEN access ELSE {}
           edges == {x \in links' : x[1] = t}
           new == [f \in Fns |->
             {z \in held : \/ f \in prog.exported[t]
                           \/ \E x \in edges, g \in Fns : x[3] = f /\ z \in invokers[<<g, x[2]>>]}]
           below == IF deeper = {} THEN {}
                    ELSE {<<e, deeper, FALSE>> : e \in prog.elems[t]}
                           \cup {<<e, deeper, TRUE>> : e \in prog.parts[t]}
<1>0. /\ AddReachable(new) /\ <<t, m, skip>> \in descent
      /\ descent' = (descent \ {<<t, m, skip>>}) \cup below
      /\ types' = [types EXCEPT ![t] = @ \cup access]
      /\ traversed' = [traversed EXCEPT ![t] = @ \cup deeper]
      /\ prog' = prog /\ invokers' = invokers /\ ifaces' = ifaces
  BY DEF AddRuntimeType
<1>1. m \in SUBSET Subjects /\ t \in Types /\ skip \in BOOLEAN
  BY <1>0 DEF Typed, TypeOK
<1>p. /\ prog.elems \in [Types -> SUBSET Types] /\ prog.parts \in [Types -> SUBSET Types]
      /\ prog.exported \in [Types -> SUBSET Fns] /\ prog.concrete \subseteq Types
      /\ prog.impls \subseteq prog.concrete \X Ifaces \X Fns
  BY ProgramParts DEF Typed, TypeOK
<1>2. new \in Masks
  BY <1>1 DEF Masks
<1>3. /\ \A f \in Fns : reached[f] \subseteq reached'[f] /\ new[f] \subseteq reached'[f]
      /\ \A f \in Fns : reached'[f] \ pending'[f] \subseteq reached[f] \ pending[f]
      /\ QueueKept'
  BY <1>0, <1>2, AddedGrows DEF INothingLost
<1>t. \A c \in Types : /\ types'[c] = IF c = t THEN types[c] \cup access ELSE types[c]
                       /\ traversed'[c] = IF c = t THEN traversed[c] \cup m ELSE traversed[c]
  BY <1>0, <1>1 DEF Typed, TypeOK
<1>r. \A c \in Types, s \in Subjects :
        (Recorded(c, s) => Recorded(c, s)') /\ (Structured(c, s) => Structured(c, s)')
  <2> SUFFICES ASSUME NEW c \in Types, NEW s \in Subjects
               PROVE  (Recorded(c, s) => Recorded(c, s)') /\ (Structured(c, s) => Structured(c, s)')
    OBVIOUS
  <2>1. types[c] \subseteq types'[c] /\ traversed[c] \subseteq traversed'[c]
    BY <1>t
  <2>2. ASSUME NEW d \in descent, d[1] = c, s \in d[2]
        PROVE  d \in descent' \/ (s \in traversed'[c] /\ (~d[3] => s \in types'[c]))
    <3>1. CASE d = <<t, m, skip>>
      <4>1. s \in m /\ c = t /\ d[3] = skip
        BY <2>2, <3>1
      <4> QED BY <1>t, <4>1
    <3>2. CASE d # <<t, m, skip>>
      BY <1>0, <3>2
    <3> QED BY <3>1, <3>2
  <2> QED BY <1>0, <2>1, <2>2 DEF Recorded, Structured
<1>4. Grows
  <2>1. \A c \in Types : types[c] \subseteq types'[c] /\ traversed[c] \subseteq traversed'[c]
    BY <1>t
  <2> QED BY <1>3, <1>r, <2>1 DEF Grows, AddRuntimeType
<1>6. Advances
  BY <1>3 DEF Advances, AddRuntimeType
<1>7. LinksKept'
  <2>1. CASE held = {}
    <3>1. known' = known /\ links' = links
      BY <2>1 DEF AddRuntimeType
    <3>2. \A c \in prog.concrete : types'[c] = types[c]
      BY <1>t, <1>p, <2>1
    <3> QED BY <1>0, <3>1, <3>2 DEF INothingLost, LinksKept
  <2>2. CASE held # {}
    <3>1. known' = known \cup {t} /\ links' = Interfaces(t)
      BY <2>2 DEF AddRuntimeType
    <3>2. links' = {x \in prog.impls : x[1] \in known' /\ x[2] \in ifaces}
      BY <1>p, <3>1 DEF Interfaces, INothingLost, LinksKept
    <3>3. \A c \in prog.concrete : types'[c] # {} => c \in known'
      BY <1>t, <1>p, <3>1 DEF INothingLost, LinksKept
    <3> QED BY <1>0, <3>2, <3>3 DEF INothingLost, LinksKept
  <2> QED BY <2>1, <2>2
<1>8. InvokeKept'
  <2> SUFFICES ASSUME NEW x \in prog.impls, NEW f \in Fns,
                      NEW s \in invokers[<<f, x[2]>>] \cap types'[x[1]]
               PROVE  s \in reached'[x[3]]
    BY <1>0 DEF InvokeKept
  <2>0. x[1] \in prog.concrete /\ x[1] \in Types /\ x[2] \in Ifaces /\ x[3] \in Fns
    BY <1>p
  <2>1. CASE s \in types[x[1]]
    BY <1>3, <2>0, <2>1 DEF INothingLost, InvokeKept
  <2>2. CASE s \notin types[x[1]]
    <3>1. x[1] = t /\ s \in access /\ s \in held
      BY <1>t, <2>0, <2>2
    <3>2. x[1] \in known' /\ x[2] \in ifaces
      BY <2>0, <3>1 DEF INothingLost, LinksKept, AddRuntimeType
    <3>3. x \in edges
      BY <1>0, <1>7, <3>1, <3>2 DEF LinksKept
    <3>4. s \in new[x[3]]
      BY <2>0, <3>1, <3>3
    <3> QED BY <1>3, <2>0, <3>4
  <2> QED BY <2>1, <2>2
<1>9. TypesKept'
  <2>1. ASSUME NEW c \in prog.concrete, NEW g \in prog.exported[c], NEW s \in types'[c]
        PROVE  s \in reached'[g]
    <3>1. g \in Fns /\ c \in Types
      BY <1>p
    <3>2. CASE s \in types[c]
      BY <1>3, <3>1, <3>2 DEF INothingLost, TypesKept
    <3>3. CASE s \notin types[c]
      <4>1. c = t /\ s \in held
        BY <1>t, <3>1, <3>3
      <4>2. s \in new[g]
        BY <3>1, <4>1
      <4> QED BY <1>3, <3>1, <4>2
    <3> QED BY <3>2, <3>3
  <2>2. \A c \in Types : types'[c] \subseteq traversed'[c]
    BY <1>t DEF INothingLost, TypesKept
  <2>3. ASSUME NEW c \in Types, NEW s \in traversed'[c]
        PROVE  /\ \A e \in prog.elems[c] : Recorded(e, s)'
               /\ \A e \in prog.parts[c] : Structured(e, s)'
    <3>1. s \in Subjects
      BY <1>1, <1>t DEF Typed, TypeOK
    <3>2. CASE s \in traversed[c]
      BY <1>p, <1>r, <3>1, <3>2 DEF INothingLost, TypesKept
    <3>3. CASE s \notin traversed[c]
      <4>1. c = t /\ s \in deeper
        BY <1>t, <3>3
      <4>2. ASSUME NEW e \in prog.elems[t] PROVE Recorded(e, s)'
        <5>1. <<e, deeper, FALSE>> \in descent'
          BY <1>0, <4>1
        <5> QED BY <4>1, <5>1 DEF Recorded
      <4>3. ASSUME NEW e \in prog.parts[t] PROVE Structured(e, s)'
        <5>1. <<e, deeper, TRUE>> \in descent'
          BY <1>0, <4>1
        <5> QED BY <4>1, <5>1 DEF Structured
      <4> QED BY <4>1, <4>2, <4>3
    <3> QED BY <3>2, <3>3
  <2> QED BY <1>0, <2>1, <2>2, <2>3 DEF TypesKept
<1>10. DynKept'
  BY <1>4, DynSame DEF INothingLost, AddRuntimeType
<1> QED BY <1>3, <1>4, <1>6, <1>7, <1>8, <1>9, <1>10, AdvancesKeeps DEF INothingLost

LEMMA LostVisit ==
    ASSUME Typed, INothingLost, NEW f \in queued, Visit(f) PROVE INothingLost'
<1>0. /\ body = {} /\ current' = f /\ prog' = prog /\ f \in Fns
      /\ body' = {<<i[1], i[2], pending[f]>> : i \in prog.body[f]}
      /\ pending' = [pending EXCEPT ![f] = {}]
      /\ reached' = reached /\ queued' = queued \ {f}
  BY DEF Visit, Typed, TypeOK
<1>1. Grows
  BY RecordedSame DEF Grows, Visit
<1>2. \A op, arg, s : ~Awaited(op, arg, s)
  BY <1>0 DEF Awaited
<1>3. BodiesKept'
  <2> SUFFICES ASSUME NEW h \in Fns, NEW i \in prog.body[h], NEW s \in reached[h] \ pending'[h]
               PROVE  (f = h /\ Awaited(i[1], i[2], s)') \/ Served(h, i[1], i[2], s)'
    BY <1>0 DEF BodiesKept
  <2>1. CASE s \in pending[h]
    <3>1. h = f
      BY <1>0, <2>1 DEF Typed, TypeOK
    <3>2. <<i[1], i[2], pending[f]>> \in body'
      BY <1>0, <3>1
    <3> QED BY <2>1, <3>1, <3>2 DEF Awaited
  <2>2. CASE s \notin pending[h]
    <3>1. Served(h, i[1], i[2], s)
      BY <1>2, <2>2 DEF INothingLost, BodiesKept
    <3> QED BY <3>1, RecordedSame DEF Served, Visit
  <2> QED BY <2>1, <2>2
<1>4. EntriesKept'
  <2>1. \A t \in Types : \A s \in prog.seedTypes[t] : Recorded(t, s)'
    BY <1>2, RecordedSame DEF INothingLost, EntriesKept, Visit
  <2> QED BY <1>0, <1>2, <2>1 DEF INothingLost, EntriesKept, Visit
<1>5. QueueKept'
  BY <1>0 DEF INothingLost, QueueKept, Typed, TypeOK
<1> QED BY <1>1, <1>3, <1>4, <1>5, DynSame, InvokeSame, TypesSame, LinksSame
        DEF INothingLost, Visit

LEMMA LostInit == Init => INothingLost
<1> SUFFICES ASSUME Init PROVE INothingLost
  OBVIOUS
<1>p. /\ prog.roots \in Masks /\ prog.seedTaken \in Masks
      /\ prog.seedTypes \in [Types -> SUBSET Subjects] /\ prog.sig \in [Fns -> Sigs]
      /\ prog.impls \subseteq prog.concrete \X Ifaces \X Fns /\ prog.concrete \subseteq Types
  BY ProgramParts DEF Init
<1>1. EntriesKept
  <2>1. ASSUME NEW f \in Fns, NEW s \in prog.roots[f] PROVE Awaited("call", f, s)
    <3>1. <<"call", f, prog.roots[f]>> \in body
      BY DEF Init
    <3> QED BY <3>1 DEF Awaited
  <2>2. ASSUME NEW f \in Fns, NEW s \in prog.seedTaken[f] PROVE Awaited("take", f, s)
    <3>1. <<"take", f, prog.seedTaken[f]>> \in body
      BY DEF Init
    <3> QED BY <3>1 DEF Awaited
  <2>3. ASSUME NEW t \in Types, NEW s \in prog.seedTypes[t] PROVE Awaited("make", t, s)
    <3>1. <<"make", t, prog.seedTypes[t]>> \in body
      BY DEF Init
    <3> QED BY <3>1 DEF Awaited
  <2> QED BY <2>1, <2>2, <2>3 DEF EntriesKept, Init
<1>2. BodiesKept /\ QueueKept /\ DynKept
  BY DEF Init, BodiesKept, QueueKept, DynKept
<1>3. InvokeKept
  BY <1>p DEF Init, InvokeKept
<1>4. LinksKept /\ TypesKept
  BY <1>p DEF Init, LinksKept, TypesKept
<1> QED BY <1>1, <1>2, <1>3, <1>4 DEF INothingLost

LEMMA LostStep == Typed /\ INothingLost /\ [Next]_vars => INothingLost'
<1> SUFFICES ASSUME Typed, INothingLost, [Next]_vars PROVE INothingLost'
  OBVIOUS
<1>1. CASE UNCHANGED vars
  <2>1. Grows
    BY <1>1, RecordedSame DEF vars, Grows
  <2>2. Advances
    BY <1>1 DEF vars, Advances
  <2> QED BY <1>1, <2>1, <2>2, AdvancesKeeps, DynSame, InvokeSame, TypesSame, LinksSame
          DEF vars, INothingLost, QueueKept
<1> QED BY <1>1, LostVisit, LostCall, LostAddrTaken, LostDynCall, LostInvoke, LostMake,
           LostRefused, LostAdded DEF Next

LEMMA LostInvariant == Spec => []INothingLost
BY TypedInit, TypedStep, LostInit, LostStep, PTL DEF Spec

\* When the work list is empty no subject misses a function it reaches.
THEOREM NothingLostHolds == Spec => []NothingLost
<1>1. Typed /\ INothingLost => NothingLost
  <2> SUFFICES ASSUME Typed, INothingLost, Done, NEW s \in Subjects
               PROVE  /\ CallsClosed(s, FnsOf(s))
                      /\ TypesClosed(s, FnsOf(s), TypesOf(s), TraversedOf(s))
    BY DEF NothingLost
  <2>p. /\ prog.body \in [Fns -> SUBSET Instructions] /\ prog.sig \in [Fns -> Sigs]
        /\ prog.elems \in [Types -> SUBSET Types] /\ prog.parts \in [Types -> SUBSET Types]
        /\ prog.exported \in [Types -> SUBSET Fns] /\ prog.concrete \subseteq Types
        /\ prog.impls \subseteq prog.concrete \X Ifaces \X Fns
    BY ProgramParts DEF Typed, TypeOK
  <2>1. \A op, arg : ~Awaited(op, arg, s)
    BY DEF Done, Awaited
  <2>2. \A t : (Recorded(t, s) => t \in prog.generic \/ s \in types[t])
               /\ (Structured(t, s) => t \in prog.generic \/ s \in traversed[t])
    BY DEF Done, Recorded, Structured
  <2>3. \A f \in FnsOf(s) : \A i \in prog.body[f] : Served(f, i[1], i[2], s)
    <3> SUFFICES ASSUME NEW f \in FnsOf(s), NEW i \in prog.body[f]
                 PROVE  Served(f, i[1], i[2], s)
      OBVIOUS
    <3>1. f \in Fns /\ s \in reached[f] /\ pending[f] = {}
      BY DEF FnsOf, INothingLost, QueueKept, Done
    <3> QED BY <2>1, <3>1 DEF INothingLost, BodiesKept
  <2>4. ASSUME NEW f \in FnsOf(s), NEW op, NEW arg, <<op, arg>> \in prog.body[f]
        PROVE  Served(f, op, arg, s)
    BY <2>3, <2>4
  <2>5. CallsClosed(s, FnsOf(s))
    <3>1. \A f \in Fns : s \in prog.roots[f] => f \in FnsOf(s)
      BY <2>1 DEF INothingLost, EntriesKept, FnsOf
    <3>2. \A f \in FnsOf(s), g \in Fns : <<"call", g>> \in prog.body[f] => g \in FnsOf(s)
      BY <2>4 DEF Served, FnsOf
    <3>3. ASSUME NEW g \in TakenBy(s, FnsOf(s)),
                 prog.reflects \/ (\E f \in FnsOf(s) : <<"dyn", prog.sig[g]>> \in prog.body[f])
          PROVE  g \in FnsOf(s)
      <4>1. g \in Fns /\ s \in taken[g]
        BY <2>1, <2>4 DEF TakenBy, INothingLost, EntriesKept, Served
      <4>2. prog.reflects \/ (\E f \in Fns : s \in sites[<<f, prog.sig[g]>>])
        BY <2>4, <3>3 DEF Served, FnsOf
      <4> QED BY <4>1, <4>2 DEF INothingLost, DynKept, FnsOf
    <3> QED BY <3>1, <3>2, <3>3 DEF CallsClosed
  <2>6. TypesClosed(s, FnsOf(s), TypesOf(s), TraversedOf(s))
    <3>1. \A t \in Types \ prog.generic : s \in prog.seedTypes[t] => t \in TypesOf(s)
      BY <2>1, <2>2 DEF INothingLost, EntriesKept, TypesOf
    <3>2. \A f \in FnsOf(s), t \in Types \ prog.generic :
            <<"make", t>> \in prog.body[f] => t \in TypesOf(s)
      BY <2>2, <2>4 DEF Served, TypesOf
    <3>3. ASSUME NEW f \in FnsOf(s), NEW x \in prog.impls,
                 <<"invoke", x[2]>> \in prog.body[f], x[1] \in TypesOf(s)
          PROVE  x[3] \in FnsOf(s)
      <4>1. s \in invokers[<<f, x[2]>>] /\ s \in types[x[1]] /\ f \in Fns /\ x[3] \in Fns
        BY <2>p, <2>4, <3>3 DEF Served, TypesOf, FnsOf
      <4> QED BY <4>1 DEF INothingLost, InvokeKept, FnsOf
    <3>4. \A t \in TypesOf(s) \cap prog.concrete : prog.exported[t] \subseteq FnsOf(s)
      BY <2>p DEF INothingLost, TypesKept, TypesOf, FnsOf
    <3>5. ASSUME NEW t \in TypesOf(s) \cup TraversedOf(s)
          PROVE  /\ prog.elems[t] \ prog.generic \subseteq TypesOf(s)
                 /\ prog.parts[t] \ prog.generic \subseteq TypesOf(s) \cup TraversedOf(s)
      <4>1. t \in Types /\ s \in traversed[t]
        BY DEF INothingLost, TypesKept, TypesOf, TraversedOf
      <4> QED BY <2>p, <2>2, <4>1 DEF INothingLost, TypesKept, TypesOf, TraversedOf
    <3> QED BY <3>1, <3>2, <3>3, <3>4, <3>5 DEF TypesClosed
  <2> QED BY <2>5, <2>6
<1> QED BY <1>1, TypeCorrect, LostInvariant, PTL
-----------------------------------------------------------------------------
(***************************************************************************)
(* The edges.  A dynamic edge is recorded from whichever of its sides is    *)
(* met last, so the recorded edges are exactly the pairs of a site and of a *)
(* value or type that have met for a subject.                              *)
(***************************************************************************)
SidesReached ==
    /\ \A f \in Fns : pending[f] \subseteq reached[f]
    /\ \A f \in Fns, c \in Sigs : sites[<<f, c>>] \subseteq reached[f]
    /\ \A f \in Fns, c \in Ifaces : invokers[<<f, c>>] \subseteq reached[f]
    /\ current \in Fns => \A i \in body : i[3] \subseteq reached[current]

\* The two ends of an edge have met for a subject.
DynMet(f, c, g, s) == c = prog.sig[g] /\ s \in sites[<<f, c>>] /\ s \in taken[g]
InvokeMet(f, c, g, s) ==
    \E t \in Types : <<t, c, g>> \in prog.impls /\ s \in invokers[<<f, c>>] /\ s \in types[t]

Exact(f, c, g, s) ==
    /\ <<<<f, "dyn", c>>, g, s>> \in targets <=> DynMet(f, c, g, s)
    /\ <<<<f, "invoke", c>>, g, s>> \in targets <=> InvokeMet(f, c, g, s)

EdgesExact ==
    \A f \in Fns, g \in Fns, c \in Sigs \cup Ifaces, s \in Subjects : Exact(f, c, g, s)

\* Whatever was on a body before a visit of one of its instructions.
LEMMA TakeSides ==
    ASSUME Typed, SidesReached, NEW i, Take(i),
           \A f \in Fns : reached[f] \subseteq reached'[f]
    PROVE  current' \in Fns => \A j \in body' : j[3] \subseteq reached'[current']
BY DEF SidesReached, Take

\* What addReachable adds to the pending subjects it adds to the reached ones.
LEMMA AddedSides ==
    ASSUME Typed, SidesReached, NEW new \in Masks, AddReachable(new)
    PROVE  /\ \A f \in Fns : reached[f] \subseteq reached'[f] /\ new[f] \subseteq reached'[f]
           /\ \A f \in Fns : pending'[f] \subseteq reached'[f]
BY DEF AddReachable, Masks, SidesReached, Typed, TypeOK

LEMMA SidesStep == Typed /\ SidesReached /\ [Next]_vars => SidesReached'
<1> SUFFICES ASSUME Typed, SidesReached, [Next]_vars PROVE SidesReached'
  OBVIOUS
<1>1. ASSUME NEW f \in queued, Visit(f) PROVE SidesReached'
  BY <1>1 DEF Visit, SidesReached, Typed, TypeOK
<1>2. ASSUME NEW g, NEW m, VisitCall(g, m) PROVE SidesReached'
  <2> DEFINE new == [f \in Fns |-> IF f = g THEN m ELSE {}]
  <2>0. Take(<<"call", g, m>>) /\ AddReachable(new) /\ sites' = sites /\ invokers' = invokers
    BY <1>2 DEF VisitCall
  <2>1. new \in Masks
    BY <2>0, BodyTyped DEF Take, Masks
  <2> HIDE DEF new
  <2> QED BY <2>0, <2>1, AddedSides, TakeSides DEF SidesReached
<1>3. ASSUME NEW g, NEW m, VisitAddrTaken(g, m) PROVE SidesReached'
  <2> DEFINE delta == m \ taken[g]
             new == [f \in Fns |-> IF f # g THEN {}
                      ELSE IF prog.reflects THEN delta ELSE Matching(g, delta)]
  <2>0. Take(<<"take", g, m>>) /\ AddReachable(new) /\ sites' = sites /\ invokers' = invokers
    BY <1>3 DEF VisitAddrTaken
  <2>1. new \in Masks
    BY <2>0, BodyTyped DEF Take, Masks, Matching
  <2> HIDE DEF new
  <2> QED BY <2>0, <2>1, AddedSides, TakeSides DEF SidesReached
<1>4. ASSUME NEW sig, NEW m, VisitDynCall(sig, m) PROVE SidesReached'
  <2> DEFINE site == <<current, sig>>
             delta == m \ sites[site]
             found == [f \in Fns |-> IF prog.sig[f] = sig THEN delta \cap taken[f] ELSE {}]
  <2>0. Take(<<"dyn", sig, m>>) /\ AddReachable(found) /\ invokers' = invokers
        /\ sites' = [sites EXCEPT ![site] = @ \cup delta]
    BY <1>4 DEF VisitDynCall
  <2>1. m \in SUBSET Subjects /\ sig \in Sigs /\ current \in Fns
    BY <2>0, BodyTyped DEF Take
  <2>2. found \in Masks
    BY <2>1 DEF Masks
  <2>3. m \subseteq reached[current]
    BY <2>0, <2>1 DEF Take, SidesReached
  <2>4. \A f \in Fns, c \in Sigs :
          sites'[<<f, c>>] = IF f = current /\ c = sig THEN sites[<<f, c>>] \cup m ELSE sites[<<f, c>>]
    BY <2>0, <2>1 DEF Typed, TypeOK
  <2> HIDE DEF found
  <2>5. /\ \A f \in Fns : reached[f] \subseteq reached'[f]
        /\ \A f \in Fns : pending'[f] \subseteq reached'[f]
    BY <2>0, <2>2, AddedSides
  <2>6. current' \in Fns => \A j \in body' : j[3] \subseteq reached'[current']
    BY <2>0, <2>5, TakeSides
  <2>7. \A f \in Fns, c \in Sigs : sites'[<<f, c>>] \subseteq reached'[f]
    BY <2>1, <2>3, <2>4, <2>5 DEF SidesReached
  <2> QED BY <2>0, <2>5, <2>6, <2>7 DEF SidesReached
<1>5. ASSUME NEW iface, NEW m, VisitInvoke(iface, m) PROVE SidesReached'
  <2> DEFINE site == <<current, iface>>
             delta == m \ invokers[site]
             edges == {x \in links' : x[2] = iface}
             found == [f \in Fns |-> {s \in delta : \E x \in edges : x[3] = f /\ s \in types[x[1]]}]
  <2>0. Take(<<"invoke", iface, m>>) /\ AddReachable(found) /\ sites' = sites
        /\ invokers' = [invokers EXCEPT ![site] = @ \cup delta]
    BY <1>5 DEF VisitInvoke
  <2>1. m \in SUBSET Subjects /\ iface \in Ifaces /\ current \in Fns
    BY <2>0, BodyTyped DEF Take
  <2>2. found \in Masks
    BY <2>1 DEF Masks
  <2>3. m \subseteq reached[current]
    BY <2>0, <2>1 DEF Take, SidesReached
  <2>4. \A f \in Fns, c \in Ifaces :
          invokers'[<<f, c>>] = IF f = current /\ c = iface THEN invokers[<<f, c>>] \cup m
                                ELSE invokers[<<f, c>>]
    BY <2>0, <2>1 DEF Typed, TypeOK
  <2> HIDE DEF found
  <2>5. /\ \A f \in Fns : reached[f] \subseteq reached'[f]
        /\ \A f \in Fns : pending'[f] \subseteq reached'[f]
    BY <2>0, <2>2, AddedSides
  <2>6. current' \in Fns => \A j \in body' : j[3] \subseteq reached'[current']
    BY <2>0, <2>5, TakeSides
  <2>7. \A f \in Fns, c \in Ifaces : invokers'[<<f, c>>] \subseteq reached'[f]
    BY <2>1, <2>3, <2>4, <2>5 DEF SidesReached
  <2> QED BY <2>0, <2>5, <2>6, <2>7 DEF SidesReached
<1>6. ASSUME NEW t, NEW m, VisitMake(t, m) PROVE SidesReached'
  BY <1>6 DEF VisitMake, Take, SidesReached
<1>7. ASSUME NEW t, NEW m, NEW skip, RefuseType(t, m, skip) PROVE SidesReached'
  BY <1>7 DEF RefuseType, SidesReached
<1>8. ASSUME NEW t, NEW m, NEW skip, AddRuntimeType(t, m, skip) PROVE SidesReached'
  <2> DEFINE access == IF skip THEN {} ELSE m \ types[t]
             held == IF t \in prog.concrete THEN access ELSE {}
             edges == {x \in links' : x[1] = t}
             new == [f \in Fns |->
               {z \in held : \/ f \in prog.exported[t]
                             \/ \E x \in edges, g \in Fns : x[3] = f /\ z \in invokers[<<g, x[2]>>]}]
  <2>0. /\ AddReachable(new) /\ <<t, m, skip>> \in descent
        /\ sites' = sites /\ invokers' = invokers /\ current' = current /\ body' = body
    BY <1>8 DEF AddRuntimeType
  <2>1. m \in SUBSET Subjects
    BY <2>0 DEF Typed, TypeOK
  <2>2. new \in Masks
    BY <2>1 DEF Masks
  <2> HIDE DEF new
  <2> QED BY <2>0, <2>2, AddedSides DEF SidesReached
<1>9. CASE UNCHANGED vars
  BY <1>9 DEF vars, SidesReached
<1> QED BY <1>1, <1>2, <1>3, <1>4, <1>5, <1>6, <1>7, <1>8, <1>9 DEF Next

\* A step that meets no new pair keeps the edges.
LEMMA EdgesSame ==
    ASSUME EdgesExact, prog' = prog, sites' = sites, taken' = taken, invokers' = invokers,
           types' = types, targets' = targets
    PROVE  EdgesExact'
<1> SUFFICES ASSUME NEW f \in Fns, NEW g \in Fns, NEW c \in Sigs \cup Ifaces, NEW s \in Subjects
             PROVE  Exact(f, c, g, s)'
  BY DEF EdgesExact
<1>1. Exact(f, c, g, s)
  BY DEF EdgesExact
<1> QED BY <1>1 DEF Exact, DynMet, InvokeMet

LEMMA EdgesTaken ==
    ASSUME Typed, EdgesExact, NEW g, NEW m, VisitAddrTaken(g, m)
    PROVE  EdgesExact'
<1> DEFINE delta == m \ taken[g]
           met == {y \in Fns \X delta : y[2] \in sites[<<y[1], prog.sig[g]>>]}
           more == {<<<<x[1], "dyn", prog.sig[g]>>, g, x[2]>> : x \in met}
<1>0. /\ Take(<<"take", g, m>>) /\ targets' = targets \cup more
      /\ taken' = [taken EXCEPT ![g] = @ \cup delta]
      /\ prog' = prog /\ sites' = sites /\ invokers' = invokers /\ types' = types
  BY DEF VisitAddrTaken, Take
<1>1. m \in SUBSET Subjects /\ g \in Fns
  BY <1>0, BodyTyped DEF Take
<1>2. \A f \in Fns : taken'[f] = IF f = g THEN taken[g] \cup m ELSE taken[f]
  BY <1>0, <1>1 DEF Typed, TypeOK
<1> SUFFICES ASSUME NEW f \in Fns, NEW h \in Fns, NEW c \in Sigs \cup Ifaces, NEW s \in Subjects
             PROVE  Exact(f, c, h, s)'
  BY DEF EdgesExact
<1>e. Exact(f, c, h, s)
  BY DEF EdgesExact
<1>3. <<<<f, "dyn", c>>, h, s>> \in more
        <=> c = prog.sig[g] /\ h = g /\ s \in delta /\ s \in sites[<<f, c>>]
  <2>1. ASSUME <<<<f, "dyn", c>>, h, s>> \in more
        PROVE  c = prog.sig[g] /\ h = g /\ s \in delta /\ s \in sites[<<f, c>>]
    <3>1. PICK x \in met : <<<<f, "dyn", c>>, h, s>> = <<<<x[1], "dyn", prog.sig[g]>>, g, x[2]>>
      BY <2>1
    <3> QED BY <3>1
  <2>2. ASSUME c = prog.sig[g], h = g, s \in delta, s \in sites[<<f, c>>]
        PROVE  <<<<f, "dyn", c>>, h, s>> \in more
    <3>1. <<f, s>> \in met
      BY <2>2
    <3>2. <<<<<<f, s>>[1], "dyn", prog.sig[g]>>, g, <<f, s>>[2]>> \in more
      BY <3>1
    <3> QED BY <2>2, <3>2
  <2> QED BY <2>1, <2>2
<1>4. <<<<f, "invoke", c>>, h, s>> \notin more
  OBVIOUS
<1> HIDE DEF more
<1>5. <<<<f, "dyn", c>>, h, s>> \in targets' <=> DynMet(f, c, h, s)'
  BY <1>e, <1>0, <1>2, <1>3 DEF Exact, DynMet
<1>6. <<<<f, "invoke", c>>, h, s>> \in targets' <=> InvokeMet(f, c, h, s)'
  BY <1>e, <1>0, <1>4 DEF Exact, InvokeMet
<1> QED BY <1>5, <1>6 DEF Exact
LEMMA EdgesDynCall ==
    ASSUME Typed, EdgesExact, NEW sig, NEW m, VisitDynCall(sig, m)
    PROVE  EdgesExact'
<1> DEFINE site == <<current, sig>>
           delta == m \ sites[site]
           found == [f \in Fns |-> IF prog.sig[f] = sig THEN delta \cap taken[f] ELSE {}]
           met == {y \in Fns \X delta : y[2] \in found[y[1]]}
           more == {<<<<current, "dyn", sig>>, x[1], x[2]>> : x \in met}
<1>0. /\ Take(<<"dyn", sig, m>>) /\ targets' = targets \cup more
      /\ sites' = [sites EXCEPT ![site] = @ \cup delta]
      /\ prog' = prog /\ taken' = taken /\ invokers' = invokers /\ types' = types
  BY DEF VisitDynCall, Take
<1>1. m \in SUBSET Subjects /\ sig \in Sigs /\ current \in Fns
  BY <1>0, BodyTyped DEF Take
<1>2. \A f \in Fns, c \in Sigs :
        sites'[<<f, c>>] = IF f = current /\ c = sig THEN sites[<<f, c>>] \cup m ELSE sites[<<f, c>>]
  BY <1>0, <1>1 DEF Typed, TypeOK
<1> SUFFICES ASSUME NEW f \in Fns, NEW h \in Fns, NEW c \in Sigs \cup Ifaces, NEW s \in Subjects
             PROVE  Exact(f, c, h, s)'
  BY DEF EdgesExact
<1>e. Exact(f, c, h, s)
  BY DEF EdgesExact
<1>p. prog.sig[h] \in Sigs
  BY ProgramParts DEF Typed, TypeOK
<1>3. <<<<f, "dyn", c>>, h, s>> \in more
        <=> f = current /\ c = sig /\ c = prog.sig[h] /\ s \in delta /\ s \in taken[h]
  <2>1. ASSUME <<<<f, "dyn", c>>, h, s>> \in more
        PROVE  f = current /\ c = sig /\ c = prog.sig[h] /\ s \in delta /\ s \in taken[h]
    <3>1. PICK x \in met : <<<<f, "dyn", c>>, h, s>> = <<<<current, "dyn", sig>>, x[1], x[2]>>
      BY <2>1
    <3> QED BY <3>1
  <2>2. ASSUME f = current, c = sig, c = prog.sig[h], s \in delta, s \in taken[h]
        PROVE  <<<<f, "dyn", c>>, h, s>> \in more
    <3>1. <<h, s>> \in met
      BY <2>2
    <3>2. <<<<current, "dyn", sig>>, <<h, s>>[1], <<h, s>>[2]>> \in more
      BY <3>1
    <3> QED BY <2>2, <3>2
  <2> QED BY <2>1, <2>2
<1>4. <<<<f, "invoke", c>>, h, s>> \notin more
  OBVIOUS
<1> HIDE DEF more, found
<1>5. <<<<f, "dyn", c>>, h, s>> \in targets' <=> DynMet(f, c, h, s)'
  BY <1>e, <1>0, <1>2, <1>3, <1>p DEF Exact, DynMet
<1>6. <<<<f, "invoke", c>>, h, s>> \in targets' <=> InvokeMet(f, c, h, s)'
  BY <1>e, <1>0, <1>4 DEF Exact, InvokeMet
<1> QED BY <1>5, <1>6 DEF Exact

LEMMA EdgesInvoke ==
    ASSUME Typed, INothingLost, EdgesExact, NEW iface, NEW m, VisitInvoke(iface, m)
    PROVE  EdgesExact'
<1> DEFINE site == <<current, iface>>
           delta == m \ invokers[site]
           edges == {x \in links' : x[2] = iface}
           found == [f \in Fns |-> {s \in delta : \E x \in edges : x[3] = f /\ s \in types[x[1]]}]
           met == {y \in Fns \X delta : y[2] \in found[y[1]]}
           more == {<<<<current, "invoke", iface>>, x[1], x[2]>> : x \in met}
<1>0. /\ Take(<<"invoke", iface, m>>) /\ targets' = targets \cup more
      /\ invokers' = [invokers EXCEPT ![site] = @ \cup delta]
      /\ prog' = prog /\ taken' = taken /\ sites' = sites /\ types' = types /\ known' = known
  BY DEF VisitInvoke, Take
<1>1. m \in SUBSET Subjects /\ iface \in Ifaces /\ current \in Fns
  BY <1>0, BodyTyped DEF Take
<1>2. \A f \in Fns, c \in Ifaces :
        invokers'[<<f, c>>] = IF f = current /\ c = iface THEN invokers[<<f, c>>] \cup m
                              ELSE invokers[<<f, c>>]
  BY <1>0, <1>1 DEF Typed, TypeOK
<1>p. prog.impls \subseteq prog.concrete \X Ifaces \X Fns /\ prog.concrete \subseteq Types
  BY ProgramParts DEF Typed, TypeOK
<1>l. LinksKept'
  BY LostInvoke DEF INothingLost
<1> SUFFICES ASSUME NEW f \in Fns, NEW h \in Fns, NEW c \in Sigs \cup Ifaces, NEW s \in Subjects
             PROVE  Exact(f, c, h, s)'
  BY DEF EdgesExact
<1>e. Exact(f, c, h, s)
  BY DEF EdgesExact
<1>3. <<<<f, "invoke", c>>, h, s>> \in more
        <=> /\ f = current /\ c = iface /\ s \in delta
            /\ \E t \in Types : <<t, c, h>> \in prog.impls /\ s \in types[t]
  <2>1. ASSUME <<<<f, "invoke", c>>, h, s>> \in more
        PROVE  /\ f = current /\ c = iface /\ s \in delta
               /\ \E t \in Types : <<t, c, h>> \in prog.impls /\ s \in types[t]
    <3>1. PICK y \in met : <<<<f, "invoke", c>>, h, s>> = <<<<current, "invoke", iface>>, y[1], y[2]>>
      BY <2>1
    <3>2. f = current /\ c = iface /\ s \in delta /\ s \in found[h]
      BY <3>1
    <3>3. PICK x \in edges : x[3] = h /\ s \in types[x[1]]
      BY <3>2
    <3>4. x \in prog.impls /\ x[2] = c
      BY <1>l, <1>0, <3>2, <3>3 DEF LinksKept
    <3>5. x = <<x[1], c, h>> /\ x[1] \in Types
      BY <1>p, <3>3, <3>4
    <3> QED BY <3>2, <3>3, <3>4, <3>5
  <2>2. ASSUME f = current, c = iface, s \in delta,
               NEW t \in Types, <<t, c, h>> \in prog.impls, s \in types[t]
        PROVE  <<<<f, "invoke", c>>, h, s>> \in more
    <3>1. t \in known
      BY <1>p, <2>2 DEF INothingLost, LinksKept
    <3>2. iface \in ifaces'
      BY <1>1, <1>2, <1>l, <2>2 DEF LinksKept
    <3>3. <<t, c, h>> \in links'
      BY <1>0, <1>l, <2>2, <3>1, <3>2 DEF LinksKept
    <3>4. <<t, c, h>> \in edges
      BY <2>2, <3>3
    <3>5. s \in found[h]
      BY <2>2, <3>4
    <3> HIDE DEF found
    <3>6. <<h, s>> \in met
      BY <2>2, <3>5
    <3>7. <<<<current, "invoke", iface>>, <<h, s>>[1], <<h, s>>[2]>> \in more
      BY <3>6
    <3> QED BY <2>2, <3>7
  <2> QED BY <2>1, <2>2
<1>4. <<<<f, "dyn", c>>, h, s>> \notin more
  OBVIOUS
<1> HIDE DEF more, found
<1>5. <<<<f, "dyn", c>>, h, s>> \in targets' <=> DynMet(f, c, h, s)'
  BY <1>e, <1>0, <1>4 DEF Exact, DynMet
<1>6. <<<<f, "invoke", c>>, h, s>> \in targets' <=> InvokeMet(f, c, h, s)'
  <2>1. <<<<f, "invoke", c>>, h, s>> \in targets'
          <=> InvokeMet(f, c, h, s) \/ <<<<f, "invoke", c>>, h, s>> \in more
    BY <1>e, <1>0 DEF Exact
  <2>2. ASSUME NEW t \in Types, <<t, c, h>> \in prog.impls
        PROVE  s \in invokers'[<<f, c>>]
                 <=> s \in invokers[<<f, c>>] \/ (f = current /\ c = iface /\ s \in delta)
    <3>1. c \in Ifaces
      BY <1>p, <2>2
    <3> QED BY <1>2, <3>1
  <2> HIDE DEF delta
  <2>3. InvokeMet(f, c, h, s)'
          <=> InvokeMet(f, c, h, s) \/ <<<<f, "invoke", c>>, h, s>> \in more
    <3>1. InvokeMet(f, c, h, s)'
            <=> \E t \in Types : /\ <<t, c, h>> \in prog.impls
                                 /\ s \in invokers'[<<f, c>>] /\ s \in types[t]
      BY <1>0 DEF InvokeMet
    <3> QED BY <1>3, <2>2, <3>1 DEF InvokeMet
  <2> QED BY <2>1, <2>3
<1> QED BY <1>5, <1>6 DEF Exact

LEMMA EdgesAdded ==
    ASSUME Typed, INothingLost, EdgesExact, NEW t, NEW m, NEW skip, AddRuntimeType(t, m, skip)
    PROVE  EdgesExact'
<1> DEFINE access == IF skip THEN {} ELSE m \ types[t]
           held == IF t \in prog.concrete THEN access ELSE {}
           edges == {x \in links' : x[1] = t}
           met == {z \in Fns \X edges \X held : z[3] \in invokers[<<z[1], z[2][2]>>]}
           more == {<<<<y[1], "invoke", y[2][2]>>, y[2][3], y[3]>> : y \in met}
<1>0. /\ <<t, m, skip>> \in descent /\ targets' = targets \cup more
      /\ types' = [types EXCEPT ![t] = @ \cup access]
      /\ prog' = prog /\ taken' = taken /\ sites' = sites /\ invokers' = invokers
      /\ ifaces' = ifaces
  BY DEF AddRuntimeType
<1>1. m \in SUBSET Subjects /\ t \in Types
  BY <1>0 DEF Typed, TypeOK
<1>2. \A c \in Types : types'[c] = IF c = t THEN types[c] \cup access ELSE types[c]
  BY <1>0, <1>1 DEF Typed, TypeOK
<1>p. prog.impls \subseteq prog.concrete \X Ifaces \X Fns /\ prog.concrete \subseteq Types
  BY ProgramParts DEF Typed, TypeOK
<1>l. LinksKept'
  BY LostAdded DEF INothingLost
<1> SUFFICES ASSUME NEW f \in Fns, NEW h \in Fns, NEW c \in Sigs \cup Ifaces, NEW s \in Subjects
             PROVE  Exact(f, c, h, s)'
  BY DEF EdgesExact
<1>e. Exact(f, c, h, s)
  BY DEF EdgesExact
<1>3. <<<<f, "invoke", c>>, h, s>> \in more
        <=> <<t, c, h>> \in prog.impls /\ s \in access /\ s \in invokers[<<f, c>>]
  <2>1. ASSUME <<<<f, "invoke", c>>, h, s>> \in more
        PROVE  <<t, c, h>> \in prog.impls /\ s \in access /\ s \in invokers[<<f, c>>]
    <3>1. PICK y \in met :
            <<<<f, "invoke", c>>, h, s>> = <<<<y[1], "invoke", y[2][2]>>, y[2][3], y[3]>>
      BY <2>1
    <3>2. /\ y[1] = f /\ y[2][2] = c /\ y[2][3] = h /\ y[3] = s
          /\ y[2] \in edges /\ s \in held /\ s \in invokers[<<f, c>>]
      BY <3>1
    <3>3. y[2] \in prog.impls /\ y[2][1] = t
      BY <1>0, <1>l, <3>2 DEF LinksKept
    <3>4. y[2] = <<t, c, h>>
      BY <1>p, <3>2, <3>3
    <3> QED BY <3>2, <3>3, <3>4
  <2>2. ASSUME <<t, c, h>> \in prog.impls, s \in access, s \in invokers[<<f, c>>]
        PROVE  <<<<f, "invoke", c>>, h, s>> \in more
    <3>1. t \in prog.concrete /\ c \in Ifaces
      BY <1>p, <2>2
    <3>2. s \in held
      BY <2>2, <3>1
    <3>3. t \in known'
      <4>1. s \in types'[t]
        BY <1>1, <1>2, <2>2
      <4> QED BY <1>0, <1>l, <3>1, <4>1 DEF LinksKept
    <3>e. c \in ifaces
      BY <2>2, <3>1 DEF LinksKept, INothingLost
    <3>4. <<t, c, h>> \in edges
      BY <1>0, <1>l, <2>2, <3>3, <3>e DEF LinksKept
    <3> HIDE DEF held, edges
    <3>5. <<f, <<t, c, h>>, s>> \in met
      BY <2>2, <3>2, <3>4
    <3> DEFINE y == <<f, <<t, c, h>>, s>>
    <3>6. <<<<y[1], "invoke", y[2][2]>>, y[2][3], y[3]>> \in more
      BY <3>5
    <3> QED BY <3>6
  <2> QED BY <2>1, <2>2
<1>4. <<<<f, "dyn", c>>, h, s>> \notin more
  OBVIOUS
<1> HIDE DEF more, access
<1>5. <<<<f, "dyn", c>>, h, s>> \in targets' <=> DynMet(f, c, h, s)'
  BY <1>e, <1>0, <1>4 DEF Exact, DynMet
<1>6. <<<<f, "invoke", c>>, h, s>> \in targets' <=> InvokeMet(f, c, h, s)'
  <2>1. <<<<f, "invoke", c>>, h, s>> \in targets'
          <=> InvokeMet(f, c, h, s) \/ <<<<f, "invoke", c>>, h, s>> \in more
    BY <1>e, <1>0 DEF Exact
  <2>2. InvokeMet(f, c, h, s)'
          <=> \E u \in Types : /\ <<u, c, h>> \in prog.impls
                               /\ s \in invokers[<<f, c>>] /\ s \in types'[u]
    BY <1>0 DEF InvokeMet
  <2>3. \A u \in Types : s \in types'[u] <=> s \in types[u] \/ (u = t /\ s \in access)
    BY <1>2
  <2>4. InvokeMet(f, c, h, s)'
          <=> InvokeMet(f, c, h, s) \/ <<<<f, "invoke", c>>, h, s>> \in more
    BY <1>1, <1>3, <2>2, <2>3 DEF InvokeMet
  <2> QED BY <2>1, <2>4
<1> QED BY <1>5, <1>6 DEF Exact

LEMMA EdgesStep == Typed /\ INothingLost /\ EdgesExact /\ [Next]_vars => EdgesExact'
<1> SUFFICES ASSUME Typed, INothingLost, EdgesExact, [Next]_vars PROVE EdgesExact'
  OBVIOUS
<1>1. ASSUME NEW f \in queued, Visit(f) PROVE EdgesExact'
  BY <1>1, EdgesSame DEF Visit
<1>2. ASSUME NEW g, NEW m, VisitCall(g, m) PROVE EdgesExact'
  BY <1>2, EdgesSame DEF VisitCall, Take
<1>3. ASSUME NEW t, NEW m, VisitMake(t, m) PROVE EdgesExact'
  BY <1>3, EdgesSame DEF VisitMake, Take
<1>4. ASSUME NEW t, NEW m, NEW skip, RefuseType(t, m, skip) PROVE EdgesExact'
  BY <1>4, EdgesSame DEF RefuseType
<1>5. CASE UNCHANGED vars
  BY <1>5, EdgesSame DEF vars
<1> QED BY <1>1, <1>2, <1>3, <1>4, <1>5, EdgesTaken, EdgesDynCall, EdgesInvoke, EdgesAdded DEF Next

LEMMA EdgesInvariant == Spec => [](SidesReached /\ EdgesExact)
<1>1. Init => SidesReached
  BY ProgramsGiven DEF Init, SidesReached
<1>2. Init => EdgesExact
  <2> SUFFICES ASSUME Init, NEW f \in Fns, NEW g \in Fns, NEW c \in Sigs \cup Ifaces,
                      NEW s \in Subjects
               PROVE  Exact(f, c, g, s)
    BY DEF EdgesExact
  <2>1. prog.impls \subseteq prog.concrete \X Ifaces \X Fns /\ prog.concrete \subseteq Types
        /\ prog.sig \in [Fns -> Sigs]
    BY ProgramParts DEF Init
  <2> QED BY <2>1 DEF Init, Exact, DynMet, InvokeMet
<1> QED BY <1>1, <1>2, TypedInit, TypedStep, LostInit, LostStep, SidesStep, EdgesStep, PTL DEF Spec

\* An edge is attributed to exactly the subjects that reach both of its sides.
THEOREM EdgesHold == Spec => []EdgesAreAttributed
<1>1. Typed /\ INothingLost /\ Grounded /\ SidesReached /\ EdgesExact => EdgesAreAttributed
  <2> SUFFICES ASSUME Typed, INothingLost, Grounded, SidesReached, EdgesExact
               PROVE  EdgesAreAttributed
    OBVIOUS
  <2>p. prog.impls \subseteq prog.concrete \X Ifaces \X Fns /\ prog.concrete \subseteq Types
        /\ prog.sig \in [Fns -> Sigs]
    BY ProgramParts DEF Typed, TypeOK
  <2>1. ASSUME NEW x \in targets
        PROVE  BothSides(x[1], x[2], x[3]) /\ x[3] \in reached[x[2]]
    <3>1. PICK f \in Fns, op \in {"dyn", "invoke"}, c \in Sigs \cup Ifaces, g \in Fns, s \in Subjects :
            x = <<<<f, op, c>>, g, s>>
      BY DEF Typed, TypeOK, Edges
    <3>2. Exact(f, c, g, s)
      BY DEF EdgesExact
    <3>3. CASE op = "dyn"
      <4>1. c = prog.sig[g] /\ c \in Sigs /\ s \in sites[<<f, c>>] /\ s \in taken[g]
        BY <2>p, <3>1, <3>2, <3>3 DEF Exact, DynMet
      <4>2. s \in reached[f] /\ s \in reached[g]
        BY <4>1 DEF SidesReached, INothingLost, DynKept
      <4> QED BY <3>1, <3>3, <4>1, <4>2 DEF BothSides
    <3>4. CASE op = "invoke"
      <4>1. PICK t \in Types : <<t, c, g>> \in prog.impls /\ s \in invokers[<<f, c>>] /\ s \in types[t]
        BY <3>1, <3>2, <3>4 DEF Exact, InvokeMet
      <4>2. c \in Ifaces
        BY <2>p, <4>1
      <4>3. s \in reached[f]
        BY <4>1, <4>2 DEF SidesReached
      <4>4. s \in reached[g]
        BY <4>1 DEF INothingLost, InvokeKept
      <4> QED BY <3>1, <3>4, <4>1, <4>3, <4>4 DEF BothSides
    <3> QED BY <3>3, <3>4
  <2>2. ASSUME Done, NEW f \in Fns, NEW g \in Fns, NEW s \in Subjects
        PROVE  /\ <<"dyn", prog.sig[g]>> \in prog.body[f] /\ BothSides(<<f, "dyn", prog.sig[g]>>, g, s)
                     => <<<<f, "dyn", prog.sig[g]>>, g, s>> \in targets
               /\ \A i \in Ifaces :
                    <<"invoke", i>> \in prog.body[f] /\ BothSides(<<f, "invoke", i>>, g, s)
                      => <<<<f, "invoke", i>>, g, s>> \in targets
    <3>1. \A op, arg : ~Awaited(op, arg, s)
      BY <2>2 DEF Done, Awaited
    <3>2. ASSUME NEW op, NEW arg, <<op, arg>> \in prog.body[f], s \in reached[f]
          PROVE  Served(f, op, arg, s)
      <4>1. pending[f] = {}
        BY <2>2 DEF Done, INothingLost, QueueKept
      <4> QED BY <3>1, <3>2, <4>1 DEF INothingLost, BodiesKept
    <3>3. ASSUME <<"dyn", prog.sig[g]>> \in prog.body[f], BothSides(<<f, "dyn", prog.sig[g]>>, g, s)
          PROVE  <<<<f, "dyn", prog.sig[g]>>, g, s>> \in targets
      <4>1. s \in reached[f] /\ s \in taken[g]
        BY <3>3 DEF BothSides
      <4>2. s \in sites[<<f, prog.sig[g]>>]
        BY <3>2, <3>3, <4>1 DEF Served
      <4>3. Exact(f, prog.sig[g], g, s)
        BY <2>p DEF EdgesExact
      <4> QED BY <4>1, <4>2, <4>3 DEF Exact, DynMet
    <3>4. ASSUME NEW i \in Ifaces, <<"invoke", i>> \in prog.body[f],
                 BothSides(<<f, "invoke", i>>, g, s)
          PROVE  <<<<f, "invoke", i>>, g, s>> \in targets
      <4>1. s \in reached[f] /\ \E t \in Types : <<t, i, g>> \in prog.impls /\ s \in types[t]
        BY <3>4 DEF BothSides
      <4>2. s \in invokers[<<f, i>>]
        BY <3>2, <3>4, <4>1 DEF Served
      <4>3. Exact(f, i, g, s)
        BY DEF EdgesExact
      <4> QED BY <4>1, <4>2, <4>3 DEF Exact, InvokeMet
    <3> QED BY <3>3, <3>4
  <2> QED BY <2>1, <2>2 DEF EdgesAreAttributed
<1>2. Spec => []Grounded
  BY ForeignInvariant, PTL DEF INothingForeign
<1> QED BY <1>1, <1>2, TypeCorrect, LostInvariant, EdgesInvariant, PTL
=============================================================================
