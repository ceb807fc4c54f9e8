---------------------------- MODULE TestVariants ----------------------------
(***************************************************************************)
(* The test-variant compartment of a package (internal/testvariant and     *)
(* internal/closure/internal/compartment): the ledger of the declarations  *)
(* in its test files, the delta between two ledgers, and whether a delta   *)
(* is inert for a subject.  A recorded result of a subject survives an     *)
(* inert delta without a run, so inert must mean unobserved.               *)
(*                                                                         *)
(* Sources are read with go/parser; here a source is what a parse yields.  *)
(* The two package clauses of a test binary are "base" and "external", the *)
(* second one Go's _test package, which sees the first one's exported      *)
(* names.  Left out: the blank identifier, and constants that repeat the   *)
(* expressions of their group.                                             *)
(***************************************************************************)
EXTENDS Naturals, FiniteSets

CONSTANTS
    PackageOf,    \* test file -> its package clause
    Exported,     \* names that begin with a capital letter
    Production,   \* the bindings of the production files: file -> bindings
    Sources,      \* contents of the test files
    Tested        \* the subjects: [receiver, name]

Packages == {"base", "external"}
Unparsed == ""     \* a receiver or an import name the code could not resolve
NoBindings == [package |-> "none", references |-> {}, imports |-> {}]

ASSUME TestVariantsAssumption ==
    /\ \A f \in DOMAIN PackageOf : PackageOf[f] \in Packages
    /\ DOMAIN Production \cap DOMAIN PackageOf = {}
    /\ \A f \in DOMAIN Production : Production[f].package = "base"

-----------------------------------------------------------------------------
(* The ledger. A source has declarations, [file, kind, receiver, name, hash,   *)
(* uses], the imports of each file as pairs of a local name and a path, and    *)
(* the contents of the data that test files embed.                            *)

References(d) == d.uses \cup {d.name} \cup (IF d.kind = "method" THEN {d.receiver} ELSE {})
Declared(d) == [file |-> d.file, package |-> PackageOf[d.file], kind |-> d.kind,
                receiver |-> d.receiver, name |-> d.name, hash |-> d.hash,
                references |-> IF d.kind = "directive" THEN {} ELSE References(d)]
Header(source, f) ==
    LET own == {d \in source.decls : d.file = f} IN
    [hash |-> 0, embedded |-> FALSE,
     bindings |-> [package |-> PackageOf[f], imports |-> source.imports[f],
                   references |-> UNION {Declared(d).references : d \in own}]]
Ledger(source) ==
    [strategy |-> source.known, base |-> Production,
     declarations |-> {Declared(d) : d \in source.decls},
     files |-> [f \in DOMAIN PackageOf \cup {"data"} |->
                  IF f = "data" THEN [hash |-> source.data, embedded |-> TRUE, bindings |-> NoBindings]
                  ELSE Header(source, f)]]

-----------------------------------------------------------------------------
(* The delta. Entries that share an identity pair by hash, the surplus counts  *)
(* as removed or added.                                                       *)

Identity(d) == [file |-> d.file, package |-> d.package, kind |-> d.kind,
                receiver |-> d.receiver, name |-> d.name]
Identities(l) == {Identity(d) : d \in l.declarations}
Left(l, other, id) ==
    {d.hash : d \in {e \in l.declarations : Identity(e) = id}}
      \ {d.hash : d \in {e \in other.declarations : Identity(e) = id}}
Moved(before, after) == {id \in Identities(before) : Left(before, after, id) # {}}
Added(before, after) ==
    {id \in Identities(after) :
        Cardinality(Left(after, before, id)) > Cardinality(Left(before, after, id))}
Data(l, f) == IF f \in DOMAIN l.files /\ l.files[f].embedded THEN {l.files[f].hash} ELSE {}
DataMoved(before, after) ==
    \E f \in DOMAIN before.files \cup DOMAIN after.files : Data(before, f) # Data(after, f)

\* A new method may satisfy an interface, the others run on their own.
InertKind(id) == id.kind \in {"const", "type"} \/ (id.kind = "func" /\ id.name # "TestMain")

(* Binding evidence: what each compiled file names, and what it imports.      *)
Bindings(l) ==
    [f \in DOMAIN l.base \cup {g \in DOMAIN l.files : l.files[g].bindings # NoBindings} |->
        IF f \in DOMAIN l.base THEN l.base[f] ELSE l.files[f].bindings]
Complete(l) ==
    /\ l.strategy
    /\ \A f \in DOMAIN l.files : l.files[f].bindings = NoBindings => l.files[f].embedded
    /\ DOMAIN l.base \cap {f \in DOMAIN l.files : l.files[f].bindings # NoBindings} = {}
    /\ \A f \in DOMAIN Bindings(l) : \A i \in Bindings(l)[f].imports : i[1] # Unparsed
    /\ \A d \in l.declarations :
         d.file \in DOMAIN Bindings(l) /\ Bindings(l)[d.file].package = d.package
Paths(bindings, name) == {i[2] : i \in {j \in bindings.imports : j[1] = name}}
Kept(was, is, names) ==
    /\ is.package = was.package
    /\ names # {} => Paths(was, ".") = Paths(is, ".")
    /\ \A n \in names : Paths(was, n) = Paths(is, n)
Evidence(before, after) ==
    before.base = after.base /\ Complete(before) /\ Complete(after)
BindingsPreserved(before, after) ==
    /\ Evidence(before, after)
    /\ \A f \in DOMAIN Bindings(before) :
         /\ f \in DOMAIN Bindings(after)
         /\ Kept(Bindings(before)[f], Bindings(after)[f], Bindings(before)[f].references)
         /\ \A a \in Added(before, after) :
              a.package = Bindings(before)[f].package => a.name \notin Bindings(before)[f].references

Benign(before, after) ==
    (\A a \in Added(before, after) : InertKind(a)) /\ ~DataMoved(before, after)
DeltaInert(before, after) ==
    Moved(before, after) = {} /\ Benign(before, after) /\ BindingsPreserved(before, after)

-----------------------------------------------------------------------------
(* The cone of a subject: the recorded declarations it can name, or that run  *)
(* whatever the subject is.                                                   *)

BaseNames(l, package) ==
    UNION {l.base[f].references : f \in {g \in DOMAIN l.base : l.base[g].package = package}}
Matches(d, s) ==
    IF s.receiver # "" THEN d.kind = "method" /\ d.name = s.name /\ d.receiver = s.receiver
    ELSE d.kind \notin {"method", "directive", "init"} /\ d.name = s.name
BaseRooted(l, s) == \E f \in DOMAIN l.base : {s.name, s.receiver} \ {""} \subseteq l.base[f].references
Rooted(l, s) == BaseRooted(l, s) \/ \E d \in l.declarations : Matches(d, s)
Seeds(l, s) ==
    {d \in l.declarations :
        \/ Matches(d, s) \/ d.kind \in {"init", "var", "directive"}
        \/ d.kind = "func" /\ d.name = "TestMain"
        \/ IF d.kind = "method" THEN d.receiver \in BaseNames(l, d.package) \cup {Unparsed}
                                ELSE d.name \in BaseNames(l, d.package)}
NamedIn(before, after, reached, s, package) ==
    LET own == {d \in reached : d.package = package}
        later == {d \in after.declarations : Identity(d) \in {Identity(e) : e \in own}}
    IN  UNION {{d.name, d.receiver} \cup d.references : d \in own}
          \cup UNION {d.references : d \in later}
          \cup IF package = "base" /\ BaseRooted(before, s) THEN {s.name, s.receiver} ELSE {}
Named(before, after, reached, s) ==
    LET external == NamedIn(before, after, reached, s, "external") IN
    [p \in Packages |->
        (NamedIn(before, after, reached, s, p) \cup IF p = "base" THEN external \cap Exported ELSE {})
          \ {Unparsed}]
\* Plausible mistake: a method is met by its own name, as a function is.
MeetsByName(d, names) == d.name \in names[d.package]
Meets(d, names) ==
    IF d.kind = "method" THEN d.receiver \in names[d.package] \cup {Unparsed}
                         ELSE d.name \in names[d.package]
Cone(before, after, s) ==
    LET cone[n \in 0..Cardinality(before.declarations)] ==
            IF n = 0 THEN Seeds(before, s)
            ELSE cone[n-1] \cup {d \in before.declarations :
                                   Meets(d, Named(before, after, cone[n-1], s))}
    IN  cone[Cardinality(before.declarations)]

FileNames(before, after, reached, f) ==
    LET own == {d \in reached : d.file = f} IN
    UNION {d.references : d \in own}
      \cup UNION {d.references : d \in {e \in after.declarations :
                                          Identity(e) \in {Identity(d) : d \in own}}}
InertForSubject(before, after, s) ==
    \/ DeltaInert(before, after)
    \/ /\ Benign(before, after) /\ Evidence(before, after)
       /\ Rooted(before, s)
       /\ LET reached == Cone(before, after, s)
              names == Named(before, after, reached, s)
          IN  /\ Moved(before, after) \cap {Identity(d) : d \in reached} = {}
              /\ \A a \in Added(before, after) :
                   /\ a.name \notin names[a.package] \cup BaseNames(before, a.package)
                   /\ a.package = "base" /\ a.name \in Exported => a.name \notin names["external"]
              /\ \A f \in {d.file : d \in reached} :
                   /\ f \in DOMAIN Bindings(after)
                   /\ Kept(Bindings(before)[f], Bindings(after)[f],
                           FileNames(before, after, reached, f))

-----------------------------------------------------------------------------
(* What a run of a subject can observe of the test files, by the scope rules   *)
(* of Go: a use means the declarations of its name in its own package, from    *)
(* the external package the exported ones of the base, or what the file        *)
(* imports.  A type brings its methods, and a production type has all of them. *)

Local(e) == e.kind \notin {"method", "init", "directive"}
Bound(source, package, name) ==
    {e \in source.decls : Local(e) /\ e.name = name /\
        PackageOf[e.file] \in {package} \cup (IF name \in Exported THEN {"base"} ELSE {})}
Types(source, d) == Bound(source, PackageOf[d.file], d.receiver)
Runs(source, s) ==
    {d \in source.decls :
        \/ d.kind \in {"init", "var", "directive"}
        \/ d.kind = "func" /\ d.name = "TestMain"
        \/ d.receiver = s.receiver /\ d.name = s.name /\ d.kind \notin {"init", "directive"}
        \/ d.kind = "method" /\ Types(source, d) = {}
        \/ \E f \in DOMAIN Production : \E n \in Production[f].references :
             d \in Bound(source, "base", n)}
ClosedUnder(source, seen) ==
    /\ \A d \in seen : \A n \in d.uses : Bound(source, PackageOf[d.file], n) \subseteq seen
    /\ \A d \in source.decls : d.kind = "method" /\ Types(source, d) \cap seen # {} => d \in seen
    /\ \A d \in seen : d.kind = "method" => Types(source, d) \subseteq seen
Seen(source, s) ==
    {d \in source.decls : \A seen \in SUBSET source.decls :
        Runs(source, s) \subseteq seen /\ ClosedUnder(source, seen) => d \in seen}
Observed(source, s) ==
    [data |-> source.data,
     seen |-> {[package |-> PackageOf[d.file], kind |-> d.kind, receiver |-> d.receiver,
                name |-> d.name, hash |-> d.hash] : d \in Seen(source, s)},
     means |-> UNION {{<<PackageOf[d.file], d.receiver, d.name, n, i[2]>> :
                         i \in {j \in source.imports[d.file] : j[1] \in {n, "."}}} :
                       <<d, n>> \in {x \in Seen(source, s) \X UNION {e.uses : e \in source.decls} :
                           x[2] \in x[1].uses /\ Bound(source, PackageOf[x[1].file], x[2]) = {}}}]

-----------------------------------------------------------------------------
(* Some edit is inert for a subject that can tell the contents apart: by the   *)
(* declarations it reaches, by what their names mean, by the embedded data.    *)
ToldApart ==
    LET ledgers == {<<Ledger(x), [s \in Tested |-> Observed(x, s)]>> : x \in Sources} IN
    \E b, a \in ledgers, s \in Tested :
        Rooted(b[1], s) /\ b[2][s] # a[2][s] /\ InertForSubject(b[1], a[1], s)
=============================================================================
