------------------------------ MODULE MCReuse ------------------------------
(* Model checking reuse: every form of a complete recording, and of one     *)
(* observed measurement every recording that lacks an axis or carries a     *)
(* licence this engine does not know.  Which compartments differ inertly is *)
(* what TestVariants says of three contents of the test files, for a test   *)
(* that none of the edits can reach: a method goes, which may not come back *)
(* without a run, and a constant comes.                                     *)
EXTENDS Reuse, TestVariants, FiniteSetsExt

Measurement == [kind |-> "measurement", manifest |-> TRUE, purity |-> FALSE, proof |-> "outcome",
                absent |-> "nothing", licence |-> "none"]
MCForms == {f \in FormSet : f.absent = "nothing" /\ f.licence = "none"}
           \cup {[Measurement EXCEPT !.absent = a] : a \in Axes \cup {"manifest"}}
           \cup {[Measurement EXCEPT !.licence = "unknown"]}

-----------------------------------------------------------------------------
(* Contents of two test files of the package and one of its external tests;   *)
(* the production file names P and len.                                       *)
A == "a_test.go"
B == "b_test.go"
X == "x_test.go"
MCPackageOf == [f \in {A, B, X} |-> IF f = X THEN "external" ELSE "base"]
MCProduction == [f \in {"p.go"} |->
                    [package |-> "base", references |-> {"P", "len"}, imports |-> {}]]
D(f, k, r, n, h, u) == [file |-> f, kind |-> k, receiver |-> r, name |-> n, hash |-> h, uses |-> u]
Tests == {D(A, "func", "", "TestA", u, u) : u \in {{"h", "io"}, {"t", "len"}}}
Others == {D(B, "func", "", "h", 0, {"c"}), D(B, "func", "", "h", 1, {}),
           D(B, "func", "", "H", 0, {"c"}), D(B, "func", "", "len", 0, {}),
           D(B, "type", "", "t", 0, {}), D(B, "type", "", "t", 1, {"h"}),
           D(B, "method", "t", "m", 0, {"c"}), D(B, "method", "t", "m", 1, {}),
           D(B, "method", "P", "m", 0, {"c"}), D(B, "const", "", "c", 0, {}),
           D(B, "const", "", "c", 1, {}), D(B, "var", "", "v", 0, {"h"}),
           D(B, "func", "", "TestMain", 0, {"c"})}
Externals == {D(X, "func", "", "TestX", 0, {"H", "h"}), D(X, "func", "", "h", 0, {}),
              D(X, "func", "", "h", 1, {}), D(B, "func", "", "H", 0, {"c"}),
              D(B, "func", "", "H", 1, {}), D(B, "const", "", "c", 0, {}),
              D(B, "const", "", "c", 1, {})}

\* What a package that compiles declares.
WellFormed(ds) ==
    /\ \A d, e \in ds : d # e =>
         /\ Identity(Declared(d)) # Identity(Declared(e))
         /\ Local(d) /\ Local(e) /\ PackageOf[d.file] = PackageOf[e.file] => d.name # e.name
    /\ \A d \in ds : d.kind = "method" /\ d.receiver = "t" => \E e \in ds : e.name = "t"
    /\ \A d \in ds : \A n \in d.uses \cap {"H"} : \E e \in ds : e.name = n

Source(ds, imports, data) ==
    [decls |-> ds, known |-> TRUE, data |-> data,
     imports |-> [f \in {A, B, X} |-> IF f = A THEN imports ELSE {}]]
IO == <<"io", "io">>
UpTo(n, S) == UNION {kSubset(k, S) : k \in 0..n}
MCSources ==
    {Source(ds, {IO}, 0) : ds \in {s \in {{t} \cup o : t \in Tests, o \in UpTo(2, Others)}
                                           \cup UpTo(4, Externals) : WellFormed(s)}}
      \cup {Source({t}, i, d) : t \in Tests, d \in {0, 1},
                i \in {{IO}, {<<"io", "io2">>}, {IO, <<".", "io">>}, {<<Unparsed, "io">>}}}
Subject(r, n) == [receiver |-> r, name |-> n]
MCTested == {Subject("", "TestA"), Subject("", "TestX"), Subject("t", "m"), Subject("", "P")}

Settled == {D(A, "func", "", "TestA", 0, {"h", "io"}), D(B, "func", "", "h", 1, {}),
          D(B, "type", "", "t", 0, {})}
LedgerOf == [v \in 0..2 |-> Ledger(Source(
    Settled \cup (IF v = 0 THEN {D(B, "method", "t", "m", 1, {})} ELSE {})
          \cup (IF v = 2 THEN {D(B, "const", "", "c", 0, {})} ELSE {}), {IO}, 0))]
MCInert == {<<v, v>> : v \in 0..2} \cup {<<0, 1>>, <<0, 2>>, <<1, 2>>, <<2, 1>>}
\* Exactly the edits that are inert for TestA; written out, since TLC would
\* derive the relation again in every state.
ASSUME InertAssumption ==
    MCInert = {p \in (0..2) \X (0..2) :
                 InertForSubject(LedgerOf[p[1]], LedgerOf[p[2]], Subject("", "TestA"))}

-----------------------------------------------------------------------------
\* A valid answer over edited test files is about files its subject cannot tell
\* from those that produced the result: each step of the route may be any edit
\* that InertForSubject lets pass, of any content for any subject.
ValidIsUnobserved ==
    \A s \in Sessions : Verdict(record, s).status = "valid" =>
        \A i \in 1..(Len(route) - 1) : route[i] # route[i + 1] => ~ToldApart
=============================================================================
