---------------------------- MODULE MCProofBatch ----------------------------
EXTENDS ProofBatch, TLC
CONSTANTS p, q, s1, s2, s3, t1

MCPackageOf == (s1 :> p) @@ (s2 :> p) @@ (s3 :> p) @@ (t1 :> q)
MCRequests == {{s1, s2, s3, t1}, {s2, s3}}
MCOrder == <<s1, s2, t1, s3>>

\* every kind of subject in each place of a slice, every kind of package: what
\* the subjects are does not matter when their package does not load, only
\* their being rooted when its initializers hold a shape, and their running
\* through the harness when its test main holds one
Kinds == {"plain", "harness", "bad", "unrooted"}
Shapes == {"none", "unloadable", "badInit", "badMain"}
Matters(k, shape) ==
    /\ k[s3] = "plain" /\ (k[s1] = k[s2] => k[s1] = "bad")
    /\ shape = "unloadable" => k[s1] = "plain" /\ k[s2] = "bad"
    /\ shape = "none" => "harness" \notin {k[s1], k[s2]}
    /\ shape = "badInit" => k[s1] = "unrooted" /\ k[s2] # "bad"
MCWorlds ==
    {[unloadable |-> IF shape = "unloadable" THEN {p} ELSE {},
      badInit |-> IF shape = "badInit" THEN {p} ELSE {},
      badMain |-> IF shape = "badMain" THEN {p} ELSE {},
      main |-> {p},
      unrooted |-> {s \in DOMAIN k : k[s] = "unrooted"},
      harness |-> {s \in DOMAIN k : k[s] = "harness"},
      bad |-> {s \in DOMAIN k : k[s] = "bad"}] :
        <<k, shape>> \in {<<k, shape>> \in [{s1, s2, s3} -> Kinds] \X Shapes : Matters(k, shape)}}
=============================================================================
