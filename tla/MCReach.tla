------------------------------ MODULE MCReach ------------------------------
(* Small programs: two subjects rooted at a and b, whose bodies hold up to  *)
(* two instructions and that of m one; t answers the interface with m,      *)
(* u exposes t and the generic g.                                               *)
EXTENDS Reach, Naturals, FiniteSets

CONSTANTS a, b, m, h, x, y, t, u, g, s, i

UpTo(n, S) == {z \in SUBSET S : Cardinality(z) <= n}

AtRoots == {<<"call", m>>, <<"take", m>>, <<"take", h>>, <<"dyn", s>>, <<"invoke", i>>,
            <<"make", t>>, <<"make", u>>}
AtMethod == {<<"call", a>>, <<"take", h>>, <<"dyn", s>>, <<"invoke", i>>, <<"make", u>>}

Program(ba, bb, bm, refl, seed) ==
    [body |-> [f \in Fns |-> IF f = a THEN ba ELSE IF f = b THEN bb
                             ELSE IF f = m THEN bm ELSE {}],
     sig |-> [f \in Fns |-> s],
     roots |-> [f \in Fns |-> IF f = a THEN {x} ELSE IF f = b THEN {y} ELSE {}],
     seedTaken |-> [f \in Fns |-> IF f = h THEN seed ELSE {}],
     seedTypes |-> [c \in Types |-> IF c = t THEN seed ELSE {}],
     concrete |-> {t, u},
     generic |-> {g},
     exported |-> [c \in Types |-> IF c = u THEN {h} ELSE {}],
     impls |-> {<<t, i, m>>},
     elems |-> [c \in Types |-> IF c = u THEN {t, g} ELSE {}],
     parts |-> [c \in Types |-> IF c = t THEN {u} ELSE {}],
     reflects |-> refl]

AllPrograms ==
    {Program(ba, bb, bm, FALSE, {}) :
        ba \in UpTo(2, AtRoots), bb \in UpTo(2, AtRoots), bm \in UpTo(1, AtMethod)}
      \cup {Program(ba, bb, {}, FALSE, {y}) : ba, bb \in UpTo(1, AtRoots)}
      \cup {Program(ba, bb, {}, TRUE, {}) : ba, bb \in UpTo(1, AtRoots)}
=============================================================================
