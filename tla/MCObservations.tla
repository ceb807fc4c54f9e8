--------------------------- MODULE MCObservations ---------------------------
EXTENDS Observations, TLC
CONSTANTS f, l, d, e, s1, p1, p2
\* Two contents and two times; the second stamp is the first one touched.
MCStamps == {<<"c0", "t0">>, <<"c0", "t1">>, <<"c1", "t1">>}
MCInitial == <<"c0", "t0">>
MCTurns == [o \in Objects |-> CASE o = f -> {<<"c0", "t1">>, <<"c1", "t1">>}
                              [] o = l -> {Missing} [] OTHER -> {<<"c1", "t1">>}]
Reads(id, stat, moved, subjects) == [reads |-> (id :> stat), moved |-> moved, subjects |-> subjects]
MCReadings == {Reads(<<"env", e>>, FALSE, FALSE, {s1}), Reads(<<"env", e>>, FALSE, TRUE, {s1}),
               Reads(<<"rel", f>>, FALSE, FALSE, {}), Reads(<<"rel", f>>, TRUE, FALSE, {}),
               Reads(<<"rel", f>>, FALSE, TRUE, {}), Reads(<<"rel", l>>, FALSE, FALSE, {})}
\* The violation run: a process lists a directory of the module.
MCListing == {Reads(<<"rel", d>>, FALSE, FALSE, {})}
MCSymmetry == Permutations(Processes)
=============================================================================
