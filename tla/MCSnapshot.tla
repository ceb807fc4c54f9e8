----------------------------- MODULE MCSnapshot -----------------------------
EXTENDS Snapshot, TLC
CONSTANTS v0, v1
\* Two contents of each part. The first package state names a culprit, which
\* its own program does not reach and the program of the second does; the
\* second has one that no function can be named for.
MCVersions == {v0, v1}
MCMarks == [v \in MCVersions |-> IF v = v0 THEN "named" ELSE "unattributed"]
MCReached == {<<v0, v1>>}
MCScopes == {{s} : s \in Subjects}
MCSymmetry == Permutations(Subjects) \cup Permutations(Threads)
=============================================================================
