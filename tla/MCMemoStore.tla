----------------------------- MODULE MCMemoStore -----------------------------
(* Model checking the memo store: the calls of one process; two keys share a *)
(* path, a third has its own.                                                *)
EXTENDS MemoStore, TLC

CONSTANTS p1, k1, k2, k3, f1, f2
OneHome == [c \in Calls |-> p1]
MixedPath == k1 :> f1 @@ k2 :> f1 @@ k3 :> f2
Symmetry == Permutations(Calls) \cup Permutations(Items)
=============================================================================
