--------------------------- MODULE MCCheckingUnit ---------------------------
(* Model checking the checking unit.  The candidates cover the three kinds  *)
(* of record, with inputs that match the first version of the inputs, that  *)
(* match a later one, and without inputs.                                   *)
EXTENDS CheckingUnit

MCCandidates == {[kind |-> "plain", digest |-> 0], [kind |-> "lift", digest |-> 0],
                 [kind |-> "plain", digest |-> NoInputs], [kind |-> "refused", digest |-> 1]}
=============================================================================
