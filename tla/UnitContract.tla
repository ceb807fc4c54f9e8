---------------------------- MODULE UnitContract ----------------------------
(***************************************************************************)
(* What a producing unit promises its callers, without saying how: one     *)
(* contributor, prepared before it runs and terminated at most once; one   *)
(* closing; evidence granted at most once, only by that closing, only for  *)
(* a contributor that ran; and an end after which nothing changes.  The    *)
(* doc comments of Unit, Register, Submit, Abort and Close (unit.go) state *)
(* this; module Unit implements it.                                        *)
(***************************************************************************)
VARIABLES
    status,       \* "open", "closing", "closed" or "ended" (no evidence)
    contributor   \* "none", "reserved", "prepared", "ran", "never"

contract == <<status, contributor>>

ContractInit == status = "open" /\ contributor = "none"

Reserve == status = "open" /\ contributor = "none"
           /\ contributor' = "reserved" /\ UNCHANGED status

Prepare == status = "open" /\ contributor = "reserved"
           /\ contributor' = "prepared" /\ UNCHANGED status

Terminate == status = "open" /\ contributor = "prepared"
             /\ contributor' \in {"ran", "never"} /\ UNCHANGED status

Freeze == status = "open" /\ status' = "closing" /\ UNCHANGED contributor

EndWithoutEvidence == status \in {"open", "closing"}
                      /\ status' = "ended" /\ UNCHANGED contributor

Grant == status = "closing" /\ contributor = "ran"
         /\ status' = "closed" /\ UNCHANGED contributor

ContractNext == Reserve \/ Prepare \/ Terminate \/ Freeze \/ EndWithoutEvidence \/ Grant

\* A frozen unit ends, with evidence or without.
Contract == ContractInit /\ [][ContractNext]_contract
            /\ WF_contract(EndWithoutEvidence /\ status = "closing")
=============================================================================
