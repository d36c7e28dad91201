---------------------------- MODULE MCInspection ----------------------------
(* The inspection path alone. *)
EXTENDS Inspection

SafeOrUnknown == {[category |-> "safe", score |-> 0], [category |-> "unspecified", score |-> 0]}
=============================================================================
