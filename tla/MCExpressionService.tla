------------------------ MODULE MCExpressionService ------------------------
(* Instances of ExpressionService for TLC. *)
EXTENDS ExpressionService, TLC

\* A motion with one item after its base position; "unknown" has none.
Motions == "happy" :> 1

BothServices == {"expression", "perception"}
=============================================================================
