------------------------- MODULE MCStateMachineLoop -------------------------
(* StateMachineLoop for TLC; the cfg files give the bounds. *)
EXTENDS StateMachineLoop
=============================================================================
