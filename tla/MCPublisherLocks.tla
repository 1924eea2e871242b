------------------------- MODULE MCPublisherLocks -------------------------
(* The whole system with any two inputs: datagrams, terminal commands, of  *)
(* which start and stop are of ExpressionService, or messages of the       *)
(* remote control.                                                         *)
EXTENDS PublisherLocks
=============================================================================
