--------------------------- MODULE MCTurnLifecycle ---------------------------
(* TLC instances of TurnLifecycle.  Prompts and mail are model values; they   *)
(* are not declared symmetric, since the runs check liveness too.             *)
EXTENDS TurnLifecycle, TLC
=============================================================================
