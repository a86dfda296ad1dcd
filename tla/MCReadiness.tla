----------------------------- MODULE MCReadiness -----------------------------
(* TLC instances of Readiness.  Callers are model values; they are not       *)
(* declared symmetric, since the run checks liveness too.                    *)
EXTENDS Readiness, TLC
=============================================================================
