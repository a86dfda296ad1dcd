----------------------------- MODULE MCUnifiedExec -----------------------------
(* UnifiedExec for TLC.                                                      *)
EXTENDS UnifiedExec, TLC
==============================================================================
