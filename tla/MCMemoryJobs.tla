----------------------------- MODULE MCMemoryJobs -----------------------------
(* MemoryJobs for TLC.                                                       *)
EXTENDS MemoryJobs, TLC

Symmetry == Permutations(Thread) \cup Permutations(Worker)
==============================================================================
