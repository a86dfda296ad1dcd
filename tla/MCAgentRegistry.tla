--------------------------- MODULE MCAgentRegistry ---------------------------
(* TLC instances of AgentRegistry. *)
EXTENDS AgentRegistry, TLC

\* Threads but the root's are interchangeable, and so are the calls of a kind.
Interchangeable == Permutations(Thread \ {Root}) \cup Permutations(Call \ Resumer)
=============================================================================
