-------------------------- MODULE MCOpencodeExecutor --------------------------
(* Instances of OpencodeExecutor for TLC. *)
EXTENDS OpencodeExecutor, TLC

CONSTANTS c1, c2, c3, p1, p2, p3, p4, noProc

MCCalls == {c1, c2, c3}
MCProcs == {p1, p2, p3, p4}

Symmetry == Permutations(MCProcs)
=============================================================================
