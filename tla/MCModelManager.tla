---------------------------- MODULE MCModelManager ----------------------------
(* Instances of ModelManager for TLC. *)
EXTENDS ModelManagerInv, TLC

CONSTANTS r1, r2, wd, post, boot, p1, p2, p3, noProc, noTask

MCRequests  == {r1, r2}
OneRequest  == {r1}
MCReleasers == {wd, post}
OneReleaser == {wd}
MCProcs     == {p1, p2, p3}

\* Engine identities are interchangeable, and so are the calls; the releasers
\* are not (the watchdog is one of them).
Symmetry == Permutations(MCProcs) \cup Permutations(MCRequests)
=============================================================================
