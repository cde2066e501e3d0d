-------------------------- MODULE MCGitController --------------------------
(* GitController with two candidates and one commit by somebody else. *)
EXTENDS GitController

CONSTANTS c1, c2, u1

MCCandidate == {c1, c2}
MCUpstream == {u1}
Symmetric == Permutations(MCCandidate)
=============================================================================
