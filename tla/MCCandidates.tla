---------------------------- MODULE MCCandidates ----------------------------
(***************************************************************************)
(* Pull requests into one branch.                                          *)
(***************************************************************************)
EXTENDS Candidates

OneBranch == [p \in PRs |-> "rc"]
=============================================================================
