------------------------------ MODULE MCReading ------------------------------
(***************************************************************************)
(* Histories of a few commits that release up to two versions.             *)
(***************************************************************************)
EXTENDS Reading

Name(minor) == [prefix |-> TRUE, core |-> <<1, minor, 0>>, pre |-> <<>>, build |-> <<>>]

TwoNames == <<Name(0), Name(1)>>

MCOverlong == {}
BehindAndAhead == {-1, 1}
=============================================================================
