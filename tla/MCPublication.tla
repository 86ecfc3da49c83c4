--------------------------- MODULE MCPublication ---------------------------
(***************************************************************************)
(* Releases of two assets and their checksums.                             *)
(***************************************************************************)
EXTENDS Publication

MCAssets == <<"binary", "other", "sums">>
OneBinary == <<"binary", "sums">>
=============================================================================
