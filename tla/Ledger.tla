------------------------------- MODULE Ledger -------------------------------
(***************************************************************************)
(* What the writers promise of a changelog, with no document in sight:     *)
(* notes wait until a release takes all of them under a version above      *)
(* every version before it, and a release, once made, is never touched.    *)
(***************************************************************************)
EXTENDS Semver

CONSTANTS
  Notes,     \* what one append may bring: each a set of lines, with their section
  Numbers    \* the versions a release may name

VARIABLES
  pending,   \* the lines that wait for a release
  releases   \* the releases made: [ver, lines]

ledger == <<pending, releases>>

Init ==
  /\ pending \in SUBSET UNION Notes
  /\ \A r \in releases : r.ver \in Numbers

Add == \E note \in Notes : pending' = pending \cup note /\ UNCHANGED releases

Cut == /\ pending # {}
       /\ pending' = {}
       /\ \E v \in Numbers :
            /\ \A r \in releases : Compare(v, r.ver) > 0
            /\ releases' = releases \cup {[ver |-> v, lines |-> pending]}

\* The process was killed between opening the file, which empties it, and writing it.
Lose == pending' = {} /\ releases' = {}

Spec == Init /\ [][Add \/ Cut \/ Lose]_ledger
=============================================================================
