------------------------------ MODULE Delivery ------------------------------
(***************************************************************************)
(* What publishing promises those who use a release: the tag they follow   *)
(* names only releases that are there in full, the mirror has nothing the  *)
(* first forge has not, and what is there stays.                           *)
(***************************************************************************)
CONSTANT Releases

VARIABLES
  complete,  \* the releases the first forge holds with every asset
  mirrored,  \* the releases the second forge shows
  followed   \* where the major tag has pointed: none yet, or one release

delivery == <<complete, mirrored, followed>>

Init == complete = {} /\ mirrored = {} /\ followed = {}

Complete(r) == complete' = complete \cup {r} /\ UNCHANGED <<mirrored, followed>>

Mirror(r) == /\ r \in complete
             /\ mirrored' = mirrored \cup {r}
             /\ UNCHANGED <<complete, followed>>

Follow(r) == r \in complete /\ followed' = {r} /\ UNCHANGED <<complete, mirrored>>

Next == \E r \in Releases : Complete(r) \/ Mirror(r) \/ Follow(r)

Spec == Init /\ [][Next]_delivery
=============================================================================
