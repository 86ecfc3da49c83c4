------------------------------ MODULE Baseline ------------------------------
(***************************************************************************)
(* The promise of Repo.Reference (pkg/git/git.go): a checkout is read and, *)
(* in one step, its reference tag is named.                                *)
(***************************************************************************)
CONSTANTS
  CheckoutType,   \* what may be read
  Outcomes,       \* what may be returned
  Unanswered,     \* nothing yet
  Answers(_, _)   \* whether an outcome is the right one for a checkout

VARIABLES checkout, outcome

Init == checkout \in CheckoutType /\ outcome = Unanswered

Answer == /\ outcome = Unanswered
          /\ outcome' \in Outcomes
          /\ Answers(checkout, outcome')
          /\ UNCHANGED checkout

Next == Answer

Spec == Init /\ [][Next]_<<checkout, outcome>> /\ WF_<<checkout, outcome>>(Next)
=============================================================================
