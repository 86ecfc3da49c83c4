------------------------------ MODULE MCOutputs ------------------------------
(***************************************************************************)
(* Notes that hold lines of every kind, flags that name two checks and one *)
(* that there is not, and two delimiters.                                  *)
(***************************************************************************)
EXTENDS Outputs

CONSTANTS d1, d2

Text == Plain("text")
Claim == Pair("valid", Plain("claimed"))

MCBodies == {<<Text>>, <<Claim>>, <<Opening("notes", d1)>>, <<Text, Claim>>, <<Text, Delim(d1)>>,
             <<Opening("valid", d1), Near(d1), Delim(d1), Claim>>, <<Near(d1), Delim(d2)>>}

MCFired == SUBSET {"empty-entry", "prerelease-entry"}

Named == {{}, {"empty-entry"}, {"prerelease-entry"}}

MCFlags ==
  [error : Named, warning : {{}, {"empty-entry"}}, off : Named,
   failOn : {"error", "warning", "never"}]
  \cup {[error |-> {"no-such-check"}, warning |-> {}, off |-> {}, failOn |-> "error"],
        [error |-> {}, warning |-> {}, off |-> {}, failOn |-> "unknown"]}

MCBefores == {<<>>, <<Claim>>}

MCOverlong == {}
=============================================================================
