------------------------------- MODULE MCTrunk -------------------------------
(***************************************************************************)
(* Small documents for the trunk: two minor releases of one line with      *)
(* every date and two wordings, the first of the next line, a candidate,   *)
(* a document out of order, and one that drops a release.                  *)
(***************************************************************************)
EXTENDS Trunk

V(ma, mi, pre) == [major |-> ma, minor |-> mi, patch |-> 0, pre |-> pre, build |-> <<>>]
Built(v) == [v EXCEPT !.build = <<(<<7>>)>>]

E(v, day, body) == [kind |-> "version", ver |-> v, date |-> day, body |-> body,
                    sections |-> <<>>, link |-> FALSE]

first(d, b) == E(V(1, 0, <<>>), d, b)
second(d) == E(V(1, 1, <<>>), d, "a")

MCDocs ==
  {<<first(d, b)>> : d \in {1, 2}, b \in {"a", "b"}}
  \cup {<<second(d), first(e, b)>> : d \in {1, 2}, e \in {1, 2}, b \in {"a", "b"}}
  \cup {<<>>, <<second(1)>>, <<first(1, "a"), second(1)>>,
        <<E(V(2, 0, <<>>), 2, "a"), first(1, "a")>>,
        <<E(V(2, 0, <<>>), 2, "a"), second(1), first(1, "a")>>,
        <<E(V(1, 1, <<(<<10>>)>>), 1, "a"), first(1, "a")>>}

\* For runs that overlap: the fewest documents that can disagree.
MCDocsFew == {<<first(1, "a")>>, <<first(1, "b")>>, <<second(1), first(1, "a")>>,
              <<second(1), first(1, "b")>>, <<E(V(2, 0, <<>>), 1, "a"), first(1, "a")>>,
              <<E(Built(V(1, 0, <<>>)), 1, "a")>>,
              <<E(V(1, 1, <<(<<10>>)>>), 1, "a"), first(1, "a")>>}

NoOverlong == {}

\* What CHANGELOG.md says a trunk switches off.
TrunkSeverities == [DefaultSeverities EXCEPT !["date-mismatch"] = "off"]
=============================================================================
