------------------------------ MODULE MCEditor ------------------------------
(***************************************************************************)
(* Files for the writers: with and without links, [Unreleased], and        *)
(* sections, and those on which they do not what is said of them.          *)
(***************************************************************************)
EXTENDS Editor

V(ma, mi, pa) == [NoVersion EXCEPT !.major = ma, !.minor = mi, !.patch = pa]
Candidate(v) == [v EXCEPT !.pre = <<(<<10>>)>>]

NoBody == <<>>
NoOverlong == {}
Names == {"Added", "added", "Changed", "Fixed", "Breaking"}
MCFold == [n \in Names |-> IF n = "added" THEN "Added" ELSE n]
MCSections == Names
MCBreaking == {"b"}
MCNumbers == {V(ma, mi, pa) : ma \in 0..MaxComponent, mi \in 0..MaxComponent, pa \in 0..MaxComponent}
             \cup {Candidate(V(1, 1, 0))}

old == <<Heading("version", V(1, 0, 0), 1, TRUE), SectionLine("Fixed"), Text(TRUE, "o")>>
open == Heading("unreleased", NoVersion, NoDate, TRUE)
link == Ref({}, TRUE, {V(1, 0, 0)}, {})
oldLink == Ref({V(1, 0, 0)}, TRUE, {}, {})

Plain == <<Title>> \o old
Links == <<Title, open>> \o old \o <<link, oldLink>>
Lower == <<Title, open, SectionLine("added"), Text(TRUE, "a")>> \o old \o <<link, oldLink>>
Odd == <<Title, Heading("unreleased", NoVersion, NoDate, FALSE), SectionLine("Added"), Text(TRUE, "a"),
         Heading("unreadable", NoVersion, NoDate, FALSE), Text(FALSE, "o")>> \o old

MCStart == {Plain, Links, Lower, Odd}

Computed == ReleaseRequest({}, NoDate, FALSE)
MCRequests ==
  {AppendRequest("Added", <<"a">>),
   AppendRequest("Fixed", <<"b">>), AppendRequest("", <<"a">>),
   Computed, ReleaseRequest({}, NoDate, TRUE), ReleaseRequest({}, BadDate, FALSE),
   ReleaseRequest({Candidate(V(1, 1, 0))}, NoDate, FALSE)}

\* The first command may be asked for anything, the second for the usual.
CONSTANTS c1, c2
MCAsked == [c \in {c1, c2} |->
             IF c = c1 THEN MCRequests ELSE {AppendRequest("Added", <<"a">>), Computed}]

\* The link of [Unreleased] stands above its heading.
Above1 == {<<Title, link, open, SectionLine("Added"), Text(TRUE, "a")>> \o old}
=============================================================================
