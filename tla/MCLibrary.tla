----------------------------- MODULE MCLibrary -----------------------------
(***************************************************************************)
(* Small versions, entries and repositories for the library.               *)
(***************************************************************************)
EXTENDS Library

\* Numerals of one and two digits, text, mixtures, and the hyphen alone.
MCIdentifiers == {<<0>>, <<9>>, <<1, 0>>, <<10>>, <<10, 1>>, <<0, 10>>, <<Hyphen>>}
MCCores == {<<0, 0, 0>>, <<1, 0, 0>>, <<1, 0, 1>>}

MCPre == {<<>>} \cup {<<a>> : a \in MCIdentifiers}
                \cup {<<a, b>> : a \in {<<10>>, <<9>>}, b \in {<<1>>, <<10, 1>>}}

\* Few of them with build metadata, which Compare never looks at.
MCVersions ==
  {v \in {[major |-> c[1], minor |-> c[2], patch |-> c[3], pre |-> p, build |-> b] :
            c \in MCCores, p \in MCPre, b \in {<<>>, <<(<<0, 0>>)>>}} :
     v.build # <<>> => v.pre \in {<<>>, <<(<<10>>)>>}}

V(ma, mi, pre, build) ==
  [major |-> ma, minor |-> mi, patch |-> 0, pre |-> pre, build |-> build]

v100 == V(1, 0, <<>>, <<>>)
v100b == V(1, 0, <<>>, <<(<<1>>)>>)
v110rc == V(1, 1, <<(<<10>>)>>, <<>>)
v110 == V(1, 1, <<>>, <<>>)

Entry(kind, ver, date, body, sections, link) ==
  [kind |-> kind, ver |-> ver, date |-> date, body |-> body, sections |-> sections, link |-> link]

Versioned(ver, date, body, link) == Entry("version", ver, date, body, <<"Added">>, link)

MCOverlong == {}

MCEntries ==
  {Versioned(v, d, "a", TRUE) : v \in {v100, v110rc, v110}, d \in {NoDate, BadDate, 1, 2}}
  \cup {Versioned(v100b, 1, "a", TRUE), Versioned(v100, 1, "b", TRUE), Versioned(v100, 1, "a", FALSE),
        Versioned(v110, 2, Empty, FALSE),
        Entry("unreleased", v100, NoDate, "a", <<"Added", "Added">>, FALSE),
        Entry("unreadable", v100, NoDate, "a", <<"Other">>, FALSE)}

TagNames == {<<>>, <<MajorTag(v100)>>, <<MajorTag(v100), TagOf(v100)>>,
             <<TagOf(v110rc), TagOf(v100)>>, <<TagOf(v100), MajorTag(v100), TagOf(v110)>>}

TaggedDocs == {<<>>, <<Versioned(v100, 1, "a", TRUE)>>,
               <<Versioned(v110, 2, "a", TRUE), Versioned(v100, 1, "a", TRUE)>>}

Unread(kind) == [kind |-> kind, tags |-> <<>>, days |-> <<>>, ref |-> 0, was |-> <<>>]

MCRepos ==
  {Unread("absent"), Unread("unreadable")}
  \cup UNION {UNION {{[kind |-> "read", tags |-> t, days |-> d, ref |-> r, was |-> w] :
                        w \in (IF r = 0 THEN {<<>>} ELSE TaggedDocs)} :
                d \in [1..Len(t) -> {0, 1}], r \in 0..Len(t)} :
         t \in TagNames}
=============================================================================
