----------------------------- MODULE MCReference -----------------------------
(***************************************************************************)
(* Every history of three commits, and every way to cut, tag and check it  *)
(* out; c1 is the oldest.                                                  *)
(***************************************************************************)
EXTENDS Reference, TLC

CONSTANTS c1, c2, c3

\* A final version with its moving shorthand, a pre-release of the next one, a
\* higher final version, and a name that is no version.
Name(core, pre) == [prefix |-> TRUE, core |-> core, pre |-> pre, build |-> <<>>]
MCNames == <<Name(<<1>>, <<>>), Name(<<1, 0, 0>>, <<>>), Name(<<1, 1, 0>>, <<(<<10>>)>>),
             Name(<<NotNumeral>>, <<>>)>>

MCCommits == {c1, c2, c3}

ParentsOf == (c1 :> {<<>>}) @@ (c2 :> {<<>>, <<c1>>})
             @@ (c3 :> {<<>>, <<c1>>, <<c2>>, <<c1, c2>>, <<c2, c1>>})

\* All four tags, or the pre-release and the name that is no version.
TagSets == {1..4, {3, 4}}

Targets(T) == {(3 :> t3) @@ (4 :> c3) @@ f :
                 t3 \in MCCommits \cup {NoCommit},
                 f \in [1..2 -> IF 1 \in T THEN MCCommits \cup {NoCommit} ELSE {NoCommit}]}

MCCheckouts ==
  {[parents |-> (c1 :> p1) @@ (c2 :> p2) @@ (c3 :> p3),
    carried |-> S, head |-> h, tags |-> tt[1], target |-> tt[2], admit |-> a] :
     p1 \in ParentsOf[c1], p2 \in ParentsOf[c2], p3 \in ParentsOf[c3],
     S \in SUBSET MCCommits, h \in MCCommits \cup {NoCommit},
     tt \in UNION {{T} \X Targets(T) : T \in TagSets},
     a \in {"final", "all"}}
=============================================================================
