------------------------------ MODULE Checkout ------------------------------
(***************************************************************************)
(* What Repo.Reference (pkg/git/git.go) reads, and the answer it promises: *)
(* of the tags that name an eligible version, the highest one reachable    *)
(* from HEAD.                                                              *)
(*                                                                         *)
(* A checkout is a record: the parents each commit names, the commits it   *)
(* carries (a shallow clone names parents it does not carry), what HEAD    *)
(* points at, the tags it carries and the commit each peels to, and those  *)
(* the caller admits (-reference-tags).  Tags are named by their position  *)
(* in Names, the order the reference store lists them in.                  *)
(***************************************************************************)
EXTENDS Semver

CONSTANTS
  Commits,    \* commit hashes
  NoCommit,   \* a tag that peels to nothing the checkout carries; an unborn HEAD
  Names       \* the tag names, in the order they are read

Tags == DOMAIN Names
TagTargets == [Tags -> Commits \cup {NoCommit}]

CheckoutType == [parents : [Commits -> Seq(Commits)],
                 carried : SUBSET Commits,
                 head    : Commits \cup {NoCommit},
                 tags    : SUBSET Tags,
                 target  : TagTargets,
                 admit   : {"final", "all"}]

ASSUME CheckoutAssumption ==
  /\ NoCommit \notin Commits
  /\ Names \in Seq(TagForms)

\* The tags that may serve as the reference tag.
Eligible(r) == {i \in r.tags : /\ NamesVersion(Names[i])
                               /\ r.admit = "final" => ~Prerelease(ParseTag(Names[i]))}

\* The higher version first; on a tie the fuller spelling, then the one read first.
Before(i, j) == \/ Outranks(Names[i], Names[j])
                \/ ~Outranks(Names[j], Names[i]) /\ i < j

\* Sets that hold HEAD and, with every carried commit, the parents it names.
Closed(r, S) == /\ r.head \in S
                /\ \A c \in S \cap r.carried :
                     \A p \in DOMAIN r.parents[c] : r.parents[c][p] \in S

\* The commits reachable from HEAD: the smallest closed set.
Reachable(r) == {c \in Commits : \A S \in SUBSET Commits : Closed(r, S) => c \in S}

ReachableTags(r) == {i \in Eligible(r) : r.target[i] \in r.carried \cap Reachable(r)}

Unanswered == [kind |-> "unanswered"]
None == [kind |-> "none"]
Failed == [kind |-> "failed"]
Found(i) == [kind |-> "found", tag |-> i]
Outcomes == {Unanswered, None, Failed} \cup {Found(i) : i \in Tags}

\* Whether o is what Reference promises of checkout r.
Answers(r, o) ==
  IF Eligible(r) = {} \/ r.head = NoCommit THEN o = None
  ELSE IF r.head \notin r.carried THEN o = Failed
  ELSE IF ReachableTags(r) = {} THEN o = None
  ELSE \E i \in ReachableTags(r) :
         o = Found(i) /\ \A j \in ReachableTags(r) \ {i} : Before(i, j)
=============================================================================
