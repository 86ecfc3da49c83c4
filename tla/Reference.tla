------------------------------ MODULE Reference ------------------------------
(***************************************************************************)
(* Repo.Reference as pkg/git/git.go computes it: rank the eligible tags,   *)
(* resolve each to a commit, and walk the history breadth first from HEAD, *)
(* stopping at the first commit that nothing can outrank.                  *)
(***************************************************************************)
EXTENDS Checkout, FiniteSets, Functions

CONSTANT Checkouts   \* the repositories considered

ASSUME CheckoutsAssumption == Checkouts \subseteq CheckoutType

VARIABLES
  checkout,    \* the repository read, which the walk never changes
  outcome,     \* what Reference returns
  pc,          \* "start", "walk" or "done"
  candidates,  \* the eligible tags, highest first
  seen, queue, \* the walk's sets of commits
  best         \* the index in candidates of the best tag met, or one past the end

vars == <<checkout, outcome, pc, candidates, seen, queue, best>>

-----------------------------------------------------------------------------
\* Versions and final: the eligible tags, stably sorted.
Sorted(c) == /\ \A k, l \in DOMAIN c : k < l => Before(c[k], c[l])
             /\ \A i \in Eligible(checkout) : \E k \in DOMAIN c : c[k] = i

Orderings == {c \in UNION {[1..n -> Eligible(checkout)] : n \in 0..Len(Names)} : Sorted(c)}

\* Candidates at commit c; a tag whose commit is not carried is at none.
At(c) == {k \in DOMAIN candidates : /\ checkout.target[candidates[k]] = c
                                    /\ c \in checkout.carried}

\* Mutant: a commit no tag names reads as the map's zero value, the first rank.
RankZero(c) == IF At(c) = {} THEN 1
               ELSE CHOOSE k \in At(c) : \A l \in At(c) : k <= l

\* The first candidate at a commit, or one past the end.
Rank(c) == IF At(c) = {} THEN Len(candidates) + 1
           ELSE CHOOSE k \in At(c) : \A l \in At(c) : k <= l

Init == /\ checkout \in Checkouts
        /\ outcome = Unanswered
        /\ pc = "start"
        /\ candidates = <<>>
        /\ seen = {} /\ queue = <<>>
        /\ best = 1

\* Every path that answers before the walk: no candidate, no HEAD, HEAD unreadable.
Return(o) == pc' = "done" /\ outcome' = o /\ UNCHANGED checkout

NoCandidate ==
  /\ pc = "start"
  /\ Eligible(checkout) = {}
  /\ Return(None)
  /\ UNCHANGED <<candidates, seen, queue, best>>

UnbornHead ==
  /\ pc = "start"
  /\ Eligible(checkout) # {} /\ checkout.head = NoCommit
  /\ Return(None)
  /\ UNCHANGED <<candidates, seen, queue, best>>

MissingHead ==
  /\ pc = "start"
  /\ Eligible(checkout) # {} /\ checkout.head # NoCommit
  /\ checkout.head \notin checkout.carried
  /\ Return(Failed)
  /\ UNCHANGED <<candidates, seen, queue, best>>

\* Mutant: HEAD is walked from before it is looked at.
StartUnchecked ==
  /\ pc = "start"
  /\ Eligible(checkout) # {}
  /\ candidates' \in Orderings
  /\ best' = Len(candidates') + 1
  /\ queue' = <<checkout.head>>
  /\ pc' = "walk"
  /\ UNCHANGED <<checkout, outcome, seen>>

Start ==
  /\ pc = "start"
  /\ Eligible(checkout) # {} /\ checkout.head \in checkout.carried
  /\ candidates' \in Orderings
  /\ best' = Len(candidates') + 1
  /\ queue' = <<checkout.head>>
  /\ pc' = "walk"
  /\ UNCHANGED <<checkout, outcome, seen>>

Walking == pc = "walk" /\ queue # <<>> /\ best # 1

\* Mutant: a commit already seen is left at the front of the queue.
SkipInPlace ==
  /\ Walking
  /\ Head(queue) \in seen
  /\ UNCHANGED vars

\* A commit queued twice, by two children, is visited once.
Skip ==
  /\ Walking
  /\ Head(queue) \in seen
  /\ queue' = Tail(queue)
  /\ UNCHANGED <<checkout, outcome, pc, candidates, seen, best>>

\* Mutant: the first tag met on the way down wins.
ImproveNearest(h) == IF best = Len(candidates) + 1 THEN Rank(h) ELSE best

\* The better of the best tag so far and the first one at this commit.
Improve(h) == IF Rank(h) < best THEN Rank(h) ELSE best

\* Mutant: the commit is looked up and expanded, but never marked.
VisitUnmarked ==
  /\ Walking
  /\ LET h == Head(queue)
     IN  /\ h \notin seen
         /\ best' = Improve(h)
         /\ queue' = Tail(queue) \o
              (IF h \in checkout.carried THEN checkout.parents[h] ELSE <<>>)
  /\ UNCHANGED <<checkout, outcome, pc, candidates, seen>>

Visit ==
  /\ Walking
  /\ LET h == Head(queue)
     IN  /\ h \notin seen
         /\ seen' = seen \cup {h}
         /\ best' = Improve(h)
         /\ queue' = Tail(queue) \o
              (IF h \in checkout.carried THEN checkout.parents[h] ELSE <<>>)
  /\ UNCHANGED <<checkout, outcome, pc, candidates>>

Finish ==
  /\ pc = "walk" /\ ~Walking
  /\ Return(IF best = Len(candidates) + 1 THEN None
            ELSE Found(candidates[best]))
  /\ UNCHANGED <<candidates, seen, queue, best>>

Next == NoCandidate \/ UnbornHead \/ MissingHead \/ Start \/ Skip \/ Visit \/ Finish

Spec == Init /\ [][Next]_vars /\ WF_vars(Next)

-----------------------------------------------------------------------------
TypeOK ==
  /\ checkout \in CheckoutType
  /\ outcome \in Outcomes
  /\ pc \in {"start", "walk", "done"}
  /\ candidates \in Seq(Tags)
  /\ seen \subseteq Commits /\ queue \in Seq(Commits)
  /\ best \in 1..(Len(candidates) + 1)

\* The commits met so far: expanded, or waiting to be.
Met == seen \cup Range(queue)

\* While it walks, the search has met HEAD and only what HEAD reaches; it has lost
\* no parent of a commit it expanded; and best is the first of the candidates on
\* the commits expanded.
WalkInv ==
  pc = "walk" =>
    /\ outcome = Unanswered
    /\ Eligible(checkout) # {} /\ checkout.head \in checkout.carried
    /\ candidates \in Orderings
    /\ checkout.head \in Met /\ Met \subseteq Reachable(checkout)
    /\ \A c \in seen \cap checkout.carried :
         \A p \in DOMAIN checkout.parents[c] : checkout.parents[c][p] \in Met
    /\ best # Len(candidates) + 1 =>
         checkout.target[candidates[best]] \in seen \cap checkout.carried
    /\ \A c \in seen : \A k \in At(c) : best <= k

\* The walk as a whole: untouched before it starts, right once it is done.
IInv == /\ TypeOK
        /\ WalkInv
        /\ pc = "start" => outcome = Unanswered /\ seen = {}
        /\ pc = "done" => Answers(checkout, outcome)

Promise == INSTANCE Baseline

\* The walk answers what Reference promises: whatever the order parents are
\* queued in, wherever history ends or the clone was cut, and although it stops
\* at the first commit nothing outranks (Reference, git.go:271).
KeepsPromise == Promise!Init /\ [][Promise!Next]_<<checkout, outcome>>

\* The loop ends on every history, and Reference returns.
Returns == <>(pc = "done")

\* The edges from the carried ones of some commits to the parents they name.
Edges(S) == UNION {{<<c, p>> : p \in DOMAIN checkout.parents[c]} : c \in S \cap checkout.carried}

\* Each commit is expanded once, so the queue holds what the commits seen pushed
\* less what they popped: a history of many merges costs its edges, not its paths.
QueueBounded == Len(queue) + Cardinality(seen) <= 1 + Cardinality(Edges(seen))
=============================================================================
