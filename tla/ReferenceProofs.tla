--------------------------- MODULE ReferenceProofs ---------------------------
(***************************************************************************)
(* Repo.Reference keeps its promise, for every set of commits, every tag   *)
(* namespace and every checkout: proofs about module Reference.  And what  *)
(* a run reads of a history through it: proofs about module Reading.       *)
(***************************************************************************)
EXTENDS Reference, Reading, ChangelogProofs, FiniteSetTheorems, TLAPS

-----------------------------------------------------------------------------
\* The elements of a sequence are those at its positions.
LEMMA RangeElements ==
  ASSUME NEW S, NEW s \in Seq(S)
  PROVE  /\ \A i \in 1..Len(s) : s[i] \in Range(s)
         /\ \A x \in Range(s) : \E i \in 1..Len(s) : x = s[i]
BY DEF Range

\* What leaves a queue and what stays are all it held.
LEMMA TailElements ==
  ASSUME NEW S, NEW s \in Seq(S), s # <<>>
  PROVE  /\ Head(s) \in S /\ Tail(s) \in Seq(S)
         /\ Range(s) = {Head(s)} \cup Range(Tail(s))
<1>1. /\ Head(s) = s[1] /\ Head(s) \in S
      /\ Tail(s) \in Seq(S) /\ Len(s) \in Nat /\ Len(s) >= 1
      /\ Len(Tail(s)) = Len(s) - 1
      /\ \A i \in 1..Len(Tail(s)) : Tail(s)[i] = s[i + 1]
  OBVIOUS
<1>2. ASSUME NEW i \in 1..Len(s)
      PROVE  s[i] \in {Head(s)} \cup Range(Tail(s))
  <2>1. CASE i = 1
    BY <1>1, <2>1
  <2>2. CASE i # 1
    <3>1. i - 1 \in 1..Len(Tail(s)) /\ Tail(s)[i - 1] = s[i]
      BY <1>1, <2>2
    <3> QED BY <3>1, <1>1, RangeElements
  <2> QED BY <2>1, <2>2
<1>3. ASSUME NEW j \in 1..Len(Tail(s))
      PROVE  Tail(s)[j] \in Range(s)
  <2>1. j + 1 \in 1..Len(s) /\ Tail(s)[j] = s[j + 1]
    BY <1>1
  <2> QED BY <2>1, RangeElements
<1>4. Head(s) \in Range(s)
  BY <1>1, RangeElements, 1 \in 1..Len(s)
<1>5. /\ \A x \in Range(s) : \E i \in 1..Len(s) : x = s[i]
      /\ \A x \in Range(Tail(s)) : \E i \in 1..Len(Tail(s)) : x = Tail(s)[i]
  BY <1>1, RangeElements
<1> QED BY <1>1, <1>2, <1>3, <1>4, <1>5

\* Concatenation queues what either part holds, and nothing else.
LEMMA ConcatElements ==
  ASSUME NEW S, NEW s \in Seq(S), NEW t \in Seq(S)
  PROVE  s \o t \in Seq(S) /\ Range(s \o t) = Range(s) \cup Range(t)
<1>1. /\ s \o t \in Seq(S) /\ Len(s \o t) = Len(s) + Len(t)
      /\ Len(s) \in Nat /\ Len(t) \in Nat
      /\ \A i \in 1..Len(s) : (s \o t)[i] = s[i]
      /\ \A i \in (Len(s) + 1)..(Len(s) + Len(t)) : (s \o t)[i] = t[i - Len(s)]
  OBVIOUS
<1>2. ASSUME NEW i \in 1..Len(s \o t)
      PROVE  (s \o t)[i] \in Range(s) \cup Range(t)
  <2>1. CASE i <= Len(s)
    <3>1. i \in 1..Len(s)
      BY <1>1, <2>1
    <3> QED BY <1>1, <3>1, RangeElements
  <2>2. CASE i > Len(s)
    <3>1. i - Len(s) \in 1..Len(t) /\ (s \o t)[i] = t[i - Len(s)]
      BY <1>1, <2>2
    <3> QED BY <3>1, RangeElements
  <2> QED BY <1>1, <2>1, <2>2
<1>3. ASSUME NEW j \in 1..Len(s)
      PROVE  s[j] \in Range(s \o t)
  <2>1. j \in 1..Len(s \o t) /\ (s \o t)[j] = s[j]
    BY <1>1
  <2> QED BY <1>1, <2>1, RangeElements
<1>4. ASSUME NEW j \in 1..Len(t)
      PROVE  t[j] \in Range(s \o t)
  <2>1. j + Len(s) \in 1..Len(s \o t) /\ (s \o t)[j + Len(s)] = t[j]
    BY <1>1
  <2> QED BY <1>1, <2>1, RangeElements
<1>5. /\ \A x \in Range(s) : \E i \in 1..Len(s) : x = s[i]
      /\ \A x \in Range(t) : \E i \in 1..Len(t) : x = t[i]
      /\ \A x \in Range(s \o t) : \E i \in 1..Len(s \o t) : x = (s \o t)[i]
  BY <1>1, RangeElements
<1> QED BY <1>1, <1>2, <1>3, <1>4, <1>5

-----------------------------------------------------------------------------
\* A commit that carries a candidate has a first one, and Rank is its position.
LEMMA RankIsFirst ==
  ASSUME TypeOK, NEW c \in Commits
  PROVE  /\ Rank(c) \in 1..(Len(candidates) + 1)
         /\ At(c) \subseteq 1..Len(candidates)
         /\ \A k \in At(c) : Rank(c) <= k
         /\ Rank(c) # Len(candidates) + 1 => Rank(c) \in At(c)
<1>1. Len(candidates) \in Nat /\ DOMAIN candidates = 1..Len(candidates)
  BY DEF TypeOK
<1>2. At(c) \subseteq 1..Len(candidates)
  BY <1>1 DEF At
<1>3. CASE At(c) = {}
  BY <1>1, <1>2, <1>3 DEF Rank
<1>4. CASE At(c) # {}
  <2>1. \E m \in At(c) : \A n \in At(c) : m <= n
    <3>1. At(c) \in SUBSET Nat
      BY <1>1, <1>2
    <3> QED BY <3>1, <1>4, LeastNatural
  <2>2. Rank(c) \in At(c) /\ \A n \in At(c) : Rank(c) <= n
    BY <2>1, <1>4 DEF Rank
  <2> QED BY <1>1, <1>2, <2>2
<1> QED BY <1>3, <1>4

\* The reachable commits are closed: HEAD, and the parents of whatever is carried.
LEMMA ReachableClosed ==
  ASSUME NEW r \in CheckoutType, r.head \in r.carried
  PROVE  /\ r.head \in Reachable(r)
         /\ \A c \in Reachable(r) \cap r.carried :
              \A p \in DOMAIN r.parents[c] : r.parents[c][p] \in Reachable(r)
<1>1. r.head \in Commits
  BY DEF CheckoutType
<1>2. ASSUME NEW c \in Reachable(r) \cap r.carried, NEW p \in DOMAIN r.parents[c]
      PROVE  r.parents[c][p] \in Commits
  BY DEF CheckoutType, Reachable
<1> QED BY <1>1, <1>2 DEF Reachable, Closed

LEMMA InitIInv == Init => IInv
<1> SUFFICES ASSUME Init PROVE IInv
  OBVIOUS
<1>1. checkout \in CheckoutType
  BY CheckoutsAssumption DEF Init
<1> QED BY <1>1 DEF Init, IInv, TypeOK, WalkInv, Outcomes

\* Once nothing is waiting, everything reachable has been expanded.
LEMMA EmptyQueueCovers ==
  ASSUME IInv, pc = "walk", queue = <<>>
  PROVE  Reachable(checkout) \subseteq seen
<1>1. Range(queue) = {}
  BY DEF Range
<1>2. Closed(checkout, seen) /\ seen \in SUBSET Commits
  BY <1>1 DEF IInv, TypeOK, WalkInv, Met, Closed
<1> QED BY <1>2 DEF Reachable

\* What the walk returns when it stops is the answer promised.
LEMMA FinishAnswers ==
  ASSUME IInv, Finish
  PROVE  Answers(checkout, outcome')
<1> DEFINE n == Len(candidates)
<1>1. /\ pc = "walk" /\ ~(queue # <<>> /\ best # 1)
      /\ outcome' = IF best = n + 1 THEN None ELSE Found(candidates[best])
  BY DEF Finish, Walking, Return
<1>2. /\ n \in Nat /\ best \in 1..(n + 1)
      /\ checkout \in CheckoutType /\ candidates \in Seq(Tags)
  BY DEF IInv, TypeOK
<1>3. /\ Eligible(checkout) # {} /\ checkout.head \in checkout.carried
      /\ candidates \in Orderings
      /\ best # n + 1 => checkout.target[candidates[best]] \in seen \cap checkout.carried
      /\ \A c \in seen : \A k \in At(c) : best <= k
      /\ seen \subseteq Reachable(checkout)
  BY <1>1 DEF IInv, WalkInv, Met
<1>4. checkout.head # NoCommit
  BY <1>2, <1>3, CheckoutAssumption DEF CheckoutType
<1>5. /\ \A k \in 1..n : candidates[k] \in Eligible(checkout)
      /\ \A k, l \in 1..n : k < l => Before(candidates[k], candidates[l])
      /\ \A i \in Eligible(checkout) : \E k \in 1..n : candidates[k] = i
  <2>1. PICK m \in 0..Len(Names) : candidates \in [1..m -> Eligible(checkout)]
    BY <1>3 DEF Orderings
  <2>2. DOMAIN candidates = 1..n /\ Sorted(candidates)
    BY <1>2, <1>3 DEF Orderings
  <2>3. 1..n = 1..m
    BY <2>1, <2>2
  <2> QED BY <2>1, <2>2, <2>3 DEF Sorted
<1>6. ASSUME NEW i \in ReachableTags(checkout)
      PROVE  \E k \in 1..n : candidates[k] = i /\ best <= k
  <2>1. /\ i \in Eligible(checkout)
        /\ checkout.target[i] \in checkout.carried /\ checkout.target[i] \in Reachable(checkout)
    BY DEF ReachableTags
  <2>2. PICK k \in 1..n : candidates[k] = i
    BY <1>5, <2>1
  <2>3. CASE best = 1
    BY <2>2, <2>3, <1>2
  <2>4. CASE queue = <<>>
    <3>1. checkout.target[i] \in seen
      BY <1>1, <2>1, <2>4, EmptyQueueCovers
    <3>2. k \in At(checkout.target[i])
      BY <2>1, <2>2, <1>2 DEF At
    <3> QED BY <3>1, <3>2, <2>2, <1>3
  <2> QED BY <1>1, <2>3, <2>4
<1>7. CASE best = n + 1
  <2>1. ReachableTags(checkout) = {}
    <3>1. SUFFICES ASSUME NEW i \in ReachableTags(checkout) PROVE FALSE
      OBVIOUS
    <3>2. PICK k \in 1..n : best <= k
      BY <1>6
    <3> QED BY <3>2, <1>2, <1>7
  <2> QED BY <2>1, <1>1, <1>3, <1>4, <1>7 DEF Answers
<1>8. CASE best # n + 1
  <2> DEFINE b == candidates[best]
  <2>1. best \in 1..n /\ b \in ReachableTags(checkout)
    <3>1. best \in 1..n
      BY <1>2, <1>8
    <3> QED BY <3>1, <1>3, <1>5, <1>8 DEF ReachableTags
  <2>2. ASSUME NEW j \in ReachableTags(checkout) \ {b} PROVE Before(b, j)
    <3>1. PICK k \in 1..n : candidates[k] = j /\ best <= k
      BY <1>6
    <3>2. best < k
      BY <3>1, <2>1, <1>2
    <3> QED BY <3>1, <3>2, <2>1, <1>5
  <2>3. outcome' = Found(b)
    BY <1>1, <1>8
  <2>4. ReachableTags(checkout) # {}
    BY <2>1
  <2> HIDE DEF b
  <2> QED BY <2>1, <2>2, <2>3, <2>4, <1>3, <1>4 DEF Answers
<1> QED BY <1>7, <1>8

\* An answer given before any walk is the one promised.
LEMMA EarlyAnswers ==
  ASSUME IInv, NoCandidate \/ UnbornHead \/ MissingHead
  PROVE  Answers(checkout, outcome')
BY DEF NoCandidate, UnbornHead, MissingHead, Return, Answers

\* A step that returns leaves the answer and nothing else.
LEMMA ReturnKeepsIInv ==
  ASSUME IInv, Answers(checkout, outcome'), outcome' \in Outcomes,
         pc' = "done", UNCHANGED <<checkout, candidates, seen, queue, best>>
  PROVE  IInv'
<1>1. TypeOK'
  BY DEF IInv, TypeOK
<1>2. Answers(checkout, outcome)'
  BY DEF Answers, Eligible, ReachableTags, Reachable, Closed
<1> QED BY <1>1, <1>2 DEF IInv, WalkInv

LEMMA StartKeepsIInv ==
  ASSUME IInv, Start
  PROVE  IInv'
<1>1. /\ pc = "start" /\ outcome = Unanswered /\ seen = {}
      /\ Eligible(checkout) # {} /\ checkout.head \in checkout.carried
      /\ candidates' \in Orderings /\ best' = Len(candidates') + 1
      /\ queue' = <<checkout.head>> /\ pc' = "walk"
      /\ checkout' = checkout /\ outcome' = outcome /\ seen' = seen
  BY DEF Start, IInv
<1>2. checkout \in CheckoutType /\ checkout.head \in Commits
  BY <1>1 DEF IInv, TypeOK, CheckoutType
<1>3. candidates' \in Seq(Tags) /\ Len(candidates') \in Nat
  <2>1. PICK m \in 0..Len(Names) : candidates' \in [1..m -> Eligible(checkout)]
    BY <1>1 DEF Orderings
  <2>2. Eligible(checkout) \subseteq Tags
    BY <1>2 DEF Eligible, CheckoutType
  <2>3. candidates' \in [1..m -> Tags]
    BY <2>1, <2>2
  <2> QED BY <2>3
<1>4. queue' \in Seq(Commits) /\ Range(queue') = {checkout.head}
  BY <1>1, <1>2 DEF Range
<1>5. TypeOK'
  BY <1>1, <1>2, <1>3, <1>4 DEF TypeOK, Outcomes
<1>6. WalkInv'
  <2>1. Met' = {checkout.head}
    BY <1>1, <1>4 DEF Met
  <2>2. checkout.head \in Reachable(checkout)
    BY <1>1, <1>2, ReachableClosed
  <2>3. Orderings' = Orderings
    BY <1>1 DEF Orderings, Sorted
  <2> QED BY <1>1, <2>1, <2>2, <2>3 DEF WalkInv
<1> QED BY <1>1, <1>5, <1>6 DEF IInv

\* Dropping a commit already seen from the queue loses nothing.
LEMMA SkipKeepsIInv ==
  ASSUME IInv, Skip
  PROVE  IInv'
<1>1. /\ pc = "walk" /\ queue # <<>> /\ Head(queue) \in seen
      /\ queue' = Tail(queue)
      /\ UNCHANGED <<checkout, outcome, pc, candidates, seen, best>>
  BY DEF Skip, Walking
<1>2. Tail(queue) \in Seq(Commits) /\ Range(queue) = {Head(queue)} \cup Range(queue')
  BY <1>1, TailElements DEF IInv, TypeOK
<1>3. Met' = Met
  BY <1>1, <1>2 DEF Met
<1>4. TypeOK'
  BY <1>1, <1>2 DEF IInv, TypeOK
<1>5. WalkInv'
  BY <1>1, <1>3 DEF IInv, WalkInv, Orderings, Sorted, At
<1> QED BY <1>1, <1>4, <1>5 DEF IInv

\* Expanding a commit meets its parents, and takes its candidates into account.
LEMMA VisitKeepsIInv ==
  ASSUME IInv, Visit
  PROVE  IInv'
<1> DEFINE h == Head(queue)
           pushed == IF h \in checkout.carried THEN checkout.parents[h] ELSE <<>>
<1>1. /\ pc = "walk" /\ queue # <<>> /\ h \notin seen
      /\ seen' = seen \cup {h} /\ best' = Improve(h)
      /\ queue' = Tail(queue) \o pushed
      /\ UNCHANGED <<checkout, outcome, pc, candidates>>
  BY DEF Visit, Walking
<1>2. /\ checkout \in CheckoutType /\ queue \in Seq(Commits) /\ seen \subseteq Commits
      /\ best \in 1..(Len(candidates) + 1) /\ candidates \in Seq(Tags)
      /\ Len(candidates) \in Nat
  BY DEF IInv, TypeOK
<1>3. /\ h \in Commits /\ Tail(queue) \in Seq(Commits)
      /\ Range(queue) = {h} \cup Range(Tail(queue))
  BY <1>1, <1>2, TailElements
<1>4. pushed \in Seq(Commits)
  BY <1>2, <1>3 DEF CheckoutType
<1>5. /\ queue' \in Seq(Commits)
      /\ Range(queue') = Range(Tail(queue)) \cup Range(pushed)
  <2> HIDE DEF pushed
  <2> QED BY <1>1, <1>3, <1>4, ConcatElements
<1>6. Met' = Met \cup Range(pushed)
  BY <1>1, <1>3, <1>5 DEF Met
<1>7. /\ checkout.head \in checkout.carried /\ h \in Reachable(checkout)
      /\ Met \subseteq Reachable(checkout) /\ checkout.head \in Met
  BY <1>1, <1>3 DEF IInv, WalkInv, Met
<1>8. /\ Rank(h) \in 1..(Len(candidates) + 1)
      /\ \A k \in At(h) : Rank(h) <= k
      /\ Rank(h) # Len(candidates) + 1 => Rank(h) \in At(h)
      /\ At(h) \subseteq 1..Len(candidates)
  BY <1>3, RankIsFirst DEF IInv
<1>9. /\ best' \in 1..(Len(candidates) + 1)
      /\ best' <= best /\ best' <= Rank(h)
      /\ best' = best \/ best' = Rank(h)
  BY <1>1, <1>2, <1>8 DEF Improve
<1>10. TypeOK'
  BY <1>1, <1>2, <1>3, <1>5, <1>9 DEF IInv, TypeOK
<1>11. Met' \subseteq Reachable(checkout)
  <2>1. ASSUME h \in checkout.carried, NEW c \in Range(pushed)
        PROVE  c \in Reachable(checkout)
    <3>1. PICK i \in DOMAIN checkout.parents[h] : c = checkout.parents[h][i]
      BY <2>1 DEF Range
    <3> QED BY <3>1, <1>2, <1>7, <2>1, ReachableClosed
  <2>2. CASE h \in checkout.carried
    BY <2>1, <2>2, <1>6, <1>7
  <2>3. CASE h \notin checkout.carried
    BY <2>3, <1>6, <1>7 DEF Range
  <2> QED BY <2>2, <2>3
<1>12. ASSUME NEW c \in seen' \cap checkout.carried, NEW p \in DOMAIN checkout.parents[c]
       PROVE  checkout.parents[c][p] \in Met'
  <2>1. CASE c = h
    <3>1. checkout.parents[c][p] \in Range(pushed)
      BY <2>1 DEF Range
    <3> QED BY <3>1, <1>6
  <2>2. CASE c \in seen
    <3>1. checkout.parents[c][p] \in Met
      BY <1>1, <2>2 DEF IInv, WalkInv
    <3> QED BY <3>1, <1>6
  <2> QED BY <1>1, <2>1, <2>2
<1>13. ASSUME best' # Len(candidates) + 1
       PROVE  checkout.target[candidates[best']] \in seen' \cap checkout.carried
  <2>1. CASE best' = best
    BY <1>1, <1>13, <2>1 DEF IInv, WalkInv
  <2>2. CASE best' = Rank(h)
    <3>1. best' \in At(h)
      BY <1>8, <1>13, <2>2
    <3> QED BY <1>1, <3>1 DEF At
  <2> QED BY <1>9, <2>1, <2>2
<1>14. ASSUME NEW c \in seen', NEW k \in At(c)
       PROVE  best' <= k
  <2>0. k \in Nat
    BY <1>2 DEF At
  <2>1. CASE c = h
    BY <1>2, <1>8, <1>9, <2>0, <2>1
  <2>2. CASE c \in seen
    <3>1. best <= k
      BY <1>1, <2>2 DEF IInv, WalkInv
    <3> QED BY <3>1, <1>2, <1>9, <2>0
  <2> QED BY <1>1, <2>1, <2>2
<1>15. WalkInv'
  <2>1. Orderings' = Orderings /\ \A c : At(c)' = At(c)
    BY <1>1 DEF Orderings, Sorted, At
  <2>2. outcome = Unanswered /\ Eligible(checkout) # {} /\ candidates \in Orderings
    BY <1>1 DEF IInv, WalkInv
  <2>3. checkout.head \in Met'
    BY <1>6, <1>7
  <2> HIDE DEF h, pushed
  <2> QED BY <1>1, <1>7, <1>11, <1>12, <1>13, <1>14, <2>1, <2>2, <2>3 DEF WalkInv
<1> QED BY <1>1, <1>10, <1>15 DEF IInv

\* The walk's invariant is inductive.
LEMMA NextIInv == IInv /\ [Next]_vars => IInv'
<1> SUFFICES ASSUME IInv, [Next]_vars PROVE IInv'
  OBVIOUS
<1>1. CASE NoCandidate \/ UnbornHead \/ MissingHead
  BY <1>1, EarlyAnswers, ReturnKeepsIInv
     DEF NoCandidate, UnbornHead, MissingHead, Return, Outcomes
<1>2. CASE Start
  BY <1>2, StartKeepsIInv
<1>3. CASE Skip
  BY <1>3, SkipKeepsIInv
<1>4. CASE Visit
  BY <1>4, VisitKeepsIInv
<1>5. CASE Finish
  <2>1. outcome' \in Outcomes
    <3>1. best # Len(candidates) + 1 => candidates[best] \in Tags
      BY DEF IInv, TypeOK
    <3> QED BY <1>5, <3>1 DEF Finish, Return, Outcomes
  <2> QED BY <1>5, <2>1, FinishAnswers, ReturnKeepsIInv DEF Finish, Return
<1>6. CASE UNCHANGED vars
  <2>1. TypeOK' /\ (pc' = "done" => Answers(checkout, outcome)')
    BY <1>6 DEF vars, IInv, TypeOK, Answers, Eligible, ReachableTags, Reachable, Closed
  <2>2. WalkInv'
    BY <1>6 DEF vars, IInv, WalkInv, Met, Orderings, Sorted, At
  <2> QED BY <1>6, <2>1, <2>2 DEF vars, IInv
<1> QED BY <1>1, <1>2, <1>3, <1>4, <1>5, <1>6 DEF Next

-----------------------------------------------------------------------------
\* The inductive invariant holds of every walk (Reference, git.go:271-333): it
\* meets only what HEAD reaches and loses no parent on the way.
THEOREM WalkIsInvariant == Spec => []IInv
BY InitIInv, NextIInv, PTL DEF Spec

\* On every checkout, whatever Reference returns is the answer promised: the
\* highest eligible tag reachable from HEAD, or nothing, or the failure to read HEAD.
THEOREM AnswersAreRight == Spec => [](pc = "done" => Answers(checkout, outcome))
<1>1. IInv => (pc = "done" => Answers(checkout, outcome))
  BY DEF IInv
<1> QED BY <1>1, WalkIsInvariant, PTL

\* The walk implements the one-step promise: its initial states are initial
\* there, and each step either answers as promised or is a stutter.
THEOREM KeepsItsPromise == Spec => KeepsPromise
<1>1. Init => Promise!Init
  BY CheckoutsAssumption DEF Init, Promise!Init
<1>2. IInv /\ IInv' /\ [Next]_vars => [Promise!Next]_<<checkout, outcome>>
  <2> SUFFICES ASSUME IInv, IInv', [Next]_vars
               PROVE  [Promise!Next]_<<checkout, outcome>>
    OBVIOUS
  <2>1. CASE NoCandidate \/ UnbornHead \/ MissingHead
    <3>1. outcome = Unanswered /\ UNCHANGED checkout
      BY <2>1 DEF NoCandidate, UnbornHead, MissingHead, Return, IInv
    <3> QED BY <2>1, <3>1, EarlyAnswers DEF IInv, TypeOK, Promise!Next, Promise!Answer
  <2>2. CASE Finish
    <3>1. outcome = Unanswered /\ UNCHANGED checkout
      BY <2>2 DEF Finish, Return, IInv, WalkInv
    <3> QED BY <2>2, <3>1, FinishAnswers DEF IInv, TypeOK, Promise!Next, Promise!Answer
  <2>3. CASE Start \/ Skip \/ Visit \/ UNCHANGED vars
    BY <2>3 DEF Start, Skip, Visit, vars
  <2> QED BY <2>1, <2>2, <2>3 DEF Next
<1> QED BY <1>1, <1>2, WalkIsInvariant, PTL DEF Spec, KeepsPromise

-----------------------------------------------------------------------------
(* The bound on the queue                                                  *)

\* The invariant behind QueueBounded: what it counts is finite, and nothing is queued
\* before the walk.
CountInv == /\ IsFiniteSet(seen) /\ IsFiniteSet(Edges(seen))
            /\ pc = "start" => queue = <<>> /\ seen = {}
            /\ QueueBounded

\* Of finite sets apart from each other, the union has as many elements as both.
LEMMA CountsAdd ==
  ASSUME NEW S, NEW T, IsFiniteSet(S), IsFiniteSet(T), S \cap T = {}
  PROVE  /\ IsFiniteSet(S \cup T) /\ Cardinality(S) \in Nat /\ Cardinality(T) \in Nat
         /\ Cardinality(S \cup T) = Cardinality(S) + Cardinality(T)
<1>1. /\ IsFiniteSet(S \cup T) /\ IsFiniteSet(S \cap T)
      /\ Cardinality(S \cup T) = Cardinality(S) + Cardinality(T) - Cardinality(S \cap T)
  BY FS_Union, FS_EmptySet
<1>2. Cardinality(S) \in Nat /\ Cardinality(T) \in Nat /\ Cardinality(S \cap T) = 0
  BY FS_CardinalityType, FS_EmptySet
<1>3. QED
  BY <1>1, <1>2

\* A carried commit has as many edges as parents.
LEMMA EdgesOfOne ==
  ASSUME NEW h, NEW s \in Seq(Commits)
  PROVE  /\ IsFiniteSet({<<h, p>> : p \in DOMAIN s})
         /\ Cardinality({<<h, p>> : p \in DOMAIN s}) = Len(s)
<1> DEFINE T == {<<h, p>> : p \in 1..Len(s)}
           f == [p \in 1..Len(s) |-> <<h, p>>]
<1>1. Len(s) \in Nat /\ DOMAIN s = 1..Len(s)
  OBVIOUS
<1>2. IsFiniteSet(1..Len(s)) /\ Cardinality(1..Len(s)) = Len(s)
  BY <1>1, FS_Interval
<1>3. f \in Bijection(1..Len(s), T)
  BY DEF Bijection, Injection, Surjection, IsInjective
<1>4. IsFiniteSet(T) /\ Cardinality(T) = Cardinality(1..Len(s))
  <2> HIDE DEF T, f
  <2>1. QED
    BY <1>2, <1>3, FS_Bijection DEF ExistsBijection
<1>5. QED
  BY <1>1, <1>2, <1>4

\* A visit pushes one commit for each edge of the one it expands.
LEMMA VisitCounts ==
  ASSUME IInv, CountInv, Visit
  PROVE  CountInv'
<1> DEFINE h == Head(queue)
           pushed == IF h \in checkout.carried THEN checkout.parents[h] ELSE <<>>
           new == IF h \in checkout.carried THEN {<<h, p>> : p \in DOMAIN pushed} ELSE {}
<1>1. /\ pc = "walk" /\ queue # <<>> /\ h \notin seen
      /\ seen' = seen \cup {h} /\ queue' = Tail(queue) \o pushed
      /\ checkout' = checkout /\ pc' = pc
  BY DEF Visit, Walking
<1>2. /\ queue \in Seq(Commits) /\ h \in Commits /\ pushed \in Seq(Commits)
  BY <1>1 DEF IInv, TypeOK, CheckoutType
<1>3. /\ Len(queue') = Len(queue) - 1 + Len(pushed)
      /\ Len(queue) \in Nat /\ Len(pushed) \in Nat
  <2> HIDE DEF h, pushed
  <2>1. QED
    BY <1>1, <1>2
<1>4. IsFiniteSet(new) /\ Cardinality(new) = Len(pushed)
  <2>1. CASE h \in checkout.carried
    <3> HIDE DEF pushed
    <3>1. QED
      BY <1>2, <2>1, EdgesOfOne
  <2>2. CASE h \notin checkout.carried
    BY <2>2, FS_EmptySet
  <2>3. QED
    BY <2>1, <2>2
<1>5. Edges(seen)' = Edges(seen) \cup new
  <2>1. Edges(seen)' = UNION {{<<c, p>> : p \in DOMAIN checkout.parents[c]} :
                                c \in (seen \cup {h}) \cap checkout.carried}
    BY <1>1 DEF Edges
  <2>2. CASE h \in checkout.carried
    <3>1. (seen \cup {h}) \cap checkout.carried = (seen \cap checkout.carried) \cup {h}
      BY <2>2
    <3>2. new = {<<h, p>> : p \in DOMAIN checkout.parents[h]}
      BY <2>2
    <3> HIDE DEF h, new
    <3>3. QED
      BY <2>1, <3>1, <3>2 DEF Edges
  <2>3. CASE h \notin checkout.carried
    <3>1. (seen \cup {h}) \cap checkout.carried = seen \cap checkout.carried
      BY <2>3
    <3>2. new = {}
      BY <2>3
    <3>3. QED
      BY <2>1, <3>1, <3>2 DEF Edges
  <2>4. QED
    BY <2>2, <2>3
<1>6. Edges(seen) \cap new = {}
  BY <1>1 DEF Edges
<1>7. seen \cap {h} = {} /\ IsFiniteSet({h}) /\ Cardinality({h}) = 1
  BY <1>1, FS_Singleton
<1>8. /\ IsFiniteSet(seen') /\ Cardinality(seen) \in Nat
      /\ Cardinality(seen') = Cardinality(seen) + 1
  BY <1>1, <1>7, CountsAdd DEF CountInv
<1>9. /\ IsFiniteSet(Edges(seen)') /\ Cardinality(Edges(seen)) \in Nat
      /\ Cardinality(Edges(seen)') = Cardinality(Edges(seen)) + Len(pushed)
  <2> HIDE DEF new
  <2>1. QED
    BY <1>4, <1>5, <1>6, CountsAdd DEF CountInv
<1>10. Len(queue) + Cardinality(seen) <= 1 + Cardinality(Edges(seen))
  BY DEF CountInv, QueueBounded
<1>11. Len(queue') + Cardinality(seen') <= 1 + Cardinality(Edges(seen)')
  <2> HIDE DEF pushed
  <2>1. QED
    BY <1>3, <1>8, <1>9, <1>10
<1>12. QED
  BY <1>1, <1>8, <1>9, <1>11 DEF CountInv, QueueBounded

\* A step that leaves what was seen and the checkout, and does not lengthen the queue.
LEMMA OthersCount ==
  ASSUME CountInv, UNCHANGED <<checkout, seen>>, Len(queue) \in Nat, Len(queue') \in Nat,
         Len(queue') <= Len(queue), pc' # "start" \/ UNCHANGED <<pc, queue>>
  PROVE  CountInv'
<1>1. Edges(seen)' = Edges(seen)
  BY DEF Edges
<1>2. Cardinality(seen) \in Nat /\ Cardinality(Edges(seen)) \in Nat
  BY FS_CardinalityType DEF CountInv
<1>3. Len(queue') + Cardinality(seen) <= 1 + Cardinality(Edges(seen))
  BY <1>2 DEF CountInv, QueueBounded
<1>4. QED
  BY <1>1, <1>3 DEF CountInv, QueueBounded

\* git.go:303-333: the walk costs the edges of the history and not its paths.
THEOREM QueueStaysBounded == Spec => []QueueBounded
<1>1. Init => CountInv
  <2>1. SUFFICES ASSUME Init PROVE CountInv
    OBVIOUS
  <2>2. queue = <<>> /\ seen = {} /\ Edges(seen) = {}
    BY <2>1 DEF Init, Edges
  <2>3. Cardinality({}) = 0 /\ IsFiniteSet({})
    BY FS_EmptySet
  <2>4. QED
    BY <2>2, <2>3 DEF CountInv, QueueBounded
<1>2. IInv /\ CountInv /\ [Next]_vars => CountInv'
  <2>1. SUFFICES ASSUME IInv, CountInv, [Next]_vars PROVE CountInv'
    OBVIOUS
  <2>2. queue \in Seq(Commits) /\ Len(queue) \in Nat
    BY <2>1 DEF IInv, TypeOK
  <2>3. CASE NoCandidate \/ UnbornHead \/ MissingHead \/ Finish
    <3>1. pc' = "done" /\ UNCHANGED <<checkout, seen, queue>>
      BY <2>3 DEF NoCandidate, UnbornHead, MissingHead, Finish, Return
    <3>2. QED
      BY <2>1, <2>2, <3>1, OthersCount
  <2>4. CASE Start
    <3>1. /\ queue' = <<checkout.head>> /\ pc' = "walk" /\ seen' = seen /\ checkout' = checkout
          /\ seen = {}
      BY <2>1, <2>4 DEF Start, CountInv
    <3>2. Edges(seen) = {} /\ Edges(seen)' = {}
      BY <3>1 DEF Edges
    <3>3. Cardinality({}) = 0 /\ IsFiniteSet({}) /\ Len(queue') = 1
      BY <3>1, FS_EmptySet
    <3>4. QED
      BY <3>1, <3>2, <3>3 DEF CountInv, QueueBounded
  <2>5. CASE Skip
    <3>1. /\ queue # <<>> /\ queue' = Tail(queue) /\ pc' = "walk" /\ UNCHANGED <<checkout, seen>>
      BY <2>5 DEF Skip, Walking
    <3>2. Len(queue') \in Nat /\ Len(queue') <= Len(queue)
      BY <2>2, <3>1
    <3>3. QED
      BY <2>1, <2>2, <3>1, <3>2, OthersCount
  <2>6. CASE Visit
    BY <2>1, <2>6, VisitCounts
  <2>7. CASE UNCHANGED vars
    <3>1. UNCHANGED <<checkout, seen, pc, queue>>
      BY <2>7 DEF vars
    <3>2. QED
      BY <2>1, <2>2, <3>1, OthersCount
  <2>8. QED
    BY <2>1, <2>3, <2>4, <2>5, <2>6, <2>7 DEF Next
<1>3. CountInv => QueueBounded
  BY DEF CountInv
<1>4. QED
  BY <1>1, <1>2, <1>3, WalkIsInvariant, PTL DEF Spec

-----------------------------------------------------------------------------
(* The order of tags                                                       *)

\* What Before compares two tags by: their versions, the components they spell, their place.
LEMMA BeforeIs ==
  ASSUME NEW i, NEW j
  PROVE  LET c == Compare(ParseTag(Names[i]), ParseTag(Names[j]))
             d == Compare(ParseTag(Names[j]), ParseTag(Names[i]))
             m == TagComponents(Names[i])
             n == TagComponents(Names[j])
         IN  Before(i, j) <=> \/ c > 0 \/ (c = 0 /\ m > n)
                              \/ ~(d > 0 \/ (d = 0 /\ n > m)) /\ i < j
BY DEF Before, Outranks

\* Tags that name versions are ordered one before the other, without a circle.
LEMMA TagsOrdered ==
  ASSUME NEW i \in Tags, NEW j \in Tags, NEW k \in Tags,
         NamesVersion(Names[i]), NamesVersion(Names[j]), NamesVersion(Names[k])
  PROVE  /\ ~Before(i, i)
         /\ i # j => Before(i, j) \/ Before(j, i)
         /\ ~(Before(i, j) /\ Before(j, i))
         /\ Before(i, j) /\ Before(j, k) => Before(i, k)
<1> DEFINE v == ParseTag(Names[i])
           w == ParseTag(Names[j])
           u == ParseTag(Names[k])
<1>1. i \in Int /\ j \in Int /\ k \in Int
  BY CheckoutAssumption DEF Tags
<1>2. Names[i] \in TagForms /\ Names[j] \in TagForms /\ Names[k] \in TagForms
  BY CheckoutAssumption DEF Tags
<1>3. v \in Versions /\ w \in Versions /\ u \in Versions
  BY <1>2, NamedVersion
<1>4. /\ TagComponents(Names[i]) \in Int /\ TagComponents(Names[j]) \in Int
      /\ TagComponents(Names[k]) \in Int
  BY <1>2, NamedVersion
<1> HIDE DEF v, w, u
<1>5. /\ Compare(v, v) \in Comparisons /\ Compare(v, v) = -Compare(v, v)
      /\ Compare(v, w) \in Comparisons /\ Compare(w, v) = -Compare(v, w)
      /\ Compare(w, u) \in Comparisons /\ Compare(u, w) = -Compare(w, u)
      /\ Compare(v, u) \in Comparisons /\ Compare(u, v) = -Compare(v, u)
  BY <1>3, VersionsOrdered
<1>6. Chained(Compare(u, w), Compare(w, v), Compare(u, v))
  BY <1>3, VersionsChain
<1>7. ~Before(i, i)
  BY <1>1, <1>4, <1>5, BeforeIs DEF v, Comparisons
<1>8. i # j => Before(i, j) \/ Before(j, i)
  BY <1>1, <1>4, <1>5, BeforeIs DEF v, w, Comparisons
<1>9. ~(Before(i, j) /\ Before(j, i))
  BY <1>1, <1>4, <1>5, BeforeIs DEF v, w, Comparisons
<1>10. Before(i, j) /\ Before(j, k) => Before(i, k)
  BY <1>1, <1>4, <1>5, <1>6, BeforeIs DEF v, w, u, Comparisons, Chained
<1>11. QED
  BY <1>7, <1>8, <1>9, <1>10

\* The highest of some tags.
Best(S, i) == i \in S /\ \A j \in S \ {i} : Before(i, j)

\* Among tags that name versions one is the highest, and only one.
LEMMA OneIsBest ==
  ASSUME NEW S \in SUBSET Tags, \A i \in S : NamesVersion(Names[i])
  PROVE  /\ S # {} => \E i \in S : Best(S, i)
         /\ \A i, j : Best(S, i) /\ Best(S, j) => i = j
<1> DEFINE ahead(i) == {j \in S : Before(j, i)}
           counts == {Cardinality(ahead(i)) : i \in S}
<1>1. IsFiniteSet(S)
  <2>1. Tags = 1..Len(Names) /\ Len(Names) \in Nat
    BY CheckoutAssumption DEF Tags
  <2>2. IsFiniteSet(1..Len(Names)) /\ S \in SUBSET (1..Len(Names))
    BY <2>1, FS_Interval
  <2>3. QED
    BY <2>2, FS_Subset
<1>2. \A i : IsFiniteSet(ahead(i)) /\ Cardinality(ahead(i)) \in Nat
  <2>1. TAKE i
  <2>2. ahead(i) \in SUBSET S
    OBVIOUS
  <2> HIDE DEF ahead
  <2>3. QED
    BY <1>1, <2>2, FS_Subset, FS_CardinalityType
<1>3. ASSUME S # {} PROVE \E i \in S : Best(S, i)
  <2>1. counts \in SUBSET Nat /\ counts # {}
    <3> HIDE DEF ahead
    <3>1. QED
      BY <1>2, <1>3
  <2>2. PICK m \in counts : \A n \in counts : m <= n
    <3> HIDE DEF counts
    <3>1. QED
      BY <2>1, LeastNatural
  <2>3. PICK i \in S : m = Cardinality(ahead(i))
    BY <2>2
  <2>4. ASSUME NEW j \in S \ {i} PROVE Before(i, j)
    <3>1. SUFFICES ASSUME Before(j, i) PROVE FALSE
      BY TagsOrdered
    <3>2. ahead(j) \in SUBSET ahead(i)
      BY <3>1, TagsOrdered
    <3>3. j \in ahead(i) /\ j \notin ahead(j)
      BY <3>1, TagsOrdered
    <3>4. Cardinality(ahead(j)) < Cardinality(ahead(i))
      <4> HIDE DEF ahead
      <4>1. ahead(j) # ahead(i)
        BY <3>3
      <4>2. /\ Cardinality(ahead(j)) <= Cardinality(ahead(i))
            /\ Cardinality(ahead(j)) = Cardinality(ahead(i)) => ahead(i) = ahead(j)
        BY <1>2, <3>2, FS_Subset
      <4>3. QED
        BY <1>2, <4>1, <4>2
    <3>5. Cardinality(ahead(j)) \in counts
      OBVIOUS
    <3> HIDE DEF ahead, counts
    <3>6. QED
      BY <1>2, <2>2, <2>3, <3>4, <3>5
  <2>5. QED
    BY <2>4 DEF Best
<1>4. ASSUME NEW i, NEW j, Best(S, i), Best(S, j) PROVE i = j
  BY <1>4, TagsOrdered DEF Best
<1>5. QED
  BY <1>3, <1>4

-----------------------------------------------------------------------------
(* What a run reads from a clone: module Reading                           *)

\* What a history is made of: the entries of its changelogs, its commits, the tags cut.
EntryType == [kind : {"version"}, ver : Versions, date : Int, body : {"a"},
              sections : {<<"Added">>}, link : {FALSE}]
CommitType == [parents : Seq(Nat), doc : Seq(EntryType), moment : Nat, zone : {-1, 0, 1}]
CutType == [kind : {"none", "annotated", "light"}, commit : Nat \cup {NoCommit},
            moment : Nat, zone : {-1, 0, 1}]

\* The history is one line of commits.
Line == \A c \in 1..Len(history) :
          /\ c \in Commits
          /\ history[c].parents = IF c = 1 THEN <<>> ELSE <<c - 1>>

\* A tag that was cut is at a commit of the history.
CutsLand == \A i \in Tags : cuts[i].commit \in 1..Len(history) \cup {NoCommit}

\* The inductive invariant of a history.
HistoryInv == /\ now \in Nat
              /\ history \in Seq(CommitType)
              /\ cuts \in [Tags -> CutType]
              /\ Line /\ CutsLand

\* The calendar day of a moment is a number, and zones shift it by a day at most.
LEMMA DayIs ==
  ASSUME NEW m \in Nat, NEW z \in {-1, 0, 1}
  PROVE  /\ Day(m, z) \in Int
         /\ \A n \in Nat : n >= m + 2 => UtcDay(n) >= Day(m, z)
<1>1. ASSUME NEW n \in Nat, NEW k \in Int PROVE Day(n, k) = ((n + k) \div 2) + 2
  BY DEF Day
<1>2. ASSUME NEW n \in Nat PROVE UtcDay(n) = (n \div 2) + 2
  BY DEF Day, UtcDay
<1>3. ASSUME NEW a \in Int, NEW b \in Int, a <= b
      PROVE  a \div 2 \in Int /\ b \div 2 \in Int /\ a \div 2 <= b \div 2
  BY <1>3
<1>4. z \in Int /\ m + z \in Int /\ Day(m, z) = ((m + z) \div 2) + 2
  <2>1. z \in Int /\ m \in Int
    OBVIOUS
  <2>2. QED
    BY <1>1, <2>1
<1>5. Day(m, z) \in Int
  BY <1>3, <1>4
<1>6. ASSUME NEW n \in Nat, n >= m + 2 PROVE UtcDay(n) >= Day(m, z)
  <2>1. m + z <= n
    BY <1>6
  <2>2. (m + z) \div 2 \in Int /\ n \div 2 \in Int /\ (m + z) \div 2 <= n \div 2
    BY <1>3, <1>4, <2>1
  <2>3. QED
    BY <1>2, <1>4, <2>2
<1>7. QED
  BY <1>5, <1>6

\* A history begins as one line.
LEMMA HistoryStarts == HistoryInit => HistoryInv
<1> SUFFICES ASSUME HistoryInit PROVE HistoryInv
  OBVIOUS
<1>1. history = <<>> /\ now = 0 /\ cuts = [i \in Tags |-> Uncut]
  BY DEF HistoryInit
<1>2. Uncut \in CutType /\ Uncut.commit = NoCommit
  BY DEF Uncut, CutType
<1>3. cuts \in [Tags -> CutType] /\ CutsLand
  <2>1. \A i \in Tags : cuts[i] = Uncut
    BY <1>1
  <2>2. QED
    BY <1>1, <1>2, <2>1 DEF CutsLand
<1>4. QED
  BY <1>1, <1>3 DEF HistoryInv, Line

\* Every changelog a commit may carry is a sequence of entries.
LEMMA DocsTyped ==
  ASSUME HistoryInv, NEW zone \in Zones, NEW doc \in Docs(zone)
  PROVE  doc \in Seq(EntryType)
<1> DEFINE entry(i, by) ==
             Entry(i, IF by = "utc" THEN UtcDay(now) ELSE Day(now, zone))
<1>1. Standing \in Seq(EntryType)
  <2>1. CASE history = <<>>
    BY <2>1 DEF Standing
  <2>2. CASE history # <<>>
    <3>1. Len(history) \in DOMAIN history
      BY <2>2 DEF HistoryInv
    <3>2. history[Len(history)] \in CommitType
      BY <3>1 DEF HistoryInv
    <3>3. QED
      BY <2>2, <3>2 DEF CommitType, Standing
  <2>3. QED
    BY <2>1, <2>2
<1>2. ASSUME NEW i \in Tags, NEW by PROVE entry(i, by) \in EntryType
  <2>1. ParseTag(Names[i]) \in Versions
    <3>1. Names[i] \in TagForms /\ NamesVersion(Names[i])
      BY CheckoutAssumption, ReadingAssumption DEF Tags
    <3>2. QED
      BY <3>1, NamedVersion
  <2>2. UtcDay(now) \in Int /\ Day(now, zone) \in Int
    <3>1. now \in Nat /\ zone \in {-1, 0, 1}
      BY ReadingAssumption DEF HistoryInv
    <3>2. QED
      BY <3>1, DayIs DEF UtcDay
  <2>3. QED
    BY <2>1, <2>2 DEF Entry, EntryType
<1>3. \/ doc = Standing
      \/ Standing # <<>> /\ doc = Tail(Standing)
      \/ \E i \in Tags, by \in Dating : doc = <<entry(i, by)>> \o Standing
  <2> DEFINE above == {i \in Tags : \/ Standing = <<>>
                                 \/ Compare(ParseTag(Names[i]), Standing[1].ver) > 0}
             cut == {Tail(d) : d \in {Standing} \ {<<>>}}
             added == {<<entry(i, by)>> \o Standing : i \in above, by \in Dating}
  <2>1. Docs(zone) = {Standing} \cup cut \cup added
    BY SMT DEF Docs, Tags, Tags
  <2>2. doc \in cut => Standing # <<>> /\ doc = Tail(Standing)
    OBVIOUS
  <2>3. ASSUME doc \in added PROVE \E i \in Tags, by \in Dating : doc = <<entry(i, by)>> \o Standing
    <3> HIDE DEF entry
    <3>1. PICK i \in above, by \in Dating : doc = <<entry(i, by)>> \o Standing
      BY <2>3
    <3>2. QED
      BY <3>1
  <2> HIDE DEF cut, added
  <2>4. QED
    BY <2>1, <2>2, <2>3
<1>4. CASE doc = Standing
  BY <1>1, <1>4
<1>5. CASE Standing # <<>> /\ doc = Tail(Standing)
  BY <1>1, <1>5
<1>6. ASSUME NEW i \in Tags, NEW by \in Dating, doc = <<entry(i, by)>> \o Standing
      PROVE  doc \in Seq(EntryType)
  <2>1. entry(i, by) \in EntryType
    BY <1>2
  <2> HIDE DEF entry
  <2>2. QED
    BY <1>1, <1>6, <2>1
<1>7. QED
  BY <1>3, <1>4, <1>5, <1>6

\* Every step of the history keeps it one line, with its tags on it.
LEMMA HistoryStays ==
  ASSUME HistoryInv, [HistoryNext]_historyVars
  PROVE  HistoryInv'
<1>1. /\ now \in Nat /\ history \in Seq(CommitType) /\ cuts \in [Tags -> CutType]
      /\ Len(history) \in Nat /\ DOMAIN history = 1..Len(history)
  BY DEF HistoryInv
<1>2. CASE Commit
  <2>1. PICK zone \in Zones : \E doc \in Docs(zone) :
          history' = Append(history, [parents |-> Tip, doc |-> doc, moment |-> now, zone |-> zone])
    BY <1>2 DEF Commit
  <2>2. PICK doc \in Docs(zone) :
          history' = Append(history, [parents |-> Tip, doc |-> doc, moment |-> now, zone |-> zone])
    BY <2>1
  <2>3. Len(history) + 1 \in Commits /\ UNCHANGED <<cuts, now>>
    BY <1>2 DEF Commit
  <2> DEFINE new == [parents |-> Tip, doc |-> doc, moment |-> now, zone |-> zone]
  <2>4. Tip = IF Len(history) = 0 THEN <<>> ELSE <<Len(history)>>
    BY <1>1 DEF Tip
  <2>5. new \in CommitType
    <3>1. Tip \in Seq(Nat)
      BY <1>1, <2>4
    <3>2. doc \in Seq(EntryType)
      BY DocsTyped
    <3>3. zone \in {-1, 0, 1}
      BY ReadingAssumption
    <3>4. QED
      BY <1>1, <3>1, <3>2, <3>3 DEF CommitType
  <2>6. new.parents = Tip
    OBVIOUS
  <2> HIDE DEF new
  <2>7. /\ history' \in Seq(CommitType) /\ Len(history') = Len(history) + 1
        /\ \A c \in 1..Len(history) : history'[c] = history[c]
        /\ history'[Len(history) + 1] = new
    BY <1>1, <2>2, <2>5 DEF new
  <2>8. Line'
    <3>1. SUFFICES ASSUME NEW c \in 1..(Len(history) + 1)
                   PROVE  /\ c \in Commits
                          /\ history'[c].parents = IF c = 1 THEN <<>> ELSE <<c - 1>>
      BY <2>7 DEF Line
    <3>2. CASE c \in 1..Len(history)
      BY <2>7, <3>2 DEF HistoryInv, Line
    <3>3. CASE c = Len(history) + 1
      BY <1>1, <2>3, <2>4, <2>6, <2>7, <3>3
    <3>4. QED
      BY <1>1, <3>2, <3>3
  <2>9. CutsLand'
    <3>1. \A i \in Tags : cuts[i].commit \in 1..Len(history) \cup {NoCommit}
      BY DEF HistoryInv, CutsLand
    <3>2. 1..Len(history) \subseteq 1..Len(history')
      BY <1>1, <2>7
    <3>3. QED
      BY <2>3, <3>1, <3>2 DEF CutsLand
  <2>10. QED
    BY <1>1, <2>3, <2>7, <2>8, <2>9 DEF HistoryInv
<1>3. CASE Cut
  <2>1. PICK i \in Tags, c \in DOMAIN history, kind \in {"annotated", "light"}, zone \in Zones :
          cuts' = [cuts EXCEPT ![i] = [kind |-> kind, commit |-> c, moment |-> now, zone |-> zone]]
    BY <1>3, Zenon DEF Cut
  <2> DEFINE new == [kind |-> kind, commit |-> c, moment |-> now, zone |-> zone]
  <2>2. new \in CutType /\ new.commit = c
    <3>1. c \in Nat /\ zone \in {-1, 0, 1} /\ kind \in {"none", "annotated", "light"}
      BY <1>1, ReadingAssumption
    <3>2. QED
      BY <1>1, <3>1 DEF CutType
  <2>3. UNCHANGED <<history, now>>
    BY <1>3 DEF Cut
  <2> HIDE DEF new
  <2>4. cuts' \in [Tags -> CutType]
    BY <1>1, <2>1, <2>2 DEF new
  <2>5. \A j \in Tags : cuts'[j] = IF j = i THEN new ELSE cuts[j]
    BY <1>1, <2>1 DEF new
  <2>6. CutsLand'
    BY <1>1, <2>2, <2>3, <2>5 DEF CutsLand, HistoryInv
  <2>7. Line'
    BY <2>3 DEF Line, HistoryInv
  <2>8. QED
    BY <1>1, <2>3, <2>4, <2>6, <2>7 DEF HistoryInv
<1>4. CASE Tick
  BY <1>1, <1>4 DEF Tick, HistoryInv, Line, CutsLand
<1>5. CASE UNCHANGED historyVars
  BY <1>1, <1>5 DEF historyVars, HistoryInv, Line, CutsLand
<1>6. QED
  BY <1>2, <1>3, <1>4, <1>5 DEF HistoryNext

\* A history that grows stays one line of typed commits, whose tags are on it: what the
\* reading of a clone (main.go:178-228) is proved from.
THEOREM HistoryIsALine == HistorySpec => []HistoryInv
<1>1. HistoryInit => HistoryInv
  BY HistoryStarts
<1>2. HistoryInv /\ [HistoryNext]_historyVars => HistoryInv'
  BY HistoryStays
<1>3. QED
  BY <1>1, <1>2, PTL DEF HistorySpec

\* What the reading of a checkout lists, where it is read: every tag the checkout has, in
\* order, with its day.
LEMMA StateLists ==
  ASSUME NEW r, r.tags \in SUBSET Tags, State(r).kind = "read"
  PROVE  LET tags == Ascending(r.tags)
             g == State(r)
         IN  /\ Ascends(r.tags, tags)
             /\ g.tags \in Seq({Names[i] : i \in Tags}) /\ DOMAIN g.tags = 1..Len(tags)
             /\ \A k \in 1..Len(tags) : /\ tags[k] \in Tags
                                        /\ g.tags[k] = Names[tags[k]]
                                        /\ g.days[k] = TagDay(tags[k])
<1> DEFINE tags == Ascending(r.tags)
           g == State(r)
<1>1. Ascends(r.tags, tags)
  <2>1. Tags = 1..Len(Names) /\ Len(Names) \in Nat
    BY CheckoutAssumption DEF Tags
  <2>2. QED
    BY <2>1, AscendingIs
<1> HIDE DEF tags
<1>2. /\ Len(tags) \in Nat /\ DOMAIN tags = 1..Len(tags)
      /\ \A k \in 1..Len(tags) : tags[k] \in Tags
  BY <1>1 DEF Ascends
<1>3. /\ g.tags = [k \in DOMAIN tags |-> Names[tags[k]]]
      /\ g.days = [k \in DOMAIN tags |-> TagDay(tags[k])]
  <2>1. Ascending(r.tags) = tags
    BY DEF tags
  <2>2. Unread.kind # "read"
    BY DEF Unread
  <2>3. QED
    BY <2>1, <2>2 DEF State
<1> HIDE DEF g
<1>4. g.tags \in Seq({Names[i] : i \in Tags})
  BY <1>2, <1>3
<1>5. QED
  BY <1>1, <1>2, <1>3, <1>4 DEF tags, g

\* No two tags name the same version, however they spell it.
AtMostOneEach ==
  \A s, t \in Tags : Compare(ParseTag(Names[s]), ParseTag(Names[t])) = 0 => s = t

\* An entry dated in the moment its tag was cut agrees with the tag, in any clone.
LEMMA HonestAgrees ==
  ASSUME AtMostOneEach, NEW head, NEW r, r.tags \in SUBSET Tags,
         NEW i, Honest(head, i)
  PROVE  i \notin DateMismatch(history[head].doc, State(r))
<1> DEFINE g == State(r)
           e == history[head].doc[i]
           n == TagNaming(g, e.ver)
<1>1. PICK c \in DOMAIN history, t \in Tags :
        /\ ParseTag(Names[t]) = e.ver /\ cuts[t].commit = c
        /\ e.date = Day(history[c].moment, history[c].zone)
        /\ cuts[t].moment = history[c].moment /\ cuts[t].zone = history[c].zone
  BY DEF Honest
<1>2. TagDay(t) = e.date
  BY <1>1 DEF TagDay
<1> DEFINE tags == Ascending(r.tags)
           N == Naming(g, e.ver)
<1>3. ASSUME g.kind = "read", NEW m \in N
      PROVE  m \in 1..Len(tags) /\ tags[m] = t
  <2>1. /\ DOMAIN g.tags = 1..Len(tags)
        /\ \A k \in 1..Len(tags) : tags[k] \in Tags /\ g.tags[k] = Names[tags[k]]
    BY <1>3, StateLists
  <2> HIDE DEF g, tags
  <2>2. m \in 1..Len(tags) /\ Compare(ParseTag(g.tags[m]), e.ver) = 0
    BY <2>1 DEF Naming
  <2>3. Compare(ParseTag(Names[tags[m]]), ParseTag(Names[t])) = 0
    BY <1>1, <2>1, <2>2
  <2>4. QED
    BY <2>1, <2>2, <2>3 DEF AtMostOneEach
<1>4. ASSUME n # 0 PROVE g.days[n] = e.date
  <2>1. g.kind = "read" /\ N # {}
    BY <1>4 DEF TagNaming
  <2>2. /\ Ascends(r.tags, tags)
        /\ \A k \in 1..Len(tags) : g.days[k] = TagDay(tags[k])
    BY <2>1, StateLists
  <2>3. PICK m \in N : TRUE
    BY <2>1
  <2>4. \A k \in N : k \in 1..Len(tags) /\ tags[k] = t
    BY <1>3, <2>1
  <2>5. t \in Int
    BY CheckoutAssumption DEF Tags
  <2> HIDE DEF g, tags, N
  <2>6. \A k \in N : k = m
    BY <2>2, <2>3, <2>4, <2>5 DEF Ascends
  <2>7. n \in N
    <3>1. m \in Int
      BY <2>3, <2>4
    <3>2. \A k \in N : \/ TagComponents(g.tags[m]) > TagComponents(g.tags[k])
                       \/ TagComponents(g.tags[m]) = TagComponents(g.tags[k]) /\ m <= k
      BY <2>6, <3>1
    <3>3. QED
      BY <2>1, <2>3, <3>2 DEF TagNaming, N
  <2>8. QED
    BY <1>2, <2>2, <2>4, <2>7
<1>5. DayOf(g, n) \in {0, e.date}
  BY <1>4 DEF DayOf
<1>6. QED
  BY <1>5 DEF DateMismatch

\* CHANGELOG.md:127-134, git.go:61-101: on every history, in every zone and by either
\* kind of tag, an entry dated by the day its author cut the release agrees with its tag,
\* and a day later it is not in the future either.
THEOREM HonestDates ==
  ASSUME AtMostOneEach
  PROVE  HistorySpec => []HonestDatesSettle
<1>1. HistoryInv => HonestDatesSettle
  <2>1. SUFFICES ASSUME HistoryInv,
                        NEW head \in Newest, NEW i \in DOMAIN history[head].doc,
                        Honest(head, i)
                 PROVE  /\ i \notin DateMismatch(history[head].doc, State(Whole(head)))
                        /\ \A c \in DOMAIN history :
                             /\ history[head].doc[i].date = Day(history[c].moment, history[c].zone)
                             /\ now >= history[c].moment + 2
                             => i \notin DateFuture(history[head].doc, UtcDay(now))
    BY DEF HonestDatesSettle
  <2>2. Whole(head).tags \in SUBSET Tags
    BY DEF Whole, Clone
  <2>3. i \notin DateMismatch(history[head].doc, State(Whole(head)))
    BY <2>1, <2>2, HonestAgrees
  <2>4. ASSUME NEW c \in DOMAIN history,
               history[head].doc[i].date = Day(history[c].moment, history[c].zone),
               now >= history[c].moment + 2
        PROVE  i \notin DateFuture(history[head].doc, UtcDay(now))
    <3>1. now \in Nat /\ history[c].moment \in Nat /\ history[c].zone \in {-1, 0, 1}
      <4>1. now \in Nat /\ history[c] \in CommitType
        BY <2>1 DEF HistoryInv
      <4>2. QED
        BY <4>1 DEF CommitType
    <3>2. UtcDay(now) >= history[head].doc[i].date /\ history[head].doc[i].date \in Int
      BY <2>4, <3>1, DayIs
    <3>3. UtcDay(now) \in Int
      BY <3>1, DayIs DEF UtcDay
    <3>4. QED
      BY <3>2, <3>3 DEF DateFuture
  <2>5. QED
    BY <2>3, <2>4
<1>2. QED
  BY <1>1, HistoryIsALine, PTL

\* The newest commit is the last of the line, and all before it are commits.
LEMMA NewestIs ==
  ASSUME HistoryInv, NEW head \in Newest
  PROVE  /\ head \in Nat /\ head >= 1 /\ head = Len(history) /\ DOMAIN history = 1..head
         /\ \A c \in 1..head : c \in Commits
         /\ \A c \in 1..head : history[c].parents = IF c = 1 THEN <<>> ELSE <<c - 1>>
<1>1. Len(history) \in Nat /\ DOMAIN history = 1..Len(history)
  BY DEF HistoryInv
<1>2. head = Len(history) /\ head \in DOMAIN history
  BY DEF Newest
<1>3. \A c \in 1..Len(history) :
        c \in Commits /\ history[c].parents = IF c = 1 THEN <<>> ELSE <<c - 1>>
  BY Zenon DEF HistoryInv, Line
<1>4. head \in 1..Len(history)
  BY <1>1, <1>2
<1>5. head \in Nat /\ head >= 1
  BY <1>1, <1>4
<1>6. QED
  BY <1>1, <1>2, <1>3, <1>5, Zenon

\* What a commit's parents are, as a set.
LEMMA LineParents ==
  ASSUME HistoryInv, NEW c \in 1..Len(history)
  PROVE  ToSet(history[c].parents) = IF c = 1 THEN {} ELSE {c - 1}
<1>1. history[c].parents = IF c = 1 THEN <<>> ELSE <<c - 1>>
  BY DEF HistoryInv, Line
<1>2. QED
  BY <1>1 DEF ToSet

\* The commits within a depth of the newest.
Window(head, n) == {c \in 1..head : c = head \/ c > head - n}

\* The commits a clone of some depth carries are the newest of them.
LEMMA CarriedIs ==
  ASSUME HistoryInv, NEW head \in Newest, NEW depth \in Nat
  PROVE  Carried(head, depth) = Window(head, depth)
<1> DEFINE from(n, near) ==
             IF n <= 1 THEN {head}
             ELSE UNION {{c} \cup ToSet(history[c].parents) : c \in near[n - 1]}
           F == [n \in Nat |-> Window(head, n)]
           f == CHOOSE near : near = [n \in Nat |-> from(n, near)]
<1>1. head \in Nat /\ head >= 1 /\ head = Len(history)
  BY NewestIs
<1>2. ASSUME NEW n \in Nat PROVE Window(head, n) = from(n, F)
  <2>1. CASE n <= 1
    <3>1. \A c \in 1..head : c > head - n => c = head
      BY <1>1, <2>1
    <3>2. QED
      BY <1>1, <2>1, <3>1 DEF Window
  <2>2. CASE n > 1
    <3> DEFINE step(c) == {c} \cup ToSet(history[c].parents)
    <3>1. n - 1 \in Nat /\ F[n - 1] = Window(head, n - 1)
      BY <2>2
    <3>2. \A c \in 1..head : step(c) = IF c = 1 THEN {c} ELSE {c, c - 1}
      BY <1>1, LineParents
    <3> HIDE DEF step
    <3>3. ASSUME NEW x \in Window(head, n)
          PROVE  \E c \in Window(head, n - 1) : x \in step(c)
      <4>1. CASE x \in Window(head, n - 1)
        BY <3>2, <4>1 DEF Window
      <4>2. CASE x \notin Window(head, n - 1)
        <5>1. x \in 1..head /\ x # head /\ x > head - n /\ ~(x > head - (n - 1))
          BY <4>2 DEF Window
        <5>2. x + 1 \in 1..head /\ (x + 1) > head - (n - 1)
          BY <1>1, <5>1
        <5>3. x + 1 \in Window(head, n - 1)
          BY <5>2 DEF Window
        <5>4. x \in step(x + 1)
          BY <3>2, <5>1, <5>2
        <5>5. QED
          BY <5>3, <5>4
      <4>3. QED
        BY <4>1, <4>2
    <3>4. ASSUME NEW c \in Window(head, n - 1), NEW x \in step(c)
          PROVE  x \in Window(head, n)
      <4>1. c \in 1..head /\ (c = head \/ c > head - (n - 1))
        BY DEF Window
      <4>2. x = c \/ (c # 1 /\ x = c - 1)
        BY <3>2, <4>1
      <4>3. x \in 1..head /\ (x = head \/ x > head - n)
        BY <1>1, <2>2, <4>1, <4>2
      <4>4. QED
        BY <4>3 DEF Window
    <3>5. Window(head, n) = UNION {step(c) : c \in Window(head, n - 1)}
      BY <3>3, <3>4
    <3>6. QED
      BY <2>2, <3>1, <3>5 DEF step
  <2>3. n <= 1 \/ n > 1
    OBVIOUS
  <2> HIDE DEF F, from
  <2>4. QED
    BY <2>1, <2>2, <2>3, Zenon
<1>3. F = [n \in Nat |-> from(n, F)]
  <2>1. \A n \in Nat : F[n] = from(n, F)
    BY <1>2
  <2>2. F = [n \in Nat |-> F[n]]
    OBVIOUS
  <2> HIDE DEF F, from
  <2>3. [n \in Nat |-> F[n]] = [n \in Nat |-> from(n, F)]
    BY <2>1
  <2>4. QED
    BY <2>2, <2>3, Zenon
<1>4. f = [n \in Nat |-> from(n, f)]
  <2> HIDE DEF F, from
  <2>1. \E near : near = [n \in Nat |-> from(n, near)]
    BY <1>3
  <2>2. QED
    BY <2>1
<1> HIDE DEF f
<1>5. \A n \in Nat : f[n] = from(n, f)
  <2> HIDE DEF from
  <2>1. QED
    BY <1>4
<1>6. ASSUME NEW n \in Nat PROVE f[n] = F[n]
  <2> DEFINE bad == {k \in Nat : f[k] # F[k]}
  <2>1. SUFFICES ASSUME bad # {} PROVE FALSE
    BY <2>1
  <2>2. PICK m \in bad : \A k \in bad : m <= k
    <3>1. bad \in SUBSET Nat
      OBVIOUS
    <3> HIDE DEF bad
    <3>2. QED
      BY <2>1, <3>1, LeastNatural
  <2>3. m \in Nat /\ f[m] # F[m]
    BY <2>2
  <2>4. F[m] = from(m, F) /\ f[m] = from(m, f)
    <3> HIDE DEF from
    <3>1. QED
      BY <1>2, <1>5, <2>3
  <2>5. CASE m <= 1
    BY <2>3, <2>4, <2>5
  <2>6. CASE m > 1
    <3>1. m - 1 \in Nat /\ m - 1 \notin bad
      BY <2>2, <2>3, <2>6
    <3>2. f[m - 1] = F[m - 1]
      BY <3>1
    <3> HIDE DEF F
    <3>3. QED
      BY <2>3, <2>4, <2>6, <3>2
  <2>7. QED
    BY <2>3, <2>5, <2>6
<1>7. Carried(head, depth) = f[depth]
  BY DEF Carried, f
<1>8. QED
  BY <1>6, <1>7

\* From the newest commit every commit of a window is reached, in a clone that carries it.
LEMMA WindowReached ==
  ASSUME HistoryInv, NEW head \in Newest, NEW n \in Nat,
         NEW r, r.head = head, r.carried = Window(head, n),
         \A c \in 1..head : r.parents[c] = history[c].parents
  PROVE  Window(head, n) \subseteq Reachable(r)
<1>1. head \in Nat /\ head = Len(history) /\ \A c \in 1..head : c \in Commits
  BY NewestIs
<1>2. ASSUME NEW x \in Window(head, n), NEW S, Closed(r, S), x \notin S
      PROVE  FALSE
  <2> DEFINE missed == {k \in Nat : head - k \in Window(head, n) /\ head - k \notin S}
  <2>1. head - (head - x) = x /\ head - x \in Nat
    BY <1>1 DEF Window
  <2>2. missed # {}
    BY <1>2, <2>1
  <2>3. PICK k \in missed : \A l \in missed : k <= l
    <3>1. missed \in SUBSET Nat
      OBVIOUS
    <3> HIDE DEF missed
    <3>2. QED
      BY <2>2, <3>1, LeastNatural
  <2>4. k \in Nat /\ head - k \in Window(head, n) /\ head - k \notin S
    BY <2>3
  <2>5. k # 0
    BY <1>1, <1>2, <2>4 DEF Closed
  <2> DEFINE c == head - (k - 1)
  <2>6. c \in 1..head /\ c # 1 /\ c - 1 = head - k /\ c \in Window(head, n) /\ k - 1 \in Nat
    BY <1>1, <2>4, <2>5 DEF Window
  <2>7. k - 1 \notin missed
    BY <2>3, <2>6
  <2>8. c \in S
    BY <2>6, <2>7
  <2>9. history[c].parents = <<c - 1>>
    BY <2>6, NewestIs
  <2>10. r.parents[c] = <<c - 1>>
    BY <2>6, <2>9
  <2> HIDE DEF c
  <2>11. c - 1 \in S
    <3>1. 1 \in DOMAIN r.parents[c] /\ r.parents[c][1] = c - 1
      BY <2>10
    <3>2. c \in S \cap r.carried
      BY <2>6, <2>8
    <3>3. QED
      BY <1>2, <3>1, <3>2 DEF Closed
  <2>12. QED
    BY <2>4, <2>6, <2>11
<1>3. Window(head, n) \subseteq Commits
  BY <1>1 DEF Window
<1>4. QED
  BY <1>2, <1>3 DEF Reachable

\* The tags that may be the reference tag in a clone: those of final versions on the
\* commits it carries.
Candidates(W) == {i \in Tags : cuts[i].commit \in W /\ ~Prerelease(ParseTag(Names[i]))}

\* What a clone of a line answers: the highest of its tags, where it has any.
LEMMA CloneAnswers ==
  ASSUME HistoryInv, NEW head \in Newest, NEW depth \in Nat
  PROVE  LET r == Clone(head, depth)
             o == CHOOSE o \in Outcomes : Answers(r, o)
             C == Candidates(Window(head, depth))
         IN  \/ C = {} /\ o = None
             \/ \E i \in C : Best(C, i) /\ o = Found(i)
<1> DEFINE W == Window(head, depth)
           r == Clone(head, depth)
           C == Candidates(W)
           o == CHOOSE o \in Outcomes : Answers(r, o)
<1>1. /\ r.carried = W /\ r.head = head /\ r.admit = "final"
      /\ r.tags = {i \in Tags : cuts[i].commit \in W}
      /\ \A i \in Tags : r.target[i] = cuts[i].commit
      /\ \A c \in 1..head : r.parents[c] = history[c].parents
  <2>1. Carried(head, depth) = W
    BY CarriedIs
  <2>2. head = Len(history) /\ DOMAIN history = 1..head /\ \A c \in 1..head : c \in Commits
    BY NewestIs
  <2> HIDE DEF W
  <2>3. QED
    BY <2>1, <2>2 DEF Clone
<1>2. head \in W /\ head \in Commits /\ head # NoCommit
  <2>1. head = Len(history) /\ head \in 1..head /\ \A c \in 1..head : c \in Commits
    BY NewestIs
  <2>2. QED
    BY <2>1, CheckoutAssumption DEF Window
<1>3. W \subseteq Reachable(r)
  <2> HIDE DEF r, W
  <2>1. QED
    BY <1>1, WindowReached DEF W
<1> HIDE DEF W, r
<1>4. Eligible(r) = C /\ ReachableTags(r) = C
  <2>1. Eligible(r) = C
    BY <1>1, ReadingAssumption DEF Eligible, Candidates
  <2>2. QED
    BY <1>1, <1>3, <2>1 DEF ReachableTags, Candidates
<1>5. C \in SUBSET Tags /\ \A i \in C : NamesVersion(Names[i])
  BY ReadingAssumption DEF Candidates
<1> HIDE DEF C
<1>6. \A a : Answers(r, a) <=> IF C = {} THEN a = None ELSE \E i \in C : a = Found(i) /\ Best(C, i)
  BY <1>1, <1>2, <1>4 DEF Answers, Best
<1>7. o = CHOOSE a \in Outcomes : Answers(r, a)
  OBVIOUS
<1>8. CASE C = {}
  <2>1. None \in Outcomes /\ Answers(r, None)
    BY <1>6, <1>8 DEF Outcomes
  <2>2. Answers(r, o)
    BY <1>7, <2>1
  <2>3. o = None
    BY <1>6, <1>8, <2>2
  <2>4. QED
    BY <1>8, <2>3 DEF C, W, r
<1>9. CASE C # {}
  <2>1. PICK i \in C : Best(C, i)
    BY <1>5, <1>9, OneIsBest
  <2>2. Found(i) \in Outcomes /\ Answers(r, Found(i))
    BY <1>5, <1>6, <1>9, <2>1 DEF Outcomes
  <2>3. Answers(r, o)
    BY <1>7, <2>2
  <2>4. \E j \in C : o = Found(j) /\ Best(C, j)
    BY <1>6, <1>9, <2>3
  <2>5. QED
    BY <2>4 DEF C, W, r
<1>10. QED
  BY <1>8, <1>9

\* The reading of a checkout whose reference tag is i.
ReadsTag(g, i) == /\ g.kind = "read" /\ g.was = FileAt(i)
                  /\ g.ref # 0 /\ g.tags[g.ref] = Names[i]

\* That of one that has no reference tag.
ReadsNone(g) == g.kind = "read" /\ g.was = <<>> /\ g.ref = 0

\* What is read of a checkout that answers with a tag.
LEMMA StateOfFound ==
  ASSUME NEW r, r.tags \in SUBSET Tags, NEW i \in r.tags,
         (CHOOSE o \in Outcomes : Answers(r, o)) = Found(i)
  PROVE  ReadsTag(State(r), i)
<1> DEFINE tags == Ascending(r.tags)
           g == State(r)
           ref == CHOOSE k \in DOMAIN tags : tags[k] = i
<1>1. Ascends(r.tags, tags)
  <2>1. Tags = 1..Len(Names) /\ Len(Names) \in Nat
    BY CheckoutAssumption DEF Tags
  <2>2. QED
    BY <2>1, AscendingIs
<1>2. i \in Nat /\ i # 0
  BY CheckoutAssumption DEF Tags
<1>3. Ascending(r.tags) = tags
  BY DEF tags
<1> HIDE DEF tags
<1>4. ref \in DOMAIN tags /\ tags[ref] = i /\ ref # 0
  <2>1. /\ \E k \in 1..Len(tags) : tags[k] = i
        /\ DOMAIN tags = 1..Len(tags) /\ Len(tags) \in Nat
    BY <1>1 DEF Ascends
  <2>2. ref \in DOMAIN tags /\ tags[ref] = i
    BY <2>1
  <2> HIDE DEF ref
  <2>3. QED
    BY <2>1, <2>2
<1>5. /\ Found(i) # Failed /\ Found(i) # None
      /\ Found(i).kind = "found" /\ Found(i).tag = i
  BY DEF Found, Failed, None
<1>6. g = [kind |-> "read",
           tags |-> [k \in DOMAIN tags |-> Names[tags[k]]],
           days |-> [k \in DOMAIN tags |-> TagDay(tags[k])],
           ref  |-> ref,
           was  |-> FileAt(i)]
  BY <1>2, <1>3, <1>5 DEF State
<1> HIDE DEF g, ref
<1>7. QED
  BY <1>4, <1>6 DEF ReadsTag, g

\* And of one that answers with none: it is not read if it is shallow.
LEMMA StateOfNone ==
  ASSUME NEW r, (CHOOSE o \in Outcomes : Answers(r, o)) = None
  PROVE  IF Shallow(r) THEN State(r).kind # "read" ELSE ReadsNone(State(r))
<1>1. None # Failed /\ None.kind # "found"
  BY DEF None, None, Failed
<1>2. CASE Shallow(r)
  BY <1>1, <1>2 DEF State, Unread
<1>3. CASE ~Shallow(r)
  BY <1>1, <1>3 DEF State, ReadsNone
<1>4. QED
  BY <1>2, <1>3

\* A clone that is not shallow carries the whole line.
LEMMA DeepIsWhole ==
  ASSUME HistoryInv, NEW head \in Newest, NEW depth \in 1..Len(history),
         ~Shallow(Clone(head, depth))
  PROVE  Clone(head, depth) = Whole(head)
<1>1. /\ head \in Nat /\ head >= 1 /\ head = Len(history) /\ DOMAIN history = 1..head
      /\ \A c \in 1..head : c \in Commits
      /\ \A c \in 1..head : history[c].parents = IF c = 1 THEN <<>> ELSE <<c - 1>>
  BY NewestIs
<1>2. depth \in Nat /\ depth >= 1 /\ depth <= head
  BY <1>1
<1>3. /\ Carried(head, depth) = Window(head, depth)
      /\ Carried(head, Len(history)) = Window(head, head)
  BY <1>1, <1>2, CarriedIs
<1>4. depth = head
  <2>1. SUFFICES ASSUME depth < head PROVE FALSE
    BY <1>1, <1>2
  <2> DEFINE c == head - depth + 1
             r == Clone(head, depth)
  <2>2. c \in 1..head /\ c # 1 /\ c \in Window(head, depth) /\ c - 1 \notin Window(head, depth)
    BY <1>1, <1>2, <2>1 DEF Window
  <2>3. history[c].parents = <<c - 1>> /\ c \in Commits /\ c \in DOMAIN history
    BY <1>1, <2>2
  <2>4. r.carried = Window(head, depth) /\ r.parents[c] = <<c - 1>>
    BY <1>3, <2>3 DEF Clone
  <2>5. 1 \in DOMAIN r.parents[c] /\ r.parents[c][1] = c - 1
    BY <2>4
  <2> HIDE DEF c, r
  <2>6. Shallow(r)
    BY <2>2, <2>4, <2>5 DEF Shallow
  <2>7. QED
    BY <2>6 DEF r
<1>5. QED
  BY <1>1, <1>4 DEF Whole

\* Where releases rise, the highest tag of a window that has any is that of the whole line.
LEMMA WindowHasTheHighest ==
  ASSUME HistoryInv, Rising, NEW head \in Newest, NEW depth \in Nat,
         NEW p, Best(Candidates(Window(head, depth)), p),
         NEW w, Best(Candidates(Window(head, head)), w)
  PROVE  p = w
<1>1. /\ head \in Nat /\ \A c \in 1..head : c \in Commits
  BY NewestIs
<1>2. Window(head, depth) \subseteq 1..head /\ Window(head, head) = 1..head
  BY <1>1 DEF Window
<1>3. /\ p \in Tags /\ cuts[p].commit \in Window(head, depth)
      /\ w \in Tags /\ cuts[w].commit \in 1..head
      /\ p \in Candidates(Window(head, head))
      /\ NamesVersion(Names[p]) /\ NamesVersion(Names[w])
  BY <1>2, ReadingAssumption DEF Best, Candidates
<1>4. ASSUME p # w PROVE FALSE
  <2>1. Before(w, p)
    BY <1>3, <1>4 DEF Best
  <2>2. ~Before(p, w)
    BY <1>3, <2>1, TagsOrdered
  <2>3. w \notin Candidates(Window(head, depth))
    BY <1>4, <2>2 DEF Best
  <2>4. cuts[w].commit \notin Window(head, depth)
    BY <2>3 DEF Best, Candidates
  <2>5. cuts[w].commit < cuts[p].commit
    BY <1>1, <1>3, <2>4 DEF Window
  <2>6. cuts[w] # Uncut /\ cuts[p] # Uncut
    <3>1. cuts[w].commit # NoCommit /\ cuts[p].commit # NoCommit
      BY <1>1, <1>2, <1>3, CheckoutAssumption
    <3>2. QED
      BY <3>1 DEF Uncut
  <2>7. Compare(ParseTag(Names[w]), ParseTag(Names[p])) < 0
    BY <1>3, <2>5, <2>6 DEF Rising
  <2>8. ParseTag(Names[w]) \in Versions /\ ParseTag(Names[p]) \in Versions
    BY <1>3, NamedVersion, CheckoutAssumption DEF Tags
  <2>9. /\ Compare(ParseTag(Names[w]), ParseTag(Names[p])) \in Comparisons
        /\ Compare(ParseTag(Names[p]), ParseTag(Names[w]))
             = -Compare(ParseTag(Names[w]), ParseTag(Names[p]))
    BY <2>8, VersionsOrdered
  <2>10. Before(p, w)
    BY <2>7, <2>9, BeforeIs DEF Comparisons
  <2>11. QED
    BY <2>2, <2>10
<1>5. QED
  BY <1>4

\* main.go:198-208: on every history that is one line along which releases rise, a clone
\* of any depth reads the reference tag of the whole, with its changelog, or is not read.
THEOREM ShallowReads ==
  HistorySpec => []ShallowIsWholeOrRefused
<1>1. HistoryInv => ShallowIsWholeOrRefused
  <2>1. SUFFICES ASSUME HistoryInv, Rising,
                        NEW head \in Newest, NEW depth \in 1..Len(history),
                        State(Clone(head, depth)).kind = "read"
                 PROVE  LET part == State(Clone(head, depth))
                            whole == State(Whole(head))
                        IN  /\ part.was = whole.was
                            /\ part.ref # 0 => whole.ref # 0 /\ part.tags[part.ref] = whole.tags[whole.ref]
                            /\ part.ref = 0 => whole.ref = 0
    BY DEF ShallowIsWholeOrRefused
  <2> DEFINE r == Clone(head, depth)
             a == Whole(head)
             C == Candidates(Window(head, depth))
             D == Candidates(Window(head, head))
             answer(x) == CHOOSE o \in Outcomes : Answers(x, o)
  <2>2. head \in Nat /\ head = Len(history) /\ depth \in Nat
    BY <2>1, NewestIs
  <2>3. (C = {} /\ answer(r) = None) \/ \E i \in C : Best(C, i) /\ answer(r) = Found(i)
    BY <2>1, <2>2, CloneAnswers
  <2>4. (D = {} /\ answer(a) = None) \/ \E i \in D : Best(D, i) /\ answer(a) = Found(i)
    BY <2>1, <2>2, CloneAnswers DEF Whole
  <2>5. /\ r.tags \in SUBSET Tags /\ a.tags \in SUBSET Tags
        /\ C \subseteq r.tags /\ D \subseteq a.tags
    <3>1. /\ Carried(head, depth) = Window(head, depth)
          /\ Carried(head, Len(history)) = Window(head, head)
      BY <2>1, <2>2, CarriedIs
    <3>2. /\ r.tags = {i \in Tags : cuts[i].commit \in Window(head, depth)}
          /\ a.tags = {i \in Tags : cuts[i].commit \in Window(head, head)}
      BY <3>1 DEF Clone, Whole
    <3> HIDE DEF r, a
    <3>3. QED
      BY <3>2 DEF Candidates
  <2>6. C \subseteq D
    BY <2>2 DEF Candidates, Window
  <2> HIDE DEF C, D
  <2>7. CASE answer(r) = None
    <3>1. ~Shallow(r)
      BY <2>1, <2>7, StateOfNone
    <3>2. r = a
      BY <2>1, <3>1, DeepIsWhole
    <3>3. QED
      BY <3>2
  <2>8. ASSUME NEW p \in C, Best(C, p), answer(r) = Found(p)
        PROVE  ReadsTag(State(r), p) /\ ReadsTag(State(a), p)
    <3>1. PICK w \in D : Best(D, w) /\ answer(a) = Found(w)
      BY <2>4, <2>6, <2>8
    <3>2. p = w
      BY <2>1, <2>2, <2>8, <3>1, WindowHasTheHighest DEF C, D
    <3> HIDE DEF r, a
    <3>3. ReadsTag(State(r), p)
      BY <2>5, <2>8, StateOfFound
    <3>4. ReadsTag(State(a), w)
      BY <2>5, <3>1, StateOfFound
    <3>5. QED
      BY <3>2, <3>3, <3>4
  <2>9. CASE \E p \in C : Best(C, p) /\ answer(r) = Found(p)
    <3>1. PICK p \in C : ReadsTag(State(r), p) /\ ReadsTag(State(a), p)
      <4> HIDE DEF r, a, answer
      <4>1. QED
        BY <2>8, <2>9
    <3>2. QED
      BY <3>1 DEF ReadsTag
  <2>10. QED
    <3>1. answer(r) = None \/ \E p \in C : Best(C, p) /\ answer(r) = Found(p)
      BY <2>3
    <3> HIDE DEF r, a, answer
    <3>2. QED
      BY <2>7, <2>9, <3>1 DEF r, a
<1>2. QED
  BY <1>1, HistoryIsALine, PTL
=============================================================================
