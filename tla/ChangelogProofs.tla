---------------------------- MODULE ChangelogProofs ----------------------------
(***************************************************************************)
(* Lemmas about the operators of modules Semver and Changelog, for the     *)
(* proofs about readings, releases and edits: precedence is a total order  *)
(* on versions of any length, up to build metadata, a version reads back   *)
(* from the tags that spell it, and what the checks say of documents of    *)
(* any length and of any tags.                                             *)
(*                                                                         *)
(* Nothing here needs induction over a sequence: Decide looks for the      *)
(* first place where two sequences differ, and the naturals are well       *)
(* ordered.                                                                *)
(***************************************************************************)
EXTENDS Changelog, NaturalsInduction, WellFoundedInduction, FiniteSetTheorems, TLAPS

\* A non-empty set of naturals has a least element.
LEMMA LeastNatural ==
  ASSUME NEW T \in SUBSET Nat, T # {}
  PROVE  \E m \in T : \A n \in T : m <= n
<1> DEFINE R == {ss \in Nat \X Nat : ss[1] < ss[2]}
<1>1. IsWellFoundedOn(R, Nat)
  BY NatLessThanWellFounded, Zenon DEF OpToRel
<1>2. PICK m \in T : \A n \in T : <<n, m>> \notin R
  <2> HIDE DEF R
  <2> QED BY <1>1, WFMin
<1>3. ASSUME NEW n \in T PROVE m <= n
  <2>1. ~(n < m)
    BY <1>2, n \in Nat, m \in Nat
  <2> QED BY <2>1
<1> QED BY <1>3

\* Induction over the numbers up to n, for a set of them.
LEMMA UpTo ==
  ASSUME NEW n \in Nat, NEW T, 0 \in T, \A i \in 1..n : i - 1 \in T => i \in T
  PROVE  \A i \in 0..n : i \in T
<1> DEFINE bad == (0..n) \ T
<1>1. SUFFICES ASSUME bad # {} PROVE FALSE
  OBVIOUS
<1>2. PICK m \in bad : \A k \in bad : m <= k
  <2>1. bad \in SUBSET Nat
    OBVIOUS
  <2> HIDE DEF bad
  <2>2. QED
    BY <1>1, <2>1, LeastNatural
<1>3. m \in 1..n /\ m - 1 \in 0..n
  BY <1>2
<1>4. m - 1 \notin bad
  BY <1>2, <1>3
<1>5. QED
  BY <1>2, <1>3, <1>4

\* What Compare and the comparisons under it answer.
Comparisons == {-1, 0, 1}

\* Of the answers about (a, b), (b, c) and (a, c): where neither of the first two is
\* "higher", nor is the third, and it is a tie only where both of them are.
Chained(p, q, r) == p <= 0 /\ q <= 0 => r <= 0 /\ (r = 0 <=> p = 0 /\ q = 0)

\* Integers compare to one of three answers, which reverses with its operands, and chain.
LEMMA CmpOrders ==
  ASSUME NEW a \in Int, NEW b \in Int
  PROVE  /\ Cmp(a, b) \in Comparisons
         /\ Cmp(b, a) = -Cmp(a, b)
         /\ Cmp(a, b) = 0 <=> a = b
         /\ Cmp(a, b) < 0 <=> a < b
  BY DEF Cmp, Comparisons

LEMMA CmpChains ==
  ASSUME NEW a \in Int, NEW b \in Int, NEW c \in Int
  PROVE  Chained(Cmp(a, b), Cmp(b, c), Cmp(a, c))
  BY DEF Cmp, Chained

-----------------------------------------------------------------------------
(* Place by place                                                          *)

\* Without a difference the lengths decide.
LEMMA DecideLevel ==
  ASSUME NEW cmps, NEW m, NEW n, \A i \in DOMAIN cmps : cmps[i] = 0
  PROVE  Decide(cmps, m, n) = Cmp(m, n)
<1>1. {i \in DOMAIN cmps : cmps[i] # 0} = {}
  OBVIOUS
<1>2. QED
  BY <1>1, Zenon DEF Decide

Lower(m, n) == IF m <= n THEN m ELSE n

\* The first difference decides.
LEMMA DecideAt ==
  ASSUME NEW m \in Nat, NEW n \in Nat, NEW cmps \in [1..Lower(m, n) -> Comparisons]
  PROVE  \A i \in 1..Lower(m, n) :
           cmps[i] # 0 /\ (\A j \in 1..Lower(m, n) : j < i => cmps[j] = 0)
             => Decide(cmps, m, n) = cmps[i]
<1> DEFINE k == Lower(m, n)
           D == {j \in DOMAIN cmps : cmps[j] # 0}
<1>0. k \in Nat
  BY DEF Lower
<1> SUFFICES ASSUME NEW i \in 1..k, cmps[i] # 0, \A j \in 1..k : j < i => cmps[j] = 0
             PROVE  Decide(cmps, m, n) = cmps[i]
  OBVIOUS
<1>1. i \in D /\ D \subseteq 1..k /\ \A j \in D : i <= j
  BY <1>0
<1>2. \A h \in D : (\A j \in D : h <= j) => h = i
  BY <1>1
<1>3. (CHOOSE h \in D : \A j \in D : h <= j) = i
  <2> HIDE DEF D
  <2> QED BY <1>1, <1>2
<1>4. D # {}
  BY <1>1
<1>5. Decide(cmps, m, n) = cmps[CHOOSE h \in D : \A j \in D : h <= j]
  BY <1>4, Zenon DEF Decide
<1>6. QED
  BY <1>3, <1>5

\* One of the two is the case.
LEMMA FirstDifference ==
  ASSUME NEW k \in Nat, NEW cmps \in [1..k -> Comparisons]
  PROVE  \/ \A i \in 1..k : cmps[i] = 0
         \/ \E i \in 1..k : cmps[i] # 0 /\ \A j \in 1..k : j < i => cmps[j] = 0
<1> DEFINE D == {j \in 1..k : cmps[j] # 0}
<1>1. SUFFICES ASSUME D # {} PROVE \E i \in D : \A j \in D : i <= j
  OBVIOUS
<1>2. D \in SUBSET Nat
  OBVIOUS
<1>3. QED
  BY <1>1, <1>2, LeastNatural

\* Reversing the answers and the lengths reverses the decision.
LEMMA DecideReverses ==
  ASSUME NEW m \in Nat, NEW n \in Nat,
         NEW there \in [1..Lower(m, n) -> Comparisons], NEW back \in [1..Lower(m, n) -> Comparisons],
         \A i \in 1..Lower(m, n) : back[i] = -there[i]
  PROVE  /\ Decide(there, m, n) \in Comparisons
         /\ Decide(back, n, m) = -Decide(there, m, n)
<1> DEFINE k == Lower(m, n)
<1>0. k \in Nat
  BY DEF Lower
<1>1. CASE \A i \in 1..k : there[i] = 0
  <2>1. \A i \in 1..k : back[i] = 0
    BY <1>1
  <2>2. Decide(there, m, n) = Cmp(m, n) /\ Decide(back, n, m) = Cmp(n, m)
    BY <1>1, <2>1, DecideLevel
  <2>3. QED
    BY <2>2, CmpOrders
<1>2. ASSUME NEW i \in 1..k, there[i] # 0, \A j \in 1..k : j < i => there[j] = 0
      PROVE  /\ Decide(there, m, n) \in Comparisons
             /\ Decide(back, n, m) = -Decide(there, m, n)
  <2>1. back[i] = -there[i] /\ there[i] \in Comparisons
    OBVIOUS
  <2>2. back[i] # 0 /\ \A j \in 1..k : j < i => back[j] = 0
    BY <1>2, <2>1 DEF Comparisons
  <2>3. Decide(there, m, n) = there[i]
    BY <1>2, DecideAt
  <2>4. Decide(back, n, m) = back[i]
    <3>1. Lower(n, m) = k
      BY DEF Lower
    <3>2. /\ back \in [1..Lower(n, m) -> Comparisons] /\ i \in 1..Lower(n, m)
          /\ \A j \in 1..Lower(n, m) : j < i => back[j] = 0
      BY <2>2, <3>1
    <3>3. QED
      BY <2>2, <3>2, DecideAt
  <2>5. QED
    BY <2>1, <2>3, <2>4
<1>3. QED
  BY <1>0, <1>1, <1>2, FirstDifference

\* The decision is a tie only where the sequences are of one length and level throughout.
LEMMA DecideTies ==
  ASSUME NEW m \in Nat, NEW n \in Nat, NEW cmps \in [1..Lower(m, n) -> Comparisons]
  PROVE  Decide(cmps, m, n) = 0 <=> m = n /\ \A i \in 1..Lower(m, n) : cmps[i] = 0
<1> DEFINE k == Lower(m, n)
<1>0. k \in Nat
  BY DEF Lower
<1>1. CASE \A i \in 1..k : cmps[i] = 0
  <2>1. Decide(cmps, m, n) = Cmp(m, n)
    BY <1>1, DecideLevel
  <2>2. QED
    BY <1>1, <2>1, CmpOrders
<1>2. ASSUME NEW i \in 1..k, cmps[i] # 0, \A j \in 1..k : j < i => cmps[j] = 0
      PROVE  Decide(cmps, m, n) # 0
  BY <1>0, <1>2, DecideAt
<1>3. QED
  BY <1>0, <1>1, <1>2, FirstDifference

\* Decisions chain where the answers they are made of do.
LEMMA DecideChains ==
  ASSUME NEW l \in Nat, NEW m \in Nat, NEW n \in Nat,
         NEW p \in [1..Lower(l, m) -> Comparisons], NEW q \in [1..Lower(m, n) -> Comparisons],
         NEW r \in [1..Lower(l, n) -> Comparisons],
         \A i \in 1..Lower(l, Lower(m, n)) : Chained(p[i], q[i], r[i])
  PROVE  Chained(Decide(p, l, m), Decide(q, m, n), Decide(r, l, n))
<1> DEFINE P == Decide(p, l, m)
           Q == Decide(q, m, n)
           R == Decide(r, l, n)
<1>1. SUFFICES ASSUME P <= 0, Q <= 0 PROVE R <= 0 /\ (R = 0 <=> P = 0 /\ Q = 0)
  BY DEF Chained
<1>2. Lower(l, m) \in Nat /\ Lower(m, n) \in Nat /\ Lower(l, n) \in Nat
  BY DEF Lower
<1>p. \A i \in 1..Lower(l, m) :
        p[i] # 0 /\ (\A j \in 1..Lower(l, m) : j < i => p[j] = 0) => P = p[i]
  BY DecideAt
<1>q. \A i \in 1..Lower(m, n) :
        q[i] # 0 /\ (\A j \in 1..Lower(m, n) : j < i => q[j] = 0) => Q = q[i]
  BY DecideAt
<1>r. \A i \in 1..Lower(l, n) :
        r[i] # 0 /\ (\A j \in 1..Lower(l, n) : j < i => r[j] = 0) => R = r[i]
  BY DecideAt
<1>3. CASE (\A i \in 1..Lower(l, m) : p[i] = 0) /\ (\A i \in 1..Lower(m, n) : q[i] = 0)
  <2>1. P = Cmp(l, m) /\ Q = Cmp(m, n)
    BY <1>3, DecideLevel
  <2>2. l <= m /\ m <= n
    BY <1>1, <2>1, CmpOrders DEF Cmp
  <2>3. \A i \in 1..Lower(l, n) : r[i] = 0
    <3>1. TAKE i \in 1..Lower(l, n)
    <3>2. i \in 1..Lower(l, m) /\ i \in 1..Lower(m, n) /\ i \in 1..Lower(l, Lower(m, n))
      BY <2>2 DEF Lower
    <3>3. QED
      BY <1>3, <3>2 DEF Chained
  <2>4. R = Cmp(l, n)
    BY <2>3, DecideLevel
  <2>5. QED
    BY <2>1, <2>4, <1>1, CmpChains DEF Chained
<1>4. ASSUME NEW i \in 1..Lower(l, m), p[i] # 0, \A j \in 1..Lower(l, m) : j < i => p[j] = 0,
             \A j \in 1..Lower(m, n) : j < i => q[j] = 0,
             i \in 1..Lower(m, n) => q[i] <= 0
      PROVE  R <= 0 /\ (R = 0 <=> P = 0 /\ Q = 0)
  <2>1. P = p[i] /\ p[i] < 0
    <3>1. P = p[i] /\ p[i] \in Comparisons
      BY <1>4, <1>p
    <3>2. QED
      BY <1>1, <1>4, <3>1 DEF Comparisons
  <2>2. i <= m /\ i <= l
    BY <1>4 DEF Lower
  <2>3. i <= n
    <3>1. SUFFICES ASSUME n < i PROVE FALSE
      OBVIOUS
    <3>2. \A j \in 1..Lower(m, n) : q[j] = 0
      BY <1>4, <3>1 DEF Lower
    <3>3. Q = Cmp(m, n)
      BY <3>2, DecideLevel
    <3>4. QED
      BY <1>1, <2>2, <3>1, <3>3 DEF Cmp
  <2>4. i \in 1..Lower(l, Lower(m, n)) /\ i \in 1..Lower(m, n) /\ i \in 1..Lower(l, n)
    BY <2>2, <2>3 DEF Lower
  <2>5. r[i] \in Comparisons /\ r[i] < 0
    <3>1. p[i] \in Comparisons /\ q[i] \in Comparisons /\ r[i] \in Comparisons /\ q[i] <= 0
      BY <1>4, <2>4
    <3>2. QED
      BY <2>1, <2>4, <3>1 DEF Chained, Comparisons
  <2>6. \A j \in 1..Lower(l, n) : j < i => r[j] = 0
    <3>1. SUFFICES ASSUME NEW j \in 1..Lower(l, n), j < i PROVE r[j] = 0
      OBVIOUS
    <3>2. j \in 1..Lower(l, m) /\ j \in 1..Lower(m, n) /\ j \in 1..Lower(l, Lower(m, n))
      BY <2>2, <2>3, <3>1 DEF Lower
    <3>3. QED
      BY <1>4, <3>1, <3>2 DEF Chained
  <2>7. R = r[i]
    BY <1>r, <2>4, <2>5, <2>6
  <2>8. QED
    BY <2>1, <2>5, <2>7 DEF Comparisons
<1>5. ASSUME NEW i \in 1..Lower(m, n), q[i] # 0, \A j \in 1..Lower(m, n) : j < i => q[j] = 0,
             \A j \in 1..Lower(l, m) : j <= i => p[j] = 0
      PROVE  R <= 0 /\ (R = 0 <=> P = 0 /\ Q = 0)
  <2>1. Q = q[i] /\ q[i] < 0
    <3>1. Q = q[i] /\ q[i] \in Comparisons
      BY <1>5, <1>q
    <3>2. QED
      BY <1>1, <1>5, <3>1 DEF Comparisons
  <2>2. i <= m /\ i <= n
    BY <1>5 DEF Lower
  <2>3. CASE i <= l
    <3>1. i \in 1..Lower(l, Lower(m, n)) /\ i \in 1..Lower(l, m) /\ i \in 1..Lower(l, n)
      BY <2>2, <2>3 DEF Lower
    <3>2. r[i] \in Comparisons /\ r[i] # 0 /\ r[i] < 0
      <4>1. p[i] = 0 /\ q[i] \in Comparisons /\ r[i] \in Comparisons
        BY <1>5, <3>1
      <4>2. QED
        BY <2>1, <3>1, <4>1 DEF Chained, Comparisons
    <3>3. \A j \in 1..Lower(l, n) : j < i => r[j] = 0
      <4>1. SUFFICES ASSUME NEW j \in 1..Lower(l, n), j < i PROVE r[j] = 0
        OBVIOUS
      <4>2. j \in 1..Lower(l, m) /\ j \in 1..Lower(m, n) /\ j \in 1..Lower(l, Lower(m, n))
        BY <2>2, <2>3, <4>1 DEF Lower
      <4>3. QED
        BY <1>5, <4>1, <4>2 DEF Chained
    <3>4. R = r[i]
      BY <1>r, <3>1, <3>2, <3>3
    <3>5. QED
      BY <2>1, <3>2, <3>4 DEF Comparisons
  <2>4. CASE l < i
    <3>1. \A j \in 1..Lower(l, n) : r[j] = 0
      <4>1. TAKE j \in 1..Lower(l, n)
      <4>2. j \in 1..Lower(l, m) /\ j \in 1..Lower(m, n) /\ j \in 1..Lower(l, Lower(m, n)) /\ j < i
        BY <2>2, <2>4 DEF Lower
      <4>3. QED
        BY <1>5, <4>2 DEF Chained
    <3>2. R = Cmp(l, n)
      BY <3>1, DecideLevel
    <3>3. l < n
      BY <2>2, <2>4
    <3>4. QED
      BY <2>1, <3>2, <3>3 DEF Cmp
  <2>5. QED
    BY <2>3, <2>4
<1>6. QED
  <2>1. CASE \A i \in 1..Lower(l, m) : p[i] = 0
    <3>1. CASE \A i \in 1..Lower(m, n) : q[i] = 0
      BY <1>3, <2>1, <3>1
    <3>2. ASSUME NEW i \in 1..Lower(m, n), q[i] # 0, \A j \in 1..Lower(m, n) : j < i => q[j] = 0
          PROVE  R <= 0 /\ (R = 0 <=> P = 0 /\ Q = 0)
      BY <1>5, <2>1, <3>2
    <3>3. QED
      BY <1>2, <3>1, <3>2, FirstDifference
  <2>2. ASSUME NEW i \in 1..Lower(l, m), p[i] # 0, \A j \in 1..Lower(l, m) : j < i => p[j] = 0
        PROVE  R <= 0 /\ (R = 0 <=> P = 0 /\ Q = 0)
    <3>1. CASE \A h \in 1..Lower(m, n) : q[h] = 0
      BY <1>4, <2>2, <3>1
    <3>2. ASSUME NEW h \in 1..Lower(m, n), q[h] # 0, \A j \in 1..Lower(m, n) : j < h => q[j] = 0
          PROVE  R <= 0 /\ (R = 0 <=> P = 0 /\ Q = 0)
      <4>1. Q = q[h] /\ q[h] <= 0
        <5>1. Q = q[h]
          BY <1>q, <3>2
        <5>2. QED
          BY <1>1, <5>1
      <4>2. CASE h < i
        BY <1>5, <2>2, <3>2, <4>2
      <4>3. CASE i <= h
        BY <1>4, <2>2, <3>2, <4>1, <4>3
      <4>4. QED
        BY <4>2, <4>3
    <3>3. QED
      BY <1>2, <3>1, <3>2, FirstDifference
  <2>3. QED
    BY <1>2, <2>1, <2>2, FirstDifference

-----------------------------------------------------------------------------
(* Identifiers                                                             *)

\* The places two sequences share are those up to the shorter length.
LEMMA SharedPlaces ==
  ASSUME NEW S, NEW s \in Seq(S), NEW t \in Seq(S)
  PROVE  /\ Len(s) \in Nat /\ Len(t) \in Nat
         /\ Shared(s, t) = 1..Lower(Len(s), Len(t))
         /\ \A i \in Shared(s, t) : s[i] \in S /\ t[i] \in S
         /\ s = t <=> Len(s) = Len(t) /\ \A i \in Shared(s, t) : s[i] = t[i]
<1>1. DOMAIN s = 1..Len(s) /\ DOMAIN t = 1..Len(t) /\ Len(s) \in Nat /\ Len(t) \in Nat
  OBVIOUS
<1>2. Shared(s, t) = 1..Lower(Len(s), Len(t))
  BY <1>1 DEF Shared, Lower
<1>3. \A i \in Shared(s, t) : s[i] \in S /\ t[i] \in S
  BY <1>1 DEF Shared
<1>4. Len(s) = Len(t) /\ (\A i \in Shared(s, t) : s[i] = t[i]) => s = t
  BY <1>1 DEF Shared
<1>5. QED
  BY <1>1, <1>2, <1>3, <1>4

\* The answers about each place of two texts.
TextAnswers(a, b) == [i \in Shared(a, b) |-> Cmp(a[i], b[i])]

LEMMA TextAnswersTyped ==
  ASSUME NEW a \in Seq(Int), NEW b \in Seq(Int)
  PROVE  TextAnswers(a, b) \in [1..Lower(Len(a), Len(b)) -> Comparisons]
<1>1. \A i \in Shared(a, b) : Cmp(a[i], b[i]) \in Comparisons
  BY SharedPlaces, CmpOrders
<1>2. Shared(a, b) = 1..Lower(Len(a), Len(b))
  BY SharedPlaces
<1>3. QED
  BY <1>1, <1>2 DEF TextAnswers

\* strings.Compare orders texts: it reverses, ties only on one text, and chains.
LEMMA TextOrders ==
  ASSUME NEW a \in Seq(Int), NEW b \in Seq(Int)
  PROVE  /\ CompareText(a, b) \in Comparisons
         /\ CompareText(b, a) = -CompareText(a, b)
         /\ CompareText(a, b) = 0 <=> a = b
<1> DEFINE m == Len(a)
           n == Len(b)
           there == TextAnswers(a, b)
           back == TextAnswers(b, a)
<1>1. CompareText(a, b) = Decide(there, m, n) /\ CompareText(b, a) = Decide(back, n, m)
  BY DEF CompareText, TextAnswers
<1>2. /\ m \in Nat /\ n \in Nat
      /\ Shared(a, b) = 1..Lower(m, n) /\ Shared(b, a) = 1..Lower(m, n)
      /\ \A i \in Shared(a, b) : a[i] \in Int /\ b[i] \in Int
  <2>1. m \in Nat /\ n \in Nat /\ Shared(a, b) = 1..Lower(m, n) /\ Shared(b, a) = 1..Lower(n, m)
    BY SharedPlaces
  <2>2. Lower(m, n) = Lower(n, m)
    BY <2>1 DEF Lower
  <2>3. QED
    BY <2>1, <2>2, SharedPlaces
<1>3. \A i \in 1..Lower(m, n) : there[i] = Cmp(a[i], b[i]) /\ back[i] = Cmp(b[i], a[i])
  BY <1>2 DEF TextAnswers
<1>4. \A i \in 1..Lower(m, n) : back[i] = -there[i] /\ (there[i] = 0 <=> a[i] = b[i])
  <2>1. TAKE i \in 1..Lower(m, n)
  <2>2. a[i] \in Int /\ b[i] \in Int
    BY <1>2
  <2>3. QED
    BY <1>3, <2>2, CmpOrders
<1>5. there \in [1..Lower(m, n) -> Comparisons] /\ back \in [1..Lower(m, n) -> Comparisons]
  <2>1. \A i \in 1..Lower(m, n) : Cmp(a[i], b[i]) \in Comparisons /\ Cmp(b[i], a[i]) \in Comparisons
    BY <1>2, CmpOrders
  <2>2. QED
    BY <1>2, <2>1 DEF TextAnswers
<1>0. m \in Nat /\ n \in Nat
  BY <1>2
<1>6. CompareText(a, b) \in Comparisons /\ CompareText(b, a) = -CompareText(a, b)
  <2> HIDE DEF m, n, there, back
  <2> QED BY <1>0, <1>1, <1>4, <1>5, DecideReverses
<1>7. CompareText(a, b) = 0 <=> m = n /\ \A i \in 1..Lower(m, n) : there[i] = 0
  <2>1. Decide(there, m, n) = 0 <=> m = n /\ \A i \in 1..Lower(m, n) : there[i] = 0
    <3> HIDE DEF m, n, there, back
    <3> QED BY <1>0, <1>5, DecideTies
  <2>2. QED
    BY <1>1, <2>1
<1>8. CompareText(a, b) = 0 <=> m = n /\ \A i \in Shared(a, b) : a[i] = b[i]
  BY <1>2, <1>4, <1>7
<1>9. QED
  BY <1>6, <1>8, SharedPlaces

LEMMA TextChains ==
  ASSUME NEW a \in Seq(Int), NEW b \in Seq(Int), NEW c \in Seq(Int)
  PROVE  Chained(CompareText(a, b), CompareText(b, c), CompareText(a, c))
<1> DEFINE l == Len(a)
           m == Len(b)
           n == Len(c)
           p == TextAnswers(a, b)
           q == TextAnswers(b, c)
           r == TextAnswers(a, c)
<1>1. /\ CompareText(a, b) = Decide(p, l, m) /\ CompareText(b, c) = Decide(q, m, n)
      /\ CompareText(a, c) = Decide(r, l, n)
  BY DEF CompareText, TextAnswers
<1>2. /\ l \in Nat /\ m \in Nat /\ n \in Nat
      /\ Shared(a, b) = 1..Lower(l, m) /\ Shared(b, c) = 1..Lower(m, n) /\ Shared(a, c) = 1..Lower(l, n)
  BY SharedPlaces
<1>3. /\ p \in [1..Lower(l, m) -> Comparisons] /\ q \in [1..Lower(m, n) -> Comparisons]
      /\ r \in [1..Lower(l, n) -> Comparisons]
  BY TextAnswersTyped
<1>4. ASSUME NEW i \in 1..Lower(l, Lower(m, n)) PROVE Chained(p[i], q[i], r[i])
  <2>1. i \in Shared(a, b) /\ i \in Shared(b, c) /\ i \in Shared(a, c)
    BY <1>2 DEF Lower
  <2>2. p[i] = Cmp(a[i], b[i]) /\ q[i] = Cmp(b[i], c[i]) /\ r[i] = Cmp(a[i], c[i])
    BY <2>1 DEF TextAnswers
  <2>3. a[i] \in Int /\ b[i] \in Int /\ c[i] \in Int
    BY <2>1, SharedPlaces
  <2>4. QED
    BY <2>2, <2>3, CmpChains
<1>5. QED
  <2> HIDE DEF l, m, n, p, q, r
  <2> QED BY <1>1, <1>2, <1>3, <1>4, DecideChains

\* An identifier is a text.
LEMMA IdentifierIsText == Identifiers \subseteq Seq(Int)
<1>1. {Hyphen} \cup Nat \subseteq Int
  BY DEF Hyphen
<1>2. \A id \in Seq({Hyphen} \cup Nat) : id \in Seq(Int)
  <2> DEFINE S == {Hyphen} \cup Nat
  <2>1. S \subseteq Int
    BY <1>1
  <2> HIDE DEF S
  <2>2. ASSUME NEW id \in Seq(S) PROVE id \in Seq(Int)
    <3>1. Len(id) \in Nat /\ id \in [1..Len(id) -> S]
      OBVIOUS
    <3>2. id \in [1..Len(id) -> Int]
      BY <2>1, <3>1
    <3>3. QED
      BY <3>1, <3>2
  <2> QED BY <2>2 DEF S
<1>3. QED
  BY <1>2 DEF Identifiers

\* What compareIdent does, by the kinds of its operands.
LEMMA IdentCases ==
  ASSUME NEW a, NEW b
  PROVE  /\ AllDigits(a) /\ AllDigits(b) =>
              CompareIdent(a, b) = IF Len(a) # Len(b) THEN Cmp(Len(a), Len(b)) ELSE CompareText(a, b)
         /\ AllDigits(a) /\ ~AllDigits(b) => CompareIdent(a, b) = -1
         /\ ~AllDigits(a) /\ AllDigits(b) => CompareIdent(a, b) = 1
         /\ ~AllDigits(a) /\ ~AllDigits(b) => CompareIdent(a, b) = CompareText(a, b)
<1>1. AllDigits(a) \in BOOLEAN /\ AllDigits(b) \in BOOLEAN
  BY DEF AllDigits
<1>2. QED
  BY <1>1 DEF CompareIdent

\* compareIdent orders identifiers.
LEMMA IdentOrders ==
  ASSUME NEW a \in Identifiers, NEW b \in Identifiers
  PROVE  /\ CompareIdent(a, b) \in Comparisons
         /\ CompareIdent(b, a) = -CompareIdent(a, b)
         /\ CompareIdent(a, b) = 0 <=> a = b
<1>1. a \in Seq(Int) /\ b \in Seq(Int) /\ Len(a) \in Int /\ Len(b) \in Int
  BY IdentifierIsText
<1>2. /\ CompareText(a, b) \in Comparisons /\ CompareText(b, a) = -CompareText(a, b)
      /\ CompareText(a, b) = 0 <=> a = b
  BY <1>1, TextOrders
<1>3. /\ Cmp(Len(a), Len(b)) \in Comparisons /\ Cmp(Len(b), Len(a)) = -Cmp(Len(a), Len(b))
      /\ Cmp(Len(a), Len(b)) = 0 <=> Len(a) = Len(b)
  BY <1>1, CmpOrders
<1>4. CASE AllDigits(a) /\ AllDigits(b)
  BY <1>2, <1>3, <1>4, IdentCases
<1>5. CASE AllDigits(a) /\ ~AllDigits(b)
  BY <1>5, IdentCases DEF Comparisons
<1>6. CASE ~AllDigits(a) /\ AllDigits(b)
  BY <1>6, IdentCases DEF Comparisons
<1>7. CASE ~AllDigits(a) /\ ~AllDigits(b)
  BY <1>2, <1>7, IdentCases
<1>8. QED
  BY <1>4, <1>5, <1>6, <1>7

LEMMA IdentChains ==
  ASSUME NEW a \in Identifiers, NEW b \in Identifiers, NEW c \in Identifiers
  PROVE  Chained(CompareIdent(a, b), CompareIdent(b, c), CompareIdent(a, c))
<1>1. /\ a \in Seq(Int) /\ b \in Seq(Int) /\ c \in Seq(Int)
      /\ Len(a) \in Int /\ Len(b) \in Int /\ Len(c) \in Int
  BY IdentifierIsText
<1>2. Chained(CompareText(a, b), CompareText(b, c), CompareText(a, c))
  BY <1>1, TextChains
<1>3. /\ CompareText(a, b) \in Comparisons /\ CompareText(b, c) \in Comparisons /\ CompareText(a, c) \in Comparisons
  BY <1>1, TextOrders
<1>4. SUFFICES ASSUME CompareIdent(a, b) <= 0, CompareIdent(b, c) <= 0
               PROVE  /\ CompareIdent(a, c) <= 0
                      /\ CompareIdent(a, c) = 0 <=> CompareIdent(a, b) = 0 /\ CompareIdent(b, c) = 0
  BY DEF Chained
<1>5. (AllDigits(b) => AllDigits(a)) /\ (AllDigits(c) => AllDigits(b))
  BY <1>4, IdentCases
<1>6. CASE AllDigits(c)
  <2>1. /\ CompareIdent(a, b) = IF Len(a) # Len(b) THEN Cmp(Len(a), Len(b)) ELSE CompareText(a, b)
        /\ CompareIdent(b, c) = IF Len(b) # Len(c) THEN Cmp(Len(b), Len(c)) ELSE CompareText(b, c)
        /\ CompareIdent(a, c) = IF Len(a) # Len(c) THEN Cmp(Len(a), Len(c)) ELSE CompareText(a, c)
    BY <1>5, <1>6, IdentCases
  <2>2. QED
    BY <1>1, <1>2, <1>3, <1>4, <2>1 DEF Cmp, Chained, Comparisons
<1>7. CASE ~AllDigits(c) /\ AllDigits(a)
  <2>1. CompareIdent(a, c) = -1
    BY <1>7, IdentCases
  <2>2. CompareIdent(a, b) = -1 \/ CompareIdent(b, c) = -1
    BY <1>5, <1>7, IdentCases
  <2>3. QED
    BY <2>1, <2>2
<1>8. CASE ~AllDigits(a)
  <2>1. /\ CompareIdent(a, b) = CompareText(a, b) /\ CompareIdent(b, c) = CompareText(b, c)
        /\ CompareIdent(a, c) = CompareText(a, c)
    BY <1>5, <1>8, IdentCases
  <2>2. QED
    BY <1>2, <1>4, <2>1 DEF Chained
<1>9. QED
  BY <1>5, <1>6, <1>7, <1>8

-----------------------------------------------------------------------------
(* Pre-release parts, and versions                                         *)

\* The answers about each place of two pre-release parts.
PreAnswers(s, t) == [i \in Shared(s, t) |-> CompareIdent(s[i], t[i])]

LEMMA PreAnswersTyped ==
  ASSUME NEW s \in Seq(Identifiers), NEW t \in Seq(Identifiers)
  PROVE  PreAnswers(s, t) \in [1..Lower(Len(s), Len(t)) -> Comparisons]
<1>1. \A i \in Shared(s, t) : CompareIdent(s[i], t[i]) \in Comparisons
  BY SharedPlaces, IdentOrders
<1>2. Shared(s, t) = 1..Lower(Len(s), Len(t))
  BY SharedPlaces
<1>3. QED
  BY <1>1, <1>2 DEF PreAnswers

\* What comparePre does, by which of its operands are there.
LEMMA PreCases ==
  ASSUME NEW s, NEW t
  PROVE  /\ s = <<>> /\ t = <<>> => ComparePre(s, t) = 0
         /\ s = <<>> /\ t # <<>> => ComparePre(s, t) = 1
         /\ s # <<>> /\ t = <<>> => ComparePre(s, t) = -1
         /\ s # <<>> /\ t # <<>> => ComparePre(s, t) = Decide(PreAnswers(s, t), Len(s), Len(t))
  BY DEF ComparePre, PreAnswers

\* comparePre orders pre-release parts.
LEMMA PreOrders ==
  ASSUME NEW s \in Seq(Identifiers), NEW t \in Seq(Identifiers)
  PROVE  /\ ComparePre(s, t) \in Comparisons
         /\ ComparePre(t, s) = -ComparePre(s, t)
         /\ ComparePre(s, t) = 0 <=> s = t
<1> DEFINE m == Len(s)
           n == Len(t)
           there == PreAnswers(s, t)
           back == PreAnswers(t, s)
<1>1. /\ m \in Nat /\ n \in Nat
      /\ Shared(s, t) = 1..Lower(m, n) /\ Shared(t, s) = 1..Lower(m, n)
      /\ \A i \in Shared(s, t) : s[i] \in Identifiers /\ t[i] \in Identifiers
  <2>1. m \in Nat /\ n \in Nat /\ Shared(s, t) = 1..Lower(m, n) /\ Shared(t, s) = 1..Lower(n, m)
    BY SharedPlaces
  <2>2. Lower(m, n) = Lower(n, m)
    BY <2>1 DEF Lower
  <2>3. QED
    BY <2>1, <2>2, SharedPlaces
<1>2. \A i \in 1..Lower(m, n) : there[i] = CompareIdent(s[i], t[i]) /\ back[i] = CompareIdent(t[i], s[i])
  BY <1>1 DEF PreAnswers
<1>3. \A i \in 1..Lower(m, n) : back[i] = -there[i] /\ (there[i] = 0 <=> s[i] = t[i])
  <2>1. TAKE i \in 1..Lower(m, n)
  <2>2. s[i] \in Identifiers /\ t[i] \in Identifiers
    BY <1>1
  <2>3. QED
    BY <1>2, <2>2, IdentOrders
<1>4. there \in [1..Lower(m, n) -> Comparisons] /\ back \in [1..Lower(m, n) -> Comparisons]
  <2>1. Lower(m, n) = Lower(n, m)
    BY <1>1 DEF Lower
  <2>2. QED
    BY <2>1, PreAnswersTyped
<1>0. m \in Nat /\ n \in Nat
  BY <1>1
<1>5. Decide(there, m, n) \in Comparisons /\ Decide(back, n, m) = -Decide(there, m, n)
  <2> HIDE DEF m, n, there, back
  <2> QED BY <1>0, <1>3, <1>4, DecideReverses
<1>6. Decide(there, m, n) = 0 <=> m = n /\ \A i \in 1..Lower(m, n) : there[i] = 0
  <2> HIDE DEF m, n, there, back
  <2> QED BY <1>0, <1>4, DecideTies
<1>7. Decide(there, m, n) = 0 <=> s = t
  <2>1. Decide(there, m, n) = 0 <=> m = n /\ \A i \in Shared(s, t) : s[i] = t[i]
    BY <1>1, <1>3, <1>6
  <2>2. QED
    BY <2>1, SharedPlaces
<1>8. CASE s # <<>> /\ t # <<>>
  <2>1. ComparePre(s, t) = Decide(there, m, n) /\ ComparePre(t, s) = Decide(back, n, m)
    BY <1>8, PreCases
  <2> HIDE DEF m, n, there, back
  <2> QED BY <1>5, <1>7, <2>1
<1>9. CASE s = <<>> \/ t = <<>>
  BY <1>9, PreCases DEF Comparisons
<1>10. QED
  BY <1>8, <1>9

LEMMA PreChains ==
  ASSUME NEW a \in Seq(Identifiers), NEW b \in Seq(Identifiers), NEW c \in Seq(Identifiers)
  PROVE  Chained(ComparePre(a, b), ComparePre(b, c), ComparePre(a, c))
<1> DEFINE l == Len(a)
           m == Len(b)
           n == Len(c)
           p == PreAnswers(a, b)
           q == PreAnswers(b, c)
           r == PreAnswers(a, c)
<1>1. /\ l \in Nat /\ m \in Nat /\ n \in Nat
      /\ Shared(a, b) = 1..Lower(l, m) /\ Shared(b, c) = 1..Lower(m, n) /\ Shared(a, c) = 1..Lower(l, n)
  BY SharedPlaces
<1>2. /\ p \in [1..Lower(l, m) -> Comparisons] /\ q \in [1..Lower(m, n) -> Comparisons]
      /\ r \in [1..Lower(l, n) -> Comparisons]
  BY PreAnswersTyped
<1>3. ASSUME NEW i \in 1..Lower(l, Lower(m, n)) PROVE Chained(p[i], q[i], r[i])
  <2>1. i \in Shared(a, b) /\ i \in Shared(b, c) /\ i \in Shared(a, c)
    BY <1>1 DEF Lower
  <2>2. /\ p[i] = CompareIdent(a[i], b[i]) /\ q[i] = CompareIdent(b[i], c[i])
        /\ r[i] = CompareIdent(a[i], c[i])
    BY <2>1 DEF PreAnswers
  <2>3. a[i] \in Identifiers /\ b[i] \in Identifiers /\ c[i] \in Identifiers
    BY <2>1, SharedPlaces
  <2>4. QED
    BY <2>2, <2>3, IdentChains
<1>4. Chained(Decide(p, l, m), Decide(q, m, n), Decide(r, l, n))
  <2> HIDE DEF l, m, n, p, q, r
  <2> QED BY <1>1, <1>2, <1>3, DecideChains
<1>5. CASE a # <<>> /\ b # <<>> /\ c # <<>>
  <2>1. /\ ComparePre(a, b) = Decide(p, l, m) /\ ComparePre(b, c) = Decide(q, m, n)
        /\ ComparePre(a, c) = Decide(r, l, n)
    BY <1>5, PreCases
  <2> HIDE DEF l, m, n, p, q, r
  <2> QED BY <1>4, <2>1
<1>6. CASE a = <<>> \/ b = <<>> \/ c = <<>>
  <2>1. SUFFICES ASSUME ComparePre(a, b) <= 0, ComparePre(b, c) <= 0
                 PROVE  /\ ComparePre(a, c) <= 0
                        /\ ComparePre(a, c) = 0 <=> ComparePre(a, b) = 0 /\ ComparePre(b, c) = 0
    BY DEF Chained
  <2>2. (a = <<>> => b = <<>>) /\ (b = <<>> => c = <<>>)
    BY <2>1, PreCases
  <2>3. c = <<>>
    BY <1>6, <2>2
  <2>4. CASE a = <<>>
    BY <2>2, <2>4, PreCases
  <2>5. CASE a # <<>>
    <3>1. ComparePre(a, c) = -1
      BY <2>3, <2>5, PreCases
    <3>2. ComparePre(a, b) = -1 \/ ComparePre(b, c) = -1
      BY <2>3, <2>5, PreCases
    <3>3. QED
      BY <3>1, <3>2
  <2>6. QED
    BY <2>4, <2>5
<1>7. QED
  BY <1>5, <1>6

\* The components of a version.
LEMMA VersionParts ==
  ASSUME NEW v \in Versions
  PROVE  /\ v.major \in Nat /\ v.minor \in Nat /\ v.patch \in Nat
         /\ v.pre \in Seq(Identifiers) /\ v.build \in Seq(Identifiers)
         /\ v = [major |-> v.major, minor |-> v.minor, patch |-> v.patch,
                 pre |-> v.pre, build |-> v.build]
  BY MaxComponentAssumption DEF Versions

\* Compare by its components: the first of the core to differ, or the pre-release parts.
LEMMA CompareCases ==
  ASSUME NEW v, NEW w
  PROVE  /\ v.major # w.major => Compare(v, w) = Cmp(v.major, w.major)
         /\ v.major = w.major /\ v.minor # w.minor => Compare(v, w) = Cmp(v.minor, w.minor)
         /\ v.major = w.major /\ v.minor = w.minor /\ v.patch # w.patch =>
              Compare(v, w) = Cmp(v.patch, w.patch)
         /\ v.major = w.major /\ v.minor = w.minor /\ v.patch = w.patch =>
              Compare(v, w) = ComparePre(v.pre, w.pre)
  BY DEF Compare

\* Compare orders versions: it answers one of three, reverses with its operands, and
\* ties exactly where they differ in build metadata alone (semver.go, Compare).
LEMMA VersionsOrdered ==
  ASSUME NEW v \in Versions, NEW w \in Versions
  PROVE  /\ Compare(v, w) \in Comparisons
         /\ Compare(w, v) = -Compare(v, w)
         /\ Compare(v, w) = 0 <=> Canonical(v) = Canonical(w)
<1>1. /\ v.major \in Int /\ v.minor \in Int /\ v.patch \in Int
      /\ w.major \in Int /\ w.minor \in Int /\ w.patch \in Int
      /\ v.pre \in Seq(Identifiers) /\ w.pre \in Seq(Identifiers)
  BY VersionParts
<1>2. /\ ComparePre(v.pre, w.pre) \in Comparisons
      /\ ComparePre(w.pre, v.pre) = -ComparePre(v.pre, w.pre)
      /\ ComparePre(v.pre, w.pre) = 0 <=> v.pre = w.pre
  BY <1>1, PreOrders
<1>3. Canonical(v) = Canonical(w) <=>
        v.major = w.major /\ v.minor = w.minor /\ v.patch = w.patch /\ v.pre = w.pre
  <2>1. /\ Canonical(v) = [major |-> v.major, minor |-> v.minor, patch |-> v.patch,
                           pre |-> v.pre, build |-> <<>>]
        /\ Canonical(w) = [major |-> w.major, minor |-> w.minor, patch |-> w.patch,
                           pre |-> w.pre, build |-> <<>>]
    BY VersionParts DEF Canonical
  <2>2. QED
    BY <2>1
<1>4. CASE v.major # w.major
  BY <1>1, <1>3, <1>4, CompareCases, CmpOrders
<1>5. CASE v.major = w.major /\ v.minor # w.minor
  BY <1>1, <1>3, <1>5, CompareCases, CmpOrders
<1>6. CASE v.major = w.major /\ v.minor = w.minor /\ v.patch # w.patch
  BY <1>1, <1>3, <1>6, CompareCases, CmpOrders
<1>7. CASE v.major = w.major /\ v.minor = w.minor /\ v.patch = w.patch
  BY <1>2, <1>3, <1>7, CompareCases
<1>8. QED
  BY <1>4, <1>5, <1>6, <1>7

\* Of v, w and u: one that is not above the next, which is not above the last, is not
\* above the last; and is level with it only where all three are.
LEMMA VersionsChain ==
  ASSUME NEW v \in Versions, NEW w \in Versions, NEW u \in Versions
  PROVE  Chained(Compare(v, w), Compare(w, u), Compare(v, u))
<1>1. /\ v.major \in Int /\ v.minor \in Int /\ v.patch \in Int
      /\ w.major \in Int /\ w.minor \in Int /\ w.patch \in Int
      /\ u.major \in Int /\ u.minor \in Int /\ u.patch \in Int
      /\ v.pre \in Seq(Identifiers) /\ w.pre \in Seq(Identifiers) /\ u.pre \in Seq(Identifiers)
  BY VersionParts
<1>2. Chained(ComparePre(v.pre, w.pre), ComparePre(w.pre, u.pre), ComparePre(v.pre, u.pre))
  BY <1>1, PreChains
<1>3. SUFFICES ASSUME Compare(v, w) <= 0, Compare(w, u) <= 0
               PROVE  /\ Compare(v, u) <= 0
                      /\ Compare(v, u) = 0 <=> Compare(v, w) = 0 /\ Compare(w, u) = 0
  BY DEF Chained
<1>4. v.major <= w.major /\ w.major <= u.major
  BY <1>1, <1>3, CompareCases DEF Cmp
<1>5. CASE v.major # w.major \/ w.major # u.major
  <2>1. Compare(v, u) = -1
    BY <1>1, <1>4, <1>5, CompareCases DEF Cmp
  <2>2. Compare(v, w) = -1 \/ Compare(w, u) = -1
    BY <1>1, <1>4, <1>5, CompareCases DEF Cmp
  <2>3. QED
    BY <2>1, <2>2
<1>6. CASE v.major = w.major /\ w.major = u.major
  <2>1. v.minor <= w.minor /\ w.minor <= u.minor
    BY <1>1, <1>3, <1>6, CompareCases DEF Cmp
  <2>2. CASE v.minor # w.minor \/ w.minor # u.minor
    <3>1. Compare(v, u) = -1
      BY <1>1, <1>6, <2>1, <2>2, CompareCases DEF Cmp
    <3>2. Compare(v, w) = -1 \/ Compare(w, u) = -1
      BY <1>1, <1>6, <2>1, <2>2, CompareCases DEF Cmp
    <3>3. QED
      BY <3>1, <3>2
  <2>3. CASE v.minor = w.minor /\ w.minor = u.minor
    <3>1. v.patch <= w.patch /\ w.patch <= u.patch
      BY <1>1, <1>3, <1>6, <2>3, CompareCases DEF Cmp
    <3>2. CASE v.patch # w.patch \/ w.patch # u.patch
      <4>1. Compare(v, u) = -1
        BY <1>1, <1>6, <2>3, <3>1, <3>2, CompareCases DEF Cmp
      <4>2. Compare(v, w) = -1 \/ Compare(w, u) = -1
        BY <1>1, <1>6, <2>3, <3>1, <3>2, CompareCases DEF Cmp
      <4>3. QED
        BY <4>1, <4>2
    <3>3. CASE v.patch = w.patch /\ w.patch = u.patch
      <4>1. /\ Compare(v, w) = ComparePre(v.pre, w.pre) /\ Compare(w, u) = ComparePre(w.pre, u.pre)
            /\ Compare(v, u) = ComparePre(v.pre, u.pre)
        BY <1>6, <2>3, <3>3, CompareCases
      <4>2. QED
        BY <1>2, <1>3, <4>1 DEF Chained
    <3>4. QED
      BY <3>2, <3>3
  <2>4. QED
    BY <2>2, <2>3
<1>7. QED
  BY <1>5, <1>6

\* The same, as the proofs use it: strictly above stays strictly above.
LEMMA AboveChains ==
  ASSUME NEW v \in Versions, NEW w \in Versions, NEW u \in Versions
  PROVE  /\ Compare(v, w) > 0 /\ Compare(w, u) >= 0 => Compare(v, u) > 0
         /\ Compare(v, w) >= 0 /\ Compare(w, u) > 0 => Compare(v, u) > 0
         /\ Compare(v, w) = 0 => Compare(v, u) = Compare(w, u)
<1>1. /\ Compare(v, w) \in Comparisons /\ Compare(w, u) \in Comparisons /\ Compare(v, u) \in Comparisons
      /\ Compare(w, v) = -Compare(v, w) /\ Compare(u, w) = -Compare(w, u)
      /\ Compare(u, v) = -Compare(v, u)
  BY VersionsOrdered
<1>2. /\ Chained(Compare(u, w), Compare(w, v), Compare(u, v))
      /\ Chained(Compare(v, w), Compare(w, u), Compare(v, u))
  BY VersionsChain
<1>3. QED
  BY <1>1, <1>2 DEF Chained, Comparisons

-----------------------------------------------------------------------------
(* Documents                                                               *)

\* A parsed document: a sequence of entries, of which those that are released name
\* versions (changelog.go, Parse).
IsDocument(d) ==
  /\ Len(d) \in Nat /\ DOMAIN d = 1..Len(d)
  /\ \A i \in DOMAIN d : d[i].kind \in Kinds
  /\ \A i \in Released(d) : d[i].ver \in Versions

\* A set of positions that is bounded has a last one.
LEMMA GreatestPosition ==
  ASSUME NEW n \in Nat, NEW T \in SUBSET (1..n), T # {}
  PROVE  Greatest(T) \in T /\ \A i \in T : i <= Greatest(T)
<1> DEFINE U == {k \in 0..n : n - k \in T}
<1>0. \A i \in T : i \in Int /\ n - i \in 0..n /\ n - (n - i) = i
  <2>1. \A i \in 1..n : i \in Int /\ n - i \in 0..n /\ n - (n - i) = i
    OBVIOUS
  <2>2. QED
    BY <2>1
<1>1. U \in SUBSET Nat /\ U # {}
  <2>1. PICK t \in T : TRUE
    OBVIOUS
  <2>2. n - t \in U
    BY <1>0, <2>1
  <2>3. \A k \in 0..n : k \in Nat
    OBVIOUS
  <2>4. U # {}
    BY <2>2, Zenon
  <2>5. QED
    BY <2>3, <2>4, Zenon
<1>2. PICK k \in U : \A h \in U : k <= h
  <2> HIDE DEF U
  <2> QED BY <1>1, LeastNatural
<1>3. n - k \in T /\ \A i \in T : i <= n - k
  <2>1. n - k \in T /\ k \in 0..n
    BY <1>2
  <2>2. ASSUME NEW i \in T PROVE i <= n - k
    <3>1. n - i \in U /\ i \in Int
      BY <1>0, <2>2
    <3>2. k <= n - i
      BY <1>2, <3>1
    <3>3. QED
      BY <2>1, <3>1, <3>2
  <2>3. QED
    BY <2>1, <2>2
<1>4. \E m \in T : \A j \in T : m >= j
  BY <1>3
<1>5. QED
  BY <1>4 DEF Greatest

\* And a first one.
LEMMA LeastPosition ==
  ASSUME NEW T \in SUBSET Nat, T # {}
  PROVE  Least(T) \in T /\ \A i \in T : Least(T) <= i
  BY LeastNatural DEF Least

\* The positions of S in ascending order: f lists them all, each once.
Ascends(S, f) ==
  /\ Cardinality(S) \in Nat /\ f \in Seq(S) /\ Len(f) = Cardinality(S)
  /\ \A n \in 1..Len(f) : f[n] \in S
  /\ \A a, b \in 1..Len(f) : a < b => f[a] < f[b]
  /\ \A k \in S : \E n \in 1..Len(f) : f[n] = k

LEMMA AscendingIs ==
  ASSUME NEW m \in Nat, NEW S \in SUBSET (1..m)
  PROVE  Ascends(S, Ascending(S))
<1> DEFINE below(x) == {j \in S : j <= x}
           c(x) == Cardinality(below(x))
           pick(n) == CHOOSE k \in S : c(k) = n
<1>1. \A k \in S : k \in 1..m /\ k \in Nat /\ 1 <= k /\ k <= m
  OBVIOUS
<1>2. IsFiniteSet(S) /\ Cardinality(S) \in Nat
  <2>1. IsFiniteSet(1..m)
    BY FS_Interval
  <2>2. IsFiniteSet(S)
    BY <2>1, FS_Subset
  <2>3. QED
    BY <2>2, FS_CardinalityType
<1>3. \A x : IsFiniteSet(below(x)) /\ c(x) \in Nat
  <2>1. TAKE x
  <2>2. below(x) \in SUBSET S
    OBVIOUS
  <2> HIDE DEF below
  <2>3. IsFiniteSet(below(x))
    BY <1>2, <2>2, FS_Subset
  <2>4. QED
    BY <2>3, FS_CardinalityType
<1>4. c(0) = 0
  <2>1. below(0) = {}
    <3>1. \A j \in S : ~(j <= 0)
      BY <1>1
    <3>2. QED
      BY <3>1
  <2> HIDE DEF below
  <2>2. QED
    BY <2>1, FS_EmptySet
<1>5. c(m) = Cardinality(S)
  <2>1. below(m) = S
    <3>1. \A j \in S : j <= m
      BY <1>1
    <3>2. QED
      BY <3>1
  <2> HIDE DEF below
  <2>2. QED
    BY <2>1
<1>6. \A x \in 1..m : (x \notin S => c(x) = c(x - 1)) /\ (x \in S => c(x) = c(x - 1) + 1)
  <2>1. TAKE x \in 1..m
  <2>2. CASE x \notin S
    <3>1. below(x) = below(x - 1)
      <4>1. \A j \in S : j <= x <=> j <= x - 1
        <5>1. TAKE j \in S
        <5>2. j # x /\ j \in Nat
          BY <1>1, <2>2
        <5>3. QED
          BY <5>2
      <4>2. QED
        BY <4>1
    <3> HIDE DEF below
    <3>2. QED
      BY <2>2, <3>1
  <2>3. CASE x \in S
    <3>1. below(x) = below(x - 1) \cup {x} /\ x \notin below(x - 1)
      <4>1. \A j \in S : j <= x <=> (j <= x - 1 \/ j = x)
        <5>1. TAKE j \in S
        <5>2. j \in Nat
          BY <1>1
        <5>3. QED
          BY <5>2
      <4>2. ~(x <= x - 1)
        OBVIOUS
      <4>3. QED
        BY <2>3, <4>1, <4>2
    <3> HIDE DEF below
    <3>2. QED
      BY <1>3, <2>3, <3>1, FS_AddElement
  <2>4. QED
    BY <2>2, <2>3
<1>7. \A x, y \in 0..m : x <= y => c(x) <= c(y)
  <2>1. TAKE x \in 0..m, y \in 0..m
  <2>2. SUFFICES ASSUME x <= y PROVE c(x) <= c(y)
    OBVIOUS
  <2>3. below(x) \in SUBSET below(y)
    <3>1. \A j \in S : j <= x => j <= y
      <4>1. TAKE j \in S
      <4>2. j \in Nat
        BY <1>1
      <4>3. QED
        BY <2>2, <4>2
    <3>2. QED
      BY <3>1
  <2> HIDE DEF below
  <2>4. QED
    BY <1>3, <2>3, FS_Subset
<1>8. \A x \in 0..m, y \in S : x < y => c(x) < c(y)
  <2>1. TAKE x \in 0..m, y \in S
  <2>2. SUFFICES ASSUME x < y PROVE c(x) < c(y)
    OBVIOUS
  <2>3. y \in 1..m /\ y - 1 \in 0..m /\ x <= y - 1
    BY <1>1, <2>2
  <2> HIDE DEF c
  <2>4. c(x) <= c(y - 1) /\ c(y) = c(y - 1) + 1
    BY <1>6, <1>7, <2>3
  <2>5. c(x) \in Nat /\ c(y) \in Nat /\ c(y - 1) \in Nat
    <3> USE DEF c
    <3> HIDE DEF below
    <3>1. QED
      BY <1>3
  <2>6. QED
    BY <2>4, <2>5
<1>9. \A n \in 1..Cardinality(S) : pick(n) \in S /\ c(pick(n)) = n
  <2>1. TAKE n \in 1..Cardinality(S)
  <2> DEFINE T == {x \in 0..m : n <= c(x)}
  <2>2. T \in SUBSET Nat /\ m \in T
    <3>1. m \in 0..m /\ n <= c(m)
      <4> HIDE DEF c
      <4>1. QED
        BY <1>2, <1>5
    <3>2. QED
      BY <3>1
  <2>3. PICK x \in T : \A y \in T : x <= y
    <3> HIDE DEF T
    <3>1. QED
      BY <2>2, LeastNatural
  <2>4. x \in 0..m /\ n <= c(x) /\ c(x) \in Nat
    BY <1>3, <2>3
  <2>5. x # 0
    <3> HIDE DEF c
    <3>1. QED
      BY <1>4, <2>4
  <2>6. x \in 1..m /\ x - 1 \in 0..m /\ x - 1 \notin T
    <3>1. x \in 1..m /\ x - 1 \in 0..m /\ ~(x <= x - 1)
      BY <2>4, <2>5
    <3> HIDE DEF T
    <3>2. QED
      BY <2>3, <3>1
  <2>7. ~(n <= c(x - 1)) /\ c(x - 1) \in Nat
    BY <1>3, <2>6
  <2>8. x \in S /\ c(x) = n
    <3> HIDE DEF c, T
    <3>1. QED
      BY <1>6, <2>4, <2>6, <2>7
  <2> HIDE DEF c
  <2>9. QED
    BY <2>8
<1>10. \A k \in S : c(k) \in 1..Cardinality(S) /\ pick(c(k)) = k
  <2>1. TAKE k \in S
  <2>2. k \in 1..m /\ k \in 0..m /\ 0 \in 0..m /\ m \in 0..m /\ 0 < k /\ k <= m
    BY <1>1
  <2>3. c(k) \in Nat /\ c(0) < c(k) /\ c(k) <= c(m)
    <3>1. c(k) \in Nat
      BY <1>3
    <3> HIDE DEF c
    <3>2. QED
      BY <1>7, <1>8, <2>2, <3>1
  <2>4. c(k) \in 1..Cardinality(S)
    <3> HIDE DEF c
    <3>1. QED
      BY <1>2, <1>4, <1>5, <2>3
  <2>5. PICK h : h = pick(c(k))
    OBVIOUS
  <2>6. h \in S /\ c(h) = c(k)
    <3> HIDE DEF c
    <3>1. QED
      BY <1>9, <2>4, <2>5
  <2>7. h \in 0..m
    BY <1>1, <2>6
  <2>8. h = k
    <3>1. c(h) \in Nat /\ c(k) \in Nat
      BY <1>3
    <3> HIDE DEF c
    <3>2. ~(h < k) /\ ~(k < h)
      BY <1>8, <2>2, <2>6, <2>7, <3>1
    <3>3. QED
      BY <1>1, <2>2, <2>6, <3>2
  <2>9. QED
    BY <2>4, <2>5, <2>8
<1>11. PICK f : f = Ascending(S)
  OBVIOUS
<1>12. f = [n \in 1..Cardinality(S) |-> pick(n)]
  BY <1>11 DEF Ascending
<1>13. \A n \in 1..Cardinality(S) : f[n] = pick(n)
  <2> HIDE DEF pick
  <2>1. QED
    BY <1>12
<1>14. f \in Seq(S) /\ Len(f) = Cardinality(S)
  <2>1. f \in [1..Cardinality(S) -> S]
    <3> HIDE DEF pick
    <3>1. QED
      BY <1>9, <1>12
  <2>2. QED
    BY <1>2, <2>1
<1>15. \A a, b \in 1..Len(f) : a < b => f[a] < f[b]
  <2>1. TAKE a \in 1..Len(f), b \in 1..Len(f)
  <2>2. SUFFICES ASSUME a < b PROVE f[a] < f[b]
    OBVIOUS
  <2>3. f[a] \in S /\ c(f[a]) = a /\ f[b] \in S /\ c(f[b]) = b
    <3> HIDE DEF pick, c
    <3>1. QED
      BY <1>9, <1>13, <1>14
  <2>4. f[a] \in 0..m /\ f[b] \in 0..m
    <3>1. \A k \in S : k \in 0..m
      BY <1>1
    <3>2. QED
      BY <2>3, <3>1
  <2>5. ~(f[b] <= f[a])
    <3> HIDE DEF c
    <3>1. f[b] <= f[a] => b <= a
      BY <1>7, <2>3, <2>4
    <3>2. QED
      BY <1>2, <1>14, <2>2, <3>1
  <2>6. QED
    BY <2>4, <2>5
<1>16. ASSUME NEW k \in S PROVE \E n \in 1..Len(f) : f[n] = k
  <2>1. c(k) \in 1..Cardinality(S) /\ f[c(k)] = k
    <3> HIDE DEF pick, c
    <3>1. QED
      BY <1>10, <1>13
  <2> HIDE DEF c
  <2>2. QED
    BY <1>14, <2>1
<1>17. \A n \in 1..Len(f) : f[n] \in S
  BY <1>14
<1>18. Ascends(S, f)
  BY <1>2, <1>14, <1>15, <1>16, <1>17 DEF Ascends
<1>19. QED
  BY <1>11, <1>18

-----------------------------------------------------------------------------
(* Entries                                                                 *)

\* The newest entry, where the document has one, names a version, and nothing but
\* [Unreleased] is above it.
LEMMA LatestIsTop ==
  ASSUME NEW d, IsDocument(d), Latest(d) # 0
  PROVE  /\ Latest(d) \in Released(d)
         /\ \A i \in DOMAIN d : i < Latest(d) => d[i].kind = "unreleased"
         /\ \A i \in Released(d) : Latest(d) <= i
<1> DEFINE named == {i \in DOMAIN d : d[i].kind # "unreleased"}
<1>1. /\ named # {} /\ named \in SUBSET Nat
      /\ d[Least(named)].kind # "unreadable" /\ Latest(d) = Least(named)
  BY DEF Latest, IsDocument
<1>2. Least(named) \in named /\ \A i \in named : Least(named) <= i
  <2> HIDE DEF named
  <2> QED BY <1>1, LeastPosition
<1>3. Latest(d) \in Released(d)
  BY <1>1, <1>2 DEF Released, Kinds, IsDocument
<1>4. \A i \in DOMAIN d : d[i].kind # "unreleased" => Latest(d) <= i
  BY <1>1, <1>2
<1>5. DOMAIN d \subseteq Int /\ Latest(d) \in Int
  BY <1>3 DEF Released, IsDocument
<1>6. \A i \in DOMAIN d : i < Latest(d) => d[i].kind = "unreleased"
  BY <1>4, <1>5
<1>7. \A i \in Released(d) : Latest(d) <= i
  BY <1>4 DEF Released
<1>8. QED
  BY <1>3, <1>6, <1>7

\* Where every heading can be read, a document with no newest entry names no version.
LEMMA NoLatest ==
  ASSUME NEW d, IsDocument(d), UnreadableVersion(d) = {}, Latest(d) = 0
  PROVE  Released(d) = {}
<1> DEFINE named == {i \in DOMAIN d : d[i].kind # "unreleased"}
<1>1. SUFFICES ASSUME named # {} PROVE FALSE
  BY DEF Released
<1>2. named \in SUBSET Nat
  BY DEF IsDocument
<1>3. Least(named) \in named
  <2> HIDE DEF named
  <2> QED BY <1>1, <1>2, LeastPosition
<1>4. d[Least(named)].kind # "unreadable"
  BY <1>3 DEF UnreadableVersion
<1>5. Latest(d) = Least(named)
  BY <1>1, <1>4 DEF Latest
<1>6. Least(named) # 0
  BY <1>3 DEF IsDocument
<1>7. QED
  BY <1>5, <1>6

\* Above finds the nearest entry that names a version, where there is one above.
LEMMA AboveIsNearest ==
  ASSUME NEW d, IsDocument(d), NEW i \in Released(d), NEW j \in Released(d), j < i
  PROVE  /\ Above(d, i) \in Released(d) /\ Above(d, i) < i /\ j <= Above(d, i)
         /\ Above(d, i) # 0
<1> DEFINE T == {k \in Released(d) : k < i}
<1>1. j \in T /\ T \in SUBSET (1..Len(d)) /\ Len(d) \in Nat
  BY DEF Released, IsDocument
<1>2. Above(d, i) = Greatest(T)
  BY <1>1 DEF Above
<1>3. Greatest(T) \in T /\ \A k \in T : k <= Greatest(T)
  <2> HIDE DEF T
  <2> QED BY <1>1, GreatestPosition
<1>4. QED
  BY <1>1, <1>2, <1>3

\* What Above finds names a version.
LEMMA AboveIsReleased ==
  ASSUME NEW d, IsDocument(d), NEW j \in Released(d), Above(d, j) # 0
  PROVE  Above(d, j) \in Released(d)
<1> DEFINE T == {k \in Released(d) : k < j}
<1>1. T # {} /\ Above(d, j) = Greatest(T)
  BY DEF Above
<1>2. T \in SUBSET (1..Len(d)) /\ Len(d) \in Nat
  BY DEF Released, IsDocument
<1>3. Greatest(T) \in T
  <2> HIDE DEF T
  <2> QED BY <1>1, <1>2, GreatestPosition
<1>4. QED
  BY <1>1, <1>3

\* What holds of every entry and the one above it, and chains, holds of every two.
LEMMA DownTheDocument ==
  ASSUME NEW d, IsDocument(d), NEW R,
         \A j \in Released(d) : Above(d, j) # 0 => <<Above(d, j), j>> \in R,
         \A i, k, j \in Released(d) : <<i, k>> \in R /\ <<k, j>> \in R => <<i, j>> \in R
  PROVE  \A i, j \in Released(d) : i < j => <<i, j>> \in R
<1>1. TAKE i \in Released(d)
<1> DEFINE T == {j \in Released(d) : i < j /\ <<i, j>> \notin R}
<1>2. SUFFICES ASSUME T # {} PROVE FALSE
  OBVIOUS
<1>3. T \in SUBSET Nat /\ Released(d) \subseteq Nat
  BY DEF Released, IsDocument
<1>4. PICK j \in T : \A k \in T : j <= k
  <2> HIDE DEF T
  <2> QED BY <1>2, <1>3, LeastNatural
<1>5. /\ Above(d, j) \in Released(d) /\ Above(d, j) < j /\ i <= Above(d, j)
      /\ Above(d, j) # 0
  BY <1>4, AboveIsNearest
<1>6. <<Above(d, j), j>> \in R
  BY <1>4, <1>5
<1>7. Above(d, j) # i
  BY <1>4, <1>6
<1>8. i < Above(d, j) /\ Above(d, j) \notin T
  BY <1>3, <1>4, <1>5, <1>7
<1>9. <<i, Above(d, j)>> \in R
  BY <1>5, <1>8
<1>10. QED
  BY <1>4, <1>5, <1>6, <1>9

\* version-order compares neighbours, and orders the whole document.
LEMMA VersionsDescend ==
  ASSUME NEW d, IsDocument(d), VersionOrder(d) = {}
  PROVE  \A i, j \in Released(d) : i < j => Compare(d[i].ver, d[j].ver) > 0
<1> DEFINE R == {p \in Released(d) \X Released(d) : Compare(d[p[1]].ver, d[p[2]].ver) > 0}
<1>1. \A i \in Released(d) : d[i].ver \in Versions
  BY DEF IsDocument
<1>2. ASSUME NEW j \in Released(d), Above(d, j) # 0 PROVE <<Above(d, j), j>> \in R
  <2>1. Above(d, j) \in Released(d)
    BY <1>2, AboveIsReleased
  <2>2. ~(Compare(d[j].ver, d[Above(d, j)].ver) >= 0)
    BY <1>2 DEF VersionOrder
  <2>3. /\ Compare(d[j].ver, d[Above(d, j)].ver) \in Comparisons
        /\ Compare(d[Above(d, j)].ver, d[j].ver) = -Compare(d[j].ver, d[Above(d, j)].ver)
    BY <1>1, <2>1, VersionsOrdered
  <2>4. Compare(d[Above(d, j)].ver, d[j].ver) > 0
    BY <2>2, <2>3 DEF Comparisons
  <2>5. QED
    BY <2>1, <2>4
<1>3. ASSUME NEW i \in Released(d), NEW k \in Released(d), NEW j \in Released(d),
             <<i, k>> \in R, <<k, j>> \in R
      PROVE  <<i, j>> \in R
  <2>1. Compare(d[i].ver, d[k].ver) > 0 /\ Compare(d[k].ver, d[j].ver) > 0
    BY <1>3
  <2>2. Compare(d[k].ver, d[j].ver) >= 0
    BY <1>1, <2>1, VersionsOrdered DEF Comparisons
  <2>3. Compare(d[i].ver, d[j].ver) > 0
    BY <1>1, <2>1, <2>2, AboveChains
  <2>4. QED
    BY <2>3
<1>4. \A i, j \in Released(d) : i < j => <<i, j>> \in R
  <2> HIDE DEF R
  <2> QED BY <1>2, <1>3, DownTheDocument
<1>5. QED
  BY <1>4

\* date-order compares neighbours, and where every entry has a date it orders them all.
LEMMA DatesDescend ==
  ASSUME NEW d, IsDocument(d), DateOrder(d) = {},
         \A i \in Released(d) : d[i].date \in Int /\ IsDate(d[i].date)
  PROVE  \A i, j \in Released(d) : i < j => d[i].date >= d[j].date
<1> DEFINE R == {p \in Released(d) \X Released(d) : d[p[1]].date >= d[p[2]].date}
<1>1. ASSUME NEW j \in Released(d), Above(d, j) # 0 PROVE <<Above(d, j), j>> \in R
  <2>1. Above(d, j) \in Released(d)
    BY <1>1, AboveIsReleased
  <2>2. ~(d[j].date > d[Above(d, j)].date)
    BY <1>1, <2>1 DEF DateOrder
  <2>3. d[Above(d, j)].date >= d[j].date
    BY <2>1, <2>2
  <2>4. QED
    BY <2>1, <2>3
<1>2. ASSUME NEW i \in Released(d), NEW k \in Released(d), NEW j \in Released(d),
             <<i, k>> \in R, <<k, j>> \in R
      PROVE  <<i, j>> \in R
  <2>1. d[i].date >= d[k].date /\ d[k].date >= d[j].date
    BY <1>2
  <2>2. d[i].date >= d[j].date
    BY <2>1
  <2>3. QED
    BY <2>2
<1>3. \A i, j \in Released(d) : i < j => <<i, j>> \in R
  <2> HIDE DEF R
  <2> QED BY <1>1, <1>2, DownTheDocument
<1>4. QED
  BY <1>3

\* A version that one entry alone of a document names is read from that entry.
LEMMA NowIsOnly ==
  ASSUME NEW d, IsDocument(d), VersionOrder(d) = {}, NEW i \in Released(d)
  PROVE  Now(d, d[i].ver) = i
<1> DEFINE T == {j \in Released(d) : d[j].ver = d[i].ver}
<1>1. ASSUME NEW j \in T PROVE j = i
  <2>1. d[i].ver \in Versions /\ d[j].ver = d[i].ver /\ j \in Int /\ i \in Int
    BY DEF IsDocument, Released
  <2>2. Compare(d[i].ver, d[j].ver) = 0 /\ Compare(d[j].ver, d[i].ver) = 0
    BY <2>1, VersionsOrdered
  <2>3. ~(i < j) /\ ~(j < i)
    BY <2>2, VersionsDescend
  <2>4. QED
    BY <2>1, <2>3
<1>2. i \in T
  OBVIOUS
<1>3. T \in SUBSET (1..Len(d)) /\ Len(d) \in Nat
  BY DEF Released, IsDocument
<1>4. Now(d, d[i].ver) = Greatest(T)
  BY <1>2 DEF Now
<1>5. Greatest(T) \in T
  <2> HIDE DEF T
  <2> QED BY <1>2, <1>3, GreatestPosition
<1>6. QED
  BY <1>1, <1>4, <1>5

-----------------------------------------------------------------------------
(* Tags                                                                    *)

\* A tag name that names a version: the version it reads as, and how many components
\* it spells.
LEMMA NamedVersion ==
  ASSUME NEW t \in TagForms, NamesVersion(t)
  PROVE  /\ ParseTag(t) \in Versions
         /\ Len(t.core) \in 1..3 /\ TagComponents(t) = Len(t.core)
<1>1. /\ t.core \in Seq(Int) /\ t.pre \in Seq(Identifiers) /\ t.build \in Seq(Identifiers)
      /\ Len(t.core) \in Nat /\ DOMAIN t.core = 1..Len(t.core)
  BY DEF TagForms
<1> DEFINE e == ExpandCore(t.core)
<1>2. Expanded(t) = [t EXCEPT !.core = e]
  BY DEF Expanded
<1>3. Expanded(t).core = e /\ Expanded(t).pre = t.pre /\ Expanded(t).build = t.build
  <2> HIDE DEF e
  <2> QED BY <1>2 DEF TagForms
<1>4. Len(e) = 3 /\ e[1] \in 0..MaxComponent /\ e[2] \in 0..MaxComponent /\ e[3] \in 0..MaxComponent
  <2> HIDE DEF e
  <2> QED BY <1>3 DEF NamesVersion, Readable
<1>5. ParseTag(t) = [major |-> e[1], minor |-> e[2], patch |-> e[3], pre |-> t.pre, build |-> t.build]
  <2> HIDE DEF e
  <2> QED BY <1>3 DEF ParseTag
<1>6. ParseTag(t) \in Versions
  <2> HIDE DEF e
  <2> QED BY <1>1, <1>4, <1>5 DEF Versions
<1>7. Len(t.core) \in 1..3
  <2>1. CASE Len(t.core) = 1
    BY <2>1
  <2>2. CASE Len(t.core) = 2
    BY <2>2
  <2>3. CASE Len(t.core) # 1 /\ Len(t.core) # 2
    <3>1. e = t.core
      BY <2>3, Zenon DEF ExpandCore
    <3>2. QED
      BY <1>4, <3>1
  <2>4. QED
    BY <2>1, <2>2, <2>3
<1>8. QED
  BY <1>6, <1>7 DEF TagComponents

\* The tags that name a version are those whose version it is up to build metadata:
\* what the undated-release check finds by precedence, already-tagged finds by spelling.
LEMMA TaggedIsNamed ==
  ASSUME NEW g, g.tags \in Seq(TagForms), NEW v \in Versions
  PROVE  Tagged(g, v) <=> g.kind = "read" /\ Naming(g, v) # {}
<1>1. \A n \in DOMAIN g.tags : g.tags[n] \in TagForms
  OBVIOUS
<1>2. ASSUME NEW n \in DOMAIN g.tags, NamesVersion(g.tags[n])
      PROVE  Compare(ParseTag(g.tags[n]), v) = 0 <=> Canonical(ParseTag(g.tags[n])) = Canonical(v)
  <2>1. ParseTag(g.tags[n]) \in Versions
    BY <1>1, <1>2, NamedVersion
  <2>2. QED
    BY <2>1, VersionsOrdered
<1>3. QED
  BY <1>2 DEF Tagged, Naming

\* TagNaming finds a tag of the version wherever there is one.
LEMMA TagNamingFinds ==
  ASSUME NEW g, g.tags \in Seq(TagForms), NEW v
  PROVE  /\ TagNaming(g, v) # 0 <=> g.kind = "read" /\ Naming(g, v) # {}
         /\ TagNaming(g, v) # 0 => TagNaming(g, v) \in Naming(g, v)
<1> DEFINE N == Naming(g, v)
           few == {3 - TagComponents(g.tags[n]) : n \in N}
<1>1. SUFFICES ASSUME g.kind = "read", N # {}
               PROVE  TagNaming(g, v) # 0 /\ TagNaming(g, v) \in N
  BY DEF TagNaming
<1>2. \A n \in N : n \in Nat \ {0} /\ TagComponents(g.tags[n]) \in 1..3
  <2>1. TAKE n \in N
  <2>2. n \in DOMAIN g.tags /\ NamesVersion(g.tags[n])
    BY DEF Naming
  <2>3. g.tags[n] \in TagForms /\ n \in Nat \ {0}
    BY <2>2
  <2>4. QED
    BY <2>2, <2>3, NamedVersion
<1> HIDE DEF N
<1>3. few \in SUBSET Nat /\ few # {}
  BY <1>1, <1>2
<1>4. PICK f \in few : \A h \in few : f <= h
  <2> HIDE DEF few
  <2> QED BY <1>3, LeastNatural
<1> DEFINE full == {n \in N : 3 - TagComponents(g.tags[n]) = f}
<1>5. full \in SUBSET Nat /\ full # {}
  BY <1>2, <1>4
<1>6. PICK n \in full : \A m \in full : n <= m
  <2> HIDE DEF full
  <2> QED BY <1>5, LeastNatural
<1>7. n \in N
  BY <1>6
<1>8. \A m \in N : \/ TagComponents(g.tags[n]) > TagComponents(g.tags[m])
                   \/ TagComponents(g.tags[n]) = TagComponents(g.tags[m]) /\ n <= m
  <2>1. TAKE m \in N
  <2>2. f <= 3 - TagComponents(g.tags[m]) /\ f = 3 - TagComponents(g.tags[n])
    BY <1>4, <1>6
  <2>3. TagComponents(g.tags[m]) \in 1..3 /\ TagComponents(g.tags[n]) \in 1..3
    BY <1>2, <1>7
  <2>4. TagComponents(g.tags[m]) = TagComponents(g.tags[n]) => n <= m
    BY <1>6, <2>2
  <2>5. QED
    BY <2>2, <2>3, <2>4
<1>9. \E k \in N : \A m \in N : \/ TagComponents(g.tags[k]) > TagComponents(g.tags[m])
                                \/ TagComponents(g.tags[k]) = TagComponents(g.tags[m]) /\ k <= m
  BY <1>7, <1>8
<1>10. TagNaming(g, v) \in N
  BY <1>1, <1>9 DEF TagNaming, N
<1>11. QED
  BY <1>2, <1>10

-----------------------------------------------------------------------------
(* Findings                                                                *)

\* In a changelog found valid no check that raises errors fires.
LEMMA ValidIsSilent ==
  ASSUME NEW d, NEW g, NEW day, NEW sev, NEW c \in Checks, sev[c] = "error",
         Valid(Lint(d, g, day, sev))
  PROVE  Fires(c, d, g, day) = {}
<1>1. SUFFICES ASSUME NEW i \in Fires(c, d, g, day) PROVE FALSE
  OBVIOUS
<1>2. <<c, sev[c], i>> \in Lint(d, g, day, sev)
  BY <1>1 DEF Lint
<1>3. QED
  BY <1>2 DEF Valid

\* What a changelog found valid under the register's severities looks like.
LEMMA ValidDocument ==
  ASSUME NEW d, NEW g, NEW day, Valid(Lint(d, g, day, DefaultSeverities))
  PROVE  /\ UnreadableVersion(d) = {} /\ VersionOrder(d) = {} /\ DateOrder(d) = {}
         /\ Undated(d) = {} /\ DateFormat(d) = {} /\ VersionBehindTag(d, g) = {}
<1>1. \A c \in Checks \ {"prerelease-entry"} : DefaultSeverities[c] = "error"
  BY DEF DefaultSeverities
<1>2. \A c \in Checks \ {"prerelease-entry"} : Fires(c, d, g, day) = {}
  BY <1>1, ValidIsSilent
<1>3. UnreadableVersion(d) = {}
  BY <1>2 DEF Fires, Checks
<1>4. VersionOrder(d) = {}
  BY <1>2 DEF Fires, Checks
<1>5. DateOrder(d) = {}
  BY <1>2 DEF Fires, Checks
<1>6. DateFormat(d) = {}
  BY <1>2 DEF Fires, Checks
<1>7. VersionBehindTag(d, g) = {}
  BY <1>2 DEF Fires, Checks
<1>8. HeadingForm(d) = {}
  BY <1>2 DEF Fires, Checks
<1>9. UndatedEntry(d, g) = {}
  BY <1>2 DEF Fires, Checks
<1>10. UndatedRelease(d, g) = {}
  BY <1>2 DEF Fires, Checks
<1>11. Undated(d) = {}
  BY <1>8, <1>9, <1>10 DEF HeadingForm, UndatedEntry
<1>12. QED
  BY <1>3, <1>4, <1>5, <1>6, <1>7, <1>11
=============================================================================
