----------------------------- MODULE LibraryProofs -----------------------------
(***************************************************************************)
(* What a reading says is consistent, whatever the document and whatever   *)
(* the repository: proofs about module Library, for versions of any        *)
(* length, documents of any number of entries and any tags.                *)
(***************************************************************************)
EXTENDS Library, ChangelogProofs

\* The stream holds versions, the document entries.
TypeOK == /\ x \in Stream /\ y \in Stream /\ z \in Stream
          /\ doc \in Seq(Entries) /\ repo \in Repos

\* Every state is of its type.
THEOREM LibraryTyped == Spec => []TypeOK
<1>1. Init => TypeOK
  BY DEF Init, TypeOK
<1>2. TypeOK /\ [Next]_vars => TypeOK'
  <2> SUFFICES ASSUME TypeOK, [Next]_vars PROVE TypeOK'
    OBVIOUS
  <2>1. CASE Arrive
    BY <2>1 DEF TypeOK, Arrive
  <2>2. CASE Write
    BY <2>2 DEF TypeOK, Write
  <2>3. CASE UNCHANGED vars
    BY <2>3 DEF TypeOK, vars
  <2>4. QED
    BY <2>1, <2>2, <2>3 DEF Next
<1>3. QED
  BY <1>1, <1>2, PTL DEF Spec

-----------------------------------------------------------------------------
(* Versions                                                                *)

\* What the stream holds came out of Parse.
LEMMA StreamIsParsed ==
  ASSUME TypeOK
  PROVE  /\ x \in Versions /\ y \in Versions /\ z \in Versions
         /\ \A i \in DOMAIN x.pre : WellFormedPre(x.pre[i])
         /\ \A i \in DOMAIN x.build : x.build[i] # <<>>
  BY LibraryAssumption DEF TypeOK

\* Precedence is a total order, whatever versions arrive.
THEOREM PrecedenceIsTotal == Spec => []TotalOrder
<1>1. TypeOK => TotalOrder
  <2> SUFFICES ASSUME TypeOK PROVE TotalOrder
    OBVIOUS
  <2>1. x \in Versions /\ y \in Versions /\ z \in Versions
    BY StreamIsParsed
  <2>2. /\ Compare(x, y) \in Comparisons /\ Compare(y, x) \in Comparisons
        /\ Compare(y, x) = -Compare(x, y)
        /\ Compare(x, y) = 0 <=> Canonical(x) = Canonical(y)
    BY <2>1, VersionsOrdered
  <2>3. Chained(Compare(x, y), Compare(y, z), Compare(x, z))
    BY <2>1, VersionsChain
  <2>4. Compare(x, y) = -Compare(y, x)
    BY <2>2 DEF Comparisons
  <2>5. QED
    BY <2>2, <2>3, <2>4 DEF TotalOrder, Chained
<1>2. QED
  BY <1>1, LibraryTyped, PTL

\* A pre-release lies between the final version it leads to and every final version below.
THEOREM PrereleasesLieBetween == Spec => []PrereleaseBetweenFinals
<1>1. TypeOK => PrereleaseBetweenFinals
  <2> SUFFICES ASSUME TypeOK, Prerelease(x)
               PROVE  /\ Compare(x, Final(x)) < 0
                      /\ ~Prerelease(y) /\ Compare(y, Final(x)) < 0 => Compare(y, x) < 0
    BY DEF PrereleaseBetweenFinals
  <2>1. x \in Versions /\ y \in Versions
    BY StreamIsParsed
  <2> DEFINE f == Final(x)
  <2>2. /\ f.major = x.major /\ f.minor = x.minor /\ f.patch = x.patch /\ f.pre = <<>>
    BY <2>1 DEF Final, Versions
  <2>3. x.pre # <<>>
    BY DEF Prerelease
  <2>4. Compare(x, f) = -1
    BY <2>2, <2>3, CompareCases, PreCases
  <2>5. ASSUME y.pre = <<>>, Compare(y, f) < 0
        PROVE  Compare(y, x) < 0
    <3>1. ~(y.major = x.major /\ y.minor = x.minor /\ y.patch = x.patch)
      <4>1. y.major = x.major /\ y.minor = x.minor /\ y.patch = x.patch => Compare(y, f) = 0
        BY <2>2, <2>5, CompareCases, PreCases
      <4>2. QED
        BY <2>5, <4>1
    <3>2. Compare(y, f) = Compare(y, x)
      BY <2>2, <3>1, CompareCases
    <3>3. QED
      BY <2>5, <3>2
  <2>6. QED
    BY <2>4, <2>5 DEF Prerelease
<1>2. QED
  BY <1>1, LibraryTyped, PTL

\* A version reads back from each of its spellings, and its tag outranks the shorter ones.
THEOREM SpellingsReadBack == Spec => []FullSpellingWins
<1>1. TypeOK => FullSpellingWins
  <2> DEFINE core == <<x.major, x.minor, x.patch>>
  <2> SUFFICES ASSUME TypeOK, NEW t \in Spellings(x)
               PROVE  /\ NamesVersion(t) /\ ParseTag(t) = x
                      /\ Len(t.core) < 3 => Outranks(TagOf(x), t) /\ ~Outranks(t, TagOf(x))
    BY DEF FullSpellingWins
  <2>1. PICK p \in BOOLEAN, n \in 1..3 :
          t = [prefix |-> p, core |-> SubSeq(core, 1, n), pre |-> x.pre, build |-> x.build]
    BY DEF Spellings
  <2>2. ExpandCore(t.core) = core
    BY DEF Spellings
  <2>3. /\ x \in Versions
        /\ x.major \in 0..MaxComponent /\ x.minor \in 0..MaxComponent /\ x.patch \in 0..MaxComponent
        /\ x = [major |-> x.major, minor |-> x.minor, patch |-> x.patch,
                pre |-> x.pre, build |-> x.build]
    BY StreamIsParsed DEF Versions
  <2>4. /\ Expanded(t).core = core
        /\ Expanded(t).pre = x.pre /\ Expanded(t).build = x.build
    BY <2>1, <2>2 DEF Expanded
  <2>5. NamesVersion(t)
    <3>1. Len(core) = 3 /\ \A i \in 1..3 : core[i] \in 0..MaxComponent
      BY <2>3
    <3>2. QED
      BY <2>4, <3>1, StreamIsParsed DEF NamesVersion, Readable
  <2>6. ParseTag(t) = x
    BY <2>3, <2>4 DEF ParseTag
  <2>7. ParseTag(TagOf(x)) = x /\ TagComponents(TagOf(x)) = 3
    BY <2>3 DEF TagOf, ParseTag, Expanded, ExpandCore, TagComponents
  <2>8. Len(t.core) \in Int /\ TagComponents(t) = Len(t.core)
    BY <2>1, <2>3 DEF TagComponents
  <2>9. Compare(x, x) = 0
    BY <2>3, VersionsOrdered
  <2>10. Len(t.core) < 3 => Outranks(TagOf(x), t) /\ ~Outranks(t, TagOf(x))
    BY <2>6, <2>7, <2>8, <2>9 DEF Outranks
  <2>11. QED
    BY <2>5, <2>6, <2>10
<1>2. QED
  BY <1>1, LibraryTyped, PTL

-----------------------------------------------------------------------------
(* Numerals                                                                *)

\* What a numeral's characters stand for, up to each of them.
ValuesUpTo(id) == CHOOSE v : v = [i \in 0..Len(id) |-> IF i = 0 THEN 0 ELSE 10 * v[i - 1] + id[i]]

\* The identifiers that are numerals.
Numerals == {id \in Identifiers : AllDigits(id)}

LEMMA NumeralDigits ==
  ASSUME NEW id \in Numerals
  PROVE  Len(id) \in Nat \ {0} /\ DOMAIN id = 1..Len(id) /\ \A i \in 1..Len(id) : id[i] \in 0..9
<1>1. id \in Seq({Hyphen} \cup Nat) /\ id # <<>> /\ \A i \in DOMAIN id : id[i] \in 0..9
  BY DEF Numerals, Identifiers, AllDigits
<1>2. QED
  BY <1>1

LEMMA PrefixValues ==
  ASSUME NEW id \in Numerals
  PROVE  /\ Value(id) = ValuesUpTo(id)[Len(id)]
         /\ ValuesUpTo(id)[0] = 0
         /\ \A i \in 1..Len(id) : ValuesUpTo(id)[i] = 10 * ValuesUpTo(id)[i - 1] + id[i]
         /\ \A i \in 0..Len(id) : ValuesUpTo(id)[i] \in Nat
<1> DEFINE n == Len(id)
           P == ValuesUpTo(id)
           So(m) == \E v \in [0..m -> Int] : v[0] = 0 /\ \A i \in 1..m : v[i] = 10 * v[i - 1] + id[i]
           T == {m \in 0..n : So(m)}
<1>0. n \in Nat /\ \A i \in 1..n : id[i] \in 0..9 /\ id[i] \in Int
  BY NumeralDigits
<1>1. 0 \in T
  <2> DEFINE w == [i \in 0..0 |-> 0]
  <2>1. w \in [0..0 -> Int] /\ w[0] = 0 /\ \A i \in 1..0 : w[i] = 10 * w[i - 1] + id[i]
    OBVIOUS
  <2>2. So(0)
    <3> HIDE DEF w
    <3> QED BY <2>1
  <2> HIDE DEF So
  <2>3. QED
    BY <1>0, <2>2
<1>2. ASSUME NEW m \in 1..n, m - 1 \in T PROVE m \in T
  <2>1. PICK v \in [0..(m - 1) -> Int] : v[0] = 0 /\ \A i \in 1..(m - 1) : v[i] = 10 * v[i - 1] + id[i]
    BY <1>2
  <2> DEFINE w == [i \in 0..m |-> IF i = m THEN 10 * v[m - 1] + id[m] ELSE v[i]]
  <2>2. m \in Nat \ {0} /\ id[m] \in Int
    BY <1>0
  <2>3. w \in [0..m -> Int]
    <3>1. v[m - 1] \in Int
      BY <2>1, <2>2
    <3>2. \A i \in 0..m : i # m => v[i] \in Int
      BY <2>1, <2>2
    <3>3. QED
      BY <2>2, <3>1, <3>2
  <2>4. w[0] = 0 /\ \A i \in 1..m : w[i] = 10 * w[i - 1] + id[i]
    BY <2>1, <2>2
  <2>5. So(m)
    <3> HIDE DEF w
    <3> QED BY <2>3, <2>4
  <2> HIDE DEF So
  <2>6. QED
    BY <1>0, <2>5
<1>3. n \in T
  <2>1. 0 \in T /\ \A m \in 1..n : m - 1 \in T => m \in T
    BY <1>1, <1>2
  <2> HIDE DEF T, n
  <2>2. \A i \in 0..n : i \in T
    BY <1>0, <2>1, UpTo
  <2>3. QED
    BY <1>0, <2>2
<1>4. PICK v \in [0..n -> Int] : v[0] = 0 /\ \A i \in 1..n : v[i] = 10 * v[i - 1] + id[i]
  BY <1>3
<1>5. v = [i \in 0..n |-> IF i = 0 THEN 0 ELSE 10 * v[i - 1] + id[i]]
  <2>1. \A i \in 0..n : v[i] = IF i = 0 THEN 0 ELSE 10 * v[i - 1] + id[i]
    BY <1>0, <1>4
  <2>2. QED
    BY <2>1
<1>6. P = [i \in 0..n |-> IF i = 0 THEN 0 ELSE 10 * P[i - 1] + id[i]]
  BY <1>5 DEF ValuesUpTo
<1>7. P[0] = 0 /\ \A i \in 1..n : P[i] = 10 * P[i - 1] + id[i]
  <2> HIDE DEF P, n
  <2>1. \A i \in 0..n : P[i] = IF i = 0 THEN 0 ELSE 10 * P[i - 1] + id[i]
    BY <1>6
  <2>2. QED
    BY <1>0, <2>1
<1> DEFINE N == {i \in 0..n : P[i] \in Nat}
<1>8. \A i \in 0..n : i \in N
  <2>1. 0 \in N
    BY <1>0, <1>7
  <2>2. ASSUME NEW i \in 1..n, i - 1 \in N PROVE i \in N
    <3>1. P[i] = 10 * P[i - 1] + id[i] /\ P[i - 1] \in Nat /\ id[i] \in 0..9 /\ i \in 0..n
      BY <1>0, <1>7, <2>2
    <3> HIDE DEF P
    <3>2. P[i] \in Nat
      BY <3>1
    <3>3. QED
      BY <3>1, <3>2
  <2> HIDE DEF N, n
  <2> QED BY <1>0, <2>1, <2>2, UpTo
<1>9. Value(id) = P[n]
  BY Zenon DEF Value, ValuesUpTo
<1>10. QED
  BY <1>7, <1>8, <1>9

\* A lower prefix stays lower whatever digits follow; at an equal one the digits decide.
LEMMA NextDigit ==
  ASSUME NEW p \in Nat, NEW q \in Nat, NEW c \in 0..9, NEW d \in 0..9
  PROVE  /\ p < q => 10 * p + c < 10 * q + d
         /\ p = q /\ c < d => 10 * p + c < 10 * q + d
  OBVIOUS

\* The shorter of two numerals stands for less.
LEMMA ShorterIsLess ==
  ASSUME NEW a \in Numerals, NEW b \in Numerals, Len(a) < Len(b), b[1] # 0
  PROVE  Value(a) < Value(b)
<1> DEFINE m == Len(a)
           n == Len(b)
           P == ValuesUpTo(a)
           Q == ValuesUpTo(b)
           N == {i \in 0..n : i # 0 => Q[i] > 0}
           M == {i \in 0..m : P[i] < Q[i + (n - m)]}
<1>1. m \in Nat /\ n \in Nat /\ \A i \in 1..m : a[i] \in 0..9
  BY NumeralDigits
<1>2. \A i \in 1..n : b[i] \in 0..9
  BY NumeralDigits
<1>3. P[0] = 0 /\ (\A i \in 1..m : P[i] = 10 * P[i - 1] + a[i]) /\ \A i \in 0..m : P[i] \in Nat
  BY PrefixValues
<1>4. Q[0] = 0 /\ (\A i \in 1..n : Q[i] = 10 * Q[i - 1] + b[i]) /\ \A i \in 0..n : Q[i] \in Nat
  BY PrefixValues
<1>5. Value(a) = P[m] /\ Value(b) = Q[n]
  BY PrefixValues
<1> HIDE DEF P, Q
<1>6. \A i \in 0..n : i \in N
  <2>1. 0 \in N
    BY <1>1
  <2>2. ASSUME NEW i \in 1..n, i - 1 \in N PROVE i \in N
    <3>1. /\ Q[i] = 10 * Q[i - 1] + b[i] /\ Q[i - 1] \in Nat /\ b[i] \in 0..9
      BY <1>1, <1>2, <1>4
    <3>2. i # 1 => Q[i - 1] > 0
      BY <2>2
    <3>3. i = 1 => b[i] # 0
      OBVIOUS
    <3>4. QED
      BY <3>1, <3>2, <3>3
  <2> HIDE DEF N, n
  <2> QED BY <1>1, <2>1, <2>2, UpTo
<1>7. \A i \in 0..m : i \in M
  <2>1. 0 \in M
    <3>1. n - m \in 1..n
      BY <1>1
    <3>2. Q[n - m] > 0
      BY <1>6, <3>1
    <3>3. QED
      BY <1>1, <1>3, <3>2
  <2>2. ASSUME NEW i \in 1..m, i - 1 \in M PROVE i \in M
    <3> DEFINE k == i + (n - m)
    <3>1. k \in 1..n /\ k - 1 = (i - 1) + (n - m) /\ k - 1 \in 0..n /\ i - 1 \in 0..m
      BY <1>1
    <3>2. P[i] = 10 * P[i - 1] + a[i] /\ P[i - 1] \in Nat /\ a[i] \in 0..9
      BY <1>1, <1>3, <3>1
    <3>3. Q[k] = 10 * Q[k - 1] + b[k] /\ Q[k - 1] \in Nat /\ b[k] \in 0..9
      BY <1>2, <1>4, <3>1
    <3>4. P[i - 1] < Q[k - 1]
      BY <2>2, <3>1
    <3>5. P[i] < Q[k]
      <4> HIDE DEF k
      <4> QED BY <3>2, <3>3, <3>4, NextDigit
    <3>6. QED
      BY <3>5
  <2> HIDE DEF M, m
  <2> QED BY <1>1, <2>1, <2>2, UpTo
<1>8. P[m] < Q[m + (n - m)] /\ m + (n - m) = n
  BY <1>1, <1>7
<1>9. QED
  BY <1>5, <1>8

\* Of two numerals of one length the first digit to differ decides, in text and in value.
LEMMA FirstDigitDecides ==
  ASSUME NEW a \in Numerals, NEW b \in Numerals, Len(a) = Len(b),
         NEW k \in 1..Len(a), a[k] < b[k], \A j \in 1..Len(a) : j < k => a[j] = b[j]
  PROVE  CompareText(a, b) = -1 /\ Value(a) < Value(b)
<1> DEFINE n == Len(a)
           P == ValuesUpTo(a)
           Q == ValuesUpTo(b)
           texts == TextAnswers(a, b)
           N == {i \in 0..n : i < k => P[i] = Q[i]}
           M == {i \in 0..n : i >= k => P[i] < Q[i]}
<1>1. n \in Nat /\ \A i \in 1..n : a[i] \in 0..9 /\ b[i] \in 0..9
  BY NumeralDigits
<1>2. P[0] = 0 /\ (\A i \in 1..n : P[i] = 10 * P[i - 1] + a[i]) /\ \A i \in 0..n : P[i] \in Nat
  BY PrefixValues
<1>3. Q[0] = 0 /\ (\A i \in 1..n : Q[i] = 10 * Q[i - 1] + b[i]) /\ \A i \in 0..n : Q[i] \in Nat
  BY PrefixValues
<1>4. Value(a) = P[n] /\ Value(b) = Q[n]
  BY PrefixValues
<1> HIDE DEF P, Q
<1>5. \A i \in 0..n : i \in N
  <2>1. 0 \in N
    BY <1>1, <1>2, <1>3
  <2>2. ASSUME NEW i \in 1..n, i - 1 \in N PROVE i \in N
    <3>1. P[i] = 10 * P[i - 1] + a[i] /\ Q[i] = 10 * Q[i - 1] + b[i]
      BY <1>2, <1>3
    <3>2. i < k => P[i - 1] = Q[i - 1] /\ a[i] = b[i]
      BY <1>1, <2>2
    <3>3. QED
      BY <1>1, <3>1, <3>2
  <2> HIDE DEF N, n
  <2> QED BY <1>1, <2>1, <2>2, UpTo
<1>6. \A i \in 0..n : i \in M
  <2>1. 0 \in M
    BY <1>1
  <2>2. ASSUME NEW i \in 1..n, i - 1 \in M PROVE i \in M
    <3>1. /\ P[i] = 10 * P[i - 1] + a[i] /\ Q[i] = 10 * Q[i - 1] + b[i]
          /\ P[i - 1] \in Nat /\ Q[i - 1] \in Nat /\ a[i] \in 0..9 /\ b[i] \in 0..9
      BY <1>1, <1>2, <1>3
    <3>2. i > k => P[i - 1] < Q[i - 1]
      BY <1>1, <2>2
    <3>3. i = k => P[i - 1] = Q[i - 1] /\ a[i] < b[i]
      BY <1>1, <1>5
    <3>4. CASE i > k
      <4>1. P[i] < Q[i]
        BY <3>1, <3>2, <3>4, NextDigit
      <4>2. QED
        BY <4>1
    <3>5. CASE i = k
      <4>1. P[i] < Q[i]
        BY <3>1, <3>3, <3>5, NextDigit
      <4>2. QED
        BY <4>1
    <3>6. CASE i < k
      BY <3>6
    <3>7. QED
      BY <3>4, <3>5, <3>6
  <2> HIDE DEF M, n
  <2> QED BY <1>1, <2>1, <2>2, UpTo
<1>7. P[n] < Q[n]
  BY <1>1, <1>6
<1>8. a \in Seq(Int) /\ b \in Seq(Int)
  BY IdentifierIsText DEF Numerals
<1>9. texts \in [1..Lower(n, n) -> Comparisons] /\ Lower(n, n) = n
  BY <1>1, <1>8, TextAnswersTyped DEF Lower
<1>10. \A i \in 1..n : texts[i] = Cmp(a[i], b[i])
  BY <1>8, <1>9, SharedPlaces DEF TextAnswers
<1>11. k \in 1..n /\ texts[k] = -1 /\ \A j \in 1..n : j < k => texts[j] = 0
  BY <1>1, <1>10 DEF Cmp
<1>12. Decide(texts, n, n) = texts[k]
  <2>1. n \in Nat /\ texts \in [1..Lower(n, n) -> Comparisons]
    BY <1>1, <1>9
  <2>2. k \in 1..Lower(n, n) /\ texts[k] # 0 /\ \A j \in 1..Lower(n, n) : j < k => texts[j] = 0
    BY <1>9, <1>11
  <2> HIDE DEF texts, n
  <2>3. QED
    BY <2>1, <2>2, DecideAt
<1>13. CompareText(a, b) = Decide(texts, n, n)
  BY DEF CompareText, TextAnswers
<1>14. QED
  BY <1>4, <1>7, <1>11, <1>12, <1>13

\* compareIdent, which reads no number, orders numerals by the numbers they stand for.
LEMMA NumeralsCompare ==
  ASSUME NEW a \in Numerals, NEW b \in Numerals, WellFormedPre(a), WellFormedPre(b)
  PROVE  CompareIdent(a, b) = Cmp(Value(a), Value(b))
<1>1. AllDigits(a) /\ AllDigits(b) /\ a \in Identifiers /\ b \in Identifiers
  BY DEF Numerals
<1>2. /\ Len(a) \in Nat /\ Len(b) \in Nat
      /\ DOMAIN a = 1..Len(a) /\ DOMAIN b = 1..Len(b)
      /\ \A i \in 1..Len(a) : a[i] \in 0..9
      /\ \A i \in 1..Len(b) : b[i] \in 0..9
  BY NumeralDigits
<1>0. Len(a) \in Int /\ Len(b) \in Int
  BY <1>2
<1>3. Value(a) \in Nat /\ Value(b) \in Nat
  BY <1>2, PrefixValues
<1>4. CompareIdent(a, b) = IF Len(a) # Len(b) THEN Cmp(Len(a), Len(b)) ELSE CompareText(a, b)
  BY <1>1, IdentCases
<1>5. (Len(a) = 1 \/ a[1] # 0) /\ (Len(b) = 1 \/ b[1] # 0)
  BY <1>1 DEF WellFormedPre
<1>6. Len(a) > 0 /\ Len(b) > 0
  BY NumeralDigits
<1>7. CASE Len(a) < Len(b)
  <2>1. Value(a) < Value(b)
    BY <1>2, <1>5, <1>6, <1>7, ShorterIsLess
  <2>3. CompareIdent(a, b) = -1
    BY <1>0, <1>4, <1>7 DEF Cmp
  <2>2. QED
    BY <1>3, <1>7, <2>1, <2>3 DEF Cmp
<1>8. CASE Len(b) < Len(a)
  <2>1. Value(b) < Value(a)
    BY <1>2, <1>5, <1>6, <1>8, ShorterIsLess
  <2>3. CompareIdent(a, b) = 1
    BY <1>0, <1>4, <1>8 DEF Cmp
  <2>2. QED
    BY <1>3, <1>8, <2>1, <2>3, <1>6 DEF Cmp
<1>9. CASE Len(a) = Len(b)
  <2>1. a \in Seq(Int) /\ b \in Seq(Int)
    BY <1>1, IdentifierIsText
  <2>2. /\ CompareText(a, b) \in Comparisons /\ CompareText(b, a) \in Comparisons
        /\ CompareText(b, a) = -CompareText(a, b)
        /\ CompareText(a, b) = 0 <=> a = b
    BY <2>1, TextOrders
  <2>0. CompareIdent(a, b) = CompareText(a, b)
    BY <1>4, <1>9
  <2>3. CASE a = b
    <3>1. CompareText(a, b) = 0 /\ Value(a) = Value(b)
      BY <2>2, <2>3
    <3>2. QED
      BY <1>3, <2>0, <3>1 DEF Cmp
  <2>4. CASE a # b
    <3> DEFINE D == {i \in 1..Len(a) : a[i] # b[i]}
    <3>1. D # {} /\ D \in SUBSET Nat
      BY <1>1, <1>2, <1>9, <2>1, <2>4, SharedPlaces
    <3>2. PICK k \in D : \A j \in D : k <= j
      <4> HIDE DEF D
      <4> QED BY <3>1, LeastNatural
    <3>3. k \in 1..Len(a) /\ \A j \in 1..Len(a) : j < k => a[j] = b[j]
      BY <1>2, <3>2
    <3>4. a[k] < b[k] \/ b[k] < a[k]
      <4>1. a[k] \in 0..9 /\ b[k] \in 0..9 /\ a[k] # b[k]
        BY <1>2, <1>9, <3>2
      <4>2. QED
        BY <4>1
    <3>5. CASE a[k] < b[k]
      <4>1. CompareText(a, b) = -1 /\ Value(a) < Value(b)
        BY <1>9, <3>3, <3>5, FirstDigitDecides
      <4>2. QED
        BY <1>3, <2>0, <4>1 DEF Cmp
    <3>6. CASE b[k] < a[k]
      <4>1. CompareText(b, a) = -1 /\ Value(b) < Value(a)
        BY <1>9, <3>3, <3>6, FirstDigitDecides
      <4>2. CompareText(a, b) = 1
        BY <2>2, <4>1 DEF Comparisons
      <4>3. QED
        BY <1>3, <2>0, <4>1, <4>2 DEF Cmp
    <3>7. QED
      BY <3>4, <3>5, <3>6
  <2>5. QED
    BY <2>3, <2>4
<1>10. QED
  BY <1>0, <1>7, <1>8, <1>9

\* Numerals of any width sort by the numbers they stand for.
THEOREM NumeralsSort == Spec => []NumeralsByValue
<1>1. TypeOK => NumeralsByValue
  <2> SUFFICES ASSUME TypeOK, NEW i \in DOMAIN x.pre, NEW j \in DOMAIN y.pre,
                      AllDigits(x.pre[i]), AllDigits(y.pre[j])
               PROVE  CompareIdent(x.pre[i], y.pre[j]) = Cmp(Value(x.pre[i]), Value(y.pre[j]))
    BY DEF NumeralsByValue
  <2>1. x.pre \in Seq(Identifiers) /\ y.pre \in Seq(Identifiers)
    BY StreamIsParsed DEF Versions
  <2>2. x.pre[i] \in Numerals /\ y.pre[j] \in Numerals
    BY <2>1 DEF Numerals
  <2>3. WellFormedPre(x.pre[i]) /\ WellFormedPre(y.pre[j])
    BY LibraryAssumption DEF TypeOK
  <2>4. QED
    BY <2>2, <2>3, NumeralsCompare
<1>2. QED
  BY <1>1, LibraryTyped, PTL

-----------------------------------------------------------------------------
(* Documents                                                               *)

\* What is written is a document; so is what stood at the reference tag.
LEMMA WrittenIsDocument ==
  ASSUME TypeOK
  PROVE  /\ IsDocument(doc)
         /\ \A i \in DOMAIN doc : doc[i].ver \in Versions /\ doc[i].date \in Int /\ doc[i].date >= BadDate
<1>1. \A i \in DOMAIN doc : doc[i] \in Entries
  BY DEF TypeOK
<1>2. Len(doc) \in Nat /\ DOMAIN doc = 1..Len(doc)
  BY DEF TypeOK
<1>3. \A i \in DOMAIN doc : /\ doc[i].kind \in Kinds /\ doc[i].ver \in Versions
                            /\ doc[i].date \in Int /\ doc[i].date >= BadDate
  BY <1>1, LibraryAssumption
<1>4. QED
  BY <1>2, <1>3 DEF IsDocument, Released

\* Neighbours in order, end to end in order: a green changelog runs newest first.
THEOREM GreenIsOrdered == Spec => []GreenRunsNewestFirst
<1>1. TypeOK => GreenRunsNewestFirst
  <2> SUFFICES ASSUME TypeOK, Valid(Findings), NEW i \in Released(doc), NEW j \in Released(doc), i < j
               PROVE  /\ Compare(doc[i].ver, doc[j].ver) > 0
                      /\ IsDate(doc[i].date) /\ IsDate(doc[j].date) /\ doc[i].date >= doc[j].date
    BY DEF GreenRunsNewestFirst
  <2>1. /\ VersionOrder(doc) = {} /\ DateOrder(doc) = {} /\ Undated(doc) = {} /\ DateFormat(doc) = {}
    BY ValidDocument DEF Findings
  <2>2. IsDocument(doc)
    BY WrittenIsDocument
  <2>3. ASSUME NEW k \in Released(doc) PROVE doc[k].date \in Int /\ IsDate(doc[k].date)
    <3>1. doc[k].date \in Int /\ doc[k].date >= -1
      BY WrittenIsDocument DEF Released, BadDate
    <3>2. doc[k].date # 0 /\ doc[k].date # -1
      BY <2>1 DEF Undated, DateFormat, NoDate, BadDate
    <3>3. QED
      BY <3>1, <3>2 DEF IsDate
  <2>4. Compare(doc[i].ver, doc[j].ver) > 0
    BY <2>1, <2>2, VersionsDescend
  <2>5. doc[i].date >= doc[j].date
    BY <2>1, <2>2, <2>3, DatesDescend
  <2>6. QED
    BY <2>3, <2>4, <2>5
<1>2. QED
  BY <1>1, LibraryTyped, PTL

\* What the undated-release check finds by precedence, already-tagged finds by spelling.
THEOREM CheckAndOutputAgree == Spec => []CheckAgreesWithOutput
<1>1. TypeOK => CheckAgreesWithOutput
  <2> DEFINE i == Latest(doc)
             v == doc[i].ver
  <2> SUFFICES ASSUME TypeOK, i # 0, doc[i].date = NoDate, ~Prerelease(v)
               PROVE  UndatedRelease(doc, repo) # {} <=> Tagged(repo, v)
    BY DEF CheckAgreesWithOutput
  <2>1. i \in Released(doc) /\ v \in Versions
    BY WrittenIsDocument, LatestIsTop DEF Released
  <2>2. repo.tags \in Seq(TagForms)
    BY LibraryAssumption DEF TypeOK
  <2>3. TagNaming(repo, v) # 0 <=> Tagged(repo, v)
    BY <2>1, <2>2, TagNamingFinds, TaggedIsNamed
  <2>4. i \in Undated(doc)
    BY <2>1 DEF Undated
  <2>5. UndatedRelease(doc, repo) # {} <=> TagNaming(repo, v) # 0
    BY <2>4 DEF UndatedRelease
  <2>6. QED
    BY <2>3, <2>5
<1>2. QED
  BY <1>1, LibraryTyped, PTL

\* A release that is due is above the reference tag.
THEOREM DueIsAhead == Spec => []DueIsAboveReference
<1>1. TypeOK => DueIsAboveReference
  <2> DEFINE i == Latest(doc)
             v == doc[i].ver
             t == repo.tags[repo.ref]
  <2> SUFFICES ASSUME TypeOK, Valid(Findings), Due(doc, repo, FALSE), Compared(repo)
               PROVE  Compare(v, ParseTag(t)) > 0
    BY DEF DueIsAboveReference
  <2>1. i # 0 /\ ~Tagged(repo, v)
    BY DEF Due, NotDue
  <2>2. i \in Released(doc) /\ v \in Versions
    BY <2>1, WrittenIsDocument, LatestIsTop DEF Released
  <2>3. repo.kind = "read" /\ repo.ref \in DOMAIN repo.tags /\ repo.tags \in Seq(TagForms) /\ NamesVersion(t)
    BY LibraryAssumption DEF TypeOK, Compared
  <2>4. t \in TagForms
    BY <2>3
  <2>5. ParseTag(t) \in Versions
    BY <2>3, <2>4, NamedVersion
  <2>6. ~(Compare(v, ParseTag(t)) < 0)
    <3>1. VersionBehindTag(doc, repo) = {}
      BY ValidDocument DEF Findings
    <3>2. QED
      BY <2>1, <3>1 DEF VersionBehindTag
  <2>7. Canonical(ParseTag(t)) # Canonical(v)
    BY <2>1, <2>3 DEF Tagged
  <2>8. Compare(v, ParseTag(t)) \in Comparisons /\ Compare(v, ParseTag(t)) # 0
    BY <2>2, <2>5, <2>7, VersionsOrdered
  <2>9. QED
    BY <2>6, <2>8 DEF Comparisons
<1>2. QED
  BY <1>1, LibraryTyped, PTL

\* Only [Unreleased] is above the entry a release is cut from.
THEOREM UnreadableStops == Spec => []NothingBelowUnreadable
<1>1. TypeOK => NothingBelowUnreadable
  <2> SUFFICES ASSUME TypeOK, Due(doc, repo, TRUE)
               PROVE  \A i \in DOMAIN doc : i < Latest(doc) => doc[i].kind = "unreleased"
    BY DEF NothingBelowUnreadable
  <2>1. Latest(doc) # 0
    BY DEF Due, NotDue
  <2>2. QED
    BY <2>1, WrittenIsDocument, LatestIsTop
<1>2. QED
  BY <1>1, LibraryTyped, PTL

\* Entries kept word for word are never called modified.
THEOREM KeptStaysSilent == Spec => []KeptIsSilent
<1>1. TypeOK => KeptIsSilent
  <2> DEFINE gap == Len(doc) - Len(repo.was)
  <2> SUFFICES ASSUME TypeOK, gap >= 0, VersionOrder(doc) = {},
                      \A w \in DOMAIN repo.was :
                        /\ repo.was[w].kind = doc[w + gap].kind /\ repo.was[w].ver = doc[w + gap].ver
                        /\ repo.was[w].date = doc[w + gap].date /\ repo.was[w].body = doc[w + gap].body
               PROVE  \A f \in Findings : f[1] \notin {"release-entry-modified", "prerelease-entry-modified"}
    BY DEF KeptIsSilent
  <2>1. IsDocument(doc)
    BY WrittenIsDocument
  <2>2. Len(repo.was) \in Nat /\ DOMAIN repo.was = 1..Len(repo.was)
    BY LibraryAssumption DEF TypeOK
  <2>3. ASSUME NEW w \in Released(repo.was) PROVE ~Modified(doc, repo.was[w])
    <3>1. w \in DOMAIN repo.was /\ repo.was[w].kind = "version"
      BY DEF Released
    <3>2. Len(doc) \in Nat /\ DOMAIN doc = 1..Len(doc)
      BY <2>1 DEF IsDocument
    <3>3. w + gap \in DOMAIN doc
      BY <2>2, <3>1, <3>2
    <3>4. w + gap \in Released(doc)
      BY <3>1, <3>3 DEF Released
    <3>5. Now(doc, repo.was[w].ver) = w + gap
      BY <2>1, <3>1, <3>4, NowIsOnly
    <3>6. w + gap # 0
      BY <3>2, <3>3
    <3>7. QED
      BY <3>1, <3>5, <3>6 DEF Modified
  <2>4. ModifiedEntries(doc, repo, FALSE) = {} /\ ModifiedEntries(doc, repo, TRUE) = {}
    BY <2>3 DEF ModifiedEntries
  <2>5. /\ Fires("release-entry-modified", doc, repo, Today) = {}
        /\ Fires("prerelease-entry-modified", doc, repo, Today) = {}
    BY <2>4 DEF Fires
  <2>6. \A f \in Findings : f[1] \in Checks /\ Fires(f[1], doc, repo, Today) # {}
    BY DEF Findings, Lint
  <2>7. QED
    BY <2>5, <2>6
<1>2. QED
  BY <1>1, LibraryTyped, PTL
=============================================================================
