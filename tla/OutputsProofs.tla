----------------------------- MODULE OutputsProofs -----------------------------
(***************************************************************************)
(* What the runner reads is what the run reports, whatever the notes hold: *)
(* proofs about module Outputs, for values of any number of lines.         *)
(***************************************************************************)
EXTENDS Outputs, ChangelogProofs, SequenceTheorems

-----------------------------------------------------------------------------
(* Sequences of anything                                                   *)

IsList(s) == s \in Seq({s[k] : k \in DOMAIN s})

\* Over whatever set a sequence is, it is one.
LEMMA Listed ==
  ASSUME NEW S, NEW s \in Seq(S)
  PROVE  IsList(s)
<1>1. Len(s) \in Nat /\ s \in [1..Len(s) -> S] /\ DOMAIN s = 1..Len(s)
  OBVIOUS
<1>2. s \in [1..Len(s) -> {s[k] : k \in DOMAIN s}]
  BY <1>1
<1>3. QED
  BY <1>1, <1>2 DEF IsList

\* What a sequence of anything is as a function.
LEMMA ListPlaces ==
  ASSUME NEW s, IsList(s)
  PROVE  Len(s) \in Nat /\ DOMAIN s = 1..Len(s)
  BY DEF IsList

LEMMA ListGrows ==
  ASSUME NEW s, IsList(s), NEW e
  PROVE  IsList(Append(s, e))
<1> DEFINE S == {s[k] : k \in DOMAIN s} \cup {e}
<1>1. s \in Seq(S)
  <2>1. s \in Seq({s[k] : k \in DOMAIN s}) /\ {s[k] : k \in DOMAIN s} \subseteq S
    BY DEF IsList
  <2>2. \A T, U : T \subseteq U => Seq(T) \subseteq Seq(U)
    OBVIOUS
  <2> HIDE DEF S
  <2>3. QED
    BY <2>1, <2>2, Zenon
<1>2. e \in S
  OBVIOUS
<1> HIDE DEF S
<1>3. Append(s, e) \in Seq(S)
  BY <1>1, <1>2
<1>4. QED
  BY <1>3, Listed

\* Two sequences, one after the other.
LEMMA ListsJoin ==
  ASSUME NEW s, IsList(s), NEW t, IsList(t)
  PROVE  /\ IsList(s \o t)
         /\ Len(s \o t) = Len(s) + Len(t)
         /\ \A k \in 1..Len(s) : (s \o t)[k] = s[k]
         /\ \A k \in 1..Len(t) : (s \o t)[Len(s) + k] = t[k]
<1> DEFINE S == {s[k] : k \in DOMAIN s} \cup {t[k] : k \in DOMAIN t}
<1>1. s \in Seq(S) /\ t \in Seq(S)
  <2>1. /\ s \in Seq({s[k] : k \in DOMAIN s}) /\ {s[k] : k \in DOMAIN s} \subseteq S
        /\ t \in Seq({t[k] : k \in DOMAIN t}) /\ {t[k] : k \in DOMAIN t} \subseteq S
    BY DEF IsList
  <2>2. \A T, U : T \subseteq U => Seq(T) \subseteq Seq(U)
    OBVIOUS
  <2> HIDE DEF S
  <2>3. QED
    BY <2>1, <2>2, Zenon
<1> HIDE DEF S
<1>2. s \o t \in Seq(S)
  BY <1>1
<1>3. IsList(s \o t)
  BY <1>2, Listed
<1>4. /\ Len(s \o t) = Len(s) + Len(t)
      /\ \A k \in 1..Len(s) : (s \o t)[k] = s[k]
      /\ \A k \in 1..Len(t) : (s \o t)[Len(s) + k] = t[k]
  BY <1>1
<1>5. QED
  BY <1>3, <1>4

-----------------------------------------------------------------------------
(* Reading line by line                                                    *)

\* Where the reader is after each line of a file.
Reader(lines) ==
  CHOOSE r : r = [n \in 0..Len(lines) |-> IF n = 0 THEN Fresh ELSE ReadLine(r[n - 1], lines[n])]

\* It starts afresh, and goes on line by line.
LEMMA ReaderSteps ==
  ASSUME NEW lines, IsList(lines)
  PROVE  /\ ReadBack(lines) = Reader(lines)[Len(lines)]
         /\ Reader(lines)[0] = Fresh
         /\ \A n \in 1..Len(lines) : Reader(lines)[n] = ReadLine(Reader(lines)[n - 1], lines[n])
<1> DEFINE m == Len(lines)
           Until(n) == \E r : r = [k \in 0..n |-> IF k = 0 THEN Fresh ELSE ReadLine(r[k - 1], lines[k])]
           T == {n \in 0..m : Until(n)}
<1>0. m \in Nat
  BY ListPlaces
<1>1. 0 \in T
  <2> DEFINE r == [k \in 0..0 |-> Fresh]
  <2>1. \A k \in 0..0 : r[k] = IF k = 0 THEN Fresh ELSE ReadLine(r[k - 1], lines[k])
    OBVIOUS
  <2>2. r = [k \in 0..0 |-> IF k = 0 THEN Fresh ELSE ReadLine(r[k - 1], lines[k])]
    BY <2>1
  <2>3. Until(0)
    <3> HIDE DEF r
    <3> QED BY <2>2
  <2> HIDE DEF Until
  <2>4. QED
    BY <1>0, <2>3
<1>2. ASSUME NEW n \in 1..m, n - 1 \in T PROVE n \in T
  <2>1. PICK r : r = [k \in 0..(n - 1) |-> IF k = 0 THEN Fresh ELSE ReadLine(r[k - 1], lines[k])]
    BY <1>2
  <2> DEFINE w == [k \in 0..n |-> IF k = n THEN ReadLine(r[n - 1], lines[n]) ELSE r[k]]
  <2>2. n \in Nat \ {0}
    BY <1>0
  <2>3. \A k \in 0..(n - 1) : r[k] = IF k = 0 THEN Fresh ELSE ReadLine(r[k - 1], lines[k])
    BY <2>1
  <2>4. \A k \in 0..(n - 1) : w[k] = r[k]
    BY <2>2
  <2>5. w[n] = ReadLine(r[n - 1], lines[n])
    BY <2>2
  <2>6. \A k \in 0..n : w[k] = IF k = 0 THEN Fresh ELSE ReadLine(w[k - 1], lines[k])
    <3> HIDE DEF w
    <3>1. CASE n = 0
      BY <3>1, <2>2
    <3>2. ASSUME NEW k \in 0..n PROVE w[k] = IF k = 0 THEN Fresh ELSE ReadLine(w[k - 1], lines[k])
      <4>1. CASE k = n
        <5>1. n - 1 \in 0..(n - 1) /\ n # 0
          BY <2>2
        <5>2. QED
          BY <4>1, <5>1, <2>4, <2>5
      <4>2. CASE k # n
        <5>1. k \in 0..(n - 1) /\ (k # 0 => k - 1 \in 0..(n - 1))
          BY <2>2, <4>2
        <5>2. QED
          BY <5>1, <2>3, <2>4
      <4>3. QED
        BY <4>1, <4>2
    <3>3. QED
      BY <3>2
  <2>7. w = [k \in 0..n |-> IF k = 0 THEN Fresh ELSE ReadLine(w[k - 1], lines[k])]
    BY <2>6
  <2>8. Until(n)
    <3> HIDE DEF w
    <3> QED BY <2>7
  <2> HIDE DEF Until
  <2>9. QED
    BY <1>0, <2>8
<1>3. m \in T
  <2>1. 0 \in T /\ \A n \in 1..m : n - 1 \in T => n \in T
    BY <1>1, <1>2
  <2> HIDE DEF T, m
  <2>2. \A n \in 0..m : n \in T
    BY <1>0, <2>1, UpTo
  <2>3. QED
    BY <1>0, <2>2
<1>4. Until(m)
  BY <1>3
<1>5. Reader(lines) = [n \in 0..m |-> IF n = 0 THEN Fresh ELSE ReadLine(Reader(lines)[n - 1], lines[n])]
  BY <1>4 DEF Reader
<1>6. \A n \in 0..m : Reader(lines)[n] = IF n = 0 THEN Fresh ELSE ReadLine(Reader(lines)[n - 1], lines[n])
  BY <1>5
<1>7. ReadBack(lines) = Reader(lines)[m]
  BY Zenon DEF ReadBack, Reader
<1> HIDE DEF m
<1>8. 0 \in 0..m /\ \A n \in 1..m : n \in 0..m /\ n # 0
  BY <1>0
<1>9. QED
  BY <1>6, <1>7, <1>8 DEF m

\* What is read of a file is read of any that begins with it, up to there.
LEMMA ReaderGoesOn ==
  ASSUME NEW s, IsList(s), NEW t, IsList(t)
  PROVE  \E g : /\ g[0] = ReadBack(s) /\ g[Len(t)] = ReadBack(s \o t)
                /\ \A k \in 1..Len(t) : g[k] = ReadLine(g[k - 1], t[k])
<1> DEFINE m == Len(s)
           n == Len(t)
           R == Reader(s \o t)
           Q == Reader(s)
           T == {k \in 0..m : R[k] = Q[k]}
<1>1. /\ m \in Nat /\ n \in Nat /\ IsList(s \o t) /\ Len(s \o t) = m + n
      /\ \A k \in 1..m : (s \o t)[k] = s[k]
      /\ \A k \in 1..n : (s \o t)[m + k] = t[k]
  BY ListsJoin, ListPlaces
<1>2. R[0] = Fresh /\ \A k \in 1..(m + n) : R[k] = ReadLine(R[k - 1], (s \o t)[k])
  BY <1>1, ReaderSteps
<1>3. Q[0] = Fresh /\ \A k \in 1..m : Q[k] = ReadLine(Q[k - 1], s[k])
  BY ReaderSteps
<1>4. ReadBack(s) = Q[m]
  BY ReaderSteps
<1> HIDE DEF m, n, R, Q
<1>5. 0 \in T
  BY <1>1, <1>2, <1>3
<1>6. ASSUME NEW k \in 1..m, k - 1 \in T PROVE k \in T
  <2>1. k \in 1..(m + n) /\ k \in 0..m
    BY <1>1
  <2>2. R[k - 1] = Q[k - 1]
    BY <1>6
  <2>3. R[k] = Q[k]
    BY <1>1, <1>2, <1>3, <2>1, <2>2
  <2>4. QED
    BY <2>1, <2>3
<1>7. m \in T
  <2> HIDE DEF T
  <2>1. \A k \in 0..m : k \in T
    BY <1>1, <1>5, <1>6, UpTo
  <2>2. QED
    BY <1>1, <2>1
<1>8. R[m] = ReadBack(s) /\ R[m + n] = ReadBack(s \o t)
  <2>1. R[m + n] = ReadBack(s \o t)
    BY <1>1, ReaderSteps DEF R
  <2>2. QED
    BY <1>4, <1>7, <2>1
<1> DEFINE g == [k \in 0..n |-> R[m + k]]
<1>9. /\ g[0] = R[m + 0] /\ g[n] = R[m + n]
      /\ \A k \in 1..n : g[k] = R[m + k] /\ g[k - 1] = R[m + (k - 1)]
  BY <1>1
<1>10. ASSUME NEW k \in 1..n PROVE g[k] = ReadLine(g[k - 1], t[k])
  <2> HIDE DEF g
  <2>1. m + k \in 1..(m + n) /\ (m + k) - 1 = m + (k - 1)
    BY <1>1
  <2>2. R[m + k] = ReadLine(R[(m + k) - 1], (s \o t)[m + k])
    BY <1>2, <2>1
  <2>3. R[m + k] = ReadLine(R[m + (k - 1)], t[k])
    BY <1>1, <2>1, <2>2
  <2>4. QED
    BY <1>9, <2>3
<1>11. g[0] = R[m]
  BY <1>1, <1>9
<1> HIDE DEF g
<1>12. QED
  BY <1>8, <1>9, <1>10, <1>11 DEF n

\* The reader holds the outputs read and the lines of the value it is in.
WellRead(r) == /\ DOMAIN r = {"outs", "name", "delim", "body", "sound"}
               /\ IsList(r.outs) /\ IsList(r.body)

\* One more line, by where the reader is and what the line is.
LEMMA PairIsRead ==
  ASSUME NEW r, WellRead(r), r.delim = {}, NEW line, line.kind = "pair"
  PROVE  /\ WellRead(ReadLine(r, line))
         /\ ReadLine(r, line).outs = Append(r.outs, [name |-> line.name, value |-> <<line.line>>])
         /\ ReadLine(r, line).delim = r.delim /\ ReadLine(r, line).sound = r.sound
<1>1. ReadLine(r, line) = [r EXCEPT !.outs = Append(@, [name |-> line.name, value |-> <<line.line>>])]
  BY DEF ReadLine
<1>2. QED
  BY <1>1, ListGrows DEF WellRead

LEMMA OpeningIsRead ==
  ASSUME NEW r, WellRead(r), r.delim = {}, NEW line, line.kind = "opening"
  PROVE  /\ WellRead(ReadLine(r, line))
         /\ ReadLine(r, line).outs = r.outs /\ ReadLine(r, line).sound = r.sound
         /\ ReadLine(r, line).name = line.name /\ ReadLine(r, line).delim = {line.delim}
         /\ ReadLine(r, line).body = <<>>
<1>1. ReadLine(r, line) = [r EXCEPT !.name = line.name, !.delim = {line.delim}, !.body = <<>>]
  BY DEF ReadLine
<1>2. IsList(<<>>)
  BY DEF IsList
<1>3. QED
  BY <1>1, <1>2 DEF WellRead

LEMMA BodyIsRead ==
  ASSUME NEW r, WellRead(r), NEW d, r.delim = {d}, NEW line, line # Delim(d)
  PROVE  /\ WellRead(ReadLine(r, line))
         /\ ReadLine(r, line).outs = r.outs /\ ReadLine(r, line).sound = r.sound
         /\ ReadLine(r, line).name = r.name /\ ReadLine(r, line).delim = r.delim
         /\ ReadLine(r, line).body = Append(r.body, line)
<1>1. (CHOOSE e \in r.delim : TRUE) = d /\ r.delim # {}
  OBVIOUS
<1>2. ReadLine(r, line) = [r EXCEPT !.body = Append(@, line)]
  BY <1>1 DEF ReadLine
<1>3. QED
  BY <1>2, ListGrows DEF WellRead

LEMMA DelimIsRead ==
  ASSUME NEW r, WellRead(r), NEW d, r.delim = {d}
  PROVE  /\ WellRead(ReadLine(r, Delim(d)))
         /\ ReadLine(r, Delim(d)).outs = Append(r.outs, [name |-> r.name, value |-> r.body])
         /\ ReadLine(r, Delim(d)).delim = {} /\ ReadLine(r, Delim(d)).sound = r.sound
<1>1. (CHOOSE e \in r.delim : TRUE) = d /\ r.delim # {}
  OBVIOUS
<1>2. ReadLine(r, Delim(d)) =
        [r EXCEPT !.delim = {}, !.outs = Append(@, [name |-> r.name, value |-> r.body])]
  BY <1>1 DEF ReadLine
<1>3. QED
  BY <1>2, ListGrows DEF WellRead

LEMMA AnyLineIsRead ==
  ASSUME NEW r, WellRead(r), NEW line
  PROVE  WellRead(ReadLine(r, line))
<1>1. CASE r.delim # {} /\ line = Delim(CHOOSE d \in r.delim : TRUE)
  <2>1. ReadLine(r, line) =
          [r EXCEPT !.delim = {}, !.outs = Append(@, [name |-> r.name, value |-> r.body])]
    BY <1>1 DEF ReadLine
  <2>2. QED
    BY <2>1, ListGrows DEF WellRead
<1>2. CASE r.delim # {} /\ line # Delim(CHOOSE d \in r.delim : TRUE)
  <2>1. ReadLine(r, line) = [r EXCEPT !.body = Append(@, line)]
    BY <1>2 DEF ReadLine
  <2>2. QED
    BY <2>1, ListGrows DEF WellRead
<1>3. CASE r.delim = {} /\ line.kind = "pair"
  BY <1>3, PairIsRead
<1>4. CASE r.delim = {} /\ line.kind = "opening"
  BY <1>4, OpeningIsRead
<1>5. CASE r.delim = {} /\ line.kind \notin {"pair", "opening"}
  <2>1. ReadLine(r, line) = [r EXCEPT !.sound = FALSE]
    BY <1>5 DEF ReadLine
  <2>2. QED
    BY <2>1 DEF WellRead
<1>6. QED
  BY <1>1, <1>2, <1>3, <1>4, <1>5

\* Whatever a file holds, what is read of it is of its type.
LEMMA FileIsRead ==
  ASSUME NEW lines, IsList(lines)
  PROVE  WellRead(ReadBack(lines))
<1> DEFINE m == Len(lines)
           R == Reader(lines)
           T == {n \in 0..m : WellRead(R[n])}
<1>1. m \in Nat
  BY ListPlaces
<1>2. /\ ReadBack(lines) = R[m] /\ R[0] = Fresh
      /\ \A n \in 1..m : R[n] = ReadLine(R[n - 1], lines[n])
  BY ReaderSteps
<1>3. WellRead(Fresh)
  <2>1. IsList(<<>>)
    BY DEF IsList
  <2>2. QED
    BY <2>1 DEF WellRead, Fresh
<1> HIDE DEF m, R
<1>4. 0 \in T
  BY <1>1, <1>2, <1>3
<1>5. ASSUME NEW n \in 1..m, n - 1 \in T PROVE n \in T
  <2>1. WellRead(R[n - 1]) /\ n \in 0..m
    BY <1>1, <1>5
  <2>2. WellRead(R[n])
    BY <1>2, <2>1, AnyLineIsRead
  <2>3. QED
    BY <2>1, <2>2
<1>6. m \in T
  <2> HIDE DEF T
  <2>1. \A n \in 0..m : n \in T
    BY <1>1, <1>4, <1>5, UpTo
  <2>2. QED
    BY <1>1, <2>1
<1>7. QED
  BY <1>2, <1>6

\* What the runner reads once an output is written: it, after what was read before.
IsRead(before, o, after) ==
  /\ after.sound /\ after.delim = {}
  /\ after.outs = Append(before.outs, [name |-> o.name, value |-> o.value])

\* A value of one line, or of several with a delimiter that is none of them, is read as
\* it was written.
LEMMA OutputIsRead ==
  ASSUME NEW s, IsList(s), ReadBack(s).sound, ReadBack(s).delim = {},
         NEW o, IsList(o.value), NEW d, OneLine(o.value) \/ Absent(d, o.value)
  PROVE  IsList(s \o Written(o, d)) /\ IsRead(ReadBack(s), o, ReadBack(s \o Written(o, d)))
<1> DEFINE b == o.value
           n == Len(b)
           t == Written(o, d)
           r == ReadBack(s)
<1>1. n \in Nat /\ DOMAIN b = 1..n
  BY ListPlaces
<1>2. WellRead(r) /\ r.sound /\ r.delim = {}
  BY FileIsRead
<1>3. CASE OneLine(b)
  <2>1. t = <<Pair(o.name, b[1])>>
    BY <1>3 DEF Written
  <2>2. IsList(t) /\ Len(t) = 1 /\ t[1] = Pair(o.name, b[1])
    BY <2>1 DEF IsList
  <2>3. b = <<b[1]>>
    BY <1>1, <1>3 DEF OneLine, IsList
  <2> HIDE DEF b, n, t
  <2>4. PICK g : g[0] = r /\ g[1] = ReadBack(s \o t) /\ g[1] = ReadLine(g[0], t[1])
    <3>1. PICK g : /\ g[0] = r /\ g[Len(t)] = ReadBack(s \o t)
                   /\ \A k \in 1..Len(t) : g[k] = ReadLine(g[k - 1], t[k])
      BY <2>2, ReaderGoesOn
    <3>2. 1 \in 1..Len(t) /\ 1 - 1 = 0
      BY <2>2
    <3>3. QED
      BY <2>2, <3>1, <3>2
  <2>5. t[1].kind = "pair" /\ t[1].name = o.name /\ t[1].line = b[1]
    BY <2>2 DEF Pair
  <2>6. /\ ReadBack(s \o t).outs = Append(r.outs, [name |-> t[1].name, value |-> <<t[1].line>>])
        /\ ReadBack(s \o t).delim = {} /\ ReadBack(s \o t).sound
    <3> HIDE DEF r
    <3>1. ReadBack(s \o t) = ReadLine(r, t[1])
      BY <2>4
    <3>2. QED
      BY <1>2, <2>5, <3>1, PairIsRead
  <2>7. IsList(s \o t)
    BY <2>2, ListsJoin
  <2>8. QED
    BY <2>3, <2>5, <2>6, <2>7 DEF IsRead, b, t, r
<1>4. CASE ~OneLine(b) /\ Absent(d, b)
  <2> DEFINE o1 == Opening(o.name, d)
             d1 == Delim(d)
  <2>1. t = <<o1>> \o b \o <<d1>>
    BY <1>4 DEF Written
  <2>2. IsList(<<o1>>) /\ IsList(<<d1>>) /\ Len(<<o1>>) = 1 /\ Len(<<d1>>) = 1
    BY DEF IsList
  <2> HIDE DEF b, n, r, o1, d1
  <2>a. IsList(b) /\ n = Len(b)
    BY DEF b, n
  <2>3. /\ IsList(<<o1>> \o b) /\ Len(<<o1>> \o b) = 1 + n
        /\ (<<o1>> \o b)[1] = o1
        /\ \A k \in 1..n : (<<o1>> \o b)[1 + k] = b[k]
    <3>1. 1 \in 1..Len(<<o1>>) /\ <<o1>>[1] = o1
      BY <2>2
    <3>2. QED
      BY <2>2, <2>a, <3>1, ListsJoin
  <2> DEFINE c == <<o1>> \o b
  <2>4. /\ IsList(t) /\ Len(t) = n + 2
        /\ t[1] = o1 /\ t[n + 2] = d1
        /\ \A k \in 1..n : t[1 + k] = b[k]
    <3>0. t = c \o <<d1>>
      BY <2>1
    <3> HIDE DEF c, t
    <3>1. /\ IsList(c \o <<d1>>) /\ Len(c \o <<d1>>) = Len(c) + 1
          /\ \A k \in 1..Len(c) : (c \o <<d1>>)[k] = c[k]
          /\ \A k \in 1..1 : (c \o <<d1>>)[Len(c) + k] = <<d1>>[k]
      <4>1. IsList(c)
        BY <2>3 DEF c
      <4>2. QED
        BY <2>2, <4>1, ListsJoin
    <3>2. Len(c) = 1 + n /\ c[1] = o1 /\ \A k \in 1..n : c[1 + k] = b[k]
      BY <2>3 DEF c
    <3>3. 1 \in 1..1 /\ 1 \in 1..(1 + n) /\ (1 + n) + 1 = n + 2 /\ \A k \in 1..n : 1 + k \in 1..(1 + n)
      BY <1>1
    <3>4. <<d1>>[1] = d1
      OBVIOUS
    <3>5. QED
      BY <3>0, <3>1, <3>2, <3>3, <3>4
  <2> HIDE DEF c, t
  <2>5. PICK g : /\ g[0] = r /\ g[n + 2] = ReadBack(s \o t)
                 /\ \A k \in 1..(n + 2) : g[k] = ReadLine(g[k - 1], t[k])
    BY <2>4, ReaderGoesOn DEF r
  <2> DEFINE In(k) == /\ WellRead(g[k + 1]) /\ g[k + 1].outs = r.outs /\ g[k + 1].sound
                      /\ g[k + 1].name = o.name /\ g[k + 1].delim = {d}
                      /\ g[k + 1].body = SubSeq(b, 1, k)
             T == {k \in 0..n : In(k)}
  <2>6. 0 \in T
    <3>1. g[1] = ReadLine(r, o1)
      <4>1. 1 \in 1..(n + 2) /\ 1 - 1 = 0
        BY <1>1
      <4>2. QED
        BY <2>4, <2>5, <4>1
    <3>2. o1.kind = "opening" /\ o1.name = o.name /\ o1.delim = d
      BY DEF o1, Opening
    <3>3. /\ WellRead(g[1]) /\ g[1].outs = r.outs /\ g[1].sound
          /\ g[1].name = o.name /\ g[1].delim = {d} /\ g[1].body = <<>>
      BY <1>2, <3>1, <3>2, OpeningIsRead
    <3>4. SubSeq(b, 1, 0) = <<>> /\ 0 + 1 = 1 /\ 0 \in 0..n
      BY <1>1
    <3>5. In(0)
      BY <3>3, <3>4
    <3> HIDE DEF In
    <3>6. QED
      BY <3>4, <3>5
  <2>7. ASSUME NEW k \in 1..n, k - 1 \in T PROVE k \in T
    <3>1. In(k - 1) /\ (k - 1) + 1 = k /\ k \in 0..n
      BY <1>1, <2>7
    <3>2. /\ WellRead(g[k]) /\ g[k].outs = r.outs /\ g[k].sound
          /\ g[k].name = o.name /\ g[k].delim = {d} /\ g[k].body = SubSeq(b, 1, k - 1)
      BY <3>1
    <3>3. g[k + 1] = ReadLine(g[k], b[k])
      <4>1. 1 + k \in 1..(n + 2) /\ (1 + k) - 1 = k /\ 1 + k = k + 1
        BY <1>1
      <4>2. QED
        BY <2>4, <2>5, <4>1
    <3>4. b[k] # Delim(d)
      <4>1. k \in DOMAIN b
        BY <1>1
      <4>2. b[k].kind \in {"plain", "pair"} \/ b[k].delim # d
        BY <1>4, <4>1 DEF Absent
      <4>3. Delim(d).kind = "delim" /\ Delim(d).delim = d
        BY DEF Delim
      <4>4. QED
        BY <4>2, <4>3
    <3>5. /\ WellRead(g[k + 1]) /\ g[k + 1].outs = r.outs /\ g[k + 1].sound
          /\ g[k + 1].name = o.name /\ g[k + 1].delim = {d}
          /\ g[k + 1].body = Append(SubSeq(b, 1, k - 1), b[k])
      BY <3>2, <3>3, <3>4, BodyIsRead
    <3>6. Append(SubSeq(b, 1, k - 1), b[k]) = SubSeq(b, 1, k)
      BY <1>1, <2>a DEF IsList
    <3>7. In(k)
      BY <3>5, <3>6
    <3> HIDE DEF In
    <3>8. QED
      BY <3>1, <3>7
  <2>8. In(n)
    <3> HIDE DEF T
    <3>1. \A k \in 0..n : k \in T
      BY <1>1, <2>6, <2>7, UpTo
    <3>2. QED
      BY <1>1, <3>1 DEF T
  <2>9. g[n + 2] = ReadLine(g[n + 1], Delim(d))
    <3>1. n + 2 \in 1..(n + 2) /\ (n + 2) - 1 = n + 1
      BY <1>1
    <3>2. QED
      BY <2>4, <2>5, <3>1 DEF d1
  <2>10. SubSeq(b, 1, n) = b
    BY <1>1, <2>a DEF IsList
  <2>11. /\ ReadBack(s \o t).outs = Append(r.outs, [name |-> o.name, value |-> b])
         /\ ReadBack(s \o t).delim = {} /\ ReadBack(s \o t).sound
    <3>1. /\ WellRead(g[n + 1]) /\ g[n + 1].outs = r.outs /\ g[n + 1].sound
          /\ g[n + 1].name = o.name /\ g[n + 1].delim = {d} /\ g[n + 1].body = b
      BY <2>8, <2>10
    <3>2. /\ g[n + 2].outs = Append(r.outs, [name |-> o.name, value |-> b])
          /\ g[n + 2].delim = {} /\ g[n + 2].sound
      BY <2>9, <3>1, DelimIsRead
    <3>3. QED
      BY <2>5, <3>2
  <2>12. IsList(s \o t)
    BY <2>4, ListsJoin
  <2>13. QED
    BY <2>11, <2>12 DEF IsRead, b, t, r
<1>5. QED
  BY <1>3, <1>4

-----------------------------------------------------------------------------
(* The report                                                              *)

\* What a run is about, as far as the report goes.
Given == /\ IsList(given.notes) /\ IsList(given.before)
         /\ ReadBack(given.before).sound /\ ReadBack(given.before).delim = {}

LEMMA ReportIsList ==
  ASSUME Given
  PROVE  /\ IsList(Report) /\ Len(Report) \in Nat \ {0}
         /\ \A k \in 1..Len(Report) : /\ IsList(Report[k].value)
                                       /\ Report[k] = [name |-> Report[k].name, value |-> Report[k].value]
<1>0. \A e : IsList(<<e>>)
  BY DEF IsList
<1>1. CASE given.command = "release"
  <2>1. Report = <<[name |-> "notes", value |-> given.notes]>>
    BY <1>1 DEF Report
  <2>2. IsList(Report) /\ Len(Report) = 1
    BY <2>1 DEF IsList
  <2>3. \A k \in 1..1 : Report[k] = [name |-> "notes", value |-> given.notes]
    BY <2>1
  <2>4. QED
    BY <2>2, <2>3 DEF Given
<1>2. CASE given.command # "release"
  <2> DEFINE o1 == [name |-> "valid", value |-> <<Plain(IF Valid(Findings) THEN "true" ELSE "false")>>]
             o2 == [name |-> "notes", value |-> given.notes]
             o3 == [name |-> "due-reason", value |-> <<Plain(given.reason)>>]
  <2>1. Report = <<o1, o2, o3>>
    BY <1>2 DEF Report
  <2>2. /\ IsList(o1.value) /\ o1 = [name |-> o1.name, value |-> o1.value]
        /\ IsList(o2.value) /\ o2 = [name |-> o2.name, value |-> o2.value]
        /\ IsList(o3.value) /\ o3 = [name |-> o3.name, value |-> o3.value]
    BY <1>0 DEF Given
  <2> HIDE DEF o1, o2, o3
  <2>3. IsList(Report) /\ Len(Report) = 3
    BY <2>1 DEF IsList
  <2>4. Report[1] = o1 /\ Report[2] = o2 /\ Report[3] = o3
    BY <2>1
  <2>5. \A k \in 1..3 : k = 1 \/ k = 2 \/ k = 3
    OBVIOUS
  <2>6. QED
    BY <2>2, <2>3, <2>4, <2>5
<1>3. QED
  BY <1>1, <1>2

\* One more output, and one more of the report is in the file.
LEMMA ReportGoesOn ==
  ASSUME Given, NEW k \in 0..Len(Report), k < Len(Report), NEW now,
         now.outs = Append(ReadBack(file).outs, [name |-> Report[k + 1].name, value |-> Report[k + 1].value]),
         InFile(k)
  PROVE  now.outs = ReadBack(given.before).outs \o SubSeq(Report, 1, k + 1)
<1> DEFINE was == ReadBack(given.before).outs
           n == Len(Report)
           o == Report[k + 1]
<1>1. IsList(was)
  BY FileIsRead DEF Given, WellRead
<1>2. IsList(Report) /\ n \in Nat /\ k \in Nat /\ k + 1 \in 1..n
  BY ReportIsList
<1>3. o = [name |-> o.name, value |-> o.value]
  BY <1>2, ReportIsList
<1>4. now.outs = Append(was \o SubSeq(Report, 1, k), o)
  BY <1>3 DEF InFile
<1> HIDE DEF was, o
<1>5. Append(SubSeq(Report, 1, k), Report[k + 1]) = SubSeq(Report, 1, k + 1)
  BY <1>2 DEF IsList
<1>6. Append(was \o SubSeq(Report, 1, k), o) = was \o Append(SubSeq(Report, 1, k), o)
  <2> DEFINE S == {was[j] : j \in DOMAIN was} \cup {Report[j] : j \in DOMAIN Report}
  <2>1. was \in Seq(S) /\ Report \in Seq(S)
    <3>1. /\ was \in Seq({was[j] : j \in DOMAIN was}) /\ {was[j] : j \in DOMAIN was} \subseteq S
          /\ Report \in Seq({Report[j] : j \in DOMAIN Report})
          /\ {Report[j] : j \in DOMAIN Report} \subseteq S
      BY <1>1, <1>2 DEF IsList
    <3>2. \A T, U : T \subseteq U => Seq(T) \subseteq Seq(U)
      OBVIOUS
    <3> HIDE DEF S
    <3>3. QED
      BY <3>1, <3>2, Zenon
  <2> HIDE DEF S
  <2> DEFINE part == SubSeq(Report, 1, k)
  <2>2. part \in Seq(S) /\ o \in S /\ <<o>> \in Seq(S) /\ was \o part \in Seq(S)
    BY <1>2, <2>1 DEF o
  <2> HIDE DEF part
  <2>3. /\ Append(was \o part, o) = (was \o part) \o <<o>>
        /\ Append(part, o) = part \o <<o>>
    BY <2>2, AppendIsConcat
  <2>4. (was \o part) \o <<o>> = was \o (part \o <<o>>)
    BY <2>1, <2>2, ConcatAssociative
  <2>5. QED
    BY <2>3, <2>4 DEF part
<1>7. QED
  BY <1>4, <1>5, <1>6 DEF was, o

-----------------------------------------------------------------------------
(* The run                                                                 *)

Steps == {"start", "stdout", "file", "summary", "judge", "ended"}

\* A delimiter is drawn for the output that comes next, in whose value it does not occur.
Drawn == at.delim # {} =>
           /\ at.step \in {"stdout", "file"}
           /\ \E d : at.delim = {d} /\ Absent(d, Report[at.n + 1].value)

\* How much of the report is in the file: none until it is open, then what was put there,
\* and all of it once the run has gone on; a run that failed may have left some.
Reported == /\ at.step \in {"start", "stdout"} => InFile(0)
            /\ at.step = "file" => given.named /\ InFile(at.n)
            /\ at.step \in {"summary", "judge"} => InFile(IF given.named THEN Len(Report) ELSE 0)
            /\ at.step = "ended" => \E k \in 0..Len(Report) : InFile(k)

\* Why no release is due is in the summary of an inspection that has come to its verdict.
Summarized == /\ at.step \in {"start", "stdout", "file", "summary"} => summary = <<>>
              /\ at.step = "judge" /\ given.command = "inspect" /\ given.named =>
                   ((summary # <<>>) <=> (given.reason # ""))

\* The run goes on only with flags it knows, and ends by its verdict or broken.
Ended == /\ exit = 2 <=> at.step # "ended"
         /\ at.step \notin {"start", "ended"} => Known(given.flags)
         /\ RedRunsReport

RunInv ==
  /\ Given
  /\ DOMAIN at = {"step", "n", "tries", "delim"}
  /\ at.step \in Steps /\ at.n \in 0..Len(Report)
  /\ IsList(file) /\ ReadBack(file).sound /\ ReadBack(file).delim = {}
  /\ Drawn /\ Reported /\ Summarized /\ Ended

\* Before the run, the file holds what it held.
LEMMA RunBegins == Init => RunInv
<1> SUFFICES ASSUME Init PROVE RunInv
  OBVIOUS
<1>1. /\ given.notes \in Bodies /\ given.before \in Befores
      /\ at = Step("start") /\ file = given.before /\ summary = <<>> /\ exit = 2
  BY DEF Init
<1>2. Given
  BY <1>1, OutputsAssumption, BeforesAssumption DEF Given, IsList
<1>3. /\ at.step = "start" /\ at.n = 0 /\ at.delim = {}
      /\ DOMAIN at = {"step", "n", "tries", "delim"}
  BY <1>1 DEF Step
<1>4. IsList(ReadBack(file).outs) /\ IsList(file) /\ ReadBack(file).sound /\ ReadBack(file).delim = {}
  BY <1>1, <1>2, FileIsRead DEF Given, WellRead
<1>5. InFile(0)
  <2>1. IsList(Report)
    BY <1>2, ReportIsList
  <2>2. SubSeq(Report, 1, 0) = <<>>
    BY <2>1 DEF IsList
  <2>3. ReadBack(file).outs \o <<>> = ReadBack(file).outs
    BY <1>4 DEF IsList
  <2>4. QED
    BY <1>1, <2>2, <2>3 DEF InFile
<1>6. at.n \in 0..Len(Report)
  BY <1>2, <1>3, ReportIsList
<1>7. QED
  BY <1>1, <1>2, <1>3, <1>4, <1>5, <1>6
  DEF RunInv, Drawn, Reported, Summarized, Ended, RedRunsReport, Steps

\* A run that fails leaves in the file what it put there.
LEMMA FailureLeaves ==
  ASSUME RunInv, at.step # "ended", Fail,
         UNCHANGED <<given, file, summary>>, broken' \/ ~Known(given.flags)
  PROVE  RunInv'
<1>1. /\ at'.step = "ended" /\ at'.n = 0 /\ at'.delim = {} /\ exit' = 1
      /\ DOMAIN at' = {"step", "n", "tries", "delim"}
  BY DEF Fail, Step
<1>2. given' = given /\ file' = file /\ summary' = summary
  OBVIOUS
<1>3. Report' = Report /\ Findings' = Findings
  BY <1>2 DEF Report, Findings
<1>4. Len(Report) \in Nat
  BY ReportIsList DEF RunInv
<1>5. \A k : InFile(k)' <=> InFile(k)
  BY <1>2, <1>3 DEF InFile
<1>6. \E k \in 0..Len(Report) : InFile(k)
  <2>1. at.step \in Steps /\ at.n \in 0..Len(Report) /\ Reported /\ Ended
    BY DEF RunInv
  <2>2. CASE at.step \in {"start", "stdout"}
    <3>1. InFile(0) /\ 0 \in 0..Len(Report)
      BY <1>4, <2>1, <2>2 DEF Reported
    <3>2. QED
      BY <3>1
  <2>3. CASE at.step = "file"
    <3>1. InFile(at.n)
      BY <2>1, <2>3 DEF Reported
    <3>2. QED
      BY <2>1, <3>1
  <2>4. CASE at.step \in {"summary", "judge"}
    <3>1. InFile(IF given.named THEN Len(Report) ELSE 0)
      BY <2>1, <2>4 DEF Reported
    <3>2. (IF given.named THEN Len(Report) ELSE 0) \in 0..Len(Report)
      BY <1>4
    <3>3. QED
      BY <3>1, <3>2
  <2>5. QED
    BY <2>1, <2>2, <2>3, <2>4 DEF Steps
<1>7. Given' /\ at'.n \in 0..Len(Report')
  BY <1>1, <1>2, <1>3, <1>4 DEF RunInv, Given
<1>8. Drawn' /\ Summarized'
  BY <1>1 DEF Drawn, Summarized
<1>9. Reported'
  BY <1>1, <1>3, <1>5, <1>6 DEF Reported
<1>10. Ended'
  <2>1. Known(given.flags)' <=> Known(given.flags)
    BY <1>2 DEF Known
  <2>2. RedRunsReport'
    BY <2>1, Zenon DEF RedRunsReport
  <2>3. QED
    BY <1>1, <2>2 DEF Ended
<1>11. QED
  BY <1>1, <1>2, <1>7, <1>8, <1>9, <1>10 DEF RunInv, Steps

\* What a step that leaves the file and the run's purpose alone keeps of the invariant.
LEMMA FileStays ==
  ASSUME RunInv, UNCHANGED <<given, file>>
  PROVE  /\ Given' /\ Report' = Report /\ Findings' = Findings
         /\ Len(Report) \in Nat \ {0}
         /\ IsList(file') /\ ReadBack(file').sound /\ ReadBack(file').delim = {}
         /\ \A k : InFile(k)' <=> InFile(k)
         /\ Known(given.flags)' <=> Known(given.flags)
<1>1. given' = given /\ file' = file
  OBVIOUS
<1>2. Report' = Report /\ Findings' = Findings
  BY <1>1 DEF Report, Findings
<1>3. \A k : InFile(k)' <=> InFile(k)
  BY <1>1, <1>2 DEF InFile
<1>4. Known(given.flags)' <=> Known(given.flags)
  BY <1>1 DEF Known
<1>5. Given' /\ IsList(file') /\ ReadBack(file').sound /\ ReadBack(file').delim = {}
  BY <1>1 DEF RunInv, Given
<1>6. Len(Report) \in Nat \ {0}
  BY ReportIsList DEF RunInv
<1>7. QED
  BY <1>2, <1>3, <1>4, <1>5, <1>6

LEMMA StartKeeps == RunInv /\ Start => RunInv'
<1> SUFFICES ASSUME RunInv, Start PROVE RunInv'
  OBVIOUS
<1>1. at.step = "start" /\ UNCHANGED <<given, stdout, file, summary, broken>>
  BY DEF Start
<1>2. CASE Known(given.flags)
  <2>1. at' = Step("stdout") /\ exit' = exit
    BY <1>2 DEF Start
  <2>2. /\ at'.step = "stdout" /\ at'.n = 0 /\ at'.delim = {}
        /\ DOMAIN at' = {"step", "n", "tries", "delim"}
    BY <2>1 DEF Step
  <2>3. /\ Given' /\ Report' = Report /\ Len(Report) \in Nat
        /\ IsList(file') /\ ReadBack(file').sound /\ ReadBack(file').delim = {}
        /\ \A k : InFile(k)' <=> InFile(k)
        /\ Known(given.flags)' <=> Known(given.flags)
    BY <1>1, FileStays
  <2>4. InFile(0) /\ summary = <<>> /\ exit = 2
    BY <1>1 DEF RunInv, Reported, Summarized, Ended
  <2>5. Reported'
    BY <2>2, <2>3, <2>4 DEF Reported
  <2>6. Drawn' /\ Summarized'
    BY <1>1, <2>2, <2>4 DEF Drawn, Summarized
  <2>7. Ended'
    BY <1>2, <2>1, <2>2, <2>3, <2>4 DEF Ended, RedRunsReport
  <2>8. QED
    BY <2>2, <2>3, <2>5, <2>6, <2>7 DEF RunInv, Steps
<1>3. CASE ~Known(given.flags)
  <2>1. Fail
    BY <1>3 DEF Start
  <2>2. QED
    BY <1>1, <1>3, <2>1, FailureLeaves
<1>4. QED
  BY <1>2, <1>3

LEMMA DrawKeeps == RunInv /\ Draw => RunInv'
<1> SUFFICES ASSUME RunInv, Draw PROVE RunInv'
  OBVIOUS
<1>1. /\ at.step \in {"stdout", "file"} /\ at.delim = {} /\ at.step # "ended"
      /\ UNCHANGED <<given, stdout, file, summary>>
  BY DEF Draw, Writing
<1>2. CASE Fail /\ broken' = TRUE
  BY <1>1, <1>2, FailureLeaves
<1>3. CASE /\ UNCHANGED <<exit, broken>>
           /\ at'.step = at.step /\ at'.n = at.n /\ DOMAIN at' = DOMAIN at
           /\ at'.delim = {} \/ \E d : at'.delim = {d} /\ Absent(d, Report[at.n + 1].value)
  <2>1. /\ Given' /\ Report' = Report
        /\ IsList(file') /\ ReadBack(file').sound /\ ReadBack(file').delim = {}
        /\ \A k : InFile(k)' <=> InFile(k)
        /\ Known(given.flags)' <=> Known(given.flags)
    BY <1>1, FileStays
  <2>2. Drawn'
    BY <1>1, <1>3, <2>1 DEF Drawn
  <2>3. Reported /\ Summarized /\ Ended
    BY DEF RunInv
  <2>4. Reported'
    BY <1>1, <1>3, <2>1, <2>3 DEF Reported
  <2>5. Summarized'
    BY <1>1, <1>3, <2>3 DEF Summarized
  <2>6. exit' = 2
    BY <1>1, <1>3, <2>3 DEF Ended
  <2>7. Ended'
    BY <1>1, <1>3, <2>1, <2>3, <2>6 DEF Ended, RedRunsReport
  <2>8. QED
    BY <1>3, <2>1, <2>2, <2>4, <2>5, <2>7 DEF RunInv
<1>4. \/ Fail /\ broken' = TRUE
      \/ /\ UNCHANGED <<exit, broken>>
         /\ at'.step = at.step /\ at'.n = at.n /\ DOMAIN at' = DOMAIN at
         /\ at'.delim = {} \/ \E d : at'.delim = {d} /\ Absent(d, Report[at.n + 1].value)
  <2>1. PICK d \in Delims :
          IF Absent(d, Report[at.n + 1].value)
          THEN at' = [at EXCEPT !.delim = {d}] /\ UNCHANGED <<exit, broken>>
          ELSE IF at.tries + 1 < Draws
          THEN at' = [at EXCEPT !.tries = @ + 1] /\ UNCHANGED <<exit, broken>>
          ELSE Fail /\ broken' = TRUE
    BY DEF Draw
  <2>2. DOMAIN at = {"step", "n", "tries", "delim"}
    BY DEF RunInv
  <2>3. CASE Absent(d, Report[at.n + 1].value)
    <3>1. at' = [at EXCEPT !.delim = {d}] /\ UNCHANGED <<exit, broken>>
      BY <2>1, <2>3
    <3>2. at'.step = at.step /\ at'.n = at.n /\ DOMAIN at' = DOMAIN at /\ at'.delim = {d}
      BY <2>2, <3>1
    <3>3. QED
      BY <2>3, <3>1, <3>2
  <2>4. CASE ~Absent(d, Report[at.n + 1].value) /\ at.tries + 1 < Draws
    <3>1. at' = [at EXCEPT !.tries = @ + 1] /\ UNCHANGED <<exit, broken>>
      BY <2>1, <2>4
    <3>2. at'.step = at.step /\ at'.n = at.n /\ DOMAIN at' = DOMAIN at /\ at'.delim = {}
      BY <1>1, <2>2, <3>1
    <3>3. QED
      BY <3>1, <3>2
  <2>5. CASE ~Absent(d, Report[at.n + 1].value) /\ ~(at.tries + 1 < Draws)
    BY <2>1, <2>5
  <2>6. QED
    BY <2>3, <2>4, <2>5
<1>5. QED
  BY <1>2, <1>3, <1>4

\* The output that comes next is read after those before it.
LEMMA PutKeeps == RunInv /\ Put => RunInv'
<1> SUFFICES ASSUME RunInv, Put PROVE RunInv'
  OBVIOUS
<1>0. PICK n : n = at.n
  OBVIOUS
<1> DEFINE o == Report[n + 1]
           d == CHOOSE d \in at.delim \cup Delims : at.delim \subseteq {d}
           t == Written(o, d)
<1>1. /\ at.step \in {"stdout", "file"} /\ at.n < Len(Report) /\ n < Len(Report)
      /\ OneLine(o.value) \/ at.delim # {}
      /\ at' = [at EXCEPT !.n = @ + 1, !.tries = 0, !.delim = {}]
      /\ given' = given /\ summary' = summary /\ exit' = exit /\ broken' = broken
      /\ IF at.step = "stdout" THEN file' = file ELSE file' = file \o t
  BY <1>0 DEF Put, Writing
<1>2. /\ Given /\ DOMAIN at = {"step", "n", "tries", "delim"} /\ n \in 0..Len(Report)
      /\ IsList(file) /\ ReadBack(file).sound /\ ReadBack(file).delim = {}
      /\ Drawn /\ Reported /\ Summarized /\ Ended
  BY <1>0 DEF RunInv
<1>3. /\ at'.step = at.step /\ at'.n = n + 1 /\ at'.delim = {}
      /\ DOMAIN at' = {"step", "n", "tries", "delim"}
  BY <1>0, <1>1, <1>2
<1>4. Report' = Report /\ Given' /\ (Known(given.flags)' <=> Known(given.flags))
  BY <1>1, <1>2 DEF Report, Findings, Given, Known
<1>5. /\ Len(Report) \in Nat /\ n \in Nat /\ n + 1 \in 1..Len(Report) /\ n + 1 \in 0..Len(Report)
      /\ IsList(o.value)
  <2>1. Len(Report) \in Nat /\ \A k \in 1..Len(Report) : IsList(Report[k].value)
    BY <1>2, ReportIsList
  <2>2. n \in Nat /\ n + 1 \in 1..Len(Report) /\ n + 1 \in 0..Len(Report)
    BY <1>1, <1>2, <2>1
  <2>3. QED
    BY <2>1, <2>2
<1>6. OneLine(o.value) \/ Absent(d, o.value)
  <2>1. CASE at.delim # {}
    <3>1. PICK e : at.delim = {e} /\ Absent(e, o.value)
      BY <1>0, <1>2, <2>1 DEF Drawn
    <3>2. e \in at.delim \cup Delims /\ at.delim \subseteq {e}
      BY <3>1
    <3>3. at.delim \subseteq {d}
      BY <3>2
    <3>4. d = e
      BY <3>1, <3>3
    <3>5. QED
      BY <3>1, <3>4
  <2>2. QED
    BY <1>1, <2>1
<1> HIDE DEF o, d, t
<1>7. /\ IsList(file') /\ ReadBack(file').sound /\ ReadBack(file').delim = {}
      /\ at.step = "stdout" => InFile(0)'
      /\ at.step = "file" => InFile(n + 1)'
  <2>1. CASE at.step = "stdout"
    <3>1. InFile(0) /\ file' = file /\ at.step # "file"
      BY <1>1, <1>2, <2>1 DEF Reported
    <3>2. InFile(0)'
      BY <1>1, <1>4, <3>1 DEF InFile
    <3>3. QED
      BY <1>2, <2>1, <3>1, <3>2
  <2>2. CASE at.step = "file"
    <3>1. InFile(n) /\ file' = file \o t /\ at.step # "stdout"
      BY <1>0, <1>1, <1>2, <2>2 DEF Reported
    <3>2. IsList(file \o t) /\ IsRead(ReadBack(file), o, ReadBack(file \o t))
      BY <1>2, <1>5, <1>6, OutputIsRead DEF t
    <3>3. /\ ReadBack(file').sound /\ ReadBack(file').delim = {}
          /\ ReadBack(file').outs =
               Append(ReadBack(file).outs, [name |-> Report[n + 1].name, value |-> Report[n + 1].value])
      BY <3>1, <3>2 DEF IsRead, o
    <3>4. ReadBack(file').outs = ReadBack(given.before).outs \o SubSeq(Report, 1, n + 1)
      BY <1>1, <1>2, <1>5, <3>1, <3>3, ReportGoesOn
    <3>5. InFile(n + 1)'
      BY <1>1, <1>4, <3>4 DEF InFile
    <3>6. QED
      BY <2>2, <3>1, <3>2, <3>3, <3>5
  <2>3. QED
    BY <1>1, <2>1, <2>2
<1>8. Reported'
  <2>1. at.step = "file" => given'.named
    BY <1>1, <1>2 DEF Reported
  <2>2. at.step = "file" => InFile(at.n)'
    BY <1>3, <1>7 DEF InFile
  <2>3. QED
    BY <1>1, <1>3, <1>7, <2>1, <2>2 DEF Reported
<1>9. Drawn' /\ Summarized'
  BY <1>1, <1>2, <1>3 DEF Drawn, Summarized
<1>10. Ended'
  <2>1. exit = 2
    BY <1>1, <1>2 DEF Ended
  <2>2. QED
    BY <1>1, <1>2, <1>3, <1>4, <2>1 DEF Ended, RedRunsReport
<1>11. at'.step \in Steps /\ at'.n \in 0..Len(Report')
  BY <1>1, <1>3, <1>4, <1>5 DEF Steps
<1>12. QED
  BY <1>3, <1>4, <1>7, <1>8, <1>9, <1>10, <1>11 DEF RunInv

LEMMA NextStreamKeeps == RunInv /\ NextStream => RunInv'
<1> SUFFICES ASSUME RunInv, NextStream PROVE RunInv'
  OBVIOUS
<1> DEFINE next == IF at.step = "stdout" /\ given.named THEN "file"
                   ELSE IF given.command = "release" THEN "judge" ELSE "summary"
<1>1. /\ at.step \in {"stdout", "file"} /\ at.n = Len(Report) /\ at' = Step(next)
      /\ UNCHANGED <<given, stdout, file, summary, exit, broken>>
  BY DEF NextStream
<1>2. /\ at'.step = next /\ at'.n = 0 /\ at'.delim = {}
      /\ DOMAIN at' = {"step", "n", "tries", "delim"}
  BY <1>1 DEF Step
<1>3. /\ Given' /\ Report' = Report /\ Len(Report) \in Nat
      /\ IsList(file') /\ ReadBack(file').sound /\ ReadBack(file').delim = {}
      /\ \A k : InFile(k)' <=> InFile(k)
      /\ Known(given.flags)' <=> Known(given.flags)
  BY <1>1, FileStays
<1>4. Reported /\ Summarized /\ Ended
  BY DEF RunInv
<1>5. exit = 2 /\ summary = <<>> /\ Known(given.flags)
  BY <1>1, <1>4 DEF Summarized, Ended
<1>6. next \in {"file", "judge", "summary"} /\ (next = "file" => at.step = "stdout" /\ given.named)
      /\ (next = "judge" => given.command = "release")
      /\ (next # "file" /\ at.step = "stdout" => ~given.named)
  OBVIOUS
<1> HIDE DEF next
<1>7. Reported'
  <2>1. CASE next = "file"
    <3>1. InFile(0)
      BY <1>1, <1>4, <1>6, <2>1 DEF Reported
    <3>2. InFile(0)' /\ given'.named
      BY <1>1, <1>3, <1>6, <2>1, <3>1
    <3>3. InFile(at.n)'
      BY <1>2, <3>2 DEF InFile
    <3>4. QED
      BY <1>2, <2>1, <3>2, <3>3 DEF Reported
  <2>2. CASE next # "file"
    <3>1. CASE at.step = "stdout"
      <4>1. InFile(0) /\ ~given.named
        BY <1>4, <1>6, <2>2, <3>1 DEF Reported
      <4>2. QED
        BY <1>1, <1>2, <1>3, <1>6, <2>2, <4>1 DEF Reported
    <3>2. CASE at.step = "file"
      <4>1. InFile(Len(Report)) /\ given.named
        BY <1>1, <1>4, <3>2 DEF Reported, RunInv
      <4>2. QED
        BY <1>1, <1>2, <1>3, <1>6, <2>2, <4>1 DEF Reported
    <3>3. QED
      BY <1>1, <3>1, <3>2
  <2>3. QED
    BY <2>1, <2>2
<1>8. Drawn' /\ Summarized'
  <2>1. Drawn'
    BY <1>2 DEF Drawn
  <2>2. Summarized'
    BY <1>1, <1>2, <1>5, <1>6 DEF Summarized
  <2>3. QED
    BY <2>1, <2>2
<1>9. Ended'
  BY <1>1, <1>2, <1>3, <1>5, <1>6 DEF Ended, RedRunsReport
<1>10. at'.step \in Steps /\ at'.n \in 0..Len(Report')
  BY <1>2, <1>3, <1>6 DEF Steps
<1>11. QED
  BY <1>2, <1>3, <1>7, <1>8, <1>9, <1>10 DEF RunInv

LEMMA SummarizeKeeps == RunInv /\ Summarize => RunInv'
<1> SUFFICES ASSUME RunInv, Summarize PROVE RunInv'
  OBVIOUS
<1>1. /\ at.step = "summary" /\ at' = Step("judge")
      /\ UNCHANGED <<given, stdout, file, exit, broken>>
      /\ summary' = IF given.named /\ given.reason # "" THEN Append(summary, given.reason) ELSE summary
  BY DEF Summarize
<1>2. /\ at'.step = "judge" /\ at'.n = 0 /\ at'.delim = {}
      /\ DOMAIN at' = {"step", "n", "tries", "delim"}
  BY <1>1 DEF Step
<1>3. /\ Given' /\ Report' = Report /\ Len(Report) \in Nat
      /\ IsList(file') /\ ReadBack(file').sound /\ ReadBack(file').delim = {}
      /\ \A k : InFile(k)' <=> InFile(k)
      /\ Known(given.flags)' <=> Known(given.flags)
  BY <1>1, FileStays
<1>4. Reported /\ Summarized /\ Ended
  BY DEF RunInv
<1>5. exit = 2 /\ summary = <<>> /\ Known(given.flags)
  BY <1>1, <1>4 DEF Summarized, Ended
<1>6. Reported'
  BY <1>1, <1>2, <1>3, <1>4 DEF Reported
<1>7. Drawn' /\ Summarized'
  <2>1. Append(<<>>, given.reason) # <<>>
    OBVIOUS
  <2>2. Summarized'
    BY <1>1, <1>2, <1>5, <2>1 DEF Summarized
  <2>3. Drawn'
    BY <1>2 DEF Drawn
  <2>4. QED
    BY <2>2, <2>3
<1>8. Ended'
  BY <1>1, <1>2, <1>3, <1>5 DEF Ended, RedRunsReport
<1>9. QED
  BY <1>2, <1>3, <1>6, <1>7, <1>8 DEF RunInv, Steps

LEMMA JudgeKeeps == RunInv /\ Judge => RunInv'
<1> SUFFICES ASSUME RunInv, Judge PROVE RunInv'
  OBVIOUS
<1>1. /\ at.step = "judge" /\ at' = Step("ended")
      /\ UNCHANGED <<given, stdout, file, summary, broken>>
      /\ exit' = IF given.command = "inspect" /\ Red(Findings, given.flags.failOn) THEN 1 ELSE 0
  BY DEF Judge
<1>2. /\ at'.step = "ended" /\ at'.n = 0 /\ at'.delim = {}
      /\ DOMAIN at' = {"step", "n", "tries", "delim"}
  BY <1>1 DEF Step
<1>3. /\ Given' /\ Report' = Report /\ Len(Report) \in Nat
      /\ IsList(file') /\ ReadBack(file').sound /\ ReadBack(file').delim = {}
      /\ \A k : InFile(k)' <=> InFile(k)
      /\ Known(given.flags)' <=> Known(given.flags)
  BY <1>1, FileStays
<1>4. Reported /\ Summarized
  BY DEF RunInv
<1>5. InFile(IF given.named THEN Len(Report) ELSE 0)
  BY <1>1, <1>4 DEF Reported
<1>6. Reported'
  <2>1. (IF given.named THEN Len(Report) ELSE 0) \in 0..Len(Report)
    BY <1>3
  <2>2. \E k \in 0..Len(Report) : InFile(k)
    BY <1>5, <2>1
  <2>3. QED
    BY <1>2, <1>3, <2>2 DEF Reported
<1>7. Drawn' /\ Summarized'
  BY <1>2 DEF Drawn, Summarized
<1>8. RedRunsReport'
  <2>1. ASSUME given.named PROVE InFile(Len(Report))'
    BY <1>3, <1>5, <2>1
  <2>2. ASSUME given.named, given.command = "inspect"
        PROVE  (summary' # <<>>) <=> (given.reason # "")
    BY <1>1, <1>4, <2>2 DEF Summarized
  <2>3. ASSUME given.command = "inspect", given.flags.failOn = "error"
        PROVE  exit' = 0 <=> Report[1].value = <<Plain("true")>>
    <3>1. exit' = 0 <=> Valid(Findings)
      BY <1>1, <2>3 DEF Red, Valid
    <3>2. Report[1].value = <<Plain(IF Valid(Findings) THEN "true" ELSE "false")>>
      BY <2>3 DEF Report
    <3>3. <<Plain("true")>> # <<Plain("false")>>
      BY DEF Plain
    <3>4. QED
      BY <3>1, <3>2, <3>3
  <2>4. given' = given
    BY <1>1
  <2>5. QED
    BY <1>3, <2>1, <2>2, <2>3, <2>4 DEF RedRunsReport
<1>9. Ended'
  BY <1>1, <1>2, <1>8 DEF Ended
<1>10. QED
  BY <1>2, <1>3, <1>6, <1>7, <1>8, <1>9 DEF RunInv, Steps

\* output.go:20-28: the invariant holds of every run, whatever its notes hold, whatever is
\* drawn, and wherever a write fails.
THEOREM RunsAreReported == Spec => []RunInv
<1>1. RunInv /\ [Next]_vars => RunInv'
  <2> SUFFICES ASSUME RunInv, [Next]_vars PROVE RunInv'
    OBVIOUS
  <2>1. CASE WriteFails
    <3>1. at.step # "ended" /\ Fail /\ broken' = TRUE /\ UNCHANGED <<given, stdout, file, summary>>
      BY <2>1 DEF WriteFails
    <3>2. QED
      BY <3>1, FailureLeaves
  <2>2. CASE UNCHANGED vars
    <3>1. /\ at' = at /\ exit' = exit /\ broken' = broken /\ summary' = summary
          /\ given' = given /\ file' = file
      BY <2>2 DEF vars
    <3>2. Report' = Report /\ Findings' = Findings
      BY <3>1 DEF Report, Findings
    <3>3. Given' /\ Drawn' /\ Reported' /\ Summarized' /\ Ended'
      BY <3>1, <3>2
      DEF RunInv, Given, Drawn, Reported, Summarized, Ended, RedRunsReport, InFile, Known
    <3>4. QED
      BY <3>1, <3>2, <3>3 DEF RunInv
  <2>3. QED
    BY <2>1, <2>2, StartKeeps, DrawKeeps, PutKeeps, NextStreamKeeps, SummarizeKeeps, JudgeKeeps
    DEF Next, Works
<1>2. QED
  BY <1>1, RunBegins, PTL DEF Spec

\* output_test.go:10-11: the runner reads what was in the file and then the first outputs of
\* the report, each with its value, and nothing that the value would declare.
THEOREM OutputsReadBack == Spec => []ReadsBack
<1>1. RunInv => ReadsBack
  <2> SUFFICES ASSUME RunInv PROVE ReadsBack
    OBVIOUS
  <2>1. Reported /\ at.step \in Steps /\ at.n \in 0..Len(Report) /\ Len(Report) \in Nat
    BY ReportIsList DEF RunInv
  <2>2. \E k \in 0..Len(Report) : InFile(k)
    <3>1. \A k \in {0, at.n, Len(Report), IF given.named THEN Len(Report) ELSE 0} : k \in 0..Len(Report)
      BY <2>1
    <3>2. QED
      BY <2>1, <3>1 DEF Reported, Steps
  <2>3. QED
    BY <2>2 DEF ReadsBack, RunInv
<1>2. QED
  BY <1>1, RunsAreReported, PTL

\* main.go:102-105: a run that ends by its own verdict has reported everything, and its exit
\* agrees with the verdict the runner reads.
THEOREM VerdictsAreReported == Spec => []RedRunsReport
<1>1. RunInv => RedRunsReport
  BY DEF RunInv, Ended
<1>2. QED
  BY <1>1, RunsAreReported, PTL
=============================================================================
