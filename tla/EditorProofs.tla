----------------------------- MODULE EditorProofs -----------------------------
(***************************************************************************)
(* What the writers make of a document, for documents of any number of     *)
(* lines and notes of any length: proofs about modules Document and        *)
(* Editor.                                                                 *)
(***************************************************************************)
EXTENDS Editor, ChangelogProofs

-----------------------------------------------------------------------------
(* Lines and positions                                                     *)

\* A sequence, of whatever it holds.
IsSequence(d) == \E S : d \in Seq(S)

LEMMA SequenceIs ==
  ASSUME NEW d, IsSequence(d)
  PROVE  Len(d) \in Nat /\ DOMAIN d = 1..Len(d)
  BY DEF IsSequence

\* Two sequences are of one set of elements.
LEMMA SequencesShare ==
  ASSUME NEW d, IsSequence(d), NEW b, IsSequence(b)
  PROVE  \E S : d \in Seq(S) /\ b \in Seq(S)
<1>1. PICK S : d \in Seq(S)
  BY DEF IsSequence
<1>2. PICK T : b \in Seq(T)
  BY DEF IsSequence
<1>3. \A i \in 1..Len(d) : d[i] \in S \cup T
  BY <1>1
<1>4. \A i \in 1..Len(b) : b[i] \in S \cup T
  BY <1>2
<1>5. d \in Seq(S \cup T)
  BY <1>1, <1>3
<1>6. b \in Seq(S \cup T)
  BY <1>2, <1>4
<1>7. QED
  BY <1>5, <1>6

\* What two sequences are together.
LEMMA Joined ==
  ASSUME NEW S, NEW p \in Seq(S), NEW q \in Seq(S), NEW e, e = p \o q
  PROVE  /\ e \in Seq(S) /\ Len(e) = Len(p) + Len(q)
         /\ \A i \in 1..Len(p) : e[i] = p[i]
         /\ \A i \in 1..Len(q) : e[Len(p) + i] = q[i]
  OBVIOUS

\* What three are.
LEMMA Three ==
  ASSUME NEW S, NEW p \in Seq(S), NEW b \in Seq(S), NEW q \in Seq(S), NEW e, e = p \o b \o q
  PROVE  /\ e \in Seq(S) /\ Len(e) = Len(p) + Len(b) + Len(q)
         /\ \A i \in 1..Len(p) : e[i] = p[i]
         /\ \A i \in 1..Len(b) : e[Len(p) + i] = b[i]
         /\ \A i \in 1..Len(q) : e[Len(p) + Len(b) + i] = q[i]
<1>0. PICK r : r = p \o b
  OBVIOUS
<1>1. /\ r \in Seq(S) /\ Len(r) = Len(p) + Len(b)
      /\ \A i \in 1..Len(p) : r[i] = p[i]
      /\ \A i \in 1..Len(b) : r[Len(p) + i] = b[i]
  BY <1>0, Joined
<1>2. e = r \o q
  BY <1>0
<1>3. /\ e \in Seq(S) /\ Len(e) = Len(r) + Len(q)
      /\ \A i \in 1..Len(r) : e[i] = r[i]
      /\ \A i \in 1..Len(q) : e[Len(r) + i] = q[i]
  <2>1. r \in Seq(S)
    BY <1>1
  <2>2. QED
    BY <2>1, <1>2, Joined
<1>4. Len(p) \in Nat /\ Len(b) \in Nat /\ Len(q) \in Nat
  OBVIOUS
<1>5. QED
  BY <1>1, <1>3, <1>4

\* What a splice holds, and where (edit.go, splice).
Spliced(d, k, b, e) ==
  /\ IsSequence(e) /\ Len(e) = Len(d) + Len(b)
  /\ \A i \in 1..k : e[i] = d[i]
  /\ \A i \in 1..Len(b) : e[k + i] = b[i]
  /\ \A i \in (k + 1)..Len(d) : e[i + Len(b)] = d[i]

LEMMA SpliceIs ==
  ASSUME NEW d, NEW k, NEW b, IsSequence(d), IsSequence(b), k \in 0..Len(d)
  PROVE  Spliced(d, k, b, Splice(d, k, b))
<1>0. PICK e : e = Splice(d, k, b)
  OBVIOUS
<1>1. PICK S : d \in Seq(S) /\ b \in Seq(S)
  BY SequencesShare
<1>2. PICK p, q : p = SubSeq(d, 1, k) /\ q = SubSeq(d, k + 1, Len(d))
  OBVIOUS
<1>3. /\ p \in Seq(S) /\ Len(p) = k /\ \A i \in 1..k : p[i] = d[i]
  BY <1>1, <1>2
<1>4. /\ q \in Seq(S) /\ Len(q) = Len(d) - k /\ \A i \in 1..(Len(d) - k) : q[i] = d[k + i]
  BY <1>1, <1>2
<1>5. e = p \o b \o q
  BY <1>0, <1>2 DEF Splice
<1>6. p \in Seq(S) /\ b \in Seq(S) /\ q \in Seq(S)
  BY <1>1, <1>3, <1>4
<1>7. /\ e \in Seq(S) /\ Len(e) = Len(p) + Len(b) + Len(q)
      /\ \A i \in 1..Len(p) : e[i] = p[i]
      /\ \A i \in 1..Len(b) : e[Len(p) + i] = b[i]
      /\ \A i \in 1..Len(q) : e[Len(p) + Len(b) + i] = q[i]
  BY <1>5, <1>6, Three
<1>8. Len(b) \in Nat /\ Len(d) \in Nat
  BY <1>1
<1>9. \A i \in (k + 1)..Len(d) : e[i + Len(b)] = d[i]
  <2>1. SUFFICES ASSUME NEW i \in (k + 1)..Len(d) PROVE e[i + Len(b)] = d[i]
    OBVIOUS
  <2>2. /\ i - k \in 1..Len(q) /\ i - k \in 1..(Len(d) - k)
        /\ Len(p) + Len(b) + (i - k) = i + Len(b) /\ k + (i - k) = i
    BY <1>3, <1>4, <1>8
  <2>3. e[Len(p) + Len(b) + (i - k)] = q[i - k] /\ q[i - k] = d[k + (i - k)]
    BY <1>4, <1>7, <2>2
  <2>4. QED
    BY <2>2, <2>3
<1>10. Len(e) = Len(d) + Len(b)
  BY <1>3, <1>4, <1>7, <1>8
<1>11. IsSequence(e)
  BY <1>7 DEF IsSequence
<1>12. Spliced(d, k, b, e)
  BY <1>3, <1>7, <1>9, <1>10, <1>11 DEF Spliced
<1>13. QED
  BY <1>0, <1>12

\* What a document holds where lines were put in the place of one (edit.go, replace).
Replaced(d, k, b, e) ==
  /\ IsSequence(e) /\ Len(e) = Len(d) + Len(b) - 1
  /\ \A i \in 1..(k - 1) : e[i] = d[i]
  /\ \A i \in 1..Len(b) : e[k - 1 + i] = b[i]
  /\ \A i \in (k + 1)..Len(d) : e[i - 1 + Len(b)] = d[i]

LEMMA ReplaceIs ==
  ASSUME NEW d, NEW k, NEW b, IsSequence(d), IsSequence(b), k \in 1..Len(d)
  PROVE  Replaced(d, k, b, Replace(d, k, b))
<1>0. PICK e : e = Replace(d, k, b)
  OBVIOUS
<1>1. PICK S : d \in Seq(S) /\ b \in Seq(S)
  BY SequencesShare
<1>2. PICK p, q : p = SubSeq(d, 1, k - 1) /\ q = SubSeq(d, k + 1, Len(d))
  OBVIOUS
<1>3. /\ p \in Seq(S) /\ Len(p) = k - 1 /\ \A i \in 1..(k - 1) : p[i] = d[i]
  BY <1>1, <1>2
<1>4. /\ q \in Seq(S) /\ Len(q) = Len(d) - k /\ \A i \in 1..(Len(d) - k) : q[i] = d[k + i]
  BY <1>1, <1>2
<1>5. e = p \o b \o q
  BY <1>0, <1>2 DEF Replace
<1>6. p \in Seq(S) /\ b \in Seq(S) /\ q \in Seq(S)
  BY <1>1, <1>3, <1>4
<1>7. /\ e \in Seq(S) /\ Len(e) = Len(p) + Len(b) + Len(q)
      /\ \A i \in 1..Len(p) : e[i] = p[i]
      /\ \A i \in 1..Len(b) : e[Len(p) + i] = b[i]
      /\ \A i \in 1..Len(q) : e[Len(p) + Len(b) + i] = q[i]
  BY <1>5, <1>6, Three
<1>8. Len(b) \in Nat /\ Len(d) \in Nat
  BY <1>1
<1>9. \A i \in (k + 1)..Len(d) : e[i - 1 + Len(b)] = d[i]
  <2>1. SUFFICES ASSUME NEW i \in (k + 1)..Len(d) PROVE e[i - 1 + Len(b)] = d[i]
    OBVIOUS
  <2>2. /\ i - k \in 1..Len(q) /\ i - k \in 1..(Len(d) - k)
        /\ Len(p) + Len(b) + (i - k) = i - 1 + Len(b) /\ k + (i - k) = i
    BY <1>3, <1>4, <1>8
  <2>3. e[Len(p) + Len(b) + (i - k)] = q[i - k] /\ q[i - k] = d[k + (i - k)]
    BY <1>4, <1>7, <2>2
  <2>4. QED
    BY <2>2, <2>3
<1>10. Len(e) = Len(d) + Len(b) - 1
  BY <1>3, <1>4, <1>7, <1>8
<1>11. IsSequence(e)
  BY <1>7 DEF IsSequence
<1>12. Replaced(d, k, b, e)
  BY <1>3, <1>7, <1>9, <1>10, <1>11 DEF Replaced
<1>13. QED
  BY <1>0, <1>12

-----------------------------------------------------------------------------
(* Where the parts of a document sit                                       *)

\* What ends an entry.
Stops == Kinds \cup {"title"}

\* Line j is in the entry that begins at h.
Under(d, h, j) == h < j /\ j <= Len(d) /\ \A i \in (h + 1)..j : d[i].kind \notin Stops

LEMMA AfterIs ==
  ASSUME NEW d, IsSequence(d), NEW S \in SUBSET Nat, NEW k \in Nat, NEW a, a = After(S, k, d)
  PROVE  \/ a \in S /\ k < a /\ \A j \in S : k < j => a <= j
         \/ a = Len(d) + 1 /\ \A j \in S : j <= k
<1> DEFINE later == {j \in S : j > k}
<1>1. a = IF later = {} THEN Len(d) + 1 ELSE Least(later)
  BY DEF After
<1>2. CASE later = {}
  <2>1. \A j \in S : j <= k
    BY <1>2
  <2>2. QED
    BY <1>1, <1>2, <2>1
<1>3. CASE later # {}
  <2>1. later \in SUBSET Nat
    OBVIOUS
  <2>2. Least(later) \in later /\ \A j \in later : Least(later) <= j
    <3> HIDE DEF later
    <3>1. QED
      BY <1>3, <2>1, LeastPosition
  <2>3. QED
    BY <1>1, <1>3, <2>2
<1>4. QED
  BY <1>2, <1>3

\* An entry reaches as far as the lines that are in it.
LEMMA StopIs ==
  ASSUME NEW d, IsSequence(d), NEW h \in 1..Len(d)
  PROVE  /\ Stop(d, h) \in (h + 1)..(Len(d) + 1)
         /\ \A j \in Nat : j \in (h + 1)..(Stop(d, h) - 1) <=> Under(d, h, j)
<1> DEFINE S == At(d, Stops)
<1>1. PICK a : a = Stop(d, h)
  OBVIOUS
<1>2. Len(d) \in Nat /\ DOMAIN d = 1..Len(d)
  BY SequenceIs
<1>3. S \in SUBSET Nat /\ \A j \in 1..Len(d) : j \in S <=> d[j].kind \in Stops
  BY <1>2 DEF At
<1>4. \A j \in S : j \in 1..Len(d)
  BY <1>2 DEF At
<1> HIDE DEF S
<1>5. a = After(S, h, d)
  BY <1>1 DEF Stop, S, Stops
<1>6. \/ a \in S /\ h < a /\ \A j \in S : h < j => a <= j
      \/ a = Len(d) + 1 /\ \A j \in S : j <= h
  <2>1. h \in Nat
    BY <1>2
  <2>2. QED
    BY <1>3, <1>5, <2>1, AfterIs
<1>7. a \in (h + 1)..(Len(d) + 1)
  BY <1>2, <1>4, <1>6
<1>8. ASSUME NEW j \in Nat, j \in (h + 1)..(a - 1) PROVE Under(d, h, j)
  <2>1. j <= Len(d) /\ h < j
    BY <1>2, <1>7, <1>8
  <2>2. ASSUME NEW i \in (h + 1)..j PROVE d[i].kind \notin Stops
    <3>1. i \in 1..Len(d) /\ i < a /\ h < i
      BY <1>2, <1>7, <1>8, <2>1
    <3>2. i \notin S
      BY <1>2, <1>6, <1>7, <3>1
    <3>3. QED
      BY <1>3, <3>1, <3>2
  <2>3. QED
    BY <2>1, <2>2 DEF Under
<1>9. ASSUME NEW j \in Nat, Under(d, h, j) PROVE j \in (h + 1)..(a - 1)
  <2>1. h < j /\ j <= Len(d) /\ \A i \in (h + 1)..j : d[i].kind \notin Stops
    BY <1>9 DEF Under
  <2>2. CASE a \in S /\ a <= j
    <3>1. a \in (h + 1)..j /\ a \in 1..Len(d)
      BY <1>4, <1>7, <2>1, <2>2
    <3>2. QED
      BY <1>3, <2>1, <2>2, <3>1
  <2>3. CASE a = Len(d) + 1 \/ ~(a <= j)
    BY <1>2, <1>7, <2>1, <2>3
  <2>4. QED
    BY <1>6, <2>2, <2>3
<1>10. QED
  BY <1>1, <1>7, <1>8, <1>9

\* The sections of an entry are the section lines in it.
LEMMA SectionsAre ==
  ASSUME NEW d, IsSequence(d), NEW h \in 1..Len(d), NEW s
  PROVE  s \in SectionsOf(d, h) <=> s \in 1..Len(d) /\ Under(d, h, s) /\ d[s].kind = "section"
<1>1. Stop(d, h) \in (h + 1)..(Len(d) + 1) /\ Len(d) \in Nat
  BY StopIs, SequenceIs
<1>2. \A j \in Nat : j \in (h + 1)..(Stop(d, h) - 1) <=> Under(d, h, j)
  BY StopIs
<1>3. ASSUME s \in SectionsOf(d, h)
      PROVE  s \in 1..Len(d) /\ Under(d, h, s) /\ d[s].kind = "section"
  <2>1. s \in (h + 1)..(Stop(d, h) - 1) /\ d[s].kind = "section"
    BY <1>3 DEF SectionsOf
  <2>2. s \in 1..Len(d) /\ s \in Nat
    BY <1>1, <2>1
  <2>3. QED
    BY <1>2, <2>1, <2>2
<1>4. ASSUME s \in 1..Len(d), Under(d, h, s), d[s].kind = "section"
      PROVE  s \in SectionsOf(d, h)
  <2>1. s \in Nat
    BY <1>1, <1>4
  <2>2. s \in (h + 1)..(Stop(d, h) - 1)
    BY <1>2, <1>4, <2>1
  <2>3. QED
    BY <1>4, <2>2 DEF SectionsOf
<1>5. QED
  BY <1>3, <1>4

\* The text of section s ends at l: no heading is between, and what text comes later
\* has one above it.
Ends(d, s, l) ==
  /\ l \in s..Len(d)
  /\ \A i \in (s + 1)..l : d[i].kind \notin Stops \cup {"section"}
  /\ l = s \/ d[l].kind = "text"
  /\ \A j \in (l + 1)..Len(d) :
       d[j].kind = "text" => \E i \in (l + 1)..j : d[i].kind \in Stops \cup {"section"}

LEMMA SectionEndIs ==
  ASSUME NEW d, IsSequence(d), NEW h \in 1..Len(d), NEW s \in SectionsOf(d, h)
  PROVE  Ends(d, s, SectionEnd(d, h, s))
<1> DEFINE S == SectionsOf(d, h) \cup {Stop(d, h)}
           stop == After(S, s, d)
           T == {s} \cup {k \in (s + 1)..(stop - 1) : d[k].kind = "text"}
<1>1. PICK l : l = SectionEnd(d, h, s)
  OBVIOUS
<1>2. /\ Len(d) \in Nat /\ Stop(d, h) \in (h + 1)..(Len(d) + 1)
      /\ s \in 1..Len(d) /\ Under(d, h, s) /\ d[s].kind = "section"
  <2>1. Len(d) \in Nat
    BY SequenceIs
  <2>2. Stop(d, h) \in (h + 1)..(Len(d) + 1)
    BY StopIs
  <2>3. s \in 1..Len(d) /\ Under(d, h, s) /\ d[s].kind = "section"
    BY SectionsAre
  <2>4. QED
    BY <2>1, <2>2, <2>3
<1>3. s < Stop(d, h) /\ h < s
  <2>1. s \in Nat /\ Stop(d, h) \in Int
    BY <1>2
  <2>2. s \in (h + 1)..(Stop(d, h) - 1)
    BY <1>2, <2>1, StopIs
  <2>3. QED
    BY <1>2, <2>2
<1>4. S \in SUBSET Nat
  <2>1. \A t \in SectionsOf(d, h) : t \in 1..Len(d)
    BY SectionsAre
  <2>2. \A t \in SectionsOf(d, h) : t \in Nat
    BY <1>2, <2>1
  <2>3. Stop(d, h) \in Nat
    BY <1>2
  <2>4. QED
    BY <2>2, <2>3
<1>5. \/ stop \in S /\ s < stop /\ \A j \in S : s < j => stop <= j
      \/ stop = Len(d) + 1 /\ \A j \in S : j <= s
  <2> HIDE DEF S
  <2>1. s \in Nat
    BY <1>2
  <2>2. QED
    BY <1>4, <2>1, AfterIs
<1>6. Stop(d, h) \in S
  OBVIOUS
<1>7. stop \in S /\ s < stop /\ stop <= Stop(d, h) /\ stop \in Nat
  <2> HIDE DEF S, stop, T
  <2>1. Stop(d, h) \in S /\ s < Stop(d, h) /\ s \in Nat /\ Stop(d, h) \in Nat
    BY <1>2, <1>3, <1>6
  <2>2. ~(\A j \in S : j <= s)
    BY <2>1
  <2>3. stop \in S /\ s < stop /\ \A j \in S : s < j => stop <= j
    BY <1>5, <2>2
  <2>4. QED
    BY <1>4, <2>1, <2>3
<1>8. stop \in (s + 1)..(Len(d) + 1)
  <2> HIDE DEF S, stop
  <2>1. QED
    BY <1>2, <1>7
<1>9. stop = Len(d) + 1 \/ (stop \in 1..Len(d) /\ d[stop].kind \in Stops \cup {"section"})
  <2>1. CASE stop = Stop(d, h)
    <3>1. SUFFICES ASSUME stop # Len(d) + 1 PROVE stop \in 1..Len(d) /\ d[stop].kind \in Stops
      BY <2>1
    <3>2. stop \in 1..Len(d) /\ ~Under(d, h, stop) /\ h < stop /\ Under(d, h, stop - 1)
      <4> HIDE DEF stop
      <4>1. stop \in 1..Len(d) /\ stop \in Nat /\ stop - 1 \in Nat
        BY <1>2, <1>8, <3>1
      <4>2. h < stop /\ stop - 1 \in (h + 1)..(Stop(d, h) - 1) /\ ~(stop \in (h + 1)..(Stop(d, h) - 1))
        BY <1>2, <1>3, <1>8, <2>1, <4>1
      <4>3. QED
        BY <4>1, <4>2, StopIs
    <3> HIDE DEF stop
    <3>3. \A i \in (h + 1)..stop : i = stop \/ i \in (h + 1)..(stop - 1)
      BY <3>2
    <3>4. QED
      BY <3>2, <3>3 DEF Under
  <2>2. CASE stop \in SectionsOf(d, h)
    BY <2>2, SectionsAre
  <2>3. QED
    BY <1>7, <2>1, <2>2
<1>10. ASSUME NEW i \in (s + 1)..(stop - 1) PROVE i \in 1..Len(d) /\ d[i].kind \notin Stops \cup {"section"}
  <2>1. i \in 1..Len(d) /\ i \in Nat /\ i \in (h + 1)..(Stop(d, h) - 1) /\ s < i /\ i < stop
    <3> HIDE DEF stop
    <3>1. QED
      BY <1>2, <1>3, <1>7, <1>8
  <2>2. Under(d, h, i)
    BY <2>1, StopIs
  <2>3. d[i].kind \notin Stops
    BY <2>1, <2>2 DEF Under
  <2>4. i \notin S
    <3> HIDE DEF S, stop
    <3>1. QED
      BY <1>2, <1>5, <1>7, <2>1
  <2>5. d[i].kind # "section"
    BY <2>1, <2>2, <2>4, SectionsAre
  <2>6. QED
    BY <2>1, <2>3, <2>5
<1>11. l = Greatest(T)
  BY <1>1 DEF SectionEnd
<1>12. T \in SUBSET (1..Len(d)) /\ T # {}
  <2>1. \A i \in (s + 1)..(stop - 1) : i \in 1..Len(d)
    BY <1>10
  <2>2. QED
    BY <1>2, <2>1
<1>13. l \in T /\ \A i \in T : i <= l
  <2> HIDE DEF T
  <2>1. QED
    BY <1>2, <1>11, <1>12, GreatestPosition
<1>14. l \in s..Len(d) /\ (l = s \/ d[l].kind = "text") /\ l < stop
  <2>1. l = s \/ (l \in (s + 1)..(stop - 1) /\ d[l].kind = "text")
    BY <1>13
  <2>2. l \in 1..Len(d)
    BY <1>12, <1>13
  <2> HIDE DEF T, stop
  <2>3. QED
    BY <1>2, <1>7, <2>1, <2>2
<1>15. ASSUME NEW j \in (l + 1)..Len(d), d[j].kind = "text"
       PROVE  \E i \in (l + 1)..j : d[i].kind \in Stops \cup {"section"}
  <2>1. ~(j \in (s + 1)..(stop - 1))
    <3>1. SUFFICES ASSUME j \in (s + 1)..(stop - 1) PROVE FALSE
      OBVIOUS
    <3>2. j \in T
      BY <1>15, <3>1
    <3> HIDE DEF T, stop
    <3>3. QED
      BY <1>2, <1>13, <1>14, <3>2
  <2>2. stop \in 1..Len(d) /\ stop \in (l + 1)..j
    <3> HIDE DEF T, stop
    <3>1. QED
      BY <1>2, <1>8, <1>14, <2>1
  <2>3. d[stop].kind \in Stops \cup {"section"}
    <3> HIDE DEF T, stop
    <3>1. QED
      BY <1>2, <1>9, <2>2
  <2>4. QED
    BY <2>2, <2>3
<1>16. \A i \in (s + 1)..l : d[i].kind \notin Stops \cup {"section"}
  <2>1. SUFFICES ASSUME NEW i \in (s + 1)..l PROVE i \in (s + 1)..(stop - 1)
    BY <1>10
  <2> HIDE DEF T, stop
  <2>2. QED
    BY <1>2, <1>8, <1>14
<1>17. Ends(d, s, l)
  BY <1>14, <1>15, <1>16 DEF Ends
<1>18. QED
  BY <1>1, <1>17

\* The entry at h has its last section or text at e.
LEMMA EntryEndIs ==
  ASSUME NEW d, IsSequence(d), NEW h \in 1..Len(d), NEW e, e = EntryEnd(d, h)
  PROVE  /\ e \in h..Len(d) /\ (e = h \/ Under(d, h, e))
         /\ \A s \in SectionsOf(d, h) : s <= e
         /\ \A i \in 1..Len(d) : Under(d, h, i) /\ d[i].kind \in {"section", "text"} => i <= e
         /\ e = h \/ d[e].kind \in {"section", "text"}
<1> DEFINE T == {h} \cup {k \in (h + 1)..(Stop(d, h) - 1) : d[k].kind \in {"section", "text"}}
<1>1. Len(d) \in Nat /\ Stop(d, h) \in (h + 1)..(Len(d) + 1)
  BY SequenceIs, StopIs
<1>2. T \in SUBSET (1..Len(d)) /\ T # {} /\ \A i \in T : h <= i
  BY <1>1
<1>3. e = Greatest(T)
  BY DEF EntryEnd
<1>4. e \in T /\ \A i \in T : i <= e
  <2> HIDE DEF T
  <2>1. QED
    BY <1>1, <1>2, <1>3, GreatestPosition
<1>5. e \in h..Len(d)
  <2> HIDE DEF T
  <2>1. QED
    BY <1>1, <1>2, <1>4
<1>6. e = h \/ Under(d, h, e)
  <2>1. e = h \/ e \in (h + 1)..(Stop(d, h) - 1)
    BY <1>4
  <2>2. e \in Nat
    BY <1>1, <1>5
  <2>3. QED
    BY <2>1, <2>2, StopIs
<1>7. ASSUME NEW s \in SectionsOf(d, h) PROVE s <= e
  <2>1. s \in (h + 1)..(Stop(d, h) - 1) /\ d[s].kind = "section"
    BY DEF SectionsOf
  <2>2. s \in T
    BY <2>1
  <2>3. QED
    BY <1>4, <2>2
<1>8. ASSUME NEW i \in 1..Len(d), Under(d, h, i), d[i].kind \in {"section", "text"} PROVE i <= e
  <2>1. i \in Nat
    BY <1>1
  <2>2. i \in (h + 1)..(Stop(d, h) - 1)
    BY <1>8, <2>1, StopIs
  <2>3. i \in T
    BY <1>8, <2>2
  <2>4. QED
    BY <1>4, <2>3
<1>9. e = h \/ d[e].kind \in {"section", "text"}
  BY <1>4
<1>10. QED
  BY <1>5, <1>6, <1>7, <1>8, <1>9

\* The first [Unreleased] is where one stands and none is above it.
LEMMA UnreleasedIs ==
  ASSUME NEW d, IsSequence(d)
  PROVE  /\ Unreleased(d) = 0 => \A i \in 1..Len(d) : d[i].kind # "unreleased"
         /\ Unreleased(d) # 0 => /\ Unreleased(d) \in 1..Len(d) /\ d[Unreleased(d)].kind = "unreleased"
                                 /\ \A i \in 1..(Unreleased(d) - 1) : d[i].kind # "unreleased"
         /\ \A u \in 1..Len(d) :
              d[u].kind = "unreleased" /\ (\A i \in 1..(u - 1) : d[i].kind # "unreleased")
                => Unreleased(d) = u
<1> DEFINE S == At(d, {"unreleased"})
<1>1. PICK w : w = Unreleased(d)
  OBVIOUS
<1>2. Len(d) \in Nat /\ \A i : i \in S <=> i \in 1..Len(d) /\ d[i].kind = "unreleased"
  BY SequenceIs DEF At
<1>3. w = IF S = {} THEN 0 ELSE Least(S)
  BY <1>1 DEF Unreleased
<1> HIDE DEF S
<1>4. S \in SUBSET Nat
  BY <1>2
<1>5. S = {} => w = 0
  BY <1>3
<1>6. S # {} => w \in S /\ \A i \in S : w <= i
  BY <1>3, <1>4, LeastPosition
<1>7. w = 0 => \A i \in 1..Len(d) : d[i].kind # "unreleased"
  BY <1>2, <1>6
<1>8. w # 0 => /\ w \in 1..Len(d) /\ d[w].kind = "unreleased"
               /\ \A i \in 1..(w - 1) : d[i].kind # "unreleased"
  <2>1. SUFFICES ASSUME w # 0
                 PROVE  /\ w \in 1..Len(d) /\ d[w].kind = "unreleased"
                        /\ \A i \in 1..(w - 1) : d[i].kind # "unreleased"
    OBVIOUS
  <2>2. w \in S /\ \A i \in S : w <= i
    BY <1>5, <1>6, <2>1
  <2>3. w \in 1..Len(d) /\ d[w].kind = "unreleased"
    BY <1>2, <2>2
  <2>4. ASSUME NEW i \in 1..(w - 1) PROVE d[i].kind # "unreleased"
    <3>1. i \in 1..Len(d) /\ ~(w <= i)
      BY <1>2, <2>3
    <3>2. QED
      BY <1>2, <2>2, <3>1
  <2>5. QED
    BY <2>3, <2>4
<1>9. ASSUME NEW u \in 1..Len(d), d[u].kind = "unreleased", \A i \in 1..(u - 1) : d[i].kind # "unreleased"
      PROVE  w = u
  <2>1. u \in S
    BY <1>2, <1>9
  <2>2. w \in S /\ w <= u
    BY <1>6, <2>1
  <2>3. w \in 1..Len(d) /\ d[w].kind = "unreleased"
    BY <1>2, <2>2
  <2>4. ~(w \in 1..(u - 1))
    BY <1>9, <2>3
  <2>5. QED
    BY <1>2, <2>2, <2>3, <2>4
<1>10. QED
  BY <1>1, <1>7, <1>8, <1>9

\* The section of a name, none or the first.
LEMMA SectionNamedIs ==
  ASSUME NEW d, IsSequence(d), NEW h \in 1..Len(d), NEW name
  PROVE  /\ SectionNamed(d, h, name) = 0 => \A t \in SectionsOf(d, h) : Fold[d[t].name] # Fold[name]
         /\ SectionNamed(d, h, name) # 0 =>
              /\ SectionNamed(d, h, name) \in SectionsOf(d, h)
              /\ Fold[d[SectionNamed(d, h, name)].name] = Fold[name]
              /\ \A t \in SectionsOf(d, h) : t < SectionNamed(d, h, name) => Fold[d[t].name] # Fold[name]
         /\ \A s \in SectionsOf(d, h) :
              Fold[d[s].name] = Fold[name]
              /\ (\A t \in SectionsOf(d, h) : t < s => Fold[d[t].name] # Fold[name])
                => SectionNamed(d, h, name) = s
<1> DEFINE S == {t \in SectionsOf(d, h) : Fold[d[t].name] = Fold[name]}
<1>1. PICK w : w = SectionNamed(d, h, name)
  OBVIOUS
<1>2. w = IF S = {} THEN 0 ELSE Least(S)
  BY <1>1 DEF SectionNamed
<1>3. \A t \in SectionsOf(d, h) : t \in 1..Len(d)
  BY SectionsAre
<1>4. S \in SUBSET Nat /\ \A t \in S : t # 0
  BY <1>3
<1>5. \A t : t \in S <=> t \in SectionsOf(d, h) /\ Fold[d[t].name] = Fold[name]
  OBVIOUS
<1> HIDE DEF S
<1>6. S = {} => w = 0
  BY <1>2
<1>7. S # {} => w \in S /\ \A i \in S : w <= i
  BY <1>2, <1>4, LeastPosition
<1>8. w = 0 => S = {}
  BY <1>4, <1>7
<1>9. ASSUME w # 0
      PROVE  /\ w \in SectionsOf(d, h) /\ Fold[d[w].name] = Fold[name]
             /\ \A t \in SectionsOf(d, h) : t < w => Fold[d[t].name] # Fold[name]
  <2>1. w \in S /\ \A i \in S : w <= i
    BY <1>6, <1>7, <1>9
  <2>2. ASSUME NEW t \in SectionsOf(d, h), t < w, t \in S PROVE FALSE
    BY <1>4, <2>1, <2>2
  <2>3. QED
    BY <1>5, <2>1, <2>2
<1>10. ASSUME NEW s \in SectionsOf(d, h), Fold[d[s].name] = Fold[name],
              \A t \in SectionsOf(d, h) : t < s => Fold[d[t].name] # Fold[name]
       PROVE  w = s
  <2>1. s \in S /\ w \in S /\ w <= s /\ s \in Nat /\ w \in Nat
    BY <1>4, <1>5, <1>7, <1>10
  <2>2. ~(w < s)
    BY <1>5, <1>10, <2>1
  <2>3. QED
    BY <2>1, <2>2
<1>11. QED
  BY <1>1, <1>5, <1>8, <1>9, <1>10

-----------------------------------------------------------------------------
(* A note, added once                                                      *)

\* An item is as many lines as its note, all of them text.
LEMMA ItemIs ==
  ASSUME NEW note, IsSequence(note)
  PROVE  /\ IsSequence(Item(note)) /\ Len(Item(note)) = Len(note)
         /\ \A i \in 1..Len(note) : Item(note)[i].kind = "text"
<1> DEFINE S == {Text(i = 1, note[i]) : i \in 1..Len(note)}
<1>1. Len(note) \in Nat /\ DOMAIN note = 1..Len(note)
  BY SequenceIs
<1>2. Item(note) = [i \in 1..Len(note) |-> Text(i = 1, note[i])]
  BY <1>1 DEF Item
<1>3. Item(note) \in [1..Len(note) -> S]
  BY <1>2
<1>4. Item(note) \in Seq(S) /\ Len(Item(note)) = Len(note)
  <2> HIDE DEF S
  <2>1. QED
    BY <1>1, <1>3
<1>5. \A i \in 1..Len(note) : Item(note)[i].kind = "text"
  BY <1>2 DEF Text
<1>6. QED
  BY <1>4, <1>5 DEF IsSequence

\* What is put below a heading that was put there.
Heads(x, b, c) == /\ IsSequence(c) /\ Len(c) = Len(b) + 1 /\ c[1] = x
                  /\ \A i \in 1..Len(b) : c[i + 1] = b[i]

LEMMA Headed ==
  ASSUME NEW x, NEW b, IsSequence(b)
  PROVE  Heads(x, b, <<x>> \o b)
<1>0. PICK c : c = <<x>> \o b
  OBVIOUS
<1>1. PICK S : b \in Seq(S)
  BY DEF IsSequence
<1>2. \A i \in 1..Len(b) : b[i] \in S \cup {x}
  BY <1>1
<1>3. b \in Seq(S \cup {x}) /\ <<x>> \in Seq(S \cup {x}) /\ Len(b) \in Nat
  BY <1>1, <1>2
<1>4. /\ c \in Seq(S \cup {x}) /\ Len(c) = Len(<<x>>) + Len(b)
      /\ \A i \in 1..Len(<<x>>) : c[i] = <<x>>[i]
      /\ \A i \in 1..Len(b) : c[Len(<<x>>) + i] = b[i]
  BY <1>0, <1>3, Joined
<1>5. Len(<<x>>) = 1 /\ <<x>>[1] = x
  OBVIOUS
<1>6. \A i \in 1..Len(b) : c[i + 1] = b[i]
  <2>1. \A i \in 1..Len(b) : 1 + i = i + 1
    BY <1>3
  <2>2. QED
    BY <1>4, <1>5, <2>1
<1>7. Len(c) = Len(b) + 1 /\ c[1] = x /\ IsSequence(c)
  <2>1. 1 \in 1..Len(<<x>>)
    BY <1>5
  <2>2. QED
    BY <1>3, <1>4, <1>5, <2>1 DEF IsSequence
<1>8. Heads(x, b, c)
  BY <1>6, <1>7 DEF Heads
<1>9. QED
  BY <1>0, <1>8

\* Lines that stand together in a document are a part of it.
LEMMA StandTogether ==
  ASSUME NEW d, IsSequence(d), NEW b, IsSequence(b), NEW k \in 0..Len(d), k + Len(b) <= Len(d),
         \A i \in 1..Len(b) : d[k + i] = b[i]
  PROVE  SubSeq(d, k + 1, k + Len(b)) = b
<1>1. PICK S : d \in Seq(S) /\ b \in Seq(S)
  BY SequencesShare
<1>2. PICK p : p = SubSeq(d, k + 1, k + Len(b))
  OBVIOUS
<1>3. Len(b) \in Nat /\ Len(d) \in Nat
  BY <1>1
<1>4. p \in Seq(S) /\ Len(p) = Len(b) /\ \A i \in 1..Len(b) : p[i] = d[k + i]
  BY <1>1, <1>2, <1>3
<1>5. p = b
  BY <1>1, <1>4
<1>6. QED
  BY <1>2, <1>5

\* A note's item stands, from line k + 1 on, below the first section of its name in the
\* first [Unreleased], with no other heading between.
Carries(e, name, note, u, s, k) ==
  /\ u \in 1..Len(e) /\ Unreleased(e) = u
  /\ s \in SectionsOf(e, u) /\ Fold[e[s].name] = Fold[name]
  /\ \A t \in SectionsOf(e, u) : t < s => Fold[e[t].name] # Fold[name]
  /\ k \in s..Len(e) /\ k + Len(note) <= Len(e)
  /\ \A i \in 1..Len(note) : e[k + i] = Item(note)[i]
  /\ \A i \in (s + 1)..k : e[i].kind \notin Stops \cup {"section"}

\* Where it does, append leaves the document alone.
LEMMA Settled ==
  ASSUME NEW e, IsSequence(e), NEW name \in DOMAIN Fold, NEW note, IsSequence(note), note # <<>>,
         NEW u, NEW s, NEW k, Carries(e, name, note, u, s, k)
  PROVE  AppendNote(e, name, note) = {e}
<1> DEFINE item == Item(note)
           n == Len(note)
<1>0. /\ u \in 1..Len(e) /\ Unreleased(e) = u
      /\ s \in SectionsOf(e, u) /\ Fold[e[s].name] = Fold[name]
      /\ \A t \in SectionsOf(e, u) : t < s => Fold[e[t].name] # Fold[name]
      /\ k \in s..Len(e) /\ k + n <= Len(e)
      /\ \A i \in 1..n : e[k + i] = item[i]
      /\ \A i \in (s + 1)..k : e[i].kind \notin Stops \cup {"section"}
  BY DEF Carries
<1>1. PICK l : l = SectionEnd(e, u, s)
  OBVIOUS
<1>2. /\ IsSequence(item) /\ Len(item) = n /\ n \in Nat /\ n # 0
      /\ \A i \in 1..n : item[i].kind = "text"
  <2>1. n \in Nat /\ DOMAIN note = 1..n
    BY SequenceIs
  <2>2. n # 0
    BY DEF IsSequence
  <2>3. QED
    BY <2>1, <2>2, ItemIs
<1>3. Len(e) \in Nat /\ s \in 1..Len(e)
  BY <1>0, SequenceIs, SectionsAre
<1>4. Ends(e, s, l)
  BY <1>0, <1>1, SectionEndIs
<1>5. l \in s..Len(e)
  BY <1>4 DEF Ends
<1>6. ASSUME NEW i \in (s + 1)..(k + n) PROVE e[i].kind \notin Stops \cup {"section"}
  <2>1. CASE i \in (s + 1)..k
    BY <1>0, <2>1
  <2>2. CASE i \in (k + 1)..(k + n)
    <3>1. i - k \in 1..n /\ k + (i - k) = i
      BY <1>0, <1>2, <1>3, <2>2
    <3>2. e[k + (i - k)] = item[i - k]
      BY <1>0, <3>1
    <3>3. e[i].kind = "text"
      BY <1>2, <3>1, <3>2
    <3>4. QED
      BY <3>3 DEF Stops, Kinds
  <2>3. QED
    BY <1>0, <1>2, <1>3, <2>1, <2>2
<1>7. k + n <= l
  <2>1. SUFFICES ASSUME ~(k + n <= l) PROVE FALSE
    OBVIOUS
  <2>2. k + n \in (l + 1)..Len(e)
    BY <1>0, <1>2, <1>3, <1>5, <2>1
  <2>3. n \in 1..n
    BY <1>2
  <2>4. e[k + n].kind = "text"
    BY <1>0, <1>2, <2>3
  <2>5. PICK i \in (l + 1)..(k + n) : e[i].kind \in Stops \cup {"section"}
    BY <1>4, <2>2, <2>4 DEF Ends
  <2>6. i \in (s + 1)..(k + n)
    BY <1>0, <1>2, <1>3, <1>5
  <2>7. QED
    BY <1>6, <2>5, <2>6
<1>8. SubSeq(e, k + 1, k + n) = item
  BY <1>0, <1>2, <1>3, StandTogether
<1>9. Has(e, s, l, item)
  <2>1. k + 1 \in s + 1 .. l - Len(item) + 1 /\ k + 1 + Len(item) - 1 = k + n
    BY <1>0, <1>2, <1>3, <1>5, <1>7
  <2> HIDE DEF item
  <2>2. SubSeq(e, k + 1, k + 1 + Len(item) - 1) = item
    BY <1>8, <2>1
  <2>3. QED
    BY <2>1, <2>2 DEF Has
<1>10. SectionNamed(e, u, name) = s
  BY <1>0, SectionNamedIs
<1>11. AddItem(e, s, SectionEnd(e, u, s), Item(note)) = e
  BY <1>1, <1>9 DEF AddItem
<1>12. u # 0 /\ s # 0
  BY <1>0, <1>3
<1>13. QED
  BY <1>0, <1>10, <1>11, <1>12 DEF AppendNote

\* An item that its section does not have yet is put at its end, and is there then.
LEMMA AddItemSettles ==
  ASSUME NEW d, IsSequence(d), NEW name \in DOMAIN Fold, NEW note, IsSequence(note), note # <<>>,
         NEW u \in 1..Len(d), Unreleased(d) = u, NEW s, s = SectionNamed(d, u, name), s # 0,
         NEW l, l = SectionEnd(d, u, s), NEW e, e = Splice(d, l, Item(note))
  PROVE  IsSequence(e) /\ AppendNote(e, name, note) = {e}
<1> DEFINE item == Item(note)
           n == Len(note)
<1>1. /\ IsSequence(item) /\ Len(item) = n /\ n \in Nat /\ Len(d) \in Nat
      /\ \A i \in 1..n : item[i].kind = "text"
  BY ItemIs, SequenceIs
<1>2. /\ s \in SectionsOf(d, u) /\ Fold[d[s].name] = Fold[name]
      /\ \A t \in SectionsOf(d, u) : t < s => Fold[d[t].name] # Fold[name]
  BY SectionNamedIs
<1>3. s \in 1..Len(d) /\ Under(d, u, s) /\ d[s].kind = "section"
  BY <1>2, SectionsAre
<1>4. Ends(d, s, l)
  BY <1>2, SectionEndIs
<1>5. l \in s..Len(d) /\ \A i \in (s + 1)..l : d[i].kind \notin Stops \cup {"section"}
  BY <1>4 DEF Ends
<1>6. /\ IsSequence(e) /\ Len(e) = Len(d) + n
      /\ \A i \in 1..l : e[i] = d[i]
      /\ \A i \in 1..n : e[l + i] = item[i]
  <2>1. l \in 0..Len(d) /\ IsSequence(item)
    BY <1>1, <1>3, <1>5
  <2>2. Spliced(d, l, item, e)
    BY <2>1, SpliceIs
  <2> HIDE DEF item
  <2>3. QED
    BY <1>1, <2>2 DEF Spliced
<1>7. u < s
  BY <1>3 DEF Under
<1>8. u \in 1..Len(e) /\ s \in 1..Len(e) /\ l \in s..Len(e) /\ l + n <= Len(e) /\ l \in Nat
  BY <1>1, <1>3, <1>5, <1>6
<1>9. Unreleased(e) = u
  <2>1. d[u].kind = "unreleased" /\ \A i \in 1..(u - 1) : d[i].kind # "unreleased"
    <3>1. u # 0
      BY <1>1
    <3>2. QED
      BY <3>1, UnreleasedIs
  <2>2. u \in 1..l /\ \A i \in 1..(u - 1) : i \in 1..l
    BY <1>1, <1>3, <1>5, <1>7
  <2>3. e[u].kind = "unreleased" /\ \A i \in 1..(u - 1) : e[i].kind # "unreleased"
    BY <1>6, <2>1, <2>2
  <2>4. \A v \in 1..Len(e) :
          e[v].kind = "unreleased" /\ (\A i \in 1..(v - 1) : e[i].kind # "unreleased")
            => Unreleased(e) = v
    <3>1. IsSequence(e)
      BY <1>6
    <3>2. QED
      BY <3>1, UnreleasedIs
  <2>5. QED
    BY <1>8, <2>3, <2>4
<1>10. \A t \in 1..s : t \in SectionsOf(e, u) <=> t \in SectionsOf(d, u)
  <2>1. TAKE t \in 1..s
  <2>2. t \in 1..Len(d) /\ t \in 1..Len(e) /\ e[t] = d[t]
    <3>1. t \in 1..l /\ t \in 1..Len(d) /\ t \in 1..Len(e)
      BY <1>1, <1>3, <1>5, <1>8
    <3>2. QED
      BY <1>6, <3>1
  <2>3. \A i \in (u + 1)..t : e[i] = d[i]
    <3>1. SUFFICES ASSUME NEW i \in (u + 1)..t PROVE e[i] = d[i]
      OBVIOUS
    <3>2. s \in Nat /\ l \in Nat /\ s <= l /\ t <= s
      BY <1>1, <1>3, <1>5
    <3>3. i \in 1..l
      BY <1>1, <3>2
    <3>4. QED
      BY <1>6, <3>3
  <2>4. Under(e, u, t) <=> Under(d, u, t)
    BY <2>2, <2>3 DEF Under
  <2>5. t \in SectionsOf(d, u) <=> t \in 1..Len(d) /\ Under(d, u, t) /\ d[t].kind = "section"
    BY SectionsAre
  <2>6. t \in SectionsOf(e, u) <=> t \in 1..Len(e) /\ Under(e, u, t) /\ e[t].kind = "section"
    <3>1. IsSequence(e) /\ u \in 1..Len(e)
      BY <1>6, <1>8
    <3>2. QED
      BY <3>1, SectionsAre
  <2>7. QED
    BY <2>2, <2>4, <2>5, <2>6
<1>11. s \in SectionsOf(e, u) /\ Fold[e[s].name] = Fold[name]
  <2>1. s \in 1..s /\ s \in 1..l
    BY <1>1, <1>3, <1>5
  <2>2. QED
    BY <1>2, <1>6, <1>10, <2>1
<1>12. ASSUME NEW t \in SectionsOf(e, u), t < s PROVE Fold[e[t].name] # Fold[name]
  <2>1. t \in 1..Len(e)
    BY <1>6, <1>8, SectionsAre
  <2>2. t \in 1..s /\ t \in 1..l
    BY <1>1, <1>3, <1>5, <1>12, <2>1
  <2>3. t \in SectionsOf(d, u) /\ e[t] = d[t]
    BY <1>6, <1>10, <2>2
  <2>4. QED
    BY <1>2, <1>12, <2>3
<1>13. \A i \in (s + 1)..l : e[i].kind \notin Stops \cup {"section"}
  <2>1. \A i \in (s + 1)..l : i \in 1..l
    BY <1>1, <1>3
  <2>2. QED
    BY <1>5, <1>6, <2>1
<1>14. Carries(e, name, note, u, s, l)
  BY <1>6, <1>8, <1>9, <1>11, <1>12, <1>13 DEF Carries
<1>15. QED
  BY <1>6, <1>14, Settled

\* The block of a new section: its line, and the item.
Block(name, note, b) ==
  /\ IsSequence(b) /\ Len(b) = Len(note) + 1 /\ b[1] = SectionLine(name)
  /\ \A i \in 1..Len(note) : b[i + 1] = Item(note)[i] /\ b[i + 1].kind = "text"

LEMMA BlockIs ==
  ASSUME NEW name, NEW note, IsSequence(note)
  PROVE  Block(name, note, <<SectionLine(name)>> \o Item(note))
<1>0. PICK b : b = <<SectionLine(name)>> \o Item(note)
  OBVIOUS
<1>1. /\ IsSequence(Item(note)) /\ Len(Item(note)) = Len(note)
      /\ \A i \in 1..Len(note) : Item(note)[i].kind = "text"
  BY ItemIs
<1>2. Heads(SectionLine(name), Item(note), b)
  BY <1>0, <1>1, Headed
<1>3. Block(name, note, b)
  BY <1>1, <1>2 DEF Heads, Block
<1>4. QED
  BY <1>0, <1>3

\* Where a new section goes: into the entry, below the sections it ranks with or after,
\* and above those it ranks before.
Place(d, u, name) ==
  LET after == {s \in SectionsOf(d, u) : SectionRank(d[s].name) > SectionRank(name)}
  IN  IF after = {} THEN EntryEnd(d, u) ELSE Least(after) - 1

LEMMA PlaceIs ==
  ASSUME NEW d, IsSequence(d), NEW u \in 1..Len(d), NEW name, NEW k, k = Place(d, u, name)
  PROVE  /\ k \in u..Len(d) /\ (k = u \/ Under(d, u, k))
         /\ \A s \in SectionsOf(d, u) :
              s <= k => ~(SectionRank(d[s].name) > SectionRank(name))
         /\ \/ \A s \in SectionsOf(d, u) : s <= k
            \/ k + 1 \in SectionsOf(d, u) /\ SectionRank(d[k + 1].name) > SectionRank(name)
<1> DEFINE after == {s \in SectionsOf(d, u) : SectionRank(d[s].name) > SectionRank(name)}
<1>1. Len(d) \in Nat /\ \A s \in SectionsOf(d, u) : s \in 1..Len(d) /\ Under(d, u, s)
  BY SequenceIs, SectionsAre
<1>2. CASE after = {}
  <2>1. k = EntryEnd(d, u)
    BY <1>2 DEF Place
  <2>2. /\ k \in u..Len(d) /\ (k = u \/ Under(d, u, k)) /\ \A s \in SectionsOf(d, u) : s <= k
    BY <2>1, EntryEndIs
  <2>3. QED
    BY <1>2, <2>2
<1>3. CASE after # {}
  <2>1. PICK m : m = Least(after)
    OBVIOUS
  <2>2. k = m - 1
    BY <1>3, <2>1 DEF Place
  <2>3. after \in SUBSET Nat
    BY <1>1
  <2>4. m \in after /\ \A s \in after : m <= s
    <3> HIDE DEF after
    <3>1. QED
      BY <1>3, <2>1, <2>3, LeastPosition
  <2>5. m \in SectionsOf(d, u) /\ SectionRank(d[m].name) > SectionRank(name)
    BY <2>4
  <2>6. m \in 1..Len(d) /\ Under(d, u, m) /\ m \in Nat
    BY <1>1, <2>5
  <2>7. u < m /\ \A i \in (u + 1)..m : d[i].kind \notin Stops
    BY <2>6 DEF Under
  <2>8. k \in u..Len(d) /\ k + 1 = m
    BY <1>1, <2>2, <2>6, <2>7
  <2>9. k = u \/ Under(d, u, k)
    <3>1. SUFFICES ASSUME k # u PROVE Under(d, u, k)
      OBVIOUS
    <3>2. u < k /\ k <= Len(d) /\ \A i \in (u + 1)..k : i \in (u + 1)..m
      BY <1>1, <2>8, <3>1
    <3>3. QED
      BY <2>7, <3>2 DEF Under
  <2>10. ASSUME NEW s \in SectionsOf(d, u), s <= k PROVE ~(SectionRank(d[s].name) > SectionRank(name))
    <3>1. s \in Nat /\ ~(m <= s)
      BY <1>1, <2>6, <2>8, <2>10
    <3>2. s \notin after
      BY <2>4, <3>1
    <3>3. QED
      BY <3>2
  <2> HIDE DEF after
  <2>11. QED
    BY <2>5, <2>8, <2>9, <2>10
<1>4. QED
  BY <1>2, <1>3

\* Nothing of the entry but sections and what is in them comes after that place.
LEMMA PlaceEnds ==
  ASSUME NEW d, IsSequence(d), NEW u \in 1..Len(d), NEW name, NEW k, k = Place(d, u, name)
  PROVE  \/ /\ \A i \in 1..Len(d) : Under(d, u, i) /\ d[i].kind \in {"section", "text"} => i <= k
            /\ k = u \/ d[k].kind \in {"section", "text"}
         \/ k + 1 \in SectionsOf(d, u)
<1> DEFINE after == {s \in SectionsOf(d, u) : SectionRank(d[s].name) > SectionRank(name)}
<1>1. CASE after = {}
  <2>1. k = EntryEnd(d, u)
    BY <1>1 DEF Place
  <2>2. QED
    BY <2>1, EntryEndIs
<1>2. CASE after # {}
  <2>1. PICK m : m = Least(after)
    OBVIOUS
  <2>2. k = m - 1
    BY <1>2, <2>1 DEF Place
  <2>3. after \in SUBSET Nat
    BY SectionsAre
  <2>4. m \in after /\ m \in Nat
    <3> HIDE DEF after
    <3>1. QED
      BY <1>2, <2>1, <2>3, LeastPosition
  <2>5. k + 1 = m
    BY <2>2, <2>4
  <2>6. QED
    BY <2>4, <2>5
<1>3. QED
  BY <1>1, <1>2

\* A section that is created holds the item then.
LEMMA AddSectionSettles ==
  ASSUME NEW d, IsSequence(d), NEW name \in DOMAIN Fold, NEW note, IsSequence(note), note # <<>>,
         NEW u \in 1..Len(d), Unreleased(d) = u, SectionNamed(d, u, name) = 0,
         NEW e, e = AddSection(d, u, name, <<SectionLine(name)>> \o Item(note))
  PROVE  IsSequence(e) /\ AppendNote(e, name, note) = {e}
<1> DEFINE item == Item(note)
           n == Len(note)
<1>1. PICK b : b = <<SectionLine(name)>> \o Item(note)
  OBVIOUS
<1>2. PICK k : k = Place(d, u, name)
  OBVIOUS
<1>3. /\ IsSequence(b) /\ Len(b) = n + 1 /\ b[1] = SectionLine(name)
      /\ \A i \in 1..n : b[i + 1] = item[i] /\ b[i + 1].kind = "text"
  BY <1>1, BlockIs DEF Block
<1>4. n \in Nat /\ Len(d) \in Nat
  BY SequenceIs
<1>5. k \in u..Len(d) /\ (k = u \/ Under(d, u, k))
  BY <1>2, PlaceIs
<1>6. e = Splice(d, k, b)
  BY <1>1, <1>2 DEF AddSection, Place
<1>7. /\ IsSequence(e) /\ Len(e) = Len(d) + n + 1
      /\ \A i \in 1..k : e[i] = d[i]
      /\ \A i \in 1..Len(b) : e[k + i] = b[i]
  <2>1. k \in 0..Len(d)
    BY <1>4, <1>5
  <2>2. Spliced(d, k, b, e)
    BY <1>3, <1>6, <2>1, SpliceIs
  <2>3. QED
    BY <1>3, <1>4, <2>2 DEF Spliced
<1> DEFINE s == k + 1
<1>8. u \in 1..Len(e) /\ s \in 1..Len(e) /\ s \in s..Len(e) /\ s + n <= Len(e) /\ k \in Nat /\ u < s
  BY <1>4, <1>5, <1>7
<1>9. e[s] = SectionLine(name) /\ e[s].kind = "section" /\ Fold[e[s].name] = Fold[name]
  <2>1. 1 \in 1..Len(b)
    BY <1>3, <1>4
  <2>2. e[s] = SectionLine(name)
    BY <1>3, <1>7, <2>1
  <2>3. QED
    BY <2>2 DEF SectionLine
<1>10. \A i \in 1..n : e[s + i] = item[i]
  <2>1. TAKE i \in 1..n
  <2>2. i + 1 \in 1..Len(b) /\ k + (i + 1) = s + i
    BY <1>3, <1>4, <1>8
  <2>3. e[k + (i + 1)] = b[i + 1]
    BY <1>7, <2>2
  <2>4. QED
    BY <1>3, <2>2, <2>3
<1>11. Unreleased(e) = u
  <2>1. d[u].kind = "unreleased" /\ \A i \in 1..(u - 1) : d[i].kind # "unreleased"
    <3>1. u # 0
      BY <1>4
    <3>2. QED
      BY <3>1, UnreleasedIs
  <2>2. u \in 1..k /\ \A i \in 1..(u - 1) : i \in 1..k
    BY <1>4, <1>5
  <2>3. e[u].kind = "unreleased" /\ \A i \in 1..(u - 1) : e[i].kind # "unreleased"
    BY <1>7, <2>1, <2>2
  <2>4. \A v \in 1..Len(e) :
          e[v].kind = "unreleased" /\ (\A i \in 1..(v - 1) : e[i].kind # "unreleased")
            => Unreleased(e) = v
    <3>1. IsSequence(e)
      BY <1>7
    <3>2. QED
      BY <3>1, UnreleasedIs
  <2>5. QED
    BY <1>8, <2>3, <2>4
<1>12. \A i \in (u + 1)..k : e[i] = d[i] /\ d[i].kind \notin Stops
  <2>1. TAKE i \in (u + 1)..k
  <2>2. i \in 1..k /\ k # u
    BY <1>4, <1>5
  <2>3. QED
    BY <1>5, <1>7, <2>2 DEF Under
<1>13. s \in SectionsOf(e, u)
  <2>1. \A i \in (u + 1)..s : i = s \/ i \in (u + 1)..k
    BY <1>4, <1>5
  <2>2. \A i \in (u + 1)..s : e[i].kind \notin Stops
    BY <1>9, <1>12, <2>1 DEF Stops, Kinds
  <2>3. Under(e, u, s)
    BY <1>8, <2>2 DEF Under
  <2> HIDE DEF s
  <2>4. QED
    BY <1>7, <1>8, <1>9, <2>3, SectionsAre
<1>14. ASSUME NEW t \in SectionsOf(e, u), t < s PROVE Fold[e[t].name] # Fold[name]
  <2>1. t \in 1..Len(e) /\ Under(e, u, t) /\ e[t].kind = "section"
    BY <1>7, <1>8, SectionsAre
  <2>2. t \in 1..k /\ t \in 1..Len(d) /\ u < t
    BY <1>4, <1>5, <1>8, <1>14, <2>1 DEF Under
  <2>3. \A i \in (u + 1)..t : i \in (u + 1)..k
    BY <1>4, <1>5, <2>2
  <2>4. e[t] = d[t] /\ Under(d, u, t)
    BY <1>4, <1>7, <1>12, <2>2, <2>3 DEF Under
  <2>5. t \in SectionsOf(d, u)
    BY <2>1, <2>2, <2>4, SectionsAre
  <2>6. QED
    BY <2>4, <2>5, SectionNamedIs
<1>15. \A i \in (s + 1)..s : e[i].kind \notin Stops \cup {"section"}
  BY <1>8
<1>16. Carries(e, name, note, u, s, s)
  <2> HIDE DEF s
  <2>1. QED
    BY <1>7, <1>8, <1>9, <1>10, <1>11, <1>13, <1>14, <1>15 DEF Carries
<1>17. QED
  BY <1>7, <1>16, Settled

\* Where an [Unreleased] is created in a document that has none.
OpensAt(d) ==
  LET heads == At(d, Kinds)
      refs == At(d, {"ref"})
  IN  CASE heads # {} -> Least(heads)
        [] heads = {} /\ refs # {} -> Least(refs)
        [] OTHER -> Len(d) + 1

\* No entry is above it, and it is the newest one where there are entries.
LEMMA OpensAtIs ==
  ASSUME NEW d, IsSequence(d), NEW at, at = OpensAt(d)
  PROVE  /\ at \in 1..(Len(d) + 1)
         /\ \A i \in 1..(at - 1) : d[i].kind \notin Kinds
         /\ At(d, Kinds) # {} => at \in 1..Len(d) /\ d[at].kind \in Kinds
<1> DEFINE heads == At(d, Kinds)
           refs == At(d, {"ref"})
<1>1. Len(d) \in Nat /\ \A i : i \in heads <=> i \in 1..Len(d) /\ d[i].kind \in Kinds
  BY SequenceIs DEF At
<1>2. \A i \in refs : i \in 1..Len(d)
  BY SequenceIs DEF At
<1>3. heads \in SUBSET Nat /\ refs \in SUBSET Nat
  BY <1>1, <1>2
<1>4. CASE heads # {}
  <2>1. at = Least(heads)
    BY <1>4 DEF OpensAt
  <2> HIDE DEF heads, refs
  <2>2. at \in heads /\ \A i \in heads : at <= i
    BY <1>3, <1>4, <2>1, LeastPosition
  <2>3. at \in 1..Len(d) /\ d[at].kind \in Kinds
    BY <1>1, <2>2
  <2>4. ASSUME NEW i \in 1..(at - 1) PROVE d[i].kind \notin Kinds
    <3>1. i \in 1..Len(d) /\ ~(at <= i)
      BY <1>1, <2>3
    <3>2. QED
      BY <1>1, <2>2, <3>1
  <2>5. at \in 1..(Len(d) + 1)
    BY <1>1, <2>3
  <2>6. QED
    BY <2>3, <2>4, <2>5
<1>5. CASE heads = {}
  <2>1. at \in 1..(Len(d) + 1)
    <3>1. CASE refs # {}
      <4>1. at = Least(refs)
        BY <1>5, <3>1 DEF OpensAt
      <4> HIDE DEF heads, refs
      <4>2. at \in refs
        BY <1>3, <3>1, <4>1, LeastPosition
      <4>3. QED
        BY <1>1, <1>2, <4>2
    <3>2. CASE refs = {}
      <4>1. at = Len(d) + 1
        BY <1>5, <3>2 DEF OpensAt
      <4>2. QED
        BY <1>1, <4>1
    <3>3. QED
      BY <3>1, <3>2
  <2> HIDE DEF heads
  <2>2. \A i \in 1..(at - 1) : i \in 1..Len(d)
    BY <1>1, <2>1
  <2>3. \A i \in 1..(at - 1) : d[i].kind \notin Kinds
    BY <1>1, <1>5, <2>2
  <2> USE DEF heads
  <2>4. QED
    BY <1>5, <2>1, <2>3
<1>6. QED
  BY <1>4, <1>5

\* What is put where an [Unreleased] is created: its heading, a section and the item.
Opening(name, note, b) ==
  /\ IsSequence(b) /\ Len(b) = Len(note) + 2
  /\ b[1] = Heading("unreleased", NoVersion, NoDate, TRUE) /\ b[2] = SectionLine(name)
  /\ \A i \in 1..Len(note) : b[i + 2] = Item(note)[i] /\ b[i + 2].kind = "text"

LEMMA OpeningIs ==
  ASSUME NEW name, NEW note, IsSequence(note)
  PROVE  Opening(name, note, <<Heading("unreleased", NoVersion, NoDate, TRUE)>>
                               \o (<<SectionLine(name)>> \o Item(note)))
<1>1. PICK c : c = <<SectionLine(name)>> \o Item(note)
  OBVIOUS
<1>2. PICK x : x = Heading("unreleased", NoVersion, NoDate, TRUE)
  OBVIOUS
<1>3. PICK b : b = <<x>> \o c
  OBVIOUS
<1>4. Block(name, note, c)
  BY <1>1, BlockIs
<1>5. IsSequence(c)
  BY <1>4 DEF Block
<1>6. Heads(x, c, b)
  BY <1>3, <1>5, Headed
<1>7. Len(note) \in Nat
  BY SequenceIs
<1>8. IsSequence(b) /\ Len(b) = Len(note) + 2 /\ b[1] = x
  BY <1>4, <1>6, <1>7 DEF Heads, Block
<1>9. b[2] = SectionLine(name)
  <2>1. 1 \in 1..Len(c)
    BY <1>4, <1>7 DEF Block
  <2>2. b[1 + 1] = c[1]
    BY <1>6, <2>1 DEF Heads
  <2>3. QED
    BY <1>4, <2>2 DEF Block
<1>10. ASSUME NEW i \in 1..Len(note) PROVE b[i + 2] = Item(note)[i] /\ b[i + 2].kind = "text"
  <2>1. i + 1 \in 1..Len(c) /\ (i + 1) + 1 = i + 2
    BY <1>4, <1>7 DEF Block
  <2>2. b[(i + 1) + 1] = c[i + 1]
    BY <1>6, <2>1 DEF Heads
  <2>3. c[i + 1] = Item(note)[i] /\ c[i + 1].kind = "text"
    BY <1>4 DEF Block
  <2>4. QED
    BY <2>1, <2>2, <2>3
<1>11. Opening(name, note, b)
  BY <1>2, <1>8, <1>9, <1>10 DEF Opening
<1>12. QED
  BY <1>1, <1>2, <1>3, <1>11

\* An [Unreleased] that is created holds the item then.
LEMMA OpenUnreleasedSettles ==
  ASSUME NEW d, IsSequence(d), NEW name \in DOMAIN Fold, NEW note, IsSequence(note), note # <<>>,
         Unreleased(d) = 0, NEW e, e = OpenUnreleased(d, <<SectionLine(name)>> \o Item(note))
  PROVE  IsSequence(e) /\ AppendNote(e, name, note) = {e}
<1> DEFINE n == Len(note)
<1>1. PICK b : b = <<Heading("unreleased", NoVersion, NoDate, TRUE)>>
                     \o (<<SectionLine(name)>> \o Item(note))
  OBVIOUS
<1>2. PICK u : u = OpensAt(d)
  OBVIOUS
<1>3. /\ IsSequence(b) /\ Len(b) = n + 2
      /\ b[1] = Heading("unreleased", NoVersion, NoDate, TRUE) /\ b[2] = SectionLine(name)
      /\ \A i \in 1..n : b[i + 2] = Item(note)[i] /\ b[i + 2].kind = "text"
  <2>1. Opening(name, note, b)
    BY <1>1, OpeningIs
  <2>2. QED
    BY <2>1 DEF Opening
<1>4. n \in Nat /\ Len(d) \in Nat
  BY SequenceIs
<1>5. u \in 1..(Len(d) + 1) /\ \A i \in 1..(u - 1) : d[i].kind \notin Kinds
  BY <1>2, OpensAtIs
<1>6. e = Splice(d, u - 1, b)
  BY <1>1, <1>2 DEF OpenUnreleased, OpensAt
<1>7. /\ IsSequence(e) /\ Len(e) = Len(d) + n + 2
      /\ \A i \in 1..(u - 1) : e[i] = d[i]
      /\ \A i \in 1..Len(b) : e[u - 1 + i] = b[i]
  <2>1. u - 1 \in 0..Len(d)
    BY <1>4, <1>5
  <2>2. Spliced(d, u - 1, b, e)
    BY <1>3, <1>6, <2>1, SpliceIs
  <2>3. QED
    BY <1>3, <1>4, <2>2 DEF Spliced
<1>8. e[u] = b[1] /\ e[u + 1] = b[2]
  <2>1. 1 \in 1..Len(b) /\ 2 \in 1..Len(b) /\ u - 1 + 1 = u /\ u - 1 + 2 = u + 1
    BY <1>3, <1>4, <1>5
  <2>2. e[u - 1 + 1] = b[1] /\ e[u - 1 + 2] = b[2]
    BY <1>7, <2>1
  <2>3. QED
    BY <2>1, <2>2
<1> DEFINE s == u + 1
<1>9. /\ e[u].kind = "unreleased" /\ e[s].kind = "section" /\ Fold[e[s].name] = Fold[name]
  BY <1>3, <1>8 DEF Heading, SectionLine
<1>10. u \in 1..Len(e) /\ s \in 1..Len(e) /\ s \in s..Len(e) /\ s + n <= Len(e) /\ u \in Nat
  BY <1>4, <1>5, <1>7
<1>11. \A i \in 1..n : e[s + i] = Item(note)[i]
  <2>1. TAKE i \in 1..n
  <2>2. i + 2 \in 1..Len(b) /\ u - 1 + (i + 2) = s + i
    BY <1>3, <1>4, <1>10
  <2>3. e[u - 1 + (i + 2)] = b[i + 2]
    BY <1>7, <2>2
  <2>4. QED
    BY <1>3, <2>2, <2>3
<1>12. Unreleased(e) = u
  <2>1. \A i \in 1..(u - 1) : e[i].kind # "unreleased"
    BY <1>5, <1>7 DEF Kinds
  <2>2. \A v \in 1..Len(e) :
          e[v].kind = "unreleased" /\ (\A i \in 1..(v - 1) : e[i].kind # "unreleased")
            => Unreleased(e) = v
    <3>1. IsSequence(e)
      BY <1>7
    <3>2. QED
      BY <3>1, UnreleasedIs
  <2>3. QED
    BY <1>9, <1>10, <2>1, <2>2
<1>13. s \in SectionsOf(e, u)
  <2>1. \A i \in (u + 1)..s : i = s
    BY <1>10
  <2>2. \A i \in (u + 1)..s : e[i].kind \notin Stops
    BY <1>9, <2>1 DEF Stops, Kinds
  <2>3. Under(e, u, s)
    BY <1>10, <2>2 DEF Under
  <2> HIDE DEF s
  <2>4. QED
    BY <1>7, <1>9, <1>10, <2>3, SectionsAre
<1>14. ASSUME NEW t \in SectionsOf(e, u), t < s PROVE Fold[e[t].name] # Fold[name]
  <2>1. t \in 1..Len(e) /\ Under(e, u, t)
    BY <1>7, <1>10, SectionsAre
  <2>2. u < t /\ t \in Nat
    BY <1>7, <2>1 DEF Under
  <2>3. QED
    BY <1>10, <1>14, <2>2
<1>15. \A i \in (s + 1)..s : e[i].kind \notin Stops \cup {"section"}
  BY <1>10
<1>16. Carries(e, name, note, u, s, s)
  <2> HIDE DEF s
  <2>1. QED
    BY <1>9, <1>10, <1>11, <1>12, <1>13, <1>14, <1>15 DEF Carries
<1>17. QED
  BY <1>7, <1>16, Settled

\* What append made of a document, append leaves alone.
LEMMA AppendSettles ==
  ASSUME NEW d, IsSequence(d), NEW name, NEW note, IsSequence(note),
         NEW e \in AppendNote(d, name, note)
  PROVE  IsSequence(e) /\ AppendNote(e, name, note) = {e}
<1> DEFINE u == Unreleased(d)
           s == SectionNamed(d, u, name)
           block == <<SectionLine(name)>> \o Item(note)
<1>1. name \in DOMAIN Fold /\ note # <<>>
  BY DEF AppendNote
<1>2. e = IF u = 0 THEN OpenUnreleased(d, block)
          ELSE IF s # 0 THEN AddItem(d, s, SectionEnd(d, u, s), Item(note))
          ELSE AddSection(d, u, name, block)
  BY <1>1 DEF AppendNote
<1>3. CASE u = 0
  BY <1>1, <1>2, <1>3, OpenUnreleasedSettles
<1>4. CASE u # 0
  <2>1. u \in 1..Len(d)
    BY <1>4, UnreleasedIs
  <2>2. CASE s = 0
    BY <1>1, <1>2, <1>4, <2>1, <2>2, AddSectionSettles
  <2>3. CASE s # 0
    <3>1. PICK l : l = SectionEnd(d, u, s)
      OBVIOUS
    <3>2. e = IF Has(d, s, l, Item(note)) THEN d ELSE Splice(d, l, Item(note))
      BY <1>2, <1>4, <2>3, <3>1 DEF AddItem
    <3>3. CASE Has(d, s, l, Item(note))
      <4>1. AppendNote(d, name, note) = {d}
        BY <1>1, <1>4, <2>3, <3>1, <3>3 DEF AppendNote, AddItem
      <4>2. QED
        BY <3>2, <3>3, <4>1
    <3>4. CASE ~Has(d, s, l, Item(note))
      BY <1>1, <2>1, <2>3, <3>1, <3>2, <3>4, AddItemSettles
    <3>5. QED
      BY <3>3, <3>4
  <2>4. QED
    BY <2>2, <2>3
<1>5. QED
  BY <1>3, <1>4

-----------------------------------------------------------------------------
(* A release                                                               *)

\* A document is parsed to its entries, in their order.
Parsed(d, heads, doc) ==
  /\ Ascends(At(d, Kinds), heads) /\ DOMAIN doc = 1..Len(heads)
  /\ \A n \in 1..Len(heads) : /\ heads[n] \in 1..Len(d) /\ d[heads[n]].kind \in Kinds
                              /\ doc[n].kind = d[heads[n]].kind /\ doc[n].ver = d[heads[n]].ver
                              /\ doc[n].date = d[heads[n]].date /\ doc[n].body = Body(d, heads[n])

LEMMA ParseIs ==
  ASSUME NEW d, IsSequence(d)
  PROVE  Parsed(d, Ascending(At(d, Kinds)), Parse(d))
<1>1. PICK heads : heads = Ascending(At(d, Kinds))
  OBVIOUS
<1>2. PICK doc : doc = Parse(d)
  OBVIOUS
<1>3. Len(d) \in Nat /\ \A i : i \in At(d, Kinds) <=> i \in 1..Len(d) /\ d[i].kind \in Kinds
  BY SequenceIs DEF At
<1>4. At(d, Kinds) \in SUBSET (1..Len(d))
  BY <1>3
<1>5. Ascends(At(d, Kinds), heads)
  BY <1>1, <1>3, <1>4, AscendingIs
<1>6. Len(heads) \in Nat /\ DOMAIN heads = 1..Len(heads)
      /\ \A n \in 1..Len(heads) : heads[n] \in At(d, Kinds)
  BY <1>5 DEF Ascends
<1>7. doc = [n \in DOMAIN heads |->
               [kind |-> d[heads[n]].kind, ver |-> d[heads[n]].ver, date |-> d[heads[n]].date,
                body |-> Body(d, heads[n]), sections |-> SectionNames(d, heads[n]),
                link |-> Linked(d, heads[n])]]
  BY <1>1, <1>2 DEF Parse
<1>8. DOMAIN doc = 1..Len(heads)
  BY <1>6, <1>7
<1>9. ASSUME NEW n \in 1..Len(heads)
      PROVE  /\ heads[n] \in 1..Len(d) /\ d[heads[n]].kind \in Kinds
             /\ doc[n].kind = d[heads[n]].kind /\ doc[n].ver = d[heads[n]].ver
             /\ doc[n].date = d[heads[n]].date /\ doc[n].body = Body(d, heads[n])
  BY <1>3, <1>6, <1>7
<1>10. Parsed(d, heads, doc)
  BY <1>5, <1>8, <1>9 DEF Parsed
<1>11. QED
  BY <1>1, <1>2, <1>10

\* What is not refused has an [Unreleased].
LEMMA NotesToRelease ==
  ASSUME NEW d, IsSequence(d), NEW v, NEW date, ~Refused(Parse(d), v, date)
  PROVE  Unreleased(d) \in 1..Len(d) /\ d[Unreleased(d)].kind = "unreleased"
<1>1. PICK doc : doc = Parse(d)
  OBVIOUS
<1>2. PICK heads : heads = Ascending(At(d, Kinds))
  OBVIOUS
<1>3. Parsed(d, heads, doc)
  BY <1>1, <1>2, ParseIs
<1>4. Offered(doc) # {}
  BY <1>1 DEF Refused
<1>5. PICK i \in DOMAIN doc : doc[i].kind = "unreleased"
  BY <1>4 DEF Offered
<1>6. heads[i] \in 1..Len(d) /\ d[heads[i]].kind = "unreleased"
  BY <1>3, <1>5 DEF Parsed
<1>7. Unreleased(d) # 0
  BY <1>6, UnreleasedIs
<1>8. QED
  BY <1>7, UnreleasedIs

\* The links of a release: as they were, or two in the place of one.
Relinked(d, r, b, linked) ==
  \/ linked = d
  \/ /\ r \in 1..Len(d) /\ d[r].kind = "ref" /\ Replaced(d, r, b, linked)
     /\ IsSequence(b) /\ Len(b) = 2 /\ b[1].kind = "ref" /\ b[2].kind = "ref"

LEMMA ReleaseRefsAre ==
  ASSUME NEW d, IsSequence(d), NEW v, NEW linked \in ReleaseRefs(d, v)
  PROVE  \E r, b : Relinked(d, r, b, linked)
<1> DEFINE refs == At(d, {"ref"})
           own == {k \in refs : d[k].label = {}}
<1>1. PICK r : r = Least(own)
  OBVIOUS
<1>2. PICK b : b = <<Ref({}, d[r].v, {v}, {}), Ref({v}, d[r].v, d[r].prev, {v})>>
  OBVIOUS
<1>3. linked = d \/ (refs # {} /\ own # {} /\ linked = Replace(d, r, b))
  BY <1>1, <1>2 DEF ReleaseRefs
<1>4. CASE linked = d
  BY <1>4 DEF Relinked
<1>5. CASE own # {} /\ linked = Replace(d, r, b)
  <2>1. \A k \in own : k \in 1..Len(d) /\ d[k].kind = "ref"
    BY SequenceIs DEF At
  <2>2. own \in SUBSET Nat
    BY <2>1
  <2>3. r \in own
    <3> HIDE DEF own
    <3>1. QED
      BY <1>1, <1>5, <2>2, LeastPosition
  <2>4. r \in 1..Len(d) /\ d[r].kind = "ref"
    BY <2>1, <2>3
  <2>5. Len(b) = 2 /\ b[1].kind = "ref" /\ b[2].kind = "ref"
    BY <1>2 DEF Ref
  <2>6. IsSequence(b)
    <3>1. PICK x, y : b = <<x, y>>
      BY <1>2
    <3>2. b \in Seq({x, y})
      BY <3>1
    <3>3. QED
      BY <3>2 DEF IsSequence
  <2>7. Replaced(d, r, b, linked)
    BY <1>5, <2>4, <2>6, ReplaceIs
  <2>8. QED
    BY <2>4, <2>5, <2>6, <2>7 DEF Relinked
<1>6. QED
  BY <1>3, <1>4, <1>5

\* A document that is released: one that is relinked, with two headings in the place
\* of a line, which is the heading of [Unreleased] or a line directly above it.
Renamed(linked, u, b, e) ==
  /\ IsSequence(linked) /\ IsSequence(b) /\ u \in 1..Len(linked) /\ Replaced(linked, u, b, e)
  /\ Len(b) = 2 /\ b[1].kind = "unreleased" /\ b[2].kind = "version"
  /\ linked[u].kind = "unreleased"
     \/ (u + 1 \in 1..Len(linked) /\ linked[u + 1].kind = "unreleased")

LEMMA ReleaseIs ==
  ASSUME NEW d, IsSequence(d), NEW v, NEW date, NEW e \in Release(d, v, date)
  PROVE  \E r, c, linked, u, b : Relinked(d, r, c, linked) /\ Renamed(linked, u, b, e)
<1>1. PICK u : u = Unreleased(d)
  OBVIOUS
<1>2. PICK b : b = <<Heading("unreleased", NoVersion, NoDate, d[u].bracketed),
                     Heading("version", v, date, d[u].bracketed)>>
  OBVIOUS
<1>3. ~Refused(Parse(d), v, date) /\ \E linked \in ReleaseRefs(d, v) : e = Replace(linked, u, b)
  BY <1>1, <1>2 DEF Release
<1>4. PICK linked \in ReleaseRefs(d, v) : e = Replace(linked, u, b)
  BY <1>3
<1>5. u \in 1..Len(d) /\ d[u].kind = "unreleased"
  BY <1>1, <1>3, NotesToRelease
<1>6. PICK r, c : Relinked(d, r, c, linked)
  BY ReleaseRefsAre
<1>7. Len(b) = 2 /\ b[1].kind = "unreleased" /\ b[2].kind = "version"
  BY <1>2 DEF Heading
<1>8. IsSequence(b)
  <2>1. PICK x, y : b = <<x, y>>
    BY <1>2
  <2>2. b \in Seq({x, y})
    BY <2>1
  <2>3. QED
    BY <2>2 DEF IsSequence
<1>9. /\ IsSequence(linked) /\ u \in 1..Len(linked)
      /\ linked[u].kind = "unreleased"
         \/ (u + 1 \in 1..Len(linked) /\ linked[u + 1].kind = "unreleased")
  <2>1. CASE linked = d
    BY <1>5, <2>1
  <2>2. CASE /\ r \in 1..Len(d) /\ d[r].kind = "ref" /\ Replaced(d, r, c, linked)
             /\ IsSequence(c) /\ Len(c) = 2 /\ c[1].kind = "ref" /\ c[2].kind = "ref"
    <3>1. Len(d) \in Nat /\ IsSequence(linked) /\ Len(linked) = Len(d) + 1
      BY <2>2, SequenceIs DEF Replaced
    <3>2. u # r
      BY <1>5, <2>2
    <3>3. CASE u < r
      <4>1. u \in 1..(r - 1)
        BY <1>5, <2>2, <3>3
      <4>2. linked[u] = d[u]
        BY <2>2, <4>1 DEF Replaced
      <4>3. QED
        BY <1>5, <3>1, <4>2
    <3>4. CASE r < u
      <4>1. u \in (r + 1)..Len(d) /\ u - 1 + Len(c) = u + 1
        BY <1>5, <2>2, <3>4
      <4>2. linked[u - 1 + Len(c)] = d[u]
        BY <2>2, <4>1 DEF Replaced
      <4>3. linked[u + 1] = d[u]
        BY <4>1, <4>2
      <4>4. u \in 1..Len(linked) /\ u + 1 \in 1..Len(linked)
        BY <1>5, <3>1
      <4>5. QED
        BY <1>5, <3>1, <4>3, <4>4
    <3>5. QED
      BY <1>5, <2>2, <3>2, <3>3, <3>4
  <2>3. QED
    BY <1>6, <2>1, <2>2 DEF Relinked
<1>10. Replaced(linked, u, b, e)
  BY <1>4, <1>8, <1>9, ReplaceIs
<1>11. Renamed(linked, u, b, e)
  BY <1>7, <1>8, <1>9, <1>10 DEF Renamed
<1>12. QED
  BY <1>6, <1>11

-----------------------------------------------------------------------------
(* The commands                                                            *)

\* What a command holds.
IsJob(j) == j = [phase |-> j.phase, req |-> j.req, day |-> j.day, src |-> j.src, out |-> j.out,
                 said |-> j.said]

\* It changes field by field.
LEMMA JobSteps ==
  ASSUME NEW j, IsJob(j), NEW p, NEW o, NEW a
  PROVE  /\ [j EXCEPT !.phase = p] = [phase |-> p, req |-> j.req, day |-> j.day, src |-> j.src,
                                      out |-> j.out, said |-> j.said]
         /\ [j EXCEPT !.phase = p, !.out = o] =
              [phase |-> p, req |-> j.req, day |-> j.day, src |-> j.src, out |-> o, said |-> j.said]
         /\ [j EXCEPT !.phase = p, !.said = a] =
              [phase |-> p, req |-> j.req, day |-> j.day, src |-> j.src, out |-> j.out, said |-> a]
<1>1. PICK ph, re, da, sr, ou, sa :
        j = [phase |-> ph, req |-> re, day |-> da, src |-> sr, out |-> ou, said |-> sa]
  BY DEF IsJob
<1>2. j.req = re /\ j.day = da /\ j.src = sr /\ j.out = ou /\ j.said = sa
  BY <1>1
<1>3. [j EXCEPT !.phase = p] = [phase |-> p, req |-> re, day |-> da, src |-> sr, out |-> ou,
                                said |-> sa]
  BY <1>1
<1>4. PICK k : k = [j EXCEPT !.phase = p, !.out = o]
  OBVIOUS
<1>5. k = [phase |-> p, req |-> re, day |-> da, src |-> sr, out |-> o, said |-> sa]
  BY <1>1, <1>4
<1>6. PICK l : l = [j EXCEPT !.phase = p, !.said = a]
  OBVIOUS
<1>7. l = [phase |-> p, req |-> re, day |-> da, src |-> sr, out |-> ou, said |-> a]
  BY <1>1, <1>6
<1>8. QED
  BY <1>2, <1>3, <1>4, <1>5, <1>6, <1>7, Zenon

\* A command works on what it read, asked for one of its requests, and what it is about
\* to write is the edit of that.
Works(c) ==
  /\ IsJob(jobs[c]) /\ IsSequence(jobs[c].src) /\ IsSequence(jobs[c].out)
  /\ jobs[c].phase \in {"read", "opened", "written"} => jobs[c].req \in Requests[c]
  /\ jobs[c].phase \in {"opened", "written"} =>
       jobs[c].out \in Edited(jobs[c].req, jobs[c].day, jobs[c].src)

\* The file and what the commands hold of it are sequences of lines.
LinesInv ==
  /\ IsSequence(file) /\ DOMAIN jobs = Commands
  /\ \A c \in Commands : Works(c)

\* An edit of a sequence of lines is one.
LEMMA EditedIsSequence ==
  ASSUME NEW c \in Commands, NEW req \in Requests[c], NEW day, NEW d, IsSequence(d),
         NEW e \in Edited(req, day, d)
  PROVE  IsSequence(e)
<1>1. CASE req.op = "append"
  <2>1. IsSequence(req.note)
    BY <1>1, EditorAssumption DEF IsSequence
  <2>2. e \in AppendNote(d, req.section, req.note)
    BY <1>1 DEF Edited
  <2>3. QED
    BY <2>1, <2>2, AppendSettles
<1>2. CASE req.op # "append"
  <2>1. PICK v : e \in Release(d, v, day)
    BY <1>2 DEF Edited
  <2>2. PICK r, b, linked, u, x : Relinked(d, r, b, linked) /\ Renamed(linked, u, x, e)
    BY <2>1, ReleaseIs
  <2>3. QED
    BY <2>2 DEF Renamed, Replaced
<1>3. QED
  BY <1>1, <1>2

\* What is written over a document is a sequence of lines too.
LEMMA OverwritesAsSequence ==
  ASSUME NEW d, IsSequence(d), NEW b, IsSequence(b)
  PROVE  IsSequence(b \o SubSeq(d, Len(b) + 1, Len(d)))
<1>1. PICK S : d \in Seq(S) /\ b \in Seq(S)
  BY SequencesShare
<1>2. Len(b) \in Nat /\ Len(d) \in Nat
  BY <1>1
<1>3. PICK q : q = SubSeq(d, Len(b) + 1, Len(d))
  OBVIOUS
<1>4. q \in Seq(S)
  BY <1>1, <1>2, <1>3
<1>5. b \o q \in Seq(S)
  BY <1>1, <1>4
<1>6. QED
  BY <1>3, <1>5 DEF IsSequence

LEMMA LinesInit ==
  Init => LinesInv
<1>1. SUFFICES ASSUME Init PROVE LinesInv
  OBVIOUS
<1>2. IsSequence(<<>>)
  <2>1. <<>> \in Seq({})
    OBVIOUS
  <2>2. QED
    BY <2>1 DEF IsSequence
<1>3. IsSequence(file)
  BY <1>1, EditorAssumption DEF Init, IsSequence
<1>4. DOMAIN jobs = Commands /\ \A c \in Commands : jobs[c] = Idle
  BY <1>1 DEF Init
<1>5. IsJob(Idle)
  BY DEF Idle, IsJob
<1>6. Idle.phase = "idle" /\ Idle.src = <<>> /\ Idle.out = <<>>
  BY DEF Idle
<1>7. \A c \in Commands : Works(c)
  BY <1>2, <1>4, <1>5, <1>6 DEF Works
<1>8. QED
  BY <1>3, <1>4, <1>7 DEF LinesInv

\* A step of one command leaves what the others hold, and what it holds itself stays as
\* it should be.
LEMMA OneJob ==
  ASSUME NEW c \in Commands, DOMAIN jobs = Commands, \A x \in Commands : Works(x),
         NEW new, jobs' = [jobs EXCEPT ![c] = new], IsJob(new),
         IsSequence(new.src), IsSequence(new.out),
         new.phase \in {"read", "opened", "written"} => new.req \in Requests[c],
         new.phase \in {"opened", "written"} => new.out \in Edited(new.req, new.day, new.src)
  PROVE  DOMAIN jobs' = Commands /\ \A x \in Commands : Works(x)'
<1>1. DOMAIN jobs' = Commands /\ jobs'[c] = new
  OBVIOUS
<1>2. \A x \in Commands : x # c => jobs'[x] = jobs[x]
  OBVIOUS
<1>3. Works(c)'
  BY <1>1 DEF Works
<1>4. ASSUME NEW x \in Commands, x # c PROVE Works(x)'
  <2>1. Works(x) /\ jobs'[x] = jobs[x]
    BY <1>2, <1>4
  <2>2. QED
    BY <2>1 DEF Works
<1>5. QED
  BY <1>1, <1>3, <1>4

LEMMA LinesStep ==
  LinesInv /\ [Next]_vars => LinesInv'
<1>1. SUFFICES ASSUME LinesInv, [Next]_vars PROVE LinesInv'
  OBVIOUS
<1>2. IsSequence(file) /\ DOMAIN jobs = Commands /\ \A c \in Commands : Works(c)
  BY <1>1 DEF LinesInv
<1>3. IsSequence(<<>>)
  <2>1. <<>> \in Seq({})
    OBVIOUS
  <2>2. QED
    BY <2>1 DEF IsSequence
<1>4. IsJob(Idle) /\ Idle.phase = "idle" /\ Idle.src = <<>> /\ Idle.out = <<>>
  BY DEF Idle, IsJob
<1>5. ASSUME NEW c \in Commands, jobs' = [jobs EXCEPT ![c] = Idle], UNCHANGED file
      PROVE  LinesInv'
  <2>1. DOMAIN jobs' = Commands /\ \A x \in Commands : Works(x)'
    BY <1>2, <1>3, <1>4, <1>5, OneJob
  <2>2. QED
    BY <1>2, <1>5, <2>1 DEF LinesInv
<1>6. CASE UNCHANGED vars
  <2>1. \A c \in Commands : Works(c)'
    BY <1>2, <1>6 DEF Works, vars
  <2>2. QED
    BY <1>2, <1>6, <2>1 DEF LinesInv, vars
<1>7. CASE Tick
  <2>1. \A c \in Commands : Works(c)'
    BY <1>2, <1>7 DEF Works, Tick
  <2>2. QED
    BY <1>2, <1>7, <2>1 DEF LinesInv, Tick
<1>8. ASSUME NEW c \in Commands, Read(c) PROVE LinesInv'
  <2>1. PICK req \in Requests[c] :
          jobs' = [jobs EXCEPT ![c] = [phase |-> "read", req |-> req, day |-> DayFor(req),
                                       src |-> file, out |-> <<>>, said |-> Nothing]]
    BY <1>8 DEF Read
  <2>2. PICK new : new = [phase |-> "read", req |-> req, day |-> DayFor(req), src |-> file,
                          out |-> <<>>, said |-> Nothing]
    OBVIOUS
  <2>3. new.phase = "read" /\ new.req = req /\ new.src = file /\ new.out = <<>> /\ IsJob(new)
    BY <2>2 DEF IsJob
  <2>4. DOMAIN jobs' = Commands /\ \A x \in Commands : Works(x)'
    BY <1>2, <1>3, <2>1, <2>2, <2>3, OneJob
  <2>5. QED
    BY <1>2, <1>8, <2>4 DEF LinesInv, Read
<1>9. ASSUME NEW c \in Commands, Refuse(c) PROVE LinesInv'
  BY <1>5, <1>9 DEF Refuse
<1>10. ASSUME NEW c \in Commands, Open(c) PROVE LinesInv'
  <2>1. PICK j : j = jobs[c]
    OBVIOUS
  <2>2. PICK out \in Edited(j.req, j.day, j.src) :
          jobs' = [jobs EXCEPT ![c].phase = "opened", ![c].out = out]
    BY <1>10, <2>1 DEF Open
  <2>3. IsJob(j) /\ IsSequence(j.src) /\ j.req \in Requests[c]
    BY <1>2, <1>10, <2>1 DEF Open, Works
  <2>4. PICK new : new = [phase |-> "opened", req |-> j.req, day |-> j.day, src |-> j.src,
                          out |-> out, said |-> j.said]
    OBVIOUS
  <2>5. jobs' = [jobs EXCEPT ![c] = new]
    <3>1. jobs' = [jobs EXCEPT ![c] = [jobs[c] EXCEPT !.phase = "opened", !.out = out]]
      BY <2>2
    <3>2. [j EXCEPT !.phase = "opened", !.out = out] = new
      BY <2>3, <2>4, JobSteps
    <3>3. QED
      BY <2>1, <3>1, <3>2
  <2>6. /\ new.phase = "opened" /\ new.req = j.req /\ new.day = j.day /\ new.src = j.src
        /\ new.out = out /\ IsJob(new)
    BY <2>4 DEF IsJob
  <2>7. IsSequence(out)
    BY <2>2, <2>3, EditedIsSequence
  <2>8. DOMAIN jobs' = Commands /\ \A x \in Commands : Works(x)'
    BY <1>2, <2>2, <2>3, <2>5, <2>6, <2>7, OneJob
  <2>9. QED
    BY <1>3, <1>10, <2>8 DEF LinesInv, Open
<1>11. ASSUME NEW c \in Commands, Write(c) PROVE LinesInv'
  <2>1. PICK j : j = jobs[c]
    OBVIOUS
  <2>2. /\ IsJob(j) /\ IsSequence(j.src) /\ IsSequence(j.out) /\ j.req \in Requests[c]
        /\ j.out \in Edited(j.req, j.day, j.src)
    BY <1>2, <1>11, <2>1 DEF Write, Works
  <2>3. PICK new : new = [phase |-> "written", req |-> j.req, day |-> j.day, src |-> j.src,
                          out |-> j.out, said |-> j.said]
    OBVIOUS
  <2>4. jobs' = [jobs EXCEPT ![c] = new]
    <3>1. jobs' = [jobs EXCEPT ![c] = [jobs[c] EXCEPT !.phase = "written"]]
      BY <1>11 DEF Write
    <3>2. [j EXCEPT !.phase = "written"] = new
      BY <2>2, <2>3, JobSteps
    <3>3. QED
      BY <2>1, <3>1, <3>2
  <2>5. /\ new.phase = "written" /\ new.req = j.req /\ new.day = j.day /\ new.src = j.src
        /\ new.out = j.out /\ IsJob(new)
    BY <2>3 DEF IsJob
  <2>6. DOMAIN jobs' = Commands /\ \A x \in Commands : Works(x)'
    BY <1>2, <2>2, <2>4, <2>5, OneJob
  <2>7. IsSequence(file')
    BY <1>2, <1>11, <2>1, <2>2, OverwritesAsSequence DEF Write
  <2>8. QED
    BY <2>6, <2>7 DEF LinesInv
<1>12. ASSUME NEW c \in Commands, Return(c) PROVE LinesInv'
  <2>1. PICK j : j = jobs[c]
    OBVIOUS
  <2>2. IsJob(j) /\ IsSequence(j.src) /\ IsSequence(j.out)
    BY <1>2, <2>1 DEF Works
  <2>3. PICK new : new = [phase |-> "returned", req |-> j.req, day |-> j.day, src |-> j.src,
                          out |-> j.out, said |-> Report(c)]
    OBVIOUS
  <2>4. jobs' = [jobs EXCEPT ![c] = new]
    <3>1. jobs' = [jobs EXCEPT ![c] = [jobs[c] EXCEPT !.phase = "returned", !.said = Report(c)]]
      BY <1>12 DEF Return
    <3>2. [j EXCEPT !.phase = "returned", !.said = Report(c)] = new
      BY <2>2, <2>3, JobSteps
    <3>3. QED
      BY <2>1, <3>1, <3>2
  <2>5. new.phase = "returned" /\ new.src = j.src /\ new.out = j.out /\ IsJob(new)
    BY <2>3 DEF IsJob
  <2>6. DOMAIN jobs' = Commands /\ \A x \in Commands : Works(x)'
    BY <1>2, <2>2, <2>4, <2>5, OneJob
  <2>7. QED
    BY <1>2, <1>12, <2>6 DEF LinesInv, Return
<1>13. ASSUME NEW c \in Commands, End(c) PROVE LinesInv'
  BY <1>5, <1>13 DEF End
<1>14. QED
  BY <1>1, <1>6, <1>7, <1>8, <1>9, <1>10, <1>11, <1>12, <1>13 DEF Next

\* README.md:379-380: a rerun of append adds nothing, be there as many sections, notes
\* and entries as there may, and another command between the two or not.
THEOREM RerunsAddNothing ==
  Spec => []RerunAddsNothing
<1>1. LinesInv => RerunAddsNothing
  <2>1. SUFFICES ASSUME LinesInv, NEW c \in Commands,
                        jobs[c].phase = "written", jobs[c].req.op = "append"
                 PROVE  AppendNote(jobs[c].out, jobs[c].req.section, jobs[c].req.note)
                          = {jobs[c].out}
    BY DEF RerunAddsNothing
  <2>2. PICK j : j = jobs[c]
    OBVIOUS
  <2>3. IsSequence(j.src) /\ j.req \in Requests[c] /\ j.out \in Edited(j.req, j.day, j.src)
    BY <2>1, <2>2 DEF LinesInv, Works
  <2>4. j.out \in AppendNote(j.src, j.req.section, j.req.note)
    BY <2>1, <2>2, <2>3 DEF Edited
  <2>5. IsSequence(j.req.note)
    BY <2>1, <2>2, <2>3, EditorAssumption DEF IsSequence
  <2>6. QED
    BY <2>2, <2>3, <2>4, <2>5, AppendSettles
<1>2. QED
  BY <1>1, LinesInit, LinesStep, PTL DEF Spec

-----------------------------------------------------------------------------
(* Sections in their order                                                 *)

\* e is d with b after its first a lines, in the place of the m that followed.
Put(d, a, m, b, e) ==
  /\ IsSequence(d) /\ IsSequence(b) /\ IsSequence(e)
  /\ a \in Nat /\ m \in {0, 1} /\ a + m <= Len(d) /\ Len(e) = Len(d) - m + Len(b)
  /\ \A i \in 1..a : e[i] = d[i]
  /\ \A i \in 1..Len(b) : e[a + i] = b[i]
  /\ \A i \in (a + m + 1)..Len(d) : e[i - m + Len(b)] = d[i]

LEMMA SplicePuts ==
  ASSUME NEW d, NEW k, NEW b, NEW e, IsSequence(d), IsSequence(b), k \in 0..Len(d),
         Spliced(d, k, b, e)
  PROVE  Put(d, k, 0, b, e)
<1>1. Len(d) \in Nat /\ Len(b) \in Nat
  BY SequenceIs
<1>2. /\ IsSequence(e) /\ Len(e) = Len(d) + Len(b)
      /\ \A i \in 1..k : e[i] = d[i]
      /\ \A i \in 1..Len(b) : e[k + i] = b[i]
      /\ \A i \in (k + 1)..Len(d) : e[i + Len(b)] = d[i]
  BY DEF Spliced
<1>3. k \in Nat /\ k + 0 <= Len(d) /\ Len(e) = Len(d) - 0 + Len(b)
  BY <1>1, <1>2
<1>4. \A i \in (k + 0 + 1)..Len(d) : e[i - 0 + Len(b)] = d[i]
  <2>1. TAKE i \in (k + 0 + 1)..Len(d)
  <2>2. i \in (k + 1)..Len(d) /\ i - 0 + Len(b) = i + Len(b)
    BY <1>1
  <2>3. QED
    BY <1>2, <2>2
<1>5. QED
  BY <1>2, <1>3, <1>4 DEF Put

LEMMA ReplacePuts ==
  ASSUME NEW d, NEW k, NEW b, NEW e, IsSequence(d), IsSequence(b), k \in 1..Len(d),
         Replaced(d, k, b, e)
  PROVE  Put(d, k - 1, 1, b, e)
<1>1. Len(d) \in Nat /\ Len(b) \in Nat
  BY SequenceIs
<1>2. /\ IsSequence(e) /\ Len(e) = Len(d) + Len(b) - 1
      /\ \A i \in 1..(k - 1) : e[i] = d[i]
      /\ \A i \in 1..Len(b) : e[k - 1 + i] = b[i]
      /\ \A i \in (k + 1)..Len(d) : e[i - 1 + Len(b)] = d[i]
  BY DEF Replaced
<1>3. k - 1 \in Nat /\ k - 1 + 1 <= Len(d) /\ Len(e) = Len(d) - 1 + Len(b)
  BY <1>1, <1>2
<1>4. \A i \in (k - 1 + 1 + 1)..Len(d) : e[i - 1 + Len(b)] = d[i]
  <2>1. TAKE i \in (k - 1 + 1 + 1)..Len(d)
  <2>2. i \in (k + 1)..Len(d)
    BY <1>1
  <2>3. QED
    BY <1>2, <2>2
<1>5. QED
  BY <1>2, <1>3, <1>4 DEF Put

\* Whether line j of e was in d, and where it stood there.
Outside(a, b, j) == j <= a \/ j > a + Len(b)
Was(a, m, b, j) == IF j <= a THEN j ELSE j - Len(b) + m

LEMMA WasIs ==
  ASSUME NEW d, NEW a, NEW m, NEW b, NEW e, Put(d, a, m, b, e),
         NEW j \in 1..Len(e), Outside(a, b, j)
  PROVE  Was(a, m, b, j) \in 1..Len(d) /\ e[j] = d[Was(a, m, b, j)]
<1>1. /\ IsSequence(d) /\ IsSequence(b) /\ a \in Nat /\ m \in {0, 1} /\ a + m <= Len(d)
      /\ Len(e) = Len(d) - m + Len(b)
      /\ \A i \in 1..a : e[i] = d[i]
      /\ \A i \in (a + m + 1)..Len(d) : e[i - m + Len(b)] = d[i]
  BY DEF Put
<1>2. Len(d) \in Nat /\ Len(b) \in Nat
  BY <1>1, SequenceIs
<1>3. CASE j <= a
  <2>1. Was(a, m, b, j) = j /\ j \in 1..a /\ j \in 1..Len(d)
    BY <1>1, <1>2, <1>3 DEF Was
  <2>2. QED
    BY <1>1, <2>1
<1>4. CASE ~(j <= a)
  <2>1. j > a + Len(b)
    BY <1>4 DEF Outside
  <2>2. PICK i : i = j - Len(b) + m
    OBVIOUS
  <2>3. Was(a, m, b, j) = i
    BY <1>4, <2>2 DEF Was
  <2>4. i \in (a + m + 1)..Len(d) /\ i - m + Len(b) = j /\ i \in 1..Len(d)
    BY <1>1, <1>2, <2>1, <2>2
  <2>5. e[i - m + Len(b)] = d[i]
    BY <1>1, <2>4
  <2>6. QED
    BY <2>3, <2>4, <2>5
<1>5. QED
  BY <1>3, <1>4

\* Lines keep their order, and an entry its lines, unless the one that is gone ended
\* an entry and nothing put in its place does.
LEMMA UnderWas ==
  ASSUME NEW d, NEW a, NEW m, NEW b, NEW e, Put(d, a, m, b, e),
         m = 0 \/ d[a + 1].kind \notin Stops \/ (\E i \in 1..Len(b) : b[i].kind \in Stops),
         NEW h \in 1..Len(e), NEW s \in 1..Len(e), Outside(a, b, h), Outside(a, b, s),
         Under(e, h, s)
  PROVE  Under(d, Was(a, m, b, h), Was(a, m, b, s))
<1>1. /\ IsSequence(d) /\ IsSequence(b) /\ a \in Nat /\ m \in {0, 1} /\ a + m <= Len(d)
      /\ Len(e) = Len(d) - m + Len(b)
      /\ \A i \in 1..a : e[i] = d[i]
      /\ \A i \in 1..Len(b) : e[a + i] = b[i]
      /\ \A i \in (a + m + 1)..Len(d) : e[i - m + Len(b)] = d[i]
  BY DEF Put
<1>2. Len(d) \in Nat /\ Len(b) \in Nat
  BY <1>1, SequenceIs
<1>3. h < s /\ \A i \in (h + 1)..s : e[i].kind \notin Stops
  BY DEF Under
<1>4. PICK p, q : p = Was(a, m, b, h) /\ q = Was(a, m, b, s)
  OBVIOUS
<1>5. p \in 1..Len(d) /\ q \in 1..Len(d)
  BY <1>4, WasIs
<1>6. p = IF h <= a THEN h ELSE h - Len(b) + m
  BY <1>4 DEF Was
<1>7. q = IF s <= a THEN s ELSE s - Len(b) + m
  BY <1>4 DEF Was
<1>8. (h <= a \/ h > a + Len(b)) /\ (s <= a \/ s > a + Len(b))
  BY DEF Outside
<1>9. p < q
  BY <1>1, <1>2, <1>3, <1>6, <1>7, <1>8
<1>10. ASSUME NEW i \in (p + 1)..q PROVE d[i].kind \notin Stops
  <2>1. CASE i <= a
    <3>1. i \in 1..a /\ i \in (h + 1)..s
      BY <1>1, <1>2, <1>5, <1>6, <1>7, <1>8, <2>1
    <3>2. QED
      BY <1>1, <1>3, <3>1
  <2>2. CASE i > a + m
    <3>1. i \in (a + m + 1)..Len(d) /\ i - m + Len(b) \in (h + 1)..s
      BY <1>1, <1>2, <1>5, <1>6, <1>7, <1>8, <2>2
    <3>2. e[i - m + Len(b)] = d[i]
      BY <1>1, <3>1
    <3>3. QED
      BY <1>3, <3>1, <3>2
  <2>3. CASE m = 1 /\ i = a + 1
    <3>1. SUFFICES ASSUME NEW x \in 1..Len(b), b[x].kind \in Stops PROVE FALSE
      BY <2>3
    <3>2. a + x \in (h + 1)..s
      BY <1>1, <1>2, <1>5, <1>6, <1>7, <1>8, <2>3
    <3>3. e[a + x].kind \in Stops
      BY <1>1, <3>1
    <3>4. QED
      BY <1>3, <3>2, <3>3
  <2>4. i <= a \/ i > a + m \/ (m = 1 /\ i = a + 1)
    BY <1>1, <1>5
  <2>5. QED
    BY <2>1, <2>2, <2>3, <2>4
<1>11. Under(d, p, q)
  BY <1>2, <1>5, <1>9, <1>10 DEF Under
<1>12. QED
  BY <1>4, <1>11

\* Sections that were in order and are there still.
Ranked(d, s, t) == /\ SectionRank(d[s].name) <= SectionRank(d[t].name)
                   /\ Fold[d[s].name] # Fold[d[t].name]

LEMMA KeptInOrder ==
  ASSUME NEW d, NEW a, NEW m, NEW b, NEW e, Put(d, a, m, b, e), InOrder(d),
         m = 0 \/ d[a + 1].kind \notin Stops \/ (\E i \in 1..Len(b) : b[i].kind \in Stops),
         NEW h \in At(e, Kinds), NEW s \in SectionsOf(e, h), NEW t \in SectionsOf(e, h), s < t,
         Outside(a, b, h), Outside(a, b, s), Outside(a, b, t)
  PROVE  Ranked(e, s, t)
<1>1. IsSequence(d) /\ IsSequence(e) /\ IsSequence(b) /\ a \in Nat /\ m \in {0, 1}
  BY DEF Put
<1>2. h \in 1..Len(e) /\ e[h].kind \in Kinds
  BY <1>1, SequenceIs DEF At
<1>3. /\ s \in 1..Len(e) /\ Under(e, h, s) /\ e[s].kind = "section"
      /\ t \in 1..Len(e) /\ Under(e, h, t) /\ e[t].kind = "section"
  BY <1>1, <1>2, SectionsAre
<1>4. PICK g, p, q : g = Was(a, m, b, h) /\ p = Was(a, m, b, s) /\ q = Was(a, m, b, t)
  OBVIOUS
<1>5. /\ g \in 1..Len(d) /\ e[h] = d[g] /\ p \in 1..Len(d) /\ e[s] = d[p]
      /\ q \in 1..Len(d) /\ e[t] = d[q]
  BY <1>2, <1>3, <1>4, WasIs
<1>6. Under(d, g, p) /\ Under(d, g, q)
  BY <1>2, <1>3, <1>4, UnderWas
<1>7. p \in SectionsOf(d, g) /\ q \in SectionsOf(d, g)
  BY <1>1, <1>3, <1>5, <1>6, SectionsAre
<1>8. g \in At(d, Kinds)
  BY <1>1, <1>2, <1>5, SequenceIs DEF At
<1>9. p < q
  <2>1. p = IF s <= a THEN s ELSE s - Len(b) + m
    BY <1>4 DEF Was
  <2>2. q = IF t <= a THEN t ELSE t - Len(b) + m
    BY <1>4 DEF Was
  <2>3. (s <= a \/ s > a + Len(b)) /\ (t <= a \/ t > a + Len(b))
    BY DEF Outside
  <2>4. Len(b) \in Nat /\ s \in Int /\ t \in Int
    BY <1>1, <1>3, SequenceIs
  <2>5. QED
    BY <1>1, <2>1, <2>2, <2>3, <2>4
<1>10. QED
  BY <1>5, <1>7, <1>8, <1>9 DEF InOrder, Ranked

\* A document whose sections are in order, and none outside of an entry where there is
\* no entry.
Well(d) ==
  /\ IsSequence(d) /\ InOrder(d)
  /\ At(d, Kinds) = {} => At(d, {"section"}) = {}

\* Text and links disturb nothing.
LEMMA QuietIsWell ==
  ASSUME NEW d, NEW a, NEW m, NEW b, NEW e, Put(d, a, m, b, e), Well(d),
         \A i \in 1..Len(b) : b[i].kind \notin Stops \cup {"section"},
         m = 0 \/ d[a + 1].kind \notin Stops
  PROVE  Well(e)
<1>1. /\ IsSequence(d) /\ IsSequence(e) /\ IsSequence(b) /\ a \in Nat /\ m \in {0, 1}
      /\ a + m <= Len(d) /\ Len(e) = Len(d) - m + Len(b)
      /\ \A i \in 1..a : e[i] = d[i]
      /\ \A i \in 1..Len(b) : e[a + i] = b[i]
      /\ \A i \in (a + m + 1)..Len(d) : e[i - m + Len(b)] = d[i]
  BY DEF Put
<1>2. Len(d) \in Nat /\ Len(b) \in Nat
  BY <1>1, SequenceIs
<1>3. ASSUME NEW j \in 1..Len(e), e[j].kind \in Stops \cup {"section"} PROVE Outside(a, b, j)
  <2>1. SUFFICES ASSUME ~Outside(a, b, j) PROVE FALSE
    OBVIOUS
  <2>2. j - a \in 1..Len(b) /\ a + (j - a) = j
    BY <1>1, <1>2, <2>1 DEF Outside
  <2>3. e[a + (j - a)] = b[j - a]
    BY <1>1, <2>2
  <2>4. QED
    BY <1>3, <2>2, <2>3
<1>4. InOrder(e)
  <2>1. SUFFICES ASSUME NEW h \in At(e, Kinds), NEW s \in SectionsOf(e, h),
                        NEW t \in SectionsOf(e, h), s < t
                 PROVE  Ranked(e, s, t)
    BY DEF InOrder, Ranked
  <2>2. h \in 1..Len(e) /\ e[h].kind \in Stops
    BY <1>1, SequenceIs DEF At, Stops
  <2>3. s \in 1..Len(e) /\ e[s].kind = "section" /\ t \in 1..Len(e) /\ e[t].kind = "section"
    BY <1>1, <2>2, SectionsAre
  <2>4. Outside(a, b, h) /\ Outside(a, b, s) /\ Outside(a, b, t)
    BY <1>3, <2>2, <2>3
  <2>5. InOrder(d)
    BY DEF Well
  <2>6. QED
    BY <2>1, <2>4, <2>5, KeptInOrder
<1>5. ASSUME At(e, Kinds) = {}, NEW j \in At(e, {"section"}) PROVE FALSE
  <2>1. j \in 1..Len(e) /\ e[j].kind = "section"
    BY <1>1, SequenceIs DEF At
  <2>2. Outside(a, b, j)
    BY <1>3, <2>1
  <2>3. PICK i \in 1..Len(d) : d[i].kind = "section"
    BY <2>1, <2>2, WasIs
  <2>4. At(d, {"section"}) # {}
    BY <1>1, <2>3, SequenceIs DEF At
  <2>5. PICK g \in At(d, Kinds) : TRUE
    BY <2>4 DEF Well
  <2>6. g \in 1..Len(d) /\ d[g].kind \in Kinds
    BY <1>1, SequenceIs DEF At
  <2>7. PICK x \in 1..Len(e) : e[x] = d[g]
    <3>1. CASE g <= a
      <4>1. g \in 1..a /\ g \in 1..Len(e)
        BY <1>1, <1>2, <2>6, <3>1
      <4>2. QED
        BY <1>1, <4>1
    <3>2. CASE g > a + m
      <4>1. g \in (a + m + 1)..Len(d) /\ g - m + Len(b) \in 1..Len(e)
        BY <1>1, <1>2, <2>6, <3>2
      <4>2. QED
        BY <1>1, <4>1
    <3>3. g <= a \/ g > a + m
      <4>1. SUFFICES ASSUME ~(g <= a), ~(g > a + m) PROVE FALSE
        OBVIOUS
      <4>2. m = 1 /\ g = a + 1
        BY <1>1, <2>6, <4>1
      <4>3. QED
        BY <2>6, <4>2 DEF Stops
    <3>4. QED
      BY <3>1, <3>2, <3>3
  <2>8. x \in At(e, Kinds)
    BY <1>1, <2>6, <2>7, SequenceIs DEF At
  <2>9. QED
    BY <1>5, <2>8
<1>6. QED
  BY <1>1, <1>4, <1>5 DEF Well

\* A rank is a number.
LEMMA RankIs ==
  ASSUME NEW name
  PROVE  SectionRank(name) \in Nat
<1> DEFINE same == {i \in DOMAIN DefaultSections : DefaultSections[i] = Fold[name]}
<1>1. Len(DefaultSections) = 6 /\ DOMAIN DefaultSections = 1..6
  BY DEF DefaultSections
<1>2. same \in SUBSET Nat
  BY <1>1
<1>3. SectionRank(name) = IF same = {} THEN Len(DefaultSections) + 1 ELSE Least(same)
  BY DEF SectionRank
<1> HIDE DEF same
<1>4. same # {} => Least(same) \in Nat
  BY <1>2, LeastPosition
<1>5. QED
  BY <1>1, <1>3, <1>4

\* A section that is created stands where it ranks.
LEMMA AddSectionIsWell ==
  ASSUME NEW d, Well(d), NEW u \in 1..Len(d), d[u].kind = "unreleased",
         NEW name, NEW note, IsSequence(note), SectionNamed(d, u, name) = 0,
         NEW e, e = AddSection(d, u, name, <<SectionLine(name)>> \o Item(note))
  PROVE  Well(e)
<1>1. PICK b : b = <<SectionLine(name)>> \o Item(note)
  OBVIOUS
<1>2. PICK k : k = Place(d, u, name)
  OBVIOUS
<1>3. IsSequence(d) /\ InOrder(d)
  BY DEF Well
<1>4. /\ IsSequence(b) /\ Len(b) = Len(note) + 1 /\ b[1] = SectionLine(name)
      /\ \A i \in 1..Len(note) : b[i + 1].kind = "text"
  <2>1. Block(name, note, b)
    BY <1>1, BlockIs
  <2>2. QED
    BY <2>1 DEF Block
<1>5. Len(d) \in Nat /\ Len(note) \in Nat
  BY <1>3, SequenceIs
<1>6. /\ k \in u..Len(d) /\ (k = u \/ Under(d, u, k))
      /\ \A s \in SectionsOf(d, u) : s <= k => ~(SectionRank(d[s].name) > SectionRank(name))
      /\ \/ \A s \in SectionsOf(d, u) : s <= k
         \/ k + 1 \in SectionsOf(d, u) /\ SectionRank(d[k + 1].name) > SectionRank(name)
  BY <1>2, <1>3, PlaceIs
<1>7. Put(d, k, 0, b, e)
  <2>1. k \in 0..Len(d)
    BY <1>5, <1>6
  <2>2. e = Splice(d, k, b)
    BY <1>1, <1>2 DEF AddSection, Place
  <2>3. Spliced(d, k, b, e)
    BY <1>3, <1>4, <2>1, <2>2, SpliceIs
  <2>4. QED
    BY <1>3, <1>4, <2>1, <2>3, SplicePuts
<1>8. /\ IsSequence(e) /\ Len(e) = Len(d) + Len(note) + 1
      /\ \A i \in 1..k : e[i] = d[i]
      /\ \A i \in 1..Len(b) : e[k + i] = b[i]
  BY <1>4, <1>5, <1>7 DEF Put
<1>9. \A t \in SectionsOf(d, u) : Fold[d[t].name] # Fold[name]
  BY <1>3, SectionNamedIs
<1>10. e[k + 1] = SectionLine(name) /\ e[k + 1].kind = "section" /\ e[k + 1].name = name
  <2>1. 1 \in 1..Len(b)
    BY <1>4, <1>5
  <2>2. e[k + 1] = SectionLine(name)
    BY <1>4, <1>8, <2>1
  <2>3. QED
    BY <2>2 DEF SectionLine
<1>11. ASSUME NEW j \in 1..Len(e), e[j].kind \in Stops \cup {"section"}, j # k + 1
       PROVE  Outside(k, b, j)
  <2>1. SUFFICES ASSUME ~Outside(k, b, j) PROVE FALSE
    OBVIOUS
  <2>2. j - k - 1 \in 1..Len(note) /\ j - k \in 1..Len(b) /\ k + (j - k) = j
        /\ (j - k - 1) + 1 = j - k
    BY <1>4, <1>5, <1>6, <1>11, <2>1 DEF Outside
  <2>3. e[k + (j - k)] = b[j - k] /\ b[(j - k - 1) + 1].kind = "text"
    BY <1>4, <1>8, <2>2
  <2>4. e[j].kind = "text"
    BY <2>2, <2>3
  <2>5. QED
    BY <1>11, <2>4 DEF Stops, Kinds
<1>12. u \in 1..Len(e) /\ e[u] = d[u] /\ u \in 1..k /\ k \in Nat
  BY <1>5, <1>6, <1>8
<1>13. Outside(k, b, u) /\ Was(k, 0, b, u) = u
  BY <1>12 DEF Outside, Was
\* What is under u in the result, and not created, was under it before.
<1>14. ASSUME NEW s \in SectionsOf(e, u), s # k + 1
       PROVE  /\ s \in Nat /\ Outside(k, b, s) /\ Was(k, 0, b, s) \in SectionsOf(d, u)
              /\ e[s] = d[Was(k, 0, b, s)]
  <2>1. s \in 1..Len(e) /\ Under(e, u, s) /\ e[s].kind = "section"
    BY <1>8, <1>12, SectionsAre
  <2>2. Outside(k, b, s)
    BY <1>11, <1>14, <2>1
  <2>3. Was(k, 0, b, s) \in 1..Len(d) /\ e[s] = d[Was(k, 0, b, s)]
    BY <1>7, <2>1, <2>2, WasIs
  <2>4. Under(d, u, Was(k, 0, b, s))
    BY <1>7, <1>12, <1>13, <2>1, <2>2, UnderWas
  <2>5. s \in Nat
    BY <2>1
  <2>6. QED
    BY <1>3, <2>1, <2>2, <2>3, <2>4, <2>5, SectionsAre
<1>15. ASSUME NEW h \in At(e, Kinds), k + 1 \in SectionsOf(e, h) PROVE h = u
  <2>1. h \in 1..Len(e) /\ e[h].kind \in Stops
    BY <1>8, SequenceIs DEF At, Stops
  <2>2. Under(e, h, k + 1)
    BY <1>8, <1>15, <2>1, SectionsAre
  <2>3. h < k + 1 /\ \A i \in (h + 1)..(k + 1) : e[i].kind \notin Stops
    BY <2>2 DEF Under
  <2>4. h \in 1..k
    BY <1>12, <2>1, <2>3
  <2>5. ~(h < u)
    <3>1. SUFFICES ASSUME h < u PROVE FALSE
      OBVIOUS
    <3>2. u \in (h + 1)..(k + 1)
      BY <1>12, <2>4, <3>1
    <3>3. e[u].kind \in Stops
      BY <1>12 DEF Stops, Kinds
    <3>4. QED
      BY <2>3, <3>2, <3>3
  <2>6. ~(u < h)
    <3>1. SUFFICES ASSUME u < h PROVE FALSE
      OBVIOUS
    <3>2. k # u /\ h \in (u + 1)..k
      BY <1>12, <2>4, <3>1
    <3>3. d[h].kind \notin Stops
      BY <1>6, <3>2 DEF Under
    <3>4. QED
      BY <1>8, <2>1, <2>4, <3>3
  <2>7. QED
    BY <1>12, <2>4, <2>5, <2>6
<1>16. InOrder(e)
  <2>1. SUFFICES ASSUME NEW h \in At(e, Kinds), NEW s \in SectionsOf(e, h),
                        NEW t \in SectionsOf(e, h), s < t
                 PROVE  Ranked(e, s, t)
    BY DEF InOrder, Ranked
  <2>2. h \in 1..Len(e) /\ e[h].kind \in Stops /\ h # k + 1
    <3>1. h \in 1..Len(e) /\ e[h].kind \in Kinds
      BY <1>8, SequenceIs DEF At
    <3>2. e[h].kind # "section"
      BY <3>1 DEF Kinds
    <3>3. QED
      BY <1>10, <3>1, <3>2 DEF Stops
  <2>3. s \in 1..Len(e) /\ e[s].kind = "section" /\ t \in 1..Len(e) /\ e[t].kind = "section"
    BY <1>8, <2>2, SectionsAre
  <2>4. CASE s # k + 1 /\ t # k + 1
    <3>1. Outside(k, b, h) /\ Outside(k, b, s) /\ Outside(k, b, t)
      BY <1>11, <2>2, <2>3, <2>4
    <3>2. QED
      BY <1>3, <1>7, <2>1, <3>1, KeptInOrder
  <2>5. CASE t = k + 1
    <3>1. h = u /\ s # k + 1
      BY <1>15, <2>1, <2>3, <2>5
    <3>2. Outside(k, b, s) /\ Was(k, 0, b, s) \in SectionsOf(d, u) /\ e[s] = d[Was(k, 0, b, s)]
      BY <1>14, <3>1
    <3>3. Was(k, 0, b, s) = s /\ s <= k
      BY <1>12, <2>1, <2>3, <2>5 DEF Was
    <3>4. ~(SectionRank(e[s].name) > SectionRank(name)) /\ Fold[e[s].name] # Fold[name]
      BY <1>6, <1>9, <3>2, <3>3
    <3>5. SectionRank(e[s].name) \in Nat /\ SectionRank(name) \in Nat
      BY RankIs
    <3>6. SectionRank(e[s].name) <= SectionRank(name)
      BY <3>4, <3>5
    <3>7. QED
      BY <1>10, <2>5, <3>4, <3>6 DEF Ranked
  <2>6. CASE s = k + 1
    <3>1. h = u /\ t # k + 1
      BY <1>15, <2>1, <2>3, <2>6
    <3>2. PICK q : q = Was(k, 0, b, t)
      OBVIOUS
    <3>3. Outside(k, b, t) /\ q \in SectionsOf(d, u) /\ e[t] = d[q]
      BY <1>14, <3>1, <3>2
    <3>4. q \in Nat /\ k < q
      <4>1. Len(b) \in Nat
        BY <1>4, <1>5
      <4>2. ~(t <= k) /\ t > k + Len(b)
        BY <1>12, <2>1, <2>3, <2>6, <3>3 DEF Outside
      <4>3. q = t - Len(b) + 0
        BY <3>2, <4>2 DEF Was
      <4>4. QED
        BY <1>12, <2>3, <4>1, <4>2, <4>3
    <3>5. ~(\A x \in SectionsOf(d, u) : x <= k)
      BY <1>12, <3>3, <3>4
    <3>6. k + 1 \in SectionsOf(d, u) /\ SectionRank(d[k + 1].name) > SectionRank(name)
      BY <1>6, <3>5
    <3>7. u \in At(d, Kinds)
      BY <1>3, SequenceIs DEF At, Kinds
    <3>8. k + 1 < q => SectionRank(d[k + 1].name) <= SectionRank(d[q].name)
      BY <1>3, <3>3, <3>6, <3>7 DEF InOrder
    <3>9. k + 1 = q \/ k + 1 < q
      BY <1>12, <3>4
    <3>10. /\ SectionRank(d[k + 1].name) \in Nat /\ SectionRank(name) \in Nat
           /\ SectionRank(d[q].name) \in Nat
      BY RankIs
    <3>11. SectionRank(name) <= SectionRank(d[q].name)
      BY <3>6, <3>8, <3>9, <3>10
    <3>12. Fold[name] # Fold[d[q].name]
      BY <1>9, <3>3
    <3>13. QED
      BY <1>10, <2>6, <3>3, <3>11, <3>12 DEF Ranked
  <2>7. QED
    BY <2>4, <2>5, <2>6
<1>17. u \in At(e, Kinds)
  BY <1>8, <1>12, SequenceIs DEF At, Kinds
<1>18. QED
  BY <1>8, <1>16, <1>17 DEF Well

\* An entry that is created has the one section.
LEMMA OpenUnreleasedIsWell ==
  ASSUME NEW d, Well(d), NEW name, NEW note, IsSequence(note),
         NEW e, e = OpenUnreleased(d, <<SectionLine(name)>> \o Item(note))
  PROVE  Well(e)
<1> DEFINE n == Len(note)
<1>1. PICK b : b = <<Heading("unreleased", NoVersion, NoDate, TRUE)>>
                     \o (<<SectionLine(name)>> \o Item(note))
  OBVIOUS
<1>2. PICK u : u = OpensAt(d)
  OBVIOUS
<1>3. PICK a : a = u - 1
  OBVIOUS
<1>4. /\ IsSequence(b) /\ Len(b) = n + 2 /\ b[1].kind = "unreleased" /\ b[2].kind = "section"
      /\ \A i \in 1..n : b[i + 2].kind = "text"
  <2>1. Opening(name, note, b)
    BY <1>1, OpeningIs
  <2>2. QED
    BY <2>1 DEF Opening, Heading, SectionLine
<1>5. IsSequence(d) /\ InOrder(d)
  BY DEF Well
<1>6. n \in Nat /\ Len(d) \in Nat
  BY <1>5, SequenceIs
<1>7. /\ u \in 1..(Len(d) + 1) /\ \A i \in 1..(u - 1) : d[i].kind \notin Kinds
      /\ At(d, Kinds) # {} => u \in 1..Len(d) /\ d[u].kind \in Kinds
  BY <1>2, <1>5, OpensAtIs
<1>8. Put(d, a, 0, b, e)
  <2>1. a \in 0..Len(d)
    BY <1>3, <1>6, <1>7
  <2>2. e = Splice(d, a, b)
    BY <1>1, <1>2, <1>3 DEF OpenUnreleased, OpensAt
  <2>3. Spliced(d, a, b, e)
    BY <1>4, <1>5, <2>1, <2>2, SpliceIs
  <2>4. QED
    BY <1>4, <1>5, <2>1, <2>3, SplicePuts
<1>9. /\ IsSequence(e) /\ Len(e) = Len(d) + n + 2
      /\ \A i \in 1..a : e[i] = d[i]
      /\ \A i \in 1..Len(b) : e[a + i] = b[i]
      /\ \A i \in (a + 0 + 1)..Len(d) : e[i - 0 + Len(b)] = d[i]
  <2>1. /\ IsSequence(e) /\ Len(e) = Len(d) - 0 + Len(b)
        /\ \A i \in 1..a : e[i] = d[i]
        /\ \A i \in 1..Len(b) : e[a + i] = b[i]
        /\ \A i \in (a + 0 + 1)..Len(d) : e[i - 0 + Len(b)] = d[i]
    BY <1>8 DEF Put
  <2>2. Len(d) - 0 + (n + 2) = Len(d) + n + 2
    BY <1>6
  <2>3. Len(e) = Len(d) + n + 2
    BY <1>4, <2>1, <2>2
  <2>4. QED
    BY <2>1, <2>3, Zenon
<1>10. u \in 1..Len(e) /\ e[u].kind = "unreleased" /\ a \in Nat /\ u = a + 1
  <2>1. u \in 1..Len(e) /\ a \in Nat /\ u = a + 1 /\ 1 \in 1..Len(b)
    BY <1>3, <1>4, <1>6, <1>7, <1>9
  <2>2. e[a + 1] = b[1]
    BY <1>9, <2>1
  <2>3. QED
    BY <1>4, <2>1, <2>2
<1>11. ASSUME NEW j \in 1..Len(e), ~Outside(a, b, j)
       PROVE  j = u \/ j = u + 1 \/ e[j].kind = "text"
  <2>1. SUFFICES ASSUME j # u, j # u + 1 PROVE e[j].kind = "text"
    OBVIOUS
  <2>2. /\ j - a - 2 \in 1..n /\ j - a \in 1..Len(b) /\ a + (j - a) = j
        /\ (j - a - 2) + 2 = j - a
    BY <1>4, <1>6, <1>10, <1>11, <2>1 DEF Outside
  <2>3. e[a + (j - a)] = b[j - a] /\ b[(j - a - 2) + 2].kind = "text"
    BY <1>4, <1>9, <2>2
  <2>4. QED
    BY <2>2, <2>3
<1>12. e[u + 1].kind = "section"
  <2>1. 2 \in 1..Len(b) /\ a + 2 = u + 1
    BY <1>4, <1>6, <1>10
  <2>2. e[a + 2] = b[2]
    BY <1>9, <2>1
  <2>3. QED
    BY <1>4, <2>1, <2>2
<1>13. ASSUME NEW s \in SectionsOf(e, u) PROVE s = u + 1
  <2>1. s \in 1..Len(e) /\ Under(e, u, s) /\ e[s].kind = "section"
    BY <1>9, <1>10, SectionsAre
  <2>2. u < s /\ \A i \in (u + 1)..s : e[i].kind \notin Stops
    BY <2>1 DEF Under
  <2>3. CASE ~Outside(a, b, s)
    BY <1>10, <1>11, <2>1, <2>2, <2>3
  <2>4. CASE Outside(a, b, s)
    <3>1. s > a + Len(b) /\ ~(s <= a)
      BY <1>10, <2>1, <2>2, <2>4 DEF Outside
    <3>2. PICK p : p = Was(a, 0, b, s)
      OBVIOUS
    <3>3. p \in 1..Len(d) /\ e[s] = d[p]
      BY <1>8, <2>1, <2>4, <3>2, WasIs
    <3>4. p \in At(d, {"section"})
      BY <1>5, <2>1, <3>3, SequenceIs DEF At
    <3>5. At(d, Kinds) # {}
      BY <3>4 DEF Well
    <3>6. u \in 1..Len(d) /\ d[u].kind \in Stops
      BY <1>7, <3>5 DEF Stops
    <3>7. u \in (a + 0 + 1)..Len(d) /\ u - 0 + Len(b) = u + Len(b)
      BY <1>4, <1>6, <1>10, <3>6
    <3>8. e[u + Len(b)] = d[u]
      <4>1. e[u - 0 + Len(b)] = d[u]
        BY <1>9, <3>7
      <4>2. QED
        BY <3>7, <4>1
    <3>9. u + Len(b) \in (u + 1)..s
      BY <1>4, <1>6, <1>10, <2>1, <3>1
    <3>10. QED
      BY <2>2, <3>6, <3>8, <3>9
  <2>5. QED
    BY <2>3, <2>4
<1>14. InOrder(e)
  <2>1. SUFFICES ASSUME NEW h \in At(e, Kinds), NEW s \in SectionsOf(e, h),
                        NEW t \in SectionsOf(e, h), s < t
                 PROVE  Ranked(e, s, t)
    BY DEF InOrder, Ranked
  <2>2. h \in 1..Len(e) /\ e[h].kind \in Kinds
    BY <1>9, SequenceIs DEF At
  <2>3. /\ s \in 1..Len(e) /\ Under(e, h, s) /\ t \in 1..Len(e) /\ Under(e, h, t)
    BY <1>9, <2>2, SectionsAre
  <2>4. h # u
    <3>1. SUFFICES ASSUME h = u PROVE FALSE
      OBVIOUS
    <3>2. s = u + 1 /\ t = u + 1
      BY <1>13, <3>1
    <3>3. QED
      BY <1>10, <2>1, <3>2
  <2>5. Outside(a, b, h)
    <3>1. h # u + 1
      BY <1>12, <2>2 DEF Kinds
    <3>2. e[h].kind # "text"
      BY <2>2 DEF Kinds
    <3>3. QED
      BY <1>11, <2>2, <2>4, <3>1, <3>2
  <2>6. ~(h <= a)
    <3>1. SUFFICES ASSUME h <= a PROVE FALSE
      OBVIOUS
    <3>2. h \in 1..a /\ h \in 1..(u - 1)
      BY <1>10, <2>2, <3>1
    <3>3. QED
      BY <1>7, <1>9, <2>2, <3>2
  <2>7. h > a + Len(b) /\ h < s /\ h < t
    BY <2>3, <2>5, <2>6 DEF Outside, Under
  <2>8. Outside(a, b, s) /\ Outside(a, b, t)
    <3>1. Len(b) \in Nat
      BY <1>4, <1>6
    <3>2. QED
      BY <1>10, <2>2, <2>3, <2>7, <3>1 DEF Outside
  <2>9. QED
    BY <1>5, <1>8, <2>1, <2>5, <2>8, KeptInOrder
<1>15. u \in At(e, Kinds)
  BY <1>9, <1>10, SequenceIs DEF At, Kinds
<1>16. QED
  BY <1>9, <1>14, <1>15 DEF Well

\* A release opens an entry of no sections, and keeps those it had.
LEMMA RenamedIsWell ==
  ASSUME NEW d, Well(d), NEW u, NEW b, NEW e, Renamed(d, u, b, e)
  PROVE  Well(e)
<1>1. /\ IsSequence(d) /\ IsSequence(b) /\ u \in 1..Len(d) /\ Replaced(d, u, b, e)
      /\ Len(b) = 2 /\ b[1].kind = "unreleased" /\ b[2].kind = "version"
      /\ d[u].kind = "unreleased" \/ (u + 1 \in 1..Len(d) /\ d[u + 1].kind = "unreleased")
  BY DEF Renamed
<1>2. PICK a : a = u - 1
  OBVIOUS
<1>3. Put(d, a, 1, b, e)
  BY <1>1, <1>2, ReplacePuts
<1>4. Len(d) \in Nat /\ a \in Nat /\ a + 1 = u /\ a + Len(b) = u + 1 /\ u \in Nat
  BY <1>1, <1>2, SequenceIs
<1>5. /\ IsSequence(e) /\ Len(e) = Len(d) + 1 /\ e[u] = b[1] /\ e[u + 1] = b[2]
      /\ \A i \in (u + 1)..Len(d) : e[i + 1] = d[i]
  <2>1. /\ IsSequence(e) /\ Len(e) = Len(d) + Len(b) - 1
        /\ \A i \in 1..Len(b) : e[u - 1 + i] = b[i]
        /\ \A i \in (u + 1)..Len(d) : e[i - 1 + Len(b)] = d[i]
    BY <1>1 DEF Replaced
  <2>2. 1 \in 1..Len(b) /\ 2 \in 1..Len(b) /\ u - 1 + 1 = u /\ u - 1 + 2 = u + 1
    BY <1>1, <1>4
  <2>3. e[u - 1 + 1] = b[1] /\ e[u - 1 + 2] = b[2]
    BY <2>1, <2>2
  <2>4. \A i \in (u + 1)..Len(d) : i - 1 + Len(b) = i + 1
    BY <1>1, <1>4
  <2>5. Len(e) = Len(d) + 1
    BY <1>1, <1>4, <2>1
  <2>6. QED
    BY <2>1, <2>2, <2>3, <2>4, <2>5
<1>6. u \in 1..Len(e) /\ u + 1 \in 1..Len(e) /\ e[u].kind = "unreleased" /\ e[u + 1].kind = "version"
  BY <1>1, <1>4, <1>5
<1>7. \A j \in 1..Len(e) : Outside(a, b, j) <=> j # u /\ j # u + 1
  BY <1>4 DEF Outside
<1>8. InOrder(d)
  BY DEF Well
<1>9. InOrder(e)
  <2>1. SUFFICES ASSUME NEW h \in At(e, Kinds), NEW s \in SectionsOf(e, h),
                        NEW t \in SectionsOf(e, h), s < t
                 PROVE  Ranked(e, s, t)
    BY DEF InOrder, Ranked
  <2>2. h \in 1..Len(e) /\ e[h].kind \in Kinds
    BY <1>5, SequenceIs DEF At
  <2>3. /\ s \in 1..Len(e) /\ Under(e, h, s) /\ e[s].kind = "section"
        /\ t \in 1..Len(e) /\ Under(e, h, t) /\ e[t].kind = "section"
    BY <1>5, <2>2, SectionsAre
  <2>4. /\ h < s /\ \A i \in (h + 1)..s : e[i].kind \notin Stops
        /\ h < t /\ \A i \in (h + 1)..t : e[i].kind \notin Stops
    BY <2>3 DEF Under
  <2>5. Outside(a, b, s) /\ Outside(a, b, t)
    BY <1>6, <1>7, <2>3
  <2>6. CASE Outside(a, b, h)
    <3>1. b[1].kind \in Stops /\ 1 \in 1..Len(b)
      BY <1>1 DEF Stops, Kinds
    <3>2. QED
      BY <1>3, <1>8, <2>1, <2>5, <2>6, <3>1, KeptInOrder
  <2>7. CASE h = u
    <3>1. u + 1 \in (h + 1)..s
      BY <1>4, <2>3, <2>4, <2>7
    <3>2. e[u + 1].kind \in Stops
      BY <1>6 DEF Stops, Kinds
    <3>3. QED
      BY <2>4, <3>1, <3>2
  <2>8. CASE h = u + 1
    <3>1. s > u + 1 /\ t > u + 1 /\ s - 1 \in (u + 1)..Len(d) /\ t - 1 \in (u + 1)..Len(d)
          /\ (s - 1) + 1 = s /\ (t - 1) + 1 = t
      BY <1>4, <1>5, <2>3, <2>4, <2>8
    <3>2. CASE d[u].kind = "unreleased"
      <4>1. e[(s - 1) + 1] = d[s - 1] /\ e[(t - 1) + 1] = d[t - 1]
        BY <1>5, <3>1
      <4>2. e[s] = d[s - 1] /\ e[t] = d[t - 1]
        BY <3>1, <4>1
      <4>3. ASSUME NEW x \in 1..Len(e), x > u + 1, \A i \in (h + 1)..x : e[i].kind \notin Stops
            PROVE  Under(d, u, x - 1)
        <5>1. x - 1 <= Len(d) /\ u < x - 1
          BY <1>4, <1>5, <4>3
        <5>2. ASSUME NEW i \in (u + 1)..(x - 1) PROVE d[i].kind \notin Stops
          <6>1. i \in (u + 1)..Len(d) /\ i + 1 \in (h + 1)..x
            BY <1>4, <2>8, <5>1
          <6>2. e[i + 1] = d[i]
            BY <1>5, <6>1
          <6>3. QED
            BY <4>3, <6>1, <6>2
        <5>3. QED
          BY <5>1, <5>2 DEF Under
      <4>4. Under(d, u, s - 1) /\ Under(d, u, t - 1)
        BY <2>3, <2>4, <3>1, <4>3
      <4>5. s - 1 \in 1..Len(d) /\ t - 1 \in 1..Len(d)
        BY <1>4, <3>1
      <4>6. d[s - 1].kind = "section" /\ d[t - 1].kind = "section"
        BY <2>3, <4>2
      <4>7. s - 1 \in SectionsOf(d, u) /\ t - 1 \in SectionsOf(d, u)
        BY <1>1, <4>4, <4>5, <4>6, SectionsAre
      <4>8. u \in At(d, Kinds)
        BY <1>1, <3>2, SequenceIs DEF At, Kinds
      <4>9. s - 1 < t - 1
        BY <2>1, <2>3
      <4>10. QED
        BY <1>8, <4>2, <4>7, <4>8, <4>9 DEF InOrder, Ranked
    <3>3. CASE u + 1 \in 1..Len(d) /\ d[u + 1].kind = "unreleased"
      <4>1. u + 1 \in (u + 1)..Len(d) /\ u + 2 \in (h + 1)..s /\ (u + 1) + 1 = u + 2
        BY <1>4, <2>3, <2>8, <3>1, <3>3
      <4>2. e[(u + 1) + 1] = d[u + 1]
        BY <1>5, <4>1
      <4>3. e[u + 2].kind \in Stops
        BY <3>3, <4>1, <4>2 DEF Stops, Kinds
      <4>4. QED
        BY <2>4, <4>1, <4>3
    <3>4. QED
      BY <1>1, <3>2, <3>3
  <2>9. QED
    BY <1>7, <2>2, <2>6, <2>7, <2>8
<1>10. u \in At(e, Kinds)
  BY <1>5, <1>6, SequenceIs DEF At, Kinds
<1>11. QED
  BY <1>5, <1>9, <1>10 DEF Well

\* An edit of a document whose sections are in order leaves them in order.
LEMMA EditedIsWell ==
  ASSUME NEW c \in Commands, NEW req \in Requests[c], NEW day, NEW d, Well(d),
         NEW e \in Edited(req, day, d)
  PROVE  Well(e)
<1>1. IsSequence(d)
  BY DEF Well
<1>2. CASE req.op = "append"
  <2>1. PICK name, note : name = req.section /\ note = req.note
    OBVIOUS
  <2>2. IsSequence(note)
    BY <1>2, <2>1, EditorAssumption DEF IsSequence
  <2>3. e \in AppendNote(d, name, note)
    BY <1>2, <2>1 DEF Edited
  <2> DEFINE u == Unreleased(d)
             s == SectionNamed(d, u, name)
             block == <<SectionLine(name)>> \o Item(note)
  <2>4. e = IF u = 0 THEN OpenUnreleased(d, block)
            ELSE IF s # 0 THEN AddItem(d, s, SectionEnd(d, u, s), Item(note))
            ELSE AddSection(d, u, name, block)
    BY <2>3 DEF AppendNote
  <2>5. CASE u = 0
    BY <2>2, <2>4, <2>5, OpenUnreleasedIsWell
  <2>6. CASE u # 0
    <3>1. u \in 1..Len(d) /\ d[u].kind = "unreleased"
      BY <1>1, <2>6, UnreleasedIs
    <3>2. CASE s = 0
      BY <2>2, <2>4, <2>6, <3>1, <3>2, AddSectionIsWell
    <3>3. CASE s # 0
      <4>1. PICK l : l = SectionEnd(d, u, s)
        OBVIOUS
      <4>2. e = d \/ e = Splice(d, l, Item(note))
        BY <2>4, <2>6, <3>3, <4>1 DEF AddItem
      <4>3. CASE e = d
        BY <4>3
      <4>4. CASE e = Splice(d, l, Item(note))
        <5>1. s \in SectionsOf(d, u)
          BY <1>1, <3>1, <3>3, SectionNamedIs
        <5>2. Ends(d, s, l) /\ s \in 1..Len(d)
          BY <1>1, <3>1, <4>1, <5>1, SectionEndIs, SectionsAre
        <5>3. l \in 0..Len(d)
          BY <1>1, <5>2, SequenceIs DEF Ends
        <5>4. PICK b : b = Item(note)
          OBVIOUS
        <5>5. IsSequence(b) /\ \A i \in 1..Len(b) : b[i].kind = "text"
          BY <2>2, <5>4, ItemIs
        <5>6. Spliced(d, l, b, e)
          BY <1>1, <4>4, <5>3, <5>4, <5>5, SpliceIs
        <5>7. Put(d, l, 0, b, e)
          BY <1>1, <5>3, <5>5, <5>6, SplicePuts
        <5>8. \A i \in 1..Len(b) : b[i].kind \notin Stops \cup {"section"}
          BY <5>5 DEF Stops, Kinds
        <5>9. QED
          BY <5>7, <5>8, QuietIsWell
      <4>5. QED
        BY <4>2, <4>3, <4>4
    <3>4. QED
      BY <3>2, <3>3
  <2>7. QED
    BY <2>5, <2>6
<1>3. CASE req.op # "append"
  <2>1. PICK v : e \in Release(d, v, day)
    BY <1>3 DEF Edited
  <2>2. PICK r, x, linked, u, b : Relinked(d, r, x, linked) /\ Renamed(linked, u, b, e)
    BY <1>1, <2>1, ReleaseIs
  <2>3. Well(linked)
    <3>1. CASE linked = d
      BY <3>1
    <3>2. CASE /\ r \in 1..Len(d) /\ d[r].kind = "ref" /\ Replaced(d, r, x, linked)
               /\ IsSequence(x) /\ Len(x) = 2 /\ x[1].kind = "ref" /\ x[2].kind = "ref"
      <4>1. PICK a : a = r - 1
        OBVIOUS
      <4>2. Put(d, a, 1, x, linked)
        BY <1>1, <3>2, <4>1, ReplacePuts
      <4>3. a + 1 = r
        BY <1>1, <3>2, <4>1, SequenceIs
      <4>4. d[a + 1].kind \notin Stops
        BY <3>2, <4>3 DEF Stops, Kinds
      <4>5. \A i \in 1..Len(x) : x[i].kind \notin Stops \cup {"section"}
        <5>1. \A i \in 1..Len(x) : i = 1 \/ i = 2
          BY <3>2
        <5>2. QED
          BY <3>2, <5>1 DEF Stops, Kinds
      <4>6. QED
        BY <4>2, <4>4, <4>5, QuietIsWell
    <3>3. QED
      BY <2>2, <3>1, <3>2 DEF Relinked
  <2>4. QED
    BY <2>2, <2>3, RenamedIsWell
<1>4. QED
  BY <1>2, <1>3

\* A file that is whole is in order, and so is what a command read and what it is about
\* to write.
OrderInv ==
  /\ ~torn => Well(file)
  /\ \A c \in Commands : /\ jobs[c].phase = "read" => Well(jobs[c].src)
                         /\ jobs[c].phase = "opened" => Well(jobs[c].out)

LEMMA OrderStep ==
  ASSUME LinesInv, OrderInv, [Next]_vars
  PROVE  OrderInv'
<1>1. IsSequence(file) /\ DOMAIN jobs = Commands /\ \A c \in Commands : Works(c)
  BY DEF LinesInv
<1>2. \A c \in Commands : IsJob(jobs[c])
  BY <1>1 DEF Works
<1>3. ASSUME NEW c \in Commands, jobs' = [jobs EXCEPT ![c] = Idle], UNCHANGED <<file, torn>>
      PROVE  OrderInv'
  <2>1. jobs'[c].phase = "idle" /\ \A x \in Commands : x # c => jobs'[x] = jobs[x]
    BY <1>1, <1>3 DEF Idle
  <2>2. QED
    BY <1>3, <2>1 DEF OrderInv
<1>4. CASE UNCHANGED vars
  BY <1>4 DEF OrderInv, vars
<1>5. CASE Tick
  BY <1>5 DEF OrderInv, Tick
<1>6. ASSUME NEW c \in Commands, Read(c) PROVE OrderInv'
  <2>1. ~torn /\ torn' = torn /\ file' = file
    BY <1>6 DEF Read
  <2>2. jobs'[c].src = file /\ jobs'[c].phase = "read"
        /\ \A x \in Commands : x # c => jobs'[x] = jobs[x]
    BY <1>1, <1>6 DEF Read
  <2>3. Well(file)
    BY <2>1 DEF OrderInv
  <2>4. QED
    BY <2>1, <2>2, <2>3 DEF OrderInv
<1>7. ASSUME NEW c \in Commands, Refuse(c) PROVE OrderInv'
  BY <1>3, <1>7 DEF Refuse
<1>8. ASSUME NEW c \in Commands, Open(c) PROVE OrderInv'
  <2>1. PICK j : j = jobs[c]
    OBVIOUS
  <2>2. PICK out \in Edited(j.req, j.day, j.src) :
          jobs' = [jobs EXCEPT ![c].phase = "opened", ![c].out = out]
    BY <1>8, <2>1 DEF Open
  <2>3. j.phase = "read" /\ file' = <<>> /\ torn' = torn
    BY <1>8, <2>1 DEF Open
  <2>4. j.req \in Requests[c] /\ Well(j.src)
    BY <1>1, <2>1, <2>3 DEF Works, OrderInv
  <2>5. Well(out)
    BY <2>2, <2>4, EditedIsWell
  <2>6. PICK new : new = [phase |-> "opened", req |-> j.req, day |-> j.day, src |-> j.src,
                          out |-> out, said |-> j.said]
    OBVIOUS
  <2>7. jobs' = [jobs EXCEPT ![c] = new]
    <3>1. jobs' = [jobs EXCEPT ![c] = [jobs[c] EXCEPT !.phase = "opened", !.out = out]]
      BY <2>2
    <3>2. [j EXCEPT !.phase = "opened", !.out = out] = new
      BY <1>2, <2>1, <2>6, JobSteps
    <3>3. QED
      BY <2>1, <3>1, <3>2
  <2>8. new.phase = "opened" /\ new.out = out
    BY <2>6
  <2>9. jobs'[c] = new /\ \A x \in Commands : x # c => jobs'[x] = jobs[x]
    BY <1>1, <2>7
  <2>10. Well(<<>>)
    <3>1. IsSequence(<<>>)
      <4>1. <<>> \in Seq({})
        OBVIOUS
      <4>2. QED
        BY <4>1 DEF IsSequence
    <3>2. \A kinds : At(<<>>, kinds) = {}
      BY DEF At
    <3>3. QED
      BY <3>1, <3>2 DEF Well, InOrder
  <2>11. QED
    BY <2>3, <2>5, <2>8, <2>9, <2>10 DEF OrderInv
<1>9. ASSUME NEW c \in Commands, Write(c) PROVE OrderInv'
  <2>1. PICK out : out = jobs[c].out
    OBVIOUS
  <2>2. /\ jobs[c].phase = "opened" /\ file' = out \o SubSeq(file, Len(out) + 1, Len(file))
        /\ torn' = (torn \/ Len(file) > Len(out))
        /\ jobs' = [jobs EXCEPT ![c].phase = "written"]
    BY <1>9, <2>1 DEF Write
  <2>3. Well(out) /\ IsSequence(out)
    BY <1>1, <2>1, <2>2 DEF OrderInv, Works
  <2>4. ASSUME ~torn' PROVE file' = out
    <3>1. ~(Len(file) > Len(out))
      BY <2>2, <2>4
    <3>2. PICK S : file \in Seq(S) /\ out \in Seq(S)
      BY <1>1, <2>3, SequencesShare
    <3>3. PICK q : q = SubSeq(file, Len(out) + 1, Len(file))
      OBVIOUS
    <3>4. q = <<>>
      BY <3>1, <3>2, <3>3
    <3>5. out \o <<>> = out
      BY <3>2
    <3>6. QED
      BY <2>2, <3>3, <3>4, <3>5
  <2>5. PICK j : j = jobs[c]
    OBVIOUS
  <2>6. PICK new : new = [phase |-> "written", req |-> j.req, day |-> j.day, src |-> j.src,
                          out |-> j.out, said |-> j.said]
    OBVIOUS
  <2>7. jobs' = [jobs EXCEPT ![c] = new]
    <3>1. jobs' = [jobs EXCEPT ![c] = [jobs[c] EXCEPT !.phase = "written"]]
      BY <2>2
    <3>2. [j EXCEPT !.phase = "written"] = new
      BY <1>2, <2>5, <2>6, JobSteps
    <3>3. QED
      BY <2>5, <3>1, <3>2
  <2>8. jobs'[c].phase = "written" /\ \A x \in Commands : x # c => jobs'[x] = jobs[x]
    BY <1>1, <2>6, <2>7
  <2>9. QED
    BY <2>3, <2>4, <2>8 DEF OrderInv
<1>10. ASSUME NEW c \in Commands, Return(c) PROVE OrderInv'
  <2>1. PICK j : j = jobs[c]
    OBVIOUS
  <2>2. PICK new : new = [phase |-> "returned", req |-> j.req, day |-> j.day, src |-> j.src,
                          out |-> j.out, said |-> Report(c)]
    OBVIOUS
  <2>3. jobs' = [jobs EXCEPT ![c] = new]
    <3>1. jobs' = [jobs EXCEPT ![c] = [jobs[c] EXCEPT !.phase = "returned", !.said = Report(c)]]
      BY <1>10 DEF Return
    <3>2. [j EXCEPT !.phase = "returned", !.said = Report(c)] = new
      BY <1>2, <2>1, <2>2, JobSteps
    <3>3. QED
      BY <2>1, <3>1, <3>2
  <2>4. jobs'[c].phase = "returned" /\ \A x \in Commands : x # c => jobs'[x] = jobs[x]
    BY <1>1, <2>2, <2>3
  <2>5. file' = file /\ torn' = torn
    BY <1>10 DEF Return
  <2>6. QED
    BY <2>4, <2>5 DEF OrderInv
<1>11. ASSUME NEW c \in Commands, End(c) PROVE OrderInv'
  BY <1>3, <1>11 DEF End
<1>12. QED
  BY <1>4, <1>5, <1>6, <1>7, <1>8, <1>9, <1>10, <1>11 DEF Next

\* README.md:377-378: the writers keep the sections of every entry in the order of Keep a
\* Changelog, and no two of one name, in files that were so at first and had no section
\* without an entry, however many commands overlap, short of one that tears the file.
THEOREM SectionsStayInOrder ==
  ASSUME \A d \in StartDocs : InOrder(d) /\ (At(d, Kinds) = {} => At(d, {"section"}) = {})
  PROVE  Spec => []SectionsInOrder
<1>1. Init => OrderInv
  <2>1. SUFFICES ASSUME Init PROVE OrderInv
    OBVIOUS
  <2>2. Well(file)
    BY <2>1, EditorAssumption DEF Init, Well, IsSequence
  <2>3. \A c \in Commands : jobs[c].phase = "idle"
    BY <2>1 DEF Init, Idle
  <2>4. QED
    BY <2>2, <2>3 DEF OrderInv
<1>2. OrderInv => SectionsInOrder
  BY DEF OrderInv, SectionsInOrder, Well
<1>3. LinesInv /\ OrderInv /\ [Next]_vars => OrderInv'
  BY OrderStep
<1>4. QED
  BY <1>1, <1>2, <1>3, LinesInit, LinesStep, PTL DEF Spec

-----------------------------------------------------------------------------
(* The ledger a document is                                                *)

\* The section that the text at k of the entry at h is in.
SectionOver(d, h, k) ==
  LET above == {s \in SectionsOf(d, h) : s < k}
  IN  IF above = {} THEN "" ELSE Fold[d[Greatest(above)].name]

LEMMA LinesAre ==
  ASSUME NEW d, IsSequence(d), NEW h \in 1..Len(d), NEW x
  PROVE  x \in LinesUnder(d, h) <=>
           \E k \in 1..Len(d) : Under(d, h, k) /\ d[k].kind = "text"
                                /\ x = <<SectionOver(d, h, k), d[k].text>>
<1>1. Len(d) \in Nat /\ Stop(d, h) \in (h + 1)..(Len(d) + 1)
  BY SequenceIs, StopIs
<1>2. \A k : k \in (h + 1)..(Stop(d, h) - 1) <=> k \in 1..Len(d) /\ Under(d, h, k)
  <2>1. TAKE k
  <2>2. ASSUME k \in (h + 1)..(Stop(d, h) - 1) PROVE k \in 1..Len(d) /\ k \in Nat
    BY <1>1, <2>2
  <2>3. ASSUME k \in 1..Len(d) PROVE k \in Nat
    BY <1>1, <2>3
  <2>4. QED
    BY <2>2, <2>3, StopIs
<1>3. LinesUnder(d, h) = {<<SectionOver(d, h, k), d[k].text>> :
                            k \in {k \in (h + 1)..(Stop(d, h) - 1) : d[k].kind = "text"}}
  BY DEF LinesUnder, SectionOver
<1>4. x \in LinesUnder(d, h) <=>
        \E k \in (h + 1)..(Stop(d, h) - 1) : d[k].kind = "text"
                                             /\ x = <<SectionOver(d, h, k), d[k].text>>
  BY <1>3
<1>5. QED
  BY <1>2, <1>4

\* Line s heads line k in the entry at h: the last section above it, or the entry's own
\* heading.
Covers(d, h, s, k) ==
  /\ s \in h..(k - 1) /\ (s = h \/ d[s].kind = "section")
  /\ \A i \in (s + 1)..(k - 1) : d[i].kind # "section"

NameAt(d, h, s) == IF s = h THEN "" ELSE Fold[d[s].name]

LEMMA OverIs ==
  ASSUME NEW d, IsSequence(d), NEW h \in 1..Len(d), NEW k \in 1..Len(d), Under(d, h, k)
  PROVE  \E s \in h..(k - 1) : Covers(d, h, s, k) /\ SectionOver(d, h, k) = NameAt(d, h, s)
<1> DEFINE above == {s \in SectionsOf(d, h) : s < k}
<1>1. Len(d) \in Nat /\ h < k /\ \A i \in (h + 1)..k : d[i].kind \notin Stops
  BY SequenceIs DEF Under
<1>2. \A s : s \in above <=> s \in (h + 1)..(k - 1) /\ d[s].kind = "section"
  <2>1. TAKE s
  <2>2. ASSUME s \in above PROVE s \in (h + 1)..(k - 1) /\ d[s].kind = "section"
    <3>1. s \in 1..Len(d) /\ Under(d, h, s) /\ d[s].kind = "section" /\ s < k
      BY <2>2, SectionsAre
    <3>2. h < s
      BY <3>1 DEF Under
    <3>3. QED
      BY <1>1, <3>1, <3>2
  <2>3. ASSUME s \in (h + 1)..(k - 1), d[s].kind = "section" PROVE s \in above
    <3>1. s \in 1..Len(d) /\ s < k /\ h < s /\ s <= Len(d) /\ \A i \in (h + 1)..s : i \in (h + 1)..k
      BY <1>1, <2>3
    <3>2. Under(d, h, s)
      BY <1>1, <3>1 DEF Under
    <3>3. QED
      BY <2>3, <3>1, <3>2, SectionsAre
  <2>4. QED
    BY <2>2, <2>3
<1>3. SectionOver(d, h, k) = IF above = {} THEN "" ELSE Fold[d[Greatest(above)].name]
  BY DEF SectionOver
<1> HIDE DEF above
<1>4. CASE above = {}
  <2>1. h \in h..(k - 1)
    BY <1>1
  <2>2. Covers(d, h, h, k)
    BY <1>2, <1>4, <2>1 DEF Covers
  <2>3. SectionOver(d, h, k) = NameAt(d, h, h)
    BY <1>3, <1>4 DEF NameAt
  <2>4. QED
    BY <2>1, <2>2, <2>3
<1>5. CASE above # {}
  <2>1. PICK s : s = Greatest(above)
    OBVIOUS
  <2>2. above \in SUBSET (1..Len(d))
    <3>1. \A i \in (h + 1)..(k - 1) : i \in 1..Len(d)
      BY <1>1
    <3>2. QED
      BY <1>2, <3>1
  <2>3. s \in above /\ \A i \in above : i <= s
    BY <1>1, <1>5, <2>1, <2>2, GreatestPosition
  <2>4. s \in (h + 1)..(k - 1) /\ d[s].kind = "section"
    BY <1>2, <2>3
  <2>5. s \in h..(k - 1) /\ s # h
    BY <1>1, <2>4
  <2>6. \A i \in (s + 1)..(k - 1) : d[i].kind # "section"
    <3>1. TAKE i \in (s + 1)..(k - 1)
    <3>2. i \in (h + 1)..(k - 1) /\ ~(i <= s)
      BY <1>1, <2>4
    <3>3. QED
      BY <1>2, <2>3, <3>2
  <2>7. Covers(d, h, s, k)
    BY <2>4, <2>5, <2>6 DEF Covers
  <2>8. SectionOver(d, h, k) = NameAt(d, h, s)
    BY <1>3, <1>5, <2>1, <2>5 DEF NameAt
  <2>9. QED
    BY <2>5, <2>7, <2>8
<1>6. QED
  BY <1>4, <1>5

\* There is only one such line.
LEMMA CoversOnce ==
  ASSUME NEW d, IsSequence(d), NEW h \in 1..Len(d), NEW k \in 1..Len(d), Under(d, h, k),
         NEW s, Covers(d, h, s, k)
  PROVE  SectionOver(d, h, k) = NameAt(d, h, s)
<1>1. PICK t \in h..(k - 1) : Covers(d, h, t, k) /\ SectionOver(d, h, k) = NameAt(d, h, t)
  BY OverIs
<1>2. /\ s \in h..(k - 1) /\ (s = h \/ d[s].kind = "section")
      /\ \A i \in (s + 1)..(k - 1) : d[i].kind # "section"
  BY DEF Covers
<1>3. /\ t = h \/ d[t].kind = "section"
      /\ \A i \in (t + 1)..(k - 1) : d[i].kind # "section"
  BY <1>1 DEF Covers
<1>4. Len(d) \in Nat
  BY SequenceIs
<1>5. ~(s < t)
  <2>1. SUFFICES ASSUME s < t PROVE FALSE
    OBVIOUS
  <2>2. t # h /\ t \in (s + 1)..(k - 1)
    BY <1>1, <1>2, <1>4, <2>1
  <2>3. QED
    BY <1>2, <1>3, <2>2
<1>6. ~(t < s)
  <2>1. SUFFICES ASSUME t < s PROVE FALSE
    OBVIOUS
  <2>2. s # h /\ s \in (t + 1)..(k - 1)
    BY <1>1, <1>2, <1>4, <2>1
  <2>3. QED
    BY <1>2, <1>3, <2>2
<1>7. s = t
  BY <1>1, <1>2, <1>4, <1>5, <1>6
<1>8. QED
  BY <1>1, <1>7

\* Line k of the entry at h is text, and the section it is in begins at s, or it is in
\* none where s = h.
Reads(d, h, s, k) ==
  /\ s \in h..(k - 1) /\ k <= Len(d) /\ d[k].kind = "text"
  /\ s = h \/ d[s].kind = "section"
  /\ \A i \in (h + 1)..k : d[i].kind \notin Stops
  /\ \A i \in (s + 1)..(k - 1) : d[i].kind # "section"

LEMMA LinesRead ==
  ASSUME NEW d, IsSequence(d), NEW h \in 1..Len(d), NEW x
  PROVE  x \in LinesUnder(d, h) <=>
           \E s, k \in 1..Len(d) : Reads(d, h, s, k) /\ x = <<NameAt(d, h, s), d[k].text>>
<1>1. Len(d) \in Nat
  BY SequenceIs
<1>2. ASSUME x \in LinesUnder(d, h)
      PROVE  \E s, k \in 1..Len(d) : Reads(d, h, s, k) /\ x = <<NameAt(d, h, s), d[k].text>>
  <2>1. PICK k \in 1..Len(d) : /\ Under(d, h, k) /\ d[k].kind = "text"
                               /\ x = <<SectionOver(d, h, k), d[k].text>>
    BY <1>2, LinesAre
  <2>2. PICK s \in h..(k - 1) : Covers(d, h, s, k) /\ SectionOver(d, h, k) = NameAt(d, h, s)
    BY <2>1, OverIs
  <2>3. Reads(d, h, s, k)
    BY <2>1, <2>2 DEF Reads, Covers, Under
  <2>4. s \in 1..Len(d)
    BY <1>1, <2>1, <2>2
  <2>5. QED
    BY <2>1, <2>2, <2>3, <2>4
<1>3. ASSUME NEW s \in 1..Len(d), NEW k \in 1..Len(d), Reads(d, h, s, k),
             x = <<NameAt(d, h, s), d[k].text>>
      PROVE  x \in LinesUnder(d, h)
  <2>1. Covers(d, h, s, k) /\ d[k].kind = "text"
    BY <1>3 DEF Reads, Covers
  <2>2. h < k /\ k <= Len(d) /\ \A i \in (h + 1)..k : d[i].kind \notin Stops
    BY <1>1, <1>3 DEF Reads
  <2>3. Under(d, h, k)
    BY <2>2 DEF Under
  <2>4. SectionOver(d, h, k) = NameAt(d, h, s)
    BY <2>1, <2>3, CoversOnce
  <2>5. QED
    BY <1>3, <2>1, <2>3, <2>4, LinesAre
<1>4. QED
  BY <1>2, <1>3

\* Line k of d reads as line l of e: under a section of the same name.
Alike(d, h, s, k, e, g, t, l) ==
  Reads(e, g, t, l) /\ NameAt(e, g, t) = NameAt(d, h, s) /\ e[l] = d[k]

\* An entry that stands elsewhere reads as it did.
LEMMA ReadsMove ==
  ASSUME NEW d, NEW e, NEW x \in Int, NEW h \in Int, NEW s \in Int, NEW k \in Int,
         IsSequence(e), Reads(d, h, s, k), k + x <= Len(e),
         \A i \in (h + 1)..k : e[i + x] = d[i]
  PROVE  Alike(d, h, s, k, e, h + x, s + x, k + x)
<1>1. /\ h <= s /\ s < k /\ d[k].kind = "text" /\ (s = h \/ d[s].kind = "section")
      /\ \A i \in (h + 1)..k : d[i].kind \notin Stops
      /\ \A i \in (s + 1)..(k - 1) : d[i].kind # "section"
  BY DEF Reads
<1>2. e[k + x] = d[k]
  BY <1>1
<1>3. s + x \in (h + x)..(k + x - 1)
  BY <1>1
<1>4. s # h => e[s + x] = d[s] /\ s + x # h + x
  BY <1>1
<1>5. ASSUME NEW i \in (h + x + 1)..(k + x) PROVE e[i].kind \notin Stops
  <2>1. i - x \in (h + 1)..k /\ (i - x) + x = i
    OBVIOUS
  <2>2. e[(i - x) + x] = d[i - x]
    BY <2>1
  <2>3. QED
    BY <1>1, <2>1, <2>2
<1>6. ASSUME NEW i \in (s + x + 1)..(k + x - 1) PROVE e[i].kind # "section"
  <2>1. i - x \in (s + 1)..(k - 1) /\ i - x \in (h + 1)..k /\ (i - x) + x = i
    BY <1>1
  <2>2. e[(i - x) + x] = d[i - x]
    BY <2>1
  <2>3. QED
    BY <1>1, <2>1, <2>2
<1>7. Reads(e, h + x, s + x, k + x)
  BY <1>1, <1>2, <1>3, <1>4, <1>5, <1>6 DEF Reads
<1>8. NameAt(e, h + x, s + x) = NameAt(d, h, s)
  BY <1>4 DEF NameAt
<1>9. QED
  BY <1>2, <1>7, <1>8 DEF Alike

\* A section that moves within its entry reads as it did.
LEMMA ReadsAcross ==
  ASSUME NEW d, NEW e, NEW x \in Int, NEW h \in Int, NEW s \in Int, NEW k \in Int, NEW a \in Int,
         IsSequence(e), Reads(d, h, s, k), k + x <= Len(e), h <= a, a < s, h <= a + x,
         \A i \in (a + 1)..k : e[i + x] = d[i],
         \A i \in (h + 1)..(a + x) : e[i].kind \notin Stops
  PROVE  Alike(d, h, s, k, e, h, s + x, k + x)
<1>1. /\ h <= s /\ s < k /\ d[k].kind = "text" /\ (s = h \/ d[s].kind = "section")
      /\ \A i \in (h + 1)..k : d[i].kind \notin Stops
      /\ \A i \in (s + 1)..(k - 1) : d[i].kind # "section"
  BY DEF Reads
<1>2. e[k + x] = d[k] /\ e[s + x] = d[s]
  BY <1>1
<1>3. s + x \in h..(k + x - 1) /\ s # h /\ s + x # h
  BY <1>1
<1>5. ASSUME NEW i \in (h + 1)..(k + x) PROVE e[i].kind \notin Stops
  <2>1. CASE i <= a + x
    <3>1. i \in (h + 1)..(a + x)
      BY <2>1
    <3>2. QED
      BY <3>1
  <2>2. CASE i > a + x
    <3>1. i - x \in (a + 1)..k /\ i - x \in (h + 1)..k /\ (i - x) + x = i
      BY <2>2
    <3>2. e[(i - x) + x] = d[i - x]
      BY <3>1
    <3>3. QED
      BY <1>1, <3>1, <3>2
  <2>3. QED
    BY <2>1, <2>2
<1>6. ASSUME NEW i \in (s + x + 1)..(k + x - 1) PROVE e[i].kind # "section"
  <2>1. i - x \in (s + 1)..(k - 1) /\ i - x \in (a + 1)..k /\ (i - x) + x = i
    BY <1>1
  <2>2. e[(i - x) + x] = d[i - x]
    BY <2>1
  <2>3. QED
    BY <1>1, <2>1, <2>2
<1>7. Reads(e, h, s + x, k + x)
  BY <1>1, <1>2, <1>3, <1>5, <1>6 DEF Reads
<1>8. NameAt(e, h, s + x) = NameAt(d, h, s)
  BY <1>2, <1>3 DEF NameAt
<1>9. QED
  BY <1>2, <1>7, <1>8 DEF Alike

\* The text of the entry at g that is below line a has an end of the entry above it.
Blocked(d, g, a) ==
  \A k \in (a + 1)..Len(d) : d[k].kind = "text" => \E i \in (g + 1)..k : d[i].kind \in Stops

\* One direction of what follows.
LEMMA LinesCome ==
  ASSUME NEW d, NEW e, IsSequence(d), IsSequence(e), NEW a \in Nat, NEW g \in 1..a,
         a <= Len(d), a <= Len(e), \A i \in 1..a : e[i] = d[i], Blocked(d, g, a),
         NEW x \in LinesUnder(d, g)
  PROVE  x \in LinesUnder(e, g)
<1>1. Len(d) \in Nat /\ Len(e) \in Nat /\ g \in 1..Len(d) /\ g \in 1..Len(e)
  BY SequenceIs
<1>2. PICK s, k \in 1..Len(d) : Reads(d, g, s, k) /\ x = <<NameAt(d, g, s), d[k].text>>
  BY <1>1, LinesRead
<1>3. /\ d[k].kind = "text" /\ s \in g..(k - 1)
      /\ \A i \in (g + 1)..k : d[i].kind \notin Stops
  BY <1>2 DEF Reads
<1>4. k <= a
  BY <1>1, <1>3 DEF Blocked
<1>0. PICK z \in Int : z = 0
  OBVIOUS
<1>5. k + z <= Len(e) /\ \A i \in (g + 1)..k : e[i + z] = d[i]
  <2>1. \A i \in (g + 1)..k : i + z = i /\ i \in 1..a
    BY <1>0, <1>1, <1>4
  <2>2. k + z = k
    BY <1>0, <1>1
  <2>3. QED
    BY <1>1, <1>4, <2>1, <2>2
<1>6. Alike(d, g, s, k, e, g + z, s + z, k + z)
  <2>1. g \in Int /\ s \in Int /\ k \in Int
    BY <1>1
  <2>2. QED
    BY <1>2, <1>5, <2>1, ReadsMove
<1>7. g + z = g /\ s + z = s /\ k + z = k
  BY <1>0, <1>1
<1>8. Alike(d, g, s, k, e, g, s, k)
  BY <1>6, <1>7
<1>9. Reads(e, g, s, k) /\ x = <<NameAt(e, g, s), e[k].text>>
  BY <1>2, <1>8 DEF Alike
<1>10. s \in 1..Len(e) /\ k \in 1..Len(e)
  BY <1>1, <1>3, <1>4
<1>11. QED
  BY <1>1, <1>9, <1>10, LinesRead

\* An entry above what changes keeps its lines.
LEMMA LinesKept ==
  ASSUME NEW d, NEW a, NEW m, NEW b, NEW e, Put(d, a, m, b, e), NEW g \in 1..a,
         Blocked(d, g, a), Blocked(e, g, a)
  PROVE  LinesUnder(e, g) = LinesUnder(d, g)
<1>1. /\ IsSequence(d) /\ IsSequence(e) /\ IsSequence(b) /\ a \in Nat /\ m \in {0, 1}
      /\ a + m <= Len(d) /\ Len(e) = Len(d) - m + Len(b)
      /\ \A i \in 1..a : e[i] = d[i]
  BY DEF Put
<1>2. Len(d) \in Nat /\ Len(b) \in Nat /\ Len(e) \in Nat
  BY <1>1, SequenceIs
<1>3. a <= Len(d) /\ a <= Len(e) /\ \A i \in 1..a : d[i] = e[i]
  BY <1>1, <1>2
<1>4. \A x : x \in LinesUnder(d, g) => x \in LinesUnder(e, g)
  BY <1>1, <1>3, LinesCome
<1>5. \A x : x \in LinesUnder(e, g) => x \in LinesUnder(d, g)
  BY <1>1, <1>3, LinesCome
<1>6. QED
  BY <1>4, <1>5

\* One direction of what follows.
LEMMA LinesCarried ==
  ASSUME NEW d, NEW e, IsSequence(d), IsSequence(e), NEW z \in Int, NEW g \in 1..Len(d),
         NEW h \in 1..Len(e), h = g + z, Len(e) = Len(d) + z,
         \A i \in (g + 1)..Len(d) : e[i + z] = d[i], NEW x \in LinesUnder(d, g)
  PROVE  x \in LinesUnder(e, h)
<1>1. Len(d) \in Nat /\ Len(e) \in Nat
  BY SequenceIs
<1>2. PICK s, k \in 1..Len(d) : Reads(d, g, s, k) /\ x = <<NameAt(d, g, s), d[k].text>>
  BY LinesRead
<1>3. s \in g..(k - 1)
  BY <1>2 DEF Reads
<1>4. k + z <= Len(e) /\ \A i \in (g + 1)..k : e[i + z] = d[i]
  BY <1>1
<1>5. g \in Int /\ s \in Int /\ k \in Int
  BY <1>1
<1>6. Alike(d, g, s, k, e, g + z, s + z, k + z)
  BY <1>2, <1>4, <1>5, ReadsMove
<1>7. PICK t, l : t = s + z /\ l = k + z
  OBVIOUS
<1>8. Alike(d, g, s, k, e, h, t, l)
  BY <1>6, <1>7
<1>9. Reads(e, h, t, l) /\ x = <<NameAt(e, h, t), e[l].text>>
  BY <1>2, <1>8 DEF Alike
<1>10. t \in 1..Len(e) /\ l \in 1..Len(e)
  BY <1>1, <1>3, <1>4, <1>7
<1>11. QED
  BY <1>9, <1>10, LinesRead

\* An entry below what changes keeps its lines, and so does one whose heading is all of it
\* that does.
LEMMA LinesShifted ==
  ASSUME NEW d, NEW a, NEW m, NEW b, NEW e, Put(d, a, m, b, e), NEW g \in 1..Len(d), g >= a + m,
         NEW h \in 1..Len(e), h = g - m + Len(b)
  PROVE  LinesUnder(e, h) = LinesUnder(d, g)
<1>1. /\ IsSequence(d) /\ IsSequence(e) /\ IsSequence(b) /\ a \in Nat /\ m \in {0, 1}
      /\ a + m <= Len(d) /\ Len(e) = Len(d) - m + Len(b)
      /\ \A i \in (a + m + 1)..Len(d) : e[i - m + Len(b)] = d[i]
  BY DEF Put
<1>2. Len(d) \in Nat /\ Len(b) \in Nat /\ Len(e) \in Nat
  BY <1>1, SequenceIs
<1>3. PICK z \in Int : z = Len(b) - m
  <2>1. Len(b) - m \in Int
    BY <1>1, <1>2
  <2>2. QED
    BY <2>1
<1>4. PICK y \in Int : y = m - Len(b)
  <2>1. m - Len(b) \in Int
    BY <1>1, <1>2
  <2>2. QED
    BY <2>1
<1>5. h = g + z /\ g = h + y /\ Len(e) = Len(d) + z /\ Len(d) = Len(e) + y
  BY <1>1, <1>2, <1>3, <1>4
<1>6. ASSUME NEW i \in (g + 1)..Len(d) PROVE e[i + z] = d[i]
  <2>1. i \in (a + m + 1)..Len(d) /\ i + z = i - m + Len(b)
    BY <1>1, <1>2, <1>3
  <2>2. QED
    BY <1>1, <2>1
<1>7. ASSUME NEW i \in (h + 1)..Len(e) PROVE d[i + y] = e[i]
  <2>1. i + y \in (g + 1)..Len(d) /\ (i + y) + z = i
    BY <1>1, <1>2, <1>3, <1>4, <1>5
  <2>2. QED
    BY <1>6, <2>1
<1>8. \A x : x \in LinesUnder(d, g) => x \in LinesUnder(e, h)
  BY <1>1, <1>5, <1>6, LinesCarried
<1>9. \A x : x \in LinesUnder(e, h) => x \in LinesUnder(d, g)
  BY <1>1, <1>5, <1>7, LinesCarried
<1>10. QED
  BY <1>8, <1>9

\* The text below line a has another heading above it.
Fenced(d, a) ==
  \A k \in (a + 1)..Len(d) :
    d[k].kind = "text" => \E i \in (a + 1)..k : d[i].kind \in Stops \cup {"section"}

\* One direction of what follows: the text of the entry at u that stands below line a, in
\* a document whose lines below it stand z lines off.
LEMMA LinesCross ==
  ASSUME NEW d, NEW e, IsSequence(d), IsSequence(e), NEW z \in Int, NEW a \in Nat, NEW u \in 1..a,
         u <= a + z, a <= Len(d), Len(e) = Len(d) + z,
         \A i \in (a + 1)..Len(d) : e[i + z] = d[i], Fenced(d, a),
         \A i \in (u + 1)..(a + z) : e[i].kind \notin Stops,
         NEW s \in 1..Len(d), NEW k \in (a + 1)..Len(d), Reads(d, u, s, k)
  PROVE  <<NameAt(d, u, s), d[k].text>> \in LinesUnder(e, u)
<1>1. Len(d) \in Nat /\ Len(e) \in Nat
  BY SequenceIs
<1>2. /\ s \in u..(k - 1) /\ d[k].kind = "text" /\ \A i \in (u + 1)..k : d[i].kind \notin Stops
      /\ \A i \in (s + 1)..(k - 1) : d[i].kind # "section"
  BY DEF Reads
<1>3. PICK i \in (a + 1)..k : d[i].kind \in Stops \cup {"section"}
  BY <1>2 DEF Fenced
<1>4. d[i].kind = "section" /\ i # k
  <2>1. i \in (u + 1)..k
    BY <1>1
  <2>2. QED
    BY <1>2, <1>3, <2>1
<1>5. a < s
  <2>1. ~(i \in (s + 1)..(k - 1))
    BY <1>2, <1>4
  <2>2. QED
    BY <1>1, <1>4, <2>1
<1>6. u \in Int /\ s \in Int /\ k \in Int /\ a \in Int /\ u <= a
      /\ k + z <= Len(e) /\ \A j \in (a + 1)..k : e[j + z] = d[j]
  BY <1>1
<1>7. Alike(d, u, s, k, e, u, s + z, k + z)
  BY <1>5, <1>6, ReadsAcross
<1>8. PICK t, l : t = s + z /\ l = k + z
  OBVIOUS
<1>9. Alike(d, u, s, k, e, u, t, l)
  BY <1>7, <1>8
<1>10. Reads(e, u, t, l) /\ NameAt(d, u, s) = NameAt(e, u, t) /\ d[k].text = e[l].text
  BY <1>9 DEF Alike
<1>11. t \in 1..Len(e) /\ l \in 1..Len(e) /\ u \in 1..Len(e)
  BY <1>1, <1>2, <1>5, <1>6, <1>8
<1>12. QED
  BY <1>10, <1>11, LinesRead

\* What is put into an entry, before a heading that is there, is what it has more.
LEMMA LinesGrown ==
  ASSUME NEW d, NEW a, NEW b, NEW e, Put(d, a, 0, b, e), NEW u \in 1..a,
         \A i \in (u + 1)..a : d[i].kind \notin Stops,
         \A i \in 1..Len(b) : b[i].kind \notin Stops, Fenced(d, a), NEW x
  PROVE  x \in LinesUnder(e, u) <=>
           \/ x \in LinesUnder(d, u)
           \/ \E s \in 1..Len(e), k \in (a + 1)..(a + Len(b)) :
                Reads(e, u, s, k) /\ x = <<NameAt(e, u, s), e[k].text>>
<1>1. /\ IsSequence(d) /\ IsSequence(e) /\ IsSequence(b) /\ a \in Nat
      /\ a + 0 <= Len(d) /\ Len(e) = Len(d) - 0 + Len(b)
      /\ \A i \in 1..a : e[i] = d[i]
      /\ \A i \in 1..Len(b) : e[a + i] = b[i]
      /\ \A i \in (a + 0 + 1)..Len(d) : e[i - 0 + Len(b)] = d[i]
  BY DEF Put
<1>2. Len(d) \in Nat /\ Len(b) \in Nat /\ Len(e) \in Nat
  BY <1>1, SequenceIs
<1>3. PICK z \in Int, y \in Int, w \in Int : z = Len(b) /\ y = -Len(b) /\ w = 0
  BY <1>2
<1>4. PICK c \in Nat : c = a + Len(b)
  BY <1>1, <1>2
<1>5. Len(e) = Len(d) + z /\ Len(d) = Len(e) + y /\ a <= Len(d) /\ c <= Len(e) /\ a <= c
      /\ a + z = c /\ c + y = a /\ u \in 1..c /\ u \in 1..Len(d) /\ u \in 1..Len(e)
  BY <1>1, <1>2, <1>3, <1>4
<1>6. ASSUME NEW i \in (a + 1)..Len(d) PROVE e[i + z] = d[i]
  <2>1. i \in (a + 0 + 1)..Len(d) /\ i + z = i - 0 + Len(b)
    BY <1>1, <1>2, <1>3
  <2>2. QED
    BY <1>1, <2>1
<1>7. ASSUME NEW i \in (c + 1)..Len(e) PROVE i + y \in (a + 1)..Len(d) /\ d[i + y] = e[i]
  <2>1. i + y \in (a + 1)..Len(d) /\ (i + y) + z = i
    BY <1>1, <1>2, <1>3, <1>5
  <2>2. QED
    BY <1>6, <2>1
<1>8. \A i \in (u + 1)..c : e[i].kind \notin Stops
  <2>1. TAKE i \in (u + 1)..c
  <2>2. CASE i <= a
    <3>1. i \in 1..a /\ i \in (u + 1)..a
      BY <1>1, <1>5, <2>2
    <3>2. QED
      BY <1>1, <3>1
  <2>3. CASE i > a
    <3>1. i - a \in 1..Len(b) /\ a + (i - a) = i
      BY <1>1, <1>2, <1>4, <1>5, <2>3
    <3>2. e[a + (i - a)] = b[i - a]
      BY <1>1, <3>1
    <3>3. QED
      BY <3>1, <3>2
  <2>4. QED
    BY <1>1, <1>5, <2>2, <2>3
<1>9. Fenced(e, c)
  <2>1. SUFFICES ASSUME NEW k \in (c + 1)..Len(e), e[k].kind = "text"
                 PROVE  \E i \in (c + 1)..k : e[i].kind \in Stops \cup {"section"}
    BY DEF Fenced
  <2>2. k + y \in (a + 1)..Len(d) /\ d[k + y] = e[k]
    BY <1>7
  <2>3. PICK i \in (a + 1)..(k + y) : d[i].kind \in Stops \cup {"section"}
    BY <2>1, <2>2 DEF Fenced
  <2>4. i \in (a + 1)..Len(d) /\ i + z \in (c + 1)..k
    BY <1>1, <1>2, <1>3, <1>5, <2>2
  <2>5. e[i + z] = d[i]
    BY <1>6, <2>4
  <2>6. QED
    BY <2>3, <2>4, <2>5
<1>10. ASSUME x \in LinesUnder(d, u) PROVE x \in LinesUnder(e, u)
  <2>1. PICK s, k \in 1..Len(d) : Reads(d, u, s, k) /\ x = <<NameAt(d, u, s), d[k].text>>
    BY <1>1, <1>5, <1>10, LinesRead
  <2>2. CASE k <= a
    <3>1. k + w <= Len(e) /\ \A i \in (u + 1)..k : e[i + w] = d[i]
      <4>1. \A i \in (u + 1)..k : i + w = i /\ i \in 1..a
        BY <1>1, <1>3, <2>2
      <4>2. k + w <= Len(e)
        BY <1>1, <1>2, <1>3, <1>5, <2>2
      <4>3. QED
        BY <1>1, <4>1, <4>2
    <3>2. u \in Int /\ s \in Int /\ k \in Int
      BY <1>1, <1>2
    <3>3. Alike(d, u, s, k, e, u + w, s + w, k + w)
      BY <1>1, <2>1, <3>1, <3>2, ReadsMove
    <3>4. u + w = u /\ s + w = s /\ k + w = k
      BY <1>3, <3>2
    <3>5. Alike(d, u, s, k, e, u, s, k)
      BY <3>3, <3>4
    <3>6. Reads(e, u, s, k) /\ x = <<NameAt(e, u, s), e[k].text>>
      BY <2>1, <3>5 DEF Alike
    <3>7. s \in 1..Len(e) /\ k \in 1..Len(e)
      BY <1>2, <1>3, <1>5
    <3>8. QED
      BY <1>1, <1>5, <3>6, <3>7, LinesRead
  <2>3. CASE a < k
    <3>1. k \in (a + 1)..Len(d) /\ u <= a + z
      BY <1>1, <1>2, <1>3, <2>3
    <3>2. \A i \in (u + 1)..(a + z) : e[i].kind \notin Stops
      BY <1>5, <1>8
    <3>3. <<NameAt(d, u, s), d[k].text>> \in LinesUnder(e, u)
      BY <1>1, <1>5, <1>6, <2>1, <3>1, <3>2, LinesCross
    <3>4. QED
      BY <2>1, <3>3
  <2>4. QED
    BY <1>1, <1>2, <2>2, <2>3
<1>11. ASSUME x \in LinesUnder(e, u)
       PROVE  \/ x \in LinesUnder(d, u)
              \/ \E s \in 1..Len(e), k \in (a + 1)..(a + Len(b)) :
                   Reads(e, u, s, k) /\ x = <<NameAt(e, u, s), e[k].text>>
  <2>1. PICK s, k \in 1..Len(e) : Reads(e, u, s, k) /\ x = <<NameAt(e, u, s), e[k].text>>
    BY <1>1, <1>5, <1>11, LinesRead
  <2>2. CASE k <= a
    <3>1. s \in u..(k - 1)
      BY <2>1 DEF Reads
    <3>2. k + w <= Len(d) /\ \A i \in (u + 1)..k : d[i + w] = e[i]
      <4>1. \A i \in (u + 1)..k : i + w = i /\ i \in 1..a
        BY <1>1, <1>3, <2>2
      <4>2. k + w <= Len(d)
        BY <1>1, <1>2, <1>3, <1>5, <2>2
      <4>3. QED
        BY <1>1, <4>1, <4>2
    <3>3. u \in Int /\ s \in Int /\ k \in Int
      BY <1>1, <1>2
    <3>4. Alike(e, u, s, k, d, u + w, s + w, k + w)
      BY <1>1, <2>1, <3>2, <3>3, ReadsMove
    <3>5. u + w = u /\ s + w = s /\ k + w = k
      BY <1>3, <3>3
    <3>6. Alike(e, u, s, k, d, u, s, k)
      BY <3>4, <3>5
    <3>7. Reads(d, u, s, k) /\ x = <<NameAt(d, u, s), d[k].text>>
      BY <2>1, <3>6 DEF Alike
    <3>8. s \in 1..Len(d) /\ k \in 1..Len(d)
      BY <1>1, <1>2, <1>5, <2>2, <3>1
    <3>9. QED
      BY <1>1, <1>5, <3>7, <3>8, LinesRead
  <2>3. CASE c < k
    <3>1. k \in (c + 1)..Len(e) /\ u <= c + y
      BY <1>1, <1>2, <1>3, <1>5, <2>3
    <3>2. \A i \in (u + 1)..(c + y) : d[i].kind \notin Stops
      BY <1>5
    <3>3. \A i \in (c + 1)..Len(e) : d[i + y] = e[i]
      BY <1>7
    <3>4. <<NameAt(e, u, s), e[k].text>> \in LinesUnder(d, u)
      BY <1>1, <1>5, <1>9, <2>1, <3>1, <3>2, <3>3, LinesCross
    <3>5. QED
      BY <2>1, <3>4
  <2>4. CASE a < k /\ k <= c
    <3>1. k \in (a + 1)..(a + Len(b))
      BY <1>1, <1>2, <1>4, <2>4
    <3>2. QED
      BY <2>1, <3>1
  <2>5. QED
    BY <1>1, <1>2, <1>4, <2>2, <2>3, <2>4
<1>12. ASSUME NEW s \in 1..Len(e), NEW k \in (a + 1)..(a + Len(b)), Reads(e, u, s, k),
              x = <<NameAt(e, u, s), e[k].text>>
       PROVE  x \in LinesUnder(e, u)
  <2>1. k \in 1..Len(e)
    BY <1>1, <1>2, <1>4, <1>5
  <2>2. QED
    BY <1>1, <1>5, <1>12, <2>1, LinesRead
<1>13. QED
  BY <1>10, <1>11, <1>12

LEMMA ReleasesAre ==
  ASSUME NEW d, IsSequence(d), NEW r
  PROVE  r \in Releases(d) <=>
           \E h \in 1..Len(d) : d[h].kind = "version"
                                /\ r = [ver |-> d[h].ver, lines |-> LinesUnder(d, h)]
<1>1. \A h : h \in At(d, {"version"}) <=> h \in 1..Len(d) /\ d[h].kind = "version"
  BY SequenceIs DEF At
<1>2. QED
  BY <1>1 DEF Releases

\* Where the entries above what changes keep their lines, no release is lost, and what is
\* new is in what was put.
LEMMA ReleasesPut ==
  ASSUME NEW d, NEW a, NEW m, NEW b, NEW e, Put(d, a, m, b, e),
         m = 0 \/ d[a + 1].kind # "version",
         \A g \in 1..a : d[g].kind = "version" => LinesUnder(e, g) = LinesUnder(d, g), NEW r
  PROVE  r \in Releases(e) <=>
           \/ r \in Releases(d)
           \/ \E i \in 1..Len(b) : b[i].kind = "version"
                                   /\ r = [ver |-> b[i].ver, lines |-> LinesUnder(e, a + i)]
<1>1. /\ IsSequence(d) /\ IsSequence(e) /\ IsSequence(b) /\ a \in Nat /\ m \in {0, 1}
      /\ a + m <= Len(d) /\ Len(e) = Len(d) - m + Len(b)
      /\ \A i \in 1..a : e[i] = d[i]
      /\ \A i \in 1..Len(b) : e[a + i] = b[i]
      /\ \A i \in (a + m + 1)..Len(d) : e[i - m + Len(b)] = d[i]
  BY DEF Put
<1>2. Len(d) \in Nat /\ Len(b) \in Nat /\ Len(e) \in Nat
  BY <1>1, SequenceIs
<1>3. ASSUME NEW g \in (a + m + 1)..Len(d)
      PROVE  \E h \in 1..Len(e) : /\ h = g - m + Len(b) /\ e[h] = d[g]
                                  /\ LinesUnder(e, h) = LinesUnder(d, g)
  <2>1. PICK h : h = g - m + Len(b)
    OBVIOUS
  <2>2. h \in 1..Len(e) /\ g \in 1..Len(d) /\ g >= a + m
    BY <1>1, <1>2, <2>1
  <2>3. LinesUnder(e, h) = LinesUnder(d, g)
    BY <2>1, <2>2, LinesShifted
  <2>4. e[h] = d[g]
    BY <1>1, <2>1
  <2>5. QED
    BY <2>1, <2>2, <2>3, <2>4
<1>4. ASSUME r \in Releases(d) PROVE r \in Releases(e)
  <2>1. PICK g \in 1..Len(d) : d[g].kind = "version"
                               /\ r = [ver |-> d[g].ver, lines |-> LinesUnder(d, g)]
    BY <1>1, <1>4, ReleasesAre
  <2>2. CASE g <= a
    <3>1. g \in 1..a /\ g \in 1..Len(e)
      BY <1>1, <1>2, <2>2
    <3>2. e[g] = d[g] /\ LinesUnder(e, g) = LinesUnder(d, g)
      BY <1>1, <2>1, <3>1
    <3>3. QED
      BY <1>1, <2>1, <3>1, <3>2, ReleasesAre
  <2>3. CASE g > a + m
    <3>1. g \in (a + m + 1)..Len(d)
      BY <1>1, <1>2, <2>3
    <3>2. PICK h \in 1..Len(e) : e[h] = d[g] /\ LinesUnder(e, h) = LinesUnder(d, g)
      BY <1>3, <3>1
    <3>3. QED
      BY <1>1, <2>1, <3>2, ReleasesAre
  <2>4. g <= a \/ g > a + m
    <3>1. SUFFICES ASSUME ~(g <= a), ~(g > a + m) PROVE FALSE
      OBVIOUS
    <3>2. m = 1 /\ g = a + 1
      BY <1>1, <1>2, <3>1
    <3>3. QED
      BY <2>1, <3>2
  <2>5. QED
    BY <2>2, <2>3, <2>4
<1>5. ASSUME NEW i \in 1..Len(b), b[i].kind = "version",
             r = [ver |-> b[i].ver, lines |-> LinesUnder(e, a + i)]
      PROVE  r \in Releases(e)
  <2>1. a + i \in 1..Len(e) /\ e[a + i] = b[i]
    BY <1>1, <1>2
  <2>2. QED
    BY <1>1, <1>5, <2>1, ReleasesAre
<1>6. ASSUME r \in Releases(e)
      PROVE  \/ r \in Releases(d)
             \/ \E i \in 1..Len(b) : b[i].kind = "version"
                                     /\ r = [ver |-> b[i].ver, lines |-> LinesUnder(e, a + i)]
  <2>1. PICK h \in 1..Len(e) : e[h].kind = "version"
                               /\ r = [ver |-> e[h].ver, lines |-> LinesUnder(e, h)]
    BY <1>1, <1>6, ReleasesAre
  <2>2. CASE h <= a
    <3>1. h \in 1..a /\ h \in 1..Len(d)
      BY <1>1, <1>2, <2>2
    <3>2. e[h] = d[h] /\ LinesUnder(e, h) = LinesUnder(d, h)
      BY <1>1, <2>1, <3>1
    <3>3. QED
      BY <1>1, <2>1, <3>1, <3>2, ReleasesAre
  <2>3. CASE h > a + Len(b)
    <3>1. PICK g : g = h + m - Len(b)
      OBVIOUS
    <3>2. g \in (a + m + 1)..Len(d) /\ g - m + Len(b) = h /\ g \in 1..Len(d)
      <4>1. m \in Int /\ h \in Int /\ g \in Int /\ g = h + m - Len(b)
        BY <1>1, <1>2, <3>1
      <4>2. g >= a + m + 1 /\ g <= Len(d) /\ g >= 1
        BY <1>1, <1>2, <2>3, <4>1
      <4>3. g - m + Len(b) = h
        BY <1>2, <4>1
      <4>4. QED
        BY <1>1, <1>2, <4>1, <4>2, <4>3
    <3>3. e[h] = d[g] /\ LinesUnder(e, h) = LinesUnder(d, g)
      BY <1>3, <3>2
    <3>4. QED
      BY <1>1, <2>1, <3>2, <3>3, ReleasesAre
  <2>4. CASE a < h /\ h <= a + Len(b)
    <3>1. PICK i : i = h - a
      OBVIOUS
    <3>2. i \in 1..Len(b) /\ a + i = h
      BY <1>1, <1>2, <2>4, <3>1
    <3>3. e[h] = b[i]
      BY <1>1, <3>2
    <3>4. QED
      BY <2>1, <3>2, <3>3
  <2>5. QED
    BY <1>1, <1>2, <2>2, <2>3, <2>4
<1>7. QED
  BY <1>4, <1>5, <1>6

\* What is put into the first [Unreleased] above a heading that is there waits with what
\* waited, and no release is another.
Grows(d, a, b, e, u) ==
  /\ Releases(e) = Releases(d) /\ Unreleased(e) = u
  /\ \A x : x \in Pending(e) <=>
       \/ x \in Pending(d)
       \/ \E s \in 1..Len(e), k \in (a + 1)..(a + Len(b)) :
            Reads(e, u, s, k) /\ x = <<NameAt(e, u, s), e[k].text>>

LEMMA PendingGrows ==
  ASSUME NEW d, NEW a, NEW b, NEW e, Put(d, a, 0, b, e), NEW u \in 1..a, Unreleased(d) = u,
         \A i \in (u + 1)..a : d[i].kind \notin Stops,
         \A i \in 1..Len(b) : b[i].kind \notin Stops, Fenced(d, a)
  PROVE  Grows(d, a, b, e, u)
<1>1. /\ IsSequence(d) /\ IsSequence(e) /\ IsSequence(b) /\ a \in Nat
      /\ a + 0 <= Len(d) /\ Len(e) = Len(d) - 0 + Len(b)
      /\ \A i \in 1..a : e[i] = d[i]
  BY DEF Put
<1>2. Len(d) \in Nat /\ Len(b) \in Nat /\ Len(e) \in Nat
  BY <1>1, SequenceIs
<1>3. u \in 1..Len(d) /\ u \in 1..Len(e) /\ u # 0 /\ u \in Nat /\ a \in Nat
  BY <1>1, <1>2
<1>4. d[u].kind = "unreleased" /\ \A i \in 1..(u - 1) : d[i].kind # "unreleased"
  BY <1>1, <1>3, UnreleasedIs
<1>5. e[u].kind = "unreleased" /\ \A i \in 1..(u - 1) : e[i].kind # "unreleased"
  <2>1. \A i \in 1..(u - 1) : i \in 1..a
    BY <1>1
  <2>2. QED
    BY <1>1, <1>4, <2>1
<1>6. Unreleased(e) = u
  BY <1>1, <1>3, <1>5, UnreleasedIs
<1>7. Pending(d) = LinesUnder(d, u) /\ Pending(e) = LinesUnder(e, u)
  BY <1>3, <1>6 DEF Pending
<1>8. ASSUME NEW g \in 1..a, d[g].kind = "version" PROVE LinesUnder(e, g) = LinesUnder(d, g)
  <2>1. d[g].kind \in Stops /\ d[u].kind \in Stops /\ e[u].kind \in Stops
    BY <1>4, <1>5, <1>8 DEF Stops, Kinds
  <2>2. g # u
    BY <1>4, <1>8
  <2>3. g < u
    <3>1. ~(g \in (u + 1)..a)
      BY <2>1
    <3>2. QED
      BY <1>1, <1>3, <2>2, <3>1
  <2>4. \A k : k \in (a + 1)..Len(d) => u \in (g + 1)..k
    BY <1>1, <1>2, <1>3, <2>3
  <2>5. \A k : k \in (a + 1)..Len(e) => u \in (g + 1)..k
    BY <1>1, <1>2, <1>3, <2>3
  <2>6. Blocked(d, g, a) /\ Blocked(e, g, a)
    BY <2>1, <2>4, <2>5 DEF Blocked
  <2>7. QED
    BY <2>6, LinesKept
<1>9. ~(\E i \in 1..Len(b) : b[i].kind = "version")
  BY DEF Stops, Kinds
<1>10. \A r : r \in Releases(e) <=> r \in Releases(d)
  BY <1>8, <1>9, ReleasesPut
<1>11. \A x : x \in Pending(e) <=>
         \/ x \in Pending(d)
         \/ \E s \in 1..Len(e), k \in (a + 1)..(a + Len(b)) :
              Reads(e, u, s, k) /\ x = <<NameAt(e, u, s), e[k].text>>
  BY <1>7, LinesGrown
<1>12. Releases(e) = Releases(d)
  <2>1. \A r \in Releases(e) : r \in Releases(d)
    BY <1>10
  <2>2. \A r \in Releases(d) : r \in Releases(e)
    BY <1>10
  <2>3. QED
    BY <2>1, <2>2
<1>13. QED
  BY <1>6, <1>11, <1>12 DEF Grows

\* What a note is in the ledger.
Noted(name, note) == {<<Fold[name], note[i]>> : i \in DOMAIN note}

\* An item that stands from line q + 1 on below the section at t reads as the note.
Stands(e, u, t, q, note) ==
  /\ u \in 1..Len(e) /\ t \in 1..Len(e) /\ q \in Nat /\ u < t /\ t <= q /\ q + Len(note) <= Len(e)
  /\ e[t].kind = "section" /\ \A i \in (u + 1)..(q + Len(note)) : e[i].kind \notin Stops
  /\ \A i \in (t + 1)..(q + Len(note)) : e[i].kind # "section"
  /\ \A i \in 1..Len(note) : e[q + i] = Item(note)[i]

LEMMA ItemReads ==
  ASSUME NEW e, IsSequence(e), NEW note, IsSequence(note), NEW u, NEW t, NEW q,
         Stands(e, u, t, q, note), NEW x
  PROVE  x \in Noted(e[t].name, note) <=>
           \E s \in 1..Len(e), k \in (q + 1)..(q + Len(note)) :
             Reads(e, u, s, k) /\ x = <<NameAt(e, u, s), e[k].text>>
<1>1. /\ u \in 1..Len(e) /\ t \in 1..Len(e) /\ q \in Nat /\ u < t /\ t <= q /\ q + Len(note) <= Len(e)
      /\ e[t].kind = "section" /\ \A i \in (u + 1)..(q + Len(note)) : e[i].kind \notin Stops
      /\ \A i \in (t + 1)..(q + Len(note)) : e[i].kind # "section"
      /\ \A i \in 1..Len(note) : e[q + i] = Item(note)[i]
  BY DEF Stands
<1>2. Len(e) \in Nat /\ Len(note) \in Nat /\ DOMAIN note = 1..Len(note)
  BY SequenceIs
<1>3. ASSUME NEW i \in 1..Len(note) PROVE e[q + i].kind = "text" /\ e[q + i].text = note[i]
  <2>1. Item(note)[i] = Text(i = 1, note[i])
    BY <1>2 DEF Item
  <2>2. e[q + i] = Text(i = 1, note[i])
    BY <1>1, <2>1
  <2>3. QED
    BY <2>2 DEF Text
<1>4. NameAt(e, u, t) = Fold[e[t].name]
  <2>1. t # u
    BY <1>1
  <2>2. QED
    BY <2>1 DEF NameAt
<1>5. ASSUME NEW i \in 1..Len(note), x = <<Fold[e[t].name], note[i]>>
      PROVE  \E s \in 1..Len(e), k \in (q + 1)..(q + Len(note)) :
               Reads(e, u, s, k) /\ x = <<NameAt(e, u, s), e[k].text>>
  <2>1. PICK k : k = q + i
    OBVIOUS
  <2>2. k \in (q + 1)..(q + Len(note)) /\ k <= Len(e) /\ t \in u..(k - 1)
    BY <1>1, <1>2, <2>1
  <2>3. e[k].kind = "text" /\ e[k].text = note[i]
    BY <1>3, <2>1
  <2>4. \A j \in (u + 1)..k : e[j].kind \notin Stops
    BY <1>1, <1>2, <2>2
  <2>5. \A j \in (t + 1)..(k - 1) : e[j].kind # "section"
    BY <1>1, <1>2, <2>2
  <2>6. Reads(e, u, t, k)
    BY <1>1, <2>2, <2>3, <2>4, <2>5 DEF Reads
  <2>7. QED
    BY <1>1, <1>4, <1>5, <2>2, <2>3, <2>6
<1>6. ASSUME NEW s \in 1..Len(e), NEW k \in (q + 1)..(q + Len(note)), Reads(e, u, s, k),
             x = <<NameAt(e, u, s), e[k].text>>
      PROVE  \E i \in 1..Len(note) : x = <<Fold[e[t].name], note[i]>>
  <2>1. /\ s \in u..(k - 1) /\ (s = u \/ e[s].kind = "section")
        /\ \A i \in (s + 1)..(k - 1) : e[i].kind # "section"
    BY <1>6 DEF Reads
  <2>2. ~(s < t)
    <3>1. SUFFICES ASSUME s < t PROVE FALSE
      OBVIOUS
    <3>2. t \in (s + 1)..(k - 1)
      BY <1>1, <1>2, <3>1
    <3>3. QED
      BY <1>1, <2>1, <3>2
  <2>3. ~(t < s)
    <3>1. SUFFICES ASSUME t < s PROVE FALSE
      OBVIOUS
    <3>2. s # u /\ s \in (t + 1)..(q + Len(note))
      BY <1>1, <1>2, <2>1, <3>1
    <3>3. QED
      BY <1>1, <2>1, <3>2
  <2>4. s = t
    BY <1>1, <1>2, <2>2, <2>3
  <2>5. k - q \in 1..Len(note) /\ q + (k - q) = k
    BY <1>1, <1>2
  <2>6. e[k].text = note[k - q]
    BY <1>3, <2>5
  <2>7. QED
    BY <1>4, <1>6, <2>4, <2>5, <2>6
<1>7. x \in Noted(e[t].name, note) <=> \E i \in 1..Len(note) : x = <<Fold[e[t].name], note[i]>>
  BY <1>2 DEF Noted
<1>8. QED
  BY <1>5, <1>6, <1>7

\* A note joins what waits, and no release is another.
Joins(d, e, name, note) ==
  /\ Releases(e) = Releases(d) /\ Pending(e) = Pending(d) \cup Noted(name, note)

\* A note that goes to a section that is there joins what waits.
LEMMA AddItemJoins ==
  ASSUME NEW d, IsSequence(d), NEW name, NEW note, IsSequence(note),
         NEW u \in 1..Len(d), Unreleased(d) = u,
         NEW s \in SectionsOf(d, u), Fold[d[s].name] = Fold[name],
         NEW e, e = Splice(d, SectionEnd(d, u, s), Item(note))
  PROVE  Joins(d, e, name, note)
<1>1. PICK a : a = SectionEnd(d, u, s)
  OBVIOUS
<1>2. PICK b : b = Item(note)
  OBVIOUS
<1>3. /\ IsSequence(b) /\ Len(b) = Len(note) /\ Len(note) \in Nat /\ Len(d) \in Nat
      /\ \A i \in 1..Len(b) : b[i].kind = "text"
  BY <1>2, ItemIs, SequenceIs
<1>4. /\ a \in s..Len(d) /\ \A i \in (s + 1)..a : d[i].kind \notin Stops \cup {"section"}
      /\ \A j \in (a + 1)..Len(d) :
           d[j].kind = "text" => \E i \in (a + 1)..j : d[i].kind \in Stops \cup {"section"}
  <2>1. Ends(d, s, a)
    BY <1>1, SectionEndIs
  <2>2. QED
    BY <2>1 DEF Ends
<1>5. s \in 1..Len(d) /\ d[s].kind = "section" /\ u < s /\ \A i \in (u + 1)..s : d[i].kind \notin Stops
  BY SectionsAre DEF Under
<1>6. Put(d, a, 0, b, e)
  <2>1. a \in 0..Len(d) /\ e = Splice(d, a, b)
    BY <1>1, <1>2, <1>3, <1>4, <1>5
  <2>2. Spliced(d, a, b, e)
    BY <1>3, <2>1, SpliceIs
  <2>3. QED
    BY <1>3, <2>1, <2>2, SplicePuts
<1>7. Fenced(d, a)
  BY <1>4 DEF Fenced
<1>8. \A i \in (u + 1)..a : d[i].kind \notin Stops
  <2>1. TAKE i \in (u + 1)..a
  <2>2. i \in (u + 1)..s \/ i \in (s + 1)..a
    BY <1>3, <1>4, <1>5
  <2>3. QED
    BY <1>4, <1>5, <2>2
<1>9. \A i \in 1..Len(b) : b[i].kind \notin Stops
  BY <1>3 DEF Stops, Kinds
<1>10. u \in 1..a /\ a \in Nat
  BY <1>3, <1>4, <1>5
<1>22. Grows(d, a, b, e, u)
  BY <1>6, <1>7, <1>8, <1>9, <1>10, PendingGrows
<1>11. /\ Releases(e) = Releases(d) /\ Unreleased(e) = u
       /\ \A x : x \in Pending(e) <=>
            \/ x \in Pending(d)
            \/ \E t \in 1..Len(e), k \in (a + 1)..(a + Len(b)) :
                 Reads(e, u, t, k) /\ x = <<NameAt(e, u, t), e[k].text>>
  BY <1>22 DEF Grows
<1>12. /\ IsSequence(e) /\ Len(e) = Len(d) + Len(note)
       /\ \A i \in 1..a : e[i] = d[i]
       /\ \A i \in 1..Len(b) : e[a + i] = b[i]
  BY <1>3, <1>6 DEF Put
<1>13. e[s] = d[s]
  BY <1>3, <1>4, <1>5, <1>12
<1>14. ASSUME NEW i \in (u + 1)..(a + Len(note)) PROVE e[i].kind \notin Stops
  <2>1. CASE i <= a
    <3>1. i \in 1..a /\ i \in (u + 1)..a
      BY <1>10, <2>1
    <3>2. QED
      BY <1>8, <1>12, <3>1
  <2>2. CASE i > a
    <3>1. i - a \in 1..Len(b) /\ a + (i - a) = i
      BY <1>3, <1>10, <2>2
    <3>2. QED
      BY <1>9, <1>12, <3>1
  <2>3. QED
    BY <1>10, <2>1, <2>2
<1>15. ASSUME NEW i \in (s + 1)..(a + Len(note)) PROVE e[i].kind # "section"
  <2>1. CASE i <= a
    <3>1. i \in 1..a /\ i \in (s + 1)..a
      BY <1>3, <1>5, <1>10, <2>1
    <3>2. QED
      BY <1>4, <1>12, <3>1
  <2>2. CASE i > a
    <3>1. i - a \in 1..Len(b) /\ a + (i - a) = i
      BY <1>3, <1>5, <1>10, <2>2
    <3>2. e[i].kind = "text"
      BY <1>3, <1>12, <3>1
    <3>3. QED
      BY <3>2
  <2>3. QED
    BY <1>3, <1>5, <1>10, <2>1, <2>2
<1>16. Stands(e, u, s, a, note)
  <2>1. u \in 1..Len(e) /\ s \in 1..Len(e) /\ a \in Nat /\ s <= a /\ a + Len(note) <= Len(e)
    BY <1>3, <1>4, <1>5, <1>10, <1>12
  <2>2. \A i \in 1..Len(note) : e[a + i] = Item(note)[i]
    BY <1>2, <1>3, <1>12
  <2>3. QED
    BY <1>5, <1>13, <1>14, <1>15, <2>1, <2>2 DEF Stands
<1>17. \A x : x \in Noted(e[s].name, note) <=>
         \E t \in 1..Len(e), k \in (a + 1)..(a + Len(note)) :
           Reads(e, u, t, k) /\ x = <<NameAt(e, u, t), e[k].text>>
  BY <1>12, <1>16, ItemReads
<1>18. Noted(e[s].name, note) = Noted(name, note)
  BY <1>13 DEF Noted
<1>19. \A x : x \in Pending(e) <=> x \in Pending(d) \/ x \in Noted(name, note)
  BY <1>3, <1>11, <1>17, <1>18
<1>20. Pending(e) = Pending(d) \cup Noted(name, note)
  BY <1>19
<1>21. QED
  BY <1>11, <1>20 DEF Joins

\* A note that goes to a section that is created joins what waits.
LEMMA AddSectionJoins ==
  ASSUME NEW d, IsSequence(d), NEW name, NEW note, IsSequence(note),
         NEW u \in 1..Len(d), Unreleased(d) = u,
         NEW e, e = AddSection(d, u, name, <<SectionLine(name)>> \o Item(note))
  PROVE  Joins(d, e, name, note)
<1> DEFINE n == Len(note)
<1>1. PICK b : b = <<SectionLine(name)>> \o Item(note)
  OBVIOUS
<1>2. PICK a : a = Place(d, u, name)
  OBVIOUS
<1>3. /\ IsSequence(b) /\ Len(b) = n + 1 /\ b[1] = SectionLine(name)
      /\ \A i \in 1..n : b[i + 1] = Item(note)[i] /\ b[i + 1].kind = "text"
  <2>1. Block(name, note, b)
    BY <1>1, BlockIs
  <2>2. QED
    BY <2>1 DEF Block
<1>4. n \in Nat /\ Len(d) \in Nat
  BY SequenceIs
<1>5. a \in u..Len(d) /\ (a = u \/ Under(d, u, a))
  BY <1>2, PlaceIs
<1>6. /\ \A i \in (u + 1)..a : d[i].kind \notin Stops
      /\ u \in 1..a /\ a \in Nat
  BY <1>4, <1>5 DEF Under
<1>7. Put(d, a, 0, b, e)
  <2>1. a \in 0..Len(d) /\ e = Splice(d, a, b)
    BY <1>1, <1>2, <1>4, <1>5 DEF AddSection, Place
  <2>2. Spliced(d, a, b, e)
    BY <1>3, <2>1, SpliceIs
  <2>3. QED
    BY <1>3, <2>1, <2>2, SplicePuts
<1>8. Fenced(d, a)
  <2>1. SUFFICES ASSUME NEW k \in (a + 1)..Len(d), d[k].kind = "text"
                 PROVE  \E i \in (a + 1)..k : d[i].kind \in Stops \cup {"section"}
    BY DEF Fenced
  <2>2. k \in 1..Len(d) /\ u < k /\ ~(k <= a) /\ a + 1 \in (a + 1)..k
    BY <1>4, <1>6
  <2>3. CASE a + 1 \in SectionsOf(d, u)
    <3>1. d[a + 1].kind = "section"
      BY <2>3, SectionsAre
    <3>2. QED
      BY <2>2, <3>1
  <2>4. CASE \A i \in 1..Len(d) : Under(d, u, i) /\ d[i].kind \in {"section", "text"} => i <= a
    <3>1. ~Under(d, u, k)
      BY <2>1, <2>2, <2>4
    <3>2. PICK i \in (u + 1)..k : d[i].kind \in Stops
      BY <1>4, <2>2, <3>1 DEF Under
    <3>3. ~(i \in (u + 1)..a)
      BY <1>6, <3>2
    <3>4. i \in (a + 1)..k
      BY <1>4, <1>6, <2>2, <3>3
    <3>5. QED
      BY <3>2, <3>4
  <2>5. QED
    BY <1>2, <2>3, <2>4, PlaceEnds
<1>9. \A i \in 1..Len(b) : b[i].kind \notin Stops
  <2>1. TAKE i \in 1..Len(b)
  <2>2. CASE i = 1
    BY <1>3, <2>2 DEF SectionLine, Stops, Kinds
  <2>3. CASE i # 1
    <3>1. i - 1 \in 1..n /\ (i - 1) + 1 = i
      BY <1>3, <1>4, <2>3
    <3>2. b[(i - 1) + 1].kind = "text"
      BY <1>3, <3>1
    <3>3. QED
      BY <3>1, <3>2 DEF Stops, Kinds
  <2>4. QED
    BY <2>2, <2>3
<1>10. Grows(d, a, b, e, u)
  BY <1>6, <1>7, <1>8, <1>9, PendingGrows
<1>11. /\ Releases(e) = Releases(d) /\ Unreleased(e) = u
       /\ \A x : x \in Pending(e) <=>
            \/ x \in Pending(d)
            \/ \E t \in 1..Len(e), k \in (a + 1)..(a + Len(b)) :
                 Reads(e, u, t, k) /\ x = <<NameAt(e, u, t), e[k].text>>
  BY <1>10 DEF Grows
<1>12. /\ IsSequence(e) /\ Len(e) = Len(d) + n + 1
       /\ \A i \in 1..a : e[i] = d[i]
       /\ \A i \in 1..Len(b) : e[a + i] = b[i]
  BY <1>3, <1>4, <1>7 DEF Put
<1>13. PICK t : t = a + 1
  OBVIOUS
<1>14. e[t].kind = "section" /\ e[t].name = name
  <2>1. 1 \in 1..Len(b)
    BY <1>3, <1>4
  <2>2. e[t] = b[1]
    BY <1>12, <1>13, <2>1
  <2>3. QED
    BY <1>3, <2>2 DEF SectionLine
<1>15. ASSUME NEW i \in 1..n PROVE e[t + i] = Item(note)[i] /\ e[t + i].kind = "text"
  <2>1. i + 1 \in 1..Len(b) /\ a + (i + 1) = t + i
    BY <1>3, <1>4, <1>6, <1>13
  <2>2. e[a + (i + 1)] = b[i + 1]
    BY <1>12, <2>1
  <2>3. b[i + 1] = Item(note)[i] /\ b[i + 1].kind = "text"
    BY <1>3
  <2>4. QED
    BY <2>1, <2>2, <2>3
<1>16. ASSUME NEW i \in (u + 1)..(t + n) PROVE e[i].kind \notin Stops
  <2>1. CASE i <= a
    <3>1. i \in 1..a /\ i \in (u + 1)..a
      BY <1>6, <2>1
    <3>2. QED
      BY <1>6, <1>12, <3>1
  <2>2. CASE i > a
    <3>1. i - a \in 1..Len(b) /\ a + (i - a) = i
      BY <1>3, <1>4, <1>6, <1>13, <2>2
    <3>2. QED
      BY <1>9, <1>12, <3>1
  <2>3. QED
    BY <1>6, <2>1, <2>2
<1>17. ASSUME NEW i \in (t + 1)..(t + n) PROVE e[i].kind # "section"
  <2>1. i - t \in 1..n /\ t + (i - t) = i
    BY <1>4, <1>6, <1>13
  <2>2. QED
    BY <1>15, <2>1
<1>18. Stands(e, u, t, t, note)
  <2>1. u \in 1..Len(e) /\ t \in 1..Len(e) /\ t \in Nat /\ u < t /\ t <= t /\ t + Len(note) <= Len(e)
    BY <1>4, <1>5, <1>6, <1>12, <1>13
  <2>2. QED
    BY <1>14, <1>15, <1>16, <1>17, <2>1 DEF Stands
<1>19. \A x : x \in Noted(e[t].name, note) <=>
         \E s \in 1..Len(e), k \in (t + 1)..(t + Len(note)) :
           Reads(e, u, s, k) /\ x = <<NameAt(e, u, s), e[k].text>>
  BY <1>12, <1>18, ItemReads
<1>20. \A k : k \in (a + 1)..(a + Len(b)) <=> k = t \/ k \in (t + 1)..(t + Len(note))
  BY <1>3, <1>4, <1>6, <1>13
<1>21. \A s : ~Reads(e, u, s, t)
  BY <1>14 DEF Reads
<1>22. \A x : x \in Pending(e) <=> x \in Pending(d) \/ x \in Noted(name, note)
  BY <1>11, <1>14, <1>19, <1>20, <1>21
<1>23. Pending(e) = Pending(d) \cup Noted(name, note)
  BY <1>22
<1>24. QED
  BY <1>11, <1>23 DEF Joins

-----------------------------------------------------------------------------
(* A regular document                                                      *)

\* A document without what the writers pass over or take for something else: the link
\* definitions stand at its foot, no level-1 heading is below an entry, there is one
\* [Unreleased] at most, each section has a note, and the versions are versions.
Regular(d) ==
  /\ IsSequence(d)
  /\ \A i \in 1..Len(d) : d[i].kind \in Kinds \cup {"title", "section", "text", "ref"}
  /\ \A i, j \in 1..Len(d) : i < j /\ d[i].kind = "ref" => d[j].kind = "ref"
  /\ \A i, j \in 1..Len(d) : i < j /\ d[i].kind \in Kinds => d[j].kind # "title"
  /\ \A i, j \in 1..Len(d) : d[i].kind = "unreleased" /\ d[j].kind = "unreleased" => i = j
  /\ \A i \in 1..Len(d) : d[i].kind = "section" => i + 1 <= Len(d) /\ d[i + 1].kind = "text"
  /\ \A i \in 1..Len(d) : d[i].kind = "version" => d[i].ver \in Numbers

\* Where [Unreleased] is created, an entry begins, or nothing but definitions follows.
LEMMA OpensAbove ==
  ASSUME NEW d, Regular(d), NEW u, u = OpensAt(d), NEW k \in u..Len(d), d[k].kind = "text"
  PROVE  d[u].kind \in Kinds
<1> DEFINE heads == At(d, Kinds)
           refs == At(d, {"ref"})
<1>1. IsSequence(d) /\ \A i, j \in 1..Len(d) : i < j /\ d[i].kind = "ref" => d[j].kind = "ref"
  BY DEF Regular
<1>2. Len(d) \in Nat /\ u \in 1..(Len(d) + 1)
      /\ (At(d, Kinds) # {} => u \in 1..Len(d) /\ d[u].kind \in Kinds)
  BY <1>1, SequenceIs, OpensAtIs
<1>3. u \in 1..Len(d) /\ k \in 1..Len(d) /\ u <= k /\ u # Len(d) + 1
  BY <1>2
<1>4. \A i : i \in refs <=> i \in 1..Len(d) /\ d[i].kind = "ref"
  BY <1>1, SequenceIs DEF At
<1>5. refs \in SUBSET Nat
  BY <1>4
<1>6. CASE heads = {} /\ refs # {}
  <2>1. u = Least(refs)
    BY <1>6 DEF OpensAt
  <2> HIDE DEF refs
  <2>2. u \in refs
    BY <1>5, <1>6, <2>1, LeastPosition
  <2>3. d[u].kind = "ref" /\ u # k
    BY <1>4, <2>2
  <2>4. QED
    BY <1>1, <1>3, <2>3
<1>7. CASE heads = {} /\ refs = {}
  BY <1>3, <1>7 DEF OpensAt
<1>8. QED
  BY <1>2, <1>6, <1>7

\* A note for which an [Unreleased] is created is all that waits.
LEMMA OpenUnreleasedJoins ==
  ASSUME NEW d, Regular(d), NEW name, NEW note, IsSequence(note), Unreleased(d) = 0,
         NEW e, e = OpenUnreleased(d, <<SectionLine(name)>> \o Item(note))
  PROVE  Joins(d, e, name, note)
<1> DEFINE n == Len(note)
<1>0. IsSequence(d)
  BY DEF Regular
<1>1. PICK b : b = <<Heading("unreleased", NoVersion, NoDate, TRUE)>>
                     \o (<<SectionLine(name)>> \o Item(note))
  OBVIOUS
<1>2. PICK u : u = OpensAt(d)
  OBVIOUS
<1>3. PICK a : a = u - 1
  OBVIOUS
<1>4. /\ IsSequence(b) /\ Len(b) = n + 2 /\ b[1].kind = "unreleased" /\ b[2] = SectionLine(name)
      /\ \A i \in 1..n : b[i + 2] = Item(note)[i] /\ b[i + 2].kind = "text"
  <2>1. Opening(name, note, b)
    BY <1>1, OpeningIs
  <2>2. QED
    BY <2>1 DEF Opening, Heading
<1>5. n \in Nat /\ Len(d) \in Nat
  BY <1>0, SequenceIs
<1>6. u \in 1..(Len(d) + 1) /\ \A i \in 1..(u - 1) : d[i].kind \notin Kinds
  BY <1>0, <1>2, OpensAtIs
<1>7. a \in Nat /\ a + 1 = u /\ a \in 0..Len(d)
  BY <1>3, <1>5, <1>6
<1>8. Put(d, a, 0, b, e)
  <2>1. e = Splice(d, a, b)
    BY <1>1, <1>2, <1>3 DEF OpenUnreleased, OpensAt
  <2>2. Spliced(d, a, b, e)
    BY <1>0, <1>4, <1>7, <2>1, SpliceIs
  <2>3. QED
    BY <1>0, <1>4, <1>7, <2>2, SplicePuts
<1>9. /\ IsSequence(e) /\ Len(e) = Len(d) + n + 2
      /\ \A i \in 1..a : e[i] = d[i]
      /\ \A i \in 1..Len(b) : e[a + i] = b[i]
      /\ \A i \in (a + 0 + 1)..Len(d) : e[i - 0 + Len(b)] = d[i]
  BY <1>4, <1>5, <1>8 DEF Put
<1>10. PICK t : t = u + 1
  OBVIOUS
<1>11. e[u].kind = "unreleased" /\ e[t].kind = "section" /\ e[t].name = name
  <2>1. 1 \in 1..Len(b) /\ 2 \in 1..Len(b) /\ a + 1 = u /\ a + 2 = t
    BY <1>4, <1>5, <1>7, <1>10
  <2>2. e[u] = b[1] /\ e[t] = b[2]
    BY <1>9, <2>1
  <2>3. QED
    BY <1>4, <2>2 DEF SectionLine
<1>12. ASSUME NEW i \in 1..n PROVE e[t + i] = Item(note)[i] /\ e[t + i].kind = "text"
  <2>1. i + 2 \in 1..Len(b) /\ a + (i + 2) = t + i
    BY <1>4, <1>5, <1>7, <1>10
  <2>2. e[a + (i + 2)] = b[i + 2]
    BY <1>9, <2>1
  <2>3. b[i + 2] = Item(note)[i] /\ b[i + 2].kind = "text"
    BY <1>4
  <2>4. QED
    BY <2>1, <2>2, <2>3
<1>13. ASSUME NEW i \in (t + 1)..(t + n) PROVE e[i].kind = "text"
  <2>1. i - t \in 1..n /\ t + (i - t) = i
    BY <1>5, <1>7, <1>10
  <2>2. QED
    BY <1>12, <2>1
<1>14. \A i \in (u + 1)..(t + n) : e[i].kind \notin Stops
  <2>1. TAKE i \in (u + 1)..(t + n)
  <2>2. i = t \/ i \in (t + 1)..(t + n)
    BY <1>5, <1>7, <1>10
  <2>3. QED
    BY <1>11, <1>13, <2>2 DEF Stops, Kinds
<1>15. u \in 1..Len(e) /\ t \in 1..Len(e) /\ t \in Nat /\ u < t /\ t <= t /\ t + n <= Len(e) /\ u # 0
  BY <1>5, <1>6, <1>7, <1>9, <1>10
<1>16. Stands(e, u, t, t, note)
  BY <1>11, <1>12, <1>13, <1>14, <1>15 DEF Stands
<1>17. \A x : x \in Noted(e[t].name, note) <=>
         \E s \in 1..Len(e), k \in (t + 1)..(t + Len(note)) :
           Reads(e, u, s, k) /\ x = <<NameAt(e, u, s), e[k].text>>
  <2>1. IsSequence(e)
    BY <1>9
  <2> HIDE DEF n
  <2>2. QED
    BY <1>16, <2>1, ItemReads
<1>18. Unreleased(e) = u
  <2>1. \A i \in 1..(u - 1) : e[i].kind # "unreleased"
    <3>1. \A i \in 1..(u - 1) : i \in 1..a
      BY <1>7
    <3>2. QED
      BY <1>6, <1>9, <3>1 DEF Kinds
  <2>2. QED
    BY <1>9, <1>11, <1>15, <2>1, UnreleasedIs
<1>19. ASSUME NEW s \in 1..Len(e), NEW k \in 1..Len(e), Reads(e, u, s, k)
       PROVE  k \in (t + 1)..(t + n)
  <2>1. u < k /\ e[k].kind = "text" /\ \A i \in (u + 1)..k : e[i].kind \notin Stops
    <3>1. s \in u..(k - 1) /\ e[k].kind = "text" /\ \A i \in (u + 1)..k : e[i].kind \notin Stops
      BY <1>19 DEF Reads
    <3>2. QED
      BY <1>15, <3>1
  <2>2. k # t
    BY <1>11, <2>1
  <2>3. ~(k > t + n)
    <3>1. SUFFICES ASSUME k > t + n PROVE FALSE
      OBVIOUS
    <3>2. PICK j : j = k - Len(b)
      OBVIOUS
    <3>3. j \in u..Len(d) /\ j \in (a + 0 + 1)..Len(d) /\ j - 0 + Len(b) = k
      BY <1>4, <1>5, <1>7, <1>9, <1>10, <1>15, <3>1, <3>2
    <3>4. d[j].kind = "text"
      BY <1>9, <2>1, <3>3
    <3>5. d[u].kind \in Kinds
      BY <1>2, <3>3, <3>4, OpensAbove
    <3>6. u \in (a + 0 + 1)..Len(d) /\ u - 0 + Len(b) \in (u + 1)..k
      BY <1>4, <1>5, <1>6, <1>7, <1>10, <1>15, <3>1, <3>3
    <3>7. e[u - 0 + Len(b)] = d[u]
      BY <1>9, <3>6
    <3>8. QED
      BY <2>1, <3>5, <3>6, <3>7 DEF Stops
  <2>4. QED
    BY <1>5, <1>10, <1>15, <2>1, <2>2, <2>3
<1>20. Pending(d) = {} /\ Pending(e) = LinesUnder(e, u)
  BY <1>15, <1>18 DEF Pending
<1>21. \A x : x \in Pending(e) <=> x \in Noted(name, note)
  <2>1. TAKE x
  <2>2. x \in Pending(e) <=>
          \E s, k \in 1..Len(e) : Reads(e, u, s, k) /\ x = <<NameAt(e, u, s), e[k].text>>
    BY <1>9, <1>15, <1>20, LinesRead
  <2>3. \A k \in (t + 1)..(t + Len(note)) : k \in 1..Len(e)
    BY <1>5, <1>15
  <2>4. x \in Noted(name, note) <=>
          \E s \in 1..Len(e), k \in (t + 1)..(t + Len(note)) :
            Reads(e, u, s, k) /\ x = <<NameAt(e, u, s), e[k].text>>
    BY <1>11, <1>17
  <2>5. QED
    BY <1>19, <2>2, <2>3, <2>4
<1>22. Pending(e) = Pending(d) \cup Noted(name, note)
  BY <1>20, <1>21
<1>23. Releases(e) = Releases(d)
  <2>1. ASSUME NEW i \in 1..Len(b) PROVE b[i].kind # "version"
    <3>1. CASE i = 1 \/ i = 2
      BY <1>4, <3>1 DEF SectionLine
    <3>2. CASE i # 1 /\ i # 2
      <4>1. i - 2 \in 1..n /\ (i - 2) + 2 = i
        BY <1>4, <1>5, <3>2
      <4>2. b[(i - 2) + 2].kind = "text"
        BY <1>4, <4>1
      <4>3. QED
        BY <4>1, <4>2
    <3>3. QED
      BY <3>1, <3>2
  <2>2. ASSUME NEW g \in 1..a, d[g].kind = "version" PROVE LinesUnder(e, g) = LinesUnder(d, g)
    <3>1. g \in 1..(u - 1)
      BY <1>3
    <3>2. QED
      BY <1>6, <2>2, <3>1 DEF Kinds
  <2>3. \A r : r \in Releases(e) <=> r \in Releases(d)
    BY <1>8, <2>1, <2>2, ReleasesPut
  <2>4. \A r \in Releases(e) : r \in Releases(d)
    BY <2>3
  <2>5. \A r \in Releases(d) : r \in Releases(e)
    BY <2>3
  <2>6. QED
    BY <2>4, <2>5
<1>24. QED
  BY <1>22, <1>23 DEF Joins

\* What lines may be put after the first a of a regular document, in the place of m.
Fits(d, a, m, b) ==
  /\ \A i \in 1..Len(b) : b[i].kind \in Kinds \cup {"section", "text", "ref"}
  /\ \/ (\A i \in 1..Len(b) : b[i].kind # "ref") /\ (\A i \in 1..a : d[i].kind # "ref")
     \/ (\A i \in 1..Len(b) : b[i].kind = "ref") /\ m = 1 /\ d[a + 1].kind = "ref"
  /\ (\E i \in 1..Len(b) : b[i].kind \in Kinds) =>
       \A j \in (a + m + 1)..Len(d) : d[j].kind # "title"
  /\ \A i, j \in 1..Len(b) : b[i].kind = "unreleased" /\ b[j].kind = "unreleased" => i = j
  /\ (\E i \in 1..Len(b) : b[i].kind = "unreleased") =>
       \A j \in (1..a) \cup ((a + m + 1)..Len(d)) : d[j].kind # "unreleased"
  /\ \A i \in 1..Len(b) : b[i].kind = "section" => i + 1 <= Len(b) /\ b[i + 1].kind = "text"
  /\ a # 0 /\ d[a].kind = "section" => 1 <= Len(b) /\ b[1].kind = "text"
  /\ \A i \in 1..Len(b) : b[i].kind = "version" => b[i].ver \in Numbers

\* It is regular then.
LEMMA PutIsRegular ==
  ASSUME NEW d, NEW a, NEW m, NEW b, NEW e, Put(d, a, m, b, e), Regular(d), Fits(d, a, m, b)
  PROVE  Regular(e)
<1>1. /\ IsSequence(d) /\ IsSequence(b) /\ IsSequence(e) /\ a \in Nat /\ m \in {0, 1}
      /\ a + m <= Len(d) /\ Len(e) = Len(d) - m + Len(b)
      /\ \A i \in 1..a : e[i] = d[i]
      /\ \A i \in 1..Len(b) : e[a + i] = b[i]
      /\ \A i \in (a + m + 1)..Len(d) : e[i - m + Len(b)] = d[i]
  BY DEF Put
<1>2. Len(d) \in Nat /\ Len(b) \in Nat /\ Len(e) \in Nat /\ m \in Int
  BY <1>1, SequenceIs
<1>3. /\ \A i \in 1..Len(d) : d[i].kind \in Kinds \cup {"title", "section", "text", "ref"}
      /\ \A i, j \in 1..Len(d) : i < j /\ d[i].kind = "ref" => d[j].kind = "ref"
      /\ \A i, j \in 1..Len(d) : i < j /\ d[i].kind \in Kinds => d[j].kind # "title"
      /\ \A i, j \in 1..Len(d) : d[i].kind = "unreleased" /\ d[j].kind = "unreleased" => i = j
      /\ \A i \in 1..Len(d) : d[i].kind = "section" => i + 1 <= Len(d) /\ d[i + 1].kind = "text"
      /\ \A i \in 1..Len(d) : d[i].kind = "version" => d[i].ver \in Numbers
  BY DEF Regular
<1>4. /\ \A i \in 1..Len(b) : b[i].kind \in Kinds \cup {"section", "text", "ref"}
      /\ \/ (\A i \in 1..Len(b) : b[i].kind # "ref") /\ (\A i \in 1..a : d[i].kind # "ref")
         \/ (\A i \in 1..Len(b) : b[i].kind = "ref") /\ m = 1 /\ d[a + 1].kind = "ref"
      /\ (\E i \in 1..Len(b) : b[i].kind \in Kinds) =>
           \A j \in (a + m + 1)..Len(d) : d[j].kind # "title"
      /\ \A i, j \in 1..Len(b) : b[i].kind = "unreleased" /\ b[j].kind = "unreleased" => i = j
      /\ (\E i \in 1..Len(b) : b[i].kind = "unreleased") =>
           \A j \in (1..a) \cup ((a + m + 1)..Len(d)) : d[j].kind # "unreleased"
      /\ \A i \in 1..Len(b) : b[i].kind = "section" => i + 1 <= Len(b) /\ b[i + 1].kind = "text"
      /\ a # 0 /\ d[a].kind = "section" => 1 <= Len(b) /\ b[1].kind = "text"
      /\ \A i \in 1..Len(b) : b[i].kind = "version" => b[i].ver \in Numbers
  BY DEF Fits
<1> DEFINE old(i, p) == /\ p \in (1..a) \cup ((a + m + 1)..Len(d)) /\ p \in 1..Len(d) /\ e[i] = d[p]
                        /\ p = IF i <= a THEN i ELSE i - Len(b) + m
                        /\ i <= a \/ i > a + Len(b)
           new(i, p) == p \in 1..Len(b) /\ e[i] = b[p] /\ i = a + p
<1>5. \A i \in 1..Len(e) : (\E p : old(i, p)) \/ (\E p : new(i, p))
  <2>1. TAKE i \in 1..Len(e)
  <2>2. CASE i <= a
    <3>1. i \in 1..a /\ i \in 1..Len(d)
      BY <1>1, <1>2, <2>2
    <3>2. old(i, i)
      BY <1>1, <2>2, <3>1
    <3>3. QED
      BY <3>2
  <2>3. CASE i > a + Len(b)
    <3>1. PICK p : p = i - Len(b) + m
      OBVIOUS
    <3>2. p \in (a + m + 1)..Len(d) /\ p \in 1..Len(d) /\ p - m + Len(b) = i /\ ~(i <= a)
      BY <1>1, <1>2, <2>3, <3>1
    <3>3. e[p - m + Len(b)] = d[p]
      BY <1>1, <3>2
    <3>4. old(i, p)
      BY <2>3, <3>1, <3>2, <3>3
    <3>5. QED
      BY <3>4
  <2>4. CASE a < i /\ i <= a + Len(b)
    <3>1. PICK p : p = i - a
      OBVIOUS
    <3>2. p \in 1..Len(b) /\ i = a + p
      BY <1>1, <1>2, <2>4, <3>1
    <3>3. new(i, p)
      BY <1>1, <3>2
    <3>4. QED
      BY <3>3
  <2>5. QED
    BY <1>1, <1>2, <2>2, <2>3, <2>4
<1>6. \A i, j \in 1..Len(e) : \A p, q : i < j /\ old(i, p) /\ old(j, q) => p < q
  BY <1>1, <1>2
<1>7. \A i, j \in 1..Len(e) : \A p, q : i < j /\ new(i, p) /\ old(j, q) => q \in (a + m + 1)..Len(d) /\ j > a + Len(b)
  BY <1>1, <1>2
<1>8. \A i, j \in 1..Len(e) : \A p, q : i < j /\ old(i, p) /\ new(j, q) => i <= a /\ p = i
  BY <1>1, <1>2
<1> HIDE DEF old, new
<1>9. ASSUME NEW i, NEW p, old(i, p)
      PROVE  /\ p \in (1..a) \cup ((a + m + 1)..Len(d)) /\ p \in 1..Len(d) /\ e[i] = d[p]
             /\ p = (IF i <= a THEN i ELSE i - Len(b) + m)
             /\ i <= a \/ i > a + Len(b)
  BY <1>9 DEF old
<1>10. ASSUME NEW i, NEW p, new(i, p) PROVE p \in 1..Len(b) /\ e[i] = b[p] /\ i = a + p
  BY <1>10 DEF new
<1>11. \A i \in 1..Len(e) : e[i].kind \in Kinds \cup {"title", "section", "text", "ref"}
  BY <1>3, <1>4, <1>5, <1>9, <1>10
<1>12. ASSUME NEW i \in 1..Len(e), NEW j \in 1..Len(e), i < j, e[i].kind = "ref"
       PROVE  e[j].kind = "ref"
  <2>1. CASE (\A x \in 1..Len(b) : b[x].kind # "ref") /\ (\A x \in 1..a : d[x].kind # "ref")
    <3>1. PICK p : old(i, p)
      BY <1>5, <1>10, <1>12, <2>1
    <3>2. p \in 1..Len(d) /\ d[p].kind = "ref" /\ ~(i <= a)
      <4>1. p \in 1..Len(d) /\ d[p].kind = "ref" /\ p = (IF i <= a THEN i ELSE i - Len(b) + m)
        BY <1>9, <1>12, <3>1
      <4>2. ASSUME i <= a PROVE FALSE
        <5>1. p \in 1..a
          BY <1>1, <4>1, <4>2
        <5>2. QED
          BY <2>1, <4>1, <5>1
      <4>3. QED
        BY <4>1, <4>2
    <3>3. ASSUME NEW q, new(j, q) PROVE FALSE
      BY <1>8, <1>12, <3>1, <3>2, <3>3
    <3>4. PICK q : old(j, q)
      BY <1>5, <3>3
    <3>5. p < q /\ q \in 1..Len(d) /\ e[j] = d[q]
      BY <1>6, <1>9, <1>12, <3>1, <3>4
    <3>6. QED
      BY <1>3, <3>2, <3>5
  <2>2. CASE (\A x \in 1..Len(b) : b[x].kind = "ref") /\ m = 1 /\ d[a + 1].kind = "ref"
    <3>1. CASE \E q : new(j, q)
      BY <1>10, <2>2, <3>1
    <3>2. CASE \E q : old(j, q)
      <4>1. PICK q : old(j, q)
        BY <3>2
      <4>2. /\ q \in (1..a) \cup ((a + m + 1)..Len(d)) /\ q \in 1..Len(d) /\ e[j] = d[q]
            /\ q = (IF j <= a THEN j ELSE j - Len(b) + m) /\ (j <= a \/ j > a + Len(b))
        BY <1>9, <4>1
      <4>3. CASE j <= a
        <5>1. i \in 1..a /\ j \in 1..a /\ i \in 1..Len(d) /\ j \in 1..Len(d)
          BY <1>1, <1>2, <1>12, <4>3
        <5>2. e[i] = d[i] /\ e[j] = d[j]
          BY <1>1, <5>1
        <5>3. QED
          BY <1>3, <1>12, <5>1, <5>2
      <4>4. CASE ~(j <= a)
        <5>1. a + 1 < q /\ a + 1 \in 1..Len(d)
          BY <1>1, <1>2, <2>2, <4>2, <4>4
        <5>2. QED
          BY <1>3, <2>2, <4>2, <5>1
      <4>5. QED
        BY <4>3, <4>4
    <3>3. QED
      BY <1>5, <3>1, <3>2
  <2>3. QED
    BY <1>4, <2>1, <2>2
<1>13. ASSUME NEW i \in 1..Len(e), NEW j \in 1..Len(e), i < j, e[i].kind \in Kinds, e[j].kind = "title"
       PROVE  FALSE
  <2>1. ASSUME NEW q, new(j, q) PROVE FALSE
    BY <1>4, <1>10, <1>13, <2>1 DEF Kinds
  <2>2. PICK q : old(j, q)
    BY <1>5, <2>1
  <2>3. q \in 1..Len(d) /\ e[j] = d[q]
    BY <1>9, <2>2
  <2>4. CASE \E p : old(i, p)
    <3>1. PICK p : old(i, p)
      BY <2>4
    <3>2. p \in 1..Len(d) /\ e[i] = d[p] /\ p < q
      BY <1>6, <1>9, <1>13, <2>2, <3>1
    <3>3. QED
      BY <1>3, <1>13, <2>3, <3>2
  <2>5. CASE \E p : new(i, p)
    <3>1. PICK p : new(i, p)
      BY <2>5
    <3>2. p \in 1..Len(b) /\ e[i] = b[p] /\ q \in (a + m + 1)..Len(d)
      BY <1>7, <1>10, <1>13, <2>2, <3>1
    <3>3. QED
      BY <1>4, <1>13, <2>3, <3>2
  <2>6. QED
    BY <1>5, <2>4, <2>5
<1>14. ASSUME NEW i \in 1..Len(e), NEW j \in 1..Len(e), i < j,
              e[i].kind = "unreleased", e[j].kind = "unreleased"
       PROVE  FALSE
  <2>1. CASE \E p, q : old(i, p) /\ old(j, q)
    <3>1. PICK p, q : old(i, p) /\ old(j, q)
      BY <2>1
    <3>2. p \in 1..Len(d) /\ q \in 1..Len(d) /\ e[i] = d[p] /\ e[j] = d[q] /\ p < q
      BY <1>6, <1>9, <1>14, <3>1
    <3>3. p = q
      BY <1>3, <1>14, <3>2
    <3>4. QED
      BY <3>2, <3>3
  <2>2. CASE \E p, q : new(i, p) /\ new(j, q)
    <3>1. PICK p, q : new(i, p) /\ new(j, q)
      BY <2>2
    <3>2. p \in 1..Len(b) /\ q \in 1..Len(b) /\ e[i] = b[p] /\ e[j] = b[q] /\ i = a + p /\ j = a + q
      BY <1>10, <3>1
    <3>3. p = q
      BY <1>4, <1>14, <3>2
    <3>4. QED
      BY <1>14, <3>2, <3>3
  <2>3. CASE \E p, q : old(i, p) /\ new(j, q)
    <3>1. PICK p, q : old(i, p) /\ new(j, q)
      BY <2>3
    <3>2. p \in (1..a) \cup ((a + m + 1)..Len(d)) /\ q \in 1..Len(b) /\ e[i] = d[p] /\ e[j] = b[q]
      BY <1>9, <1>10, <3>1
    <3>3. QED
      BY <1>4, <1>14, <3>2
  <2>4. CASE \E p, q : new(i, p) /\ old(j, q)
    <3>1. PICK p, q : new(i, p) /\ old(j, q)
      BY <2>4
    <3>2. q \in (1..a) \cup ((a + m + 1)..Len(d)) /\ p \in 1..Len(b) /\ e[i] = b[p] /\ e[j] = d[q]
      BY <1>9, <1>10, <3>1
    <3>3. QED
      BY <1>4, <1>14, <3>2
  <2>5. QED
    BY <1>5, <2>1, <2>2, <2>3, <2>4
<1>15. ASSUME NEW i \in 1..Len(e), e[i].kind = "section"
       PROVE  i + 1 <= Len(e) /\ e[i + 1].kind = "text"
  <2>1. CASE \E p : new(i, p)
    <3>1. PICK p : new(i, p)
      BY <2>1
    <3>2. p \in 1..Len(b) /\ e[i] = b[p] /\ i = a + p
      BY <1>10, <3>1
    <3>3. p + 1 <= Len(b) /\ b[p + 1].kind = "text"
      BY <1>4, <1>15, <3>2
    <3>4. p + 1 \in 1..Len(b) /\ a + (p + 1) = i + 1 /\ i + 1 <= Len(e)
      <4>1. p \in Int /\ p >= 1 /\ p + 1 <= Len(b) /\ i = a + p
        BY <1>2, <3>2, <3>3
      <4>2. a \in Int /\ a + m <= Len(d) /\ Len(e) = Len(d) - m + Len(b)
        BY <1>1
      <4>3. QED
        BY <1>2, <4>1, <4>2
    <3>5. e[a + (p + 1)] = b[p + 1]
      BY <1>1, <3>4
    <3>6. QED
      BY <3>3, <3>4, <3>5
  <2>2. CASE \E p : old(i, p)
    <3>1. PICK p : old(i, p)
      BY <2>2
    <3>2. /\ p \in 1..Len(d) /\ e[i] = d[p] /\ p = (IF i <= a THEN i ELSE i - Len(b) + m)
          /\ (i <= a \/ i > a + Len(b))
      BY <1>9, <3>1
    <3>3. p + 1 <= Len(d) /\ d[p + 1].kind = "text"
      BY <1>3, <1>15, <3>2
    <3>4. CASE i = a
      <4>1. p = a /\ a # 0
        BY <1>1, <3>2, <3>4
      <4>2. 1 \in 1..Len(b) /\ b[1].kind = "text"
        BY <1>2, <1>4, <1>15, <3>2, <4>1
      <4>3. e[a + 1] = b[1] /\ a + 1 <= Len(e)
        BY <1>1, <1>2, <4>2
      <4>4. QED
        BY <3>4, <4>2, <4>3
    <3>5. CASE i < a
      <4>1. p = i /\ i + 1 \in 1..a /\ i + 1 <= Len(e)
        BY <1>1, <1>2, <3>2, <3>5
      <4>2. e[i + 1] = d[i + 1]
        BY <1>1, <4>1
      <4>3. QED
        BY <3>3, <4>1, <4>2
    <3>6. CASE i > a
      <4>1. p = i - Len(b) + m /\ i > a + Len(b)
        BY <1>1, <1>2, <3>2, <3>6
      <4>2. p + 1 \in (a + m + 1)..Len(d) /\ (p + 1) - m + Len(b) = i + 1 /\ i + 1 <= Len(e)
        BY <1>1, <1>2, <3>2, <3>3, <4>1
      <4>3. e[(p + 1) - m + Len(b)] = d[p + 1]
        BY <1>1, <4>2
      <4>4. QED
        BY <3>3, <4>2, <4>3
    <3>7. QED
      BY <1>1, <1>2, <3>4, <3>5, <3>6
  <2>3. QED
    BY <1>5, <2>1, <2>2
<1>16. \A i \in 1..Len(e) : e[i].kind = "version" => e[i].ver \in Numbers
  BY <1>3, <1>4, <1>5, <1>9, <1>10
<1>17. \A i, j \in 1..Len(e) : e[i].kind = "unreleased" /\ e[j].kind = "unreleased" => i = j
  <2>1. \A i, j \in 1..Len(e) : i < j \/ j < i \/ i = j
    BY <1>2
  <2>2. QED
    BY <1>14, <2>1
<1>18. QED
  BY <1>1, <1>11, <1>12, <1>13, <1>15, <1>16, <1>17 DEF Regular

\* Where a line is no definition, none above it is.
LEMMA NoRefAbove ==
  ASSUME NEW d, Regular(d), NEW k \in 1..Len(d), d[k].kind # "ref"
  PROVE  \A i \in 1..k : d[i].kind # "ref"
<1>1. Len(d) \in Nat /\ \A i, j \in 1..Len(d) : i < j /\ d[i].kind = "ref" => d[j].kind = "ref"
  BY SequenceIs DEF Regular
<1>2. TAKE i \in 1..k
<1>3. i \in 1..Len(d) /\ (i = k \/ i < k)
  BY <1>1
<1>4. QED
  BY <1>1, <1>3

\* A note goes to the end of a section: below its text.
LEMMA AddItemIsRegular ==
  ASSUME NEW d, Regular(d), NEW note, IsSequence(note), note # <<>>,
         NEW u \in 1..Len(d), NEW s \in SectionsOf(d, u),
         NEW e, e = Splice(d, SectionEnd(d, u, s), Item(note))
  PROVE  Regular(e)
<1>0. IsSequence(d)
  BY DEF Regular
<1>1. PICK a : a = SectionEnd(d, u, s)
  OBVIOUS
<1>2. PICK b : b = Item(note)
  OBVIOUS
<1>3. /\ IsSequence(b) /\ Len(b) = Len(note) /\ Len(note) \in Nat /\ Len(d) \in Nat
      /\ \A i \in 1..Len(b) : b[i].kind = "text"
  BY <1>0, <1>2, ItemIs, SequenceIs
<1>4. Len(b) # 0
  <2>1. PICK S : note \in Seq(S)
    BY DEF IsSequence
  <2>2. QED
    BY <1>3, <2>1
<1>5. s \in 1..Len(d) /\ d[s].kind = "section"
  BY <1>0, SectionsAre
<1>6. a \in s..Len(d) /\ (a = s \/ d[a].kind = "text")
  <2>1. Ends(d, s, a)
    BY <1>0, <1>1, SectionEndIs
  <2>2. QED
    BY <2>1 DEF Ends
<1>7. Put(d, a, 0, b, e)
  <2>1. a \in 0..Len(d) /\ e = Splice(d, a, b)
    BY <1>1, <1>2, <1>3, <1>5, <1>6
  <2>2. Spliced(d, a, b, e)
    BY <1>0, <1>3, <2>1, SpliceIs
  <2>3. QED
    BY <1>0, <1>3, <2>1, <2>2, SplicePuts
<1>8. \A i \in 1..a : d[i].kind # "ref"
  <2>1. a \in 1..Len(d) /\ d[a].kind # "ref"
    BY <1>3, <1>5, <1>6
  <2>2. QED
    BY <2>1, NoRefAbove
<1>9. 1 <= Len(b) /\ b[1].kind = "text"
  BY <1>3, <1>4
<1>10. \A i \in 1..Len(b) : b[i].kind \notin Kinds
  BY <1>3 DEF Kinds
<1>11. \A i \in 1..Len(b) : b[i].kind # "unreleased" /\ b[i].kind # "version" /\ b[i].kind # "section"
                            /\ b[i].kind # "ref"
  BY <1>3
<1>12. Fits(d, a, 0, b)
  BY <1>3, <1>8, <1>9, <1>10, <1>11 DEF Fits
<1>13. QED
  BY <1>7, <1>12, PutIsRegular

\* A section that is created parts none from its text.
LEMMA AddSectionIsRegular ==
  ASSUME NEW d, Regular(d), NEW name, NEW note, IsSequence(note), note # <<>>,
         NEW u \in 1..Len(d), d[u].kind = "unreleased",
         NEW e, e = AddSection(d, u, name, <<SectionLine(name)>> \o Item(note))
  PROVE  Regular(e)
<1> DEFINE n == Len(note)
<1>0. /\ IsSequence(d)
      /\ \A i \in 1..Len(d) : d[i].kind = "section" => i + 1 <= Len(d) /\ d[i + 1].kind = "text"
  BY DEF Regular
<1>1. PICK b : b = <<SectionLine(name)>> \o Item(note)
  OBVIOUS
<1>2. PICK a : a = Place(d, u, name)
  OBVIOUS
<1>3. /\ IsSequence(b) /\ Len(b) = n + 1 /\ b[1].kind = "section"
      /\ \A i \in 1..n : b[i + 1].kind = "text"
  <2>1. Block(name, note, b)
    BY <1>1, BlockIs
  <2>2. QED
    BY <2>1 DEF Block, SectionLine
<1>4. n \in Nat /\ n # 0 /\ Len(d) \in Nat
  <2>1. PICK S : note \in Seq(S)
    BY DEF IsSequence
  <2>2. QED
    BY <1>0, <2>1, SequenceIs
<1>5. a \in u..Len(d) /\ (a = u \/ Under(d, u, a)) /\ a \in 1..Len(d)
  BY <1>0, <1>2, <1>4, PlaceIs
<1>6. Put(d, a, 0, b, e)
  <2>1. a \in 0..Len(d) /\ e = Splice(d, a, b)
    BY <1>1, <1>2, <1>4, <1>5 DEF AddSection, Place
  <2>2. Spliced(d, a, b, e)
    BY <1>0, <1>3, <2>1, SpliceIs
  <2>3. QED
    BY <1>0, <1>3, <2>1, <2>2, SplicePuts
<1>7. \/ /\ \A i \in 1..Len(d) : Under(d, u, i) /\ d[i].kind \in {"section", "text"} => i <= a
         /\ a = u \/ d[a].kind \in {"section", "text"}
      \/ a + 1 \in SectionsOf(d, u)
  BY <1>0, <1>2, PlaceEnds
<1>8. \A i \in 1..a : d[i].kind # "ref"
  <2>1. CASE a = u \/ d[a].kind \in {"section", "text"}
    <3>1. d[a].kind # "ref"
      BY <2>1
    <3>2. QED
      BY <1>5, <3>1, NoRefAbove
  <2>2. CASE a + 1 \in SectionsOf(d, u)
    <3>1. a + 1 \in 1..Len(d) /\ d[a + 1].kind = "section"
      BY <1>0, <2>2, SectionsAre
    <3>2. PICK k : k = a + 1
      OBVIOUS
    <3>3. \A i \in 1..k : d[i].kind # "ref"
      BY <3>1, <3>2, NoRefAbove
    <3>4. \A i \in 1..a : i \in 1..k
      BY <1>4, <1>5, <3>2
    <3>5. QED
      BY <3>3, <3>4
  <2>3. QED
    BY <1>7, <2>1, <2>2
<1>9. d[a].kind # "section"
  <2>1. SUFFICES ASSUME d[a].kind = "section" PROVE FALSE
    OBVIOUS
  <2>2. a + 1 <= Len(d) /\ d[a + 1].kind = "text"
    BY <1>0, <1>5, <2>1
  <2>3. a + 1 \notin SectionsOf(d, u)
    <3>1. SUFFICES ASSUME a + 1 \in SectionsOf(d, u) PROVE FALSE
      OBVIOUS
    <3>2. d[a + 1].kind = "section"
      BY <1>0, <3>1, SectionsAre
    <3>3. QED
      BY <2>2, <3>2
  <2>4. Under(d, u, a + 1)
    <3>1. \A i \in (u + 1)..a : d[i].kind \notin Stops
      BY <1>4, <1>5 DEF Under
    <3>2. u < a + 1 /\ \A i \in (u + 1)..(a + 1) : i = a + 1 \/ i \in (u + 1)..a
      BY <1>4, <1>5
    <3>3. d[a + 1].kind \notin Stops
      BY <2>2 DEF Stops, Kinds
    <3>4. QED
      BY <2>2, <3>1, <3>2, <3>3 DEF Under
  <2>5. a + 1 \in 1..Len(d) /\ ~(a + 1 <= a)
    BY <1>4, <1>5, <2>2
  <2>6. QED
    BY <1>7, <2>2, <2>3, <2>4, <2>5
<1>10. ASSUME NEW i \in 1..Len(b)
       PROVE  /\ b[i].kind \in {"section", "text"}
              /\ b[i].kind = "section" => i + 1 <= Len(b) /\ b[i + 1].kind = "text"
  <2>1. CASE i = 1
    <3>1. 1 \in 1..n /\ 1 + 1 <= Len(b)
      BY <1>3, <1>4
    <3>2. b[1 + 1].kind = "text"
      BY <1>3, <3>1
    <3>3. QED
      BY <1>3, <2>1, <3>1, <3>2
  <2>2. CASE i # 1
    <3>1. i - 1 \in 1..n /\ (i - 1) + 1 = i
      BY <1>3, <1>4, <2>2
    <3>2. b[(i - 1) + 1].kind = "text"
      BY <1>3, <3>1
    <3>3. b[i].kind = "text"
      BY <3>1, <3>2
    <3>4. QED
      BY <3>3
  <2>3. QED
    BY <2>1, <2>2
<1>11. \A i \in 1..Len(b) : b[i].kind \notin Kinds
  BY <1>10 DEF Kinds
<1>12. \A i \in 1..Len(b) : b[i].kind # "unreleased" /\ b[i].kind # "version" /\ b[i].kind # "ref"
  <2>1. TAKE i \in 1..Len(b)
  <2>2. b[i].kind = "section" \/ b[i].kind = "text"
    BY <1>10
  <2>3. QED
    BY <2>2
<1>13. Fits(d, a, 0, b)
  BY <1>8, <1>9, <1>10, <1>11, <1>12 DEF Fits
<1>14. QED
  BY <1>6, <1>13, PutIsRegular

\* Above the place where [Unreleased] is created there is no definition.
LEMMA OpensRegular ==
  ASSUME NEW d, Regular(d), NEW u, u = OpensAt(d)
  PROVE  /\ \A i \in 1..(u - 1) : d[i].kind # "ref"
         /\ u = Len(d) + 1 \/ (u \in 1..Len(d) /\ d[u].kind \in Kinds \cup {"ref"})
<1> DEFINE heads == At(d, Kinds)
           refs == At(d, {"ref"})
<1>0. IsSequence(d)
  BY DEF Regular
<1>1. Len(d) \in Nat /\ u \in 1..(Len(d) + 1)
      /\ (At(d, Kinds) # {} => u \in 1..Len(d) /\ d[u].kind \in Kinds)
  BY <1>0, SequenceIs, OpensAtIs
<1>2. \A i : i \in refs <=> i \in 1..Len(d) /\ d[i].kind = "ref"
  BY <1>0, SequenceIs DEF At
<1>3. refs \in SUBSET Nat
  BY <1>2
<1>4. CASE heads # {}
  <2>1. u \in 1..Len(d) /\ d[u].kind \in Kinds /\ d[u].kind # "ref"
    BY <1>1, <1>4 DEF Kinds
  <2>2. \A i \in 1..u : d[i].kind # "ref"
    BY <2>1, NoRefAbove
  <2>3. \A i \in 1..(u - 1) : i \in 1..u
    BY <1>1
  <2>4. QED
    BY <2>1, <2>2, <2>3
<1>5. CASE heads = {} /\ refs # {}
  <2>1. u = Least(refs)
    BY <1>5 DEF OpensAt
  <2>2. u \in refs /\ \A i \in refs : u <= i
    <3> HIDE DEF refs
    <3>1. QED
      BY <1>3, <1>5, <2>1, LeastPosition
  <2>3. \A i \in 1..(u - 1) : i \in 1..Len(d) /\ ~(u <= i)
    BY <1>1
  <2>4. QED
    BY <1>2, <2>2, <2>3
<1>6. CASE heads = {} /\ refs = {}
  <2>1. u = Len(d) + 1
    BY <1>6 DEF OpensAt
  <2>2. \A i \in 1..(u - 1) : i \in 1..Len(d)
    BY <1>1, <2>1
  <2>3. QED
    BY <1>2, <1>6, <2>1, <2>2
<1>7. QED
  BY <1>4, <1>5, <1>6

\* An [Unreleased] that is created is the one there is.
LEMMA OpenUnreleasedIsRegular ==
  ASSUME NEW d, Regular(d), NEW name, NEW note, IsSequence(note), note # <<>>, Unreleased(d) = 0,
         NEW e, e = OpenUnreleased(d, <<SectionLine(name)>> \o Item(note))
  PROVE  Regular(e)
<1> DEFINE n == Len(note)
<1>0. /\ IsSequence(d)
      /\ \A i, j \in 1..Len(d) : i < j /\ d[i].kind = "ref" => d[j].kind = "ref"
      /\ \A i, j \in 1..Len(d) : i < j /\ d[i].kind \in Kinds => d[j].kind # "title"
      /\ \A i \in 1..Len(d) : d[i].kind = "section" => i + 1 <= Len(d) /\ d[i + 1].kind = "text"
  BY DEF Regular
<1>1. PICK b : b = <<Heading("unreleased", NoVersion, NoDate, TRUE)>>
                     \o (<<SectionLine(name)>> \o Item(note))
  OBVIOUS
<1>2. PICK u : u = OpensAt(d)
  OBVIOUS
<1>3. PICK a : a = u - 1
  OBVIOUS
<1>4. /\ IsSequence(b) /\ Len(b) = n + 2 /\ b[1].kind = "unreleased" /\ b[2].kind = "section"
      /\ \A i \in 1..n : b[i + 2].kind = "text"
  <2>1. Opening(name, note, b)
    BY <1>1, OpeningIs
  <2>2. QED
    BY <2>1 DEF Opening, Heading, SectionLine
<1>5. n \in Nat /\ n # 0 /\ Len(d) \in Nat
  <2>1. PICK S : note \in Seq(S)
    BY DEF IsSequence
  <2>2. QED
    BY <1>0, <2>1, SequenceIs
<1>6. /\ u \in 1..(Len(d) + 1)
      /\ \A i \in 1..(u - 1) : d[i].kind # "ref"
      /\ u = Len(d) + 1 \/ (u \in 1..Len(d) /\ d[u].kind \in Kinds \cup {"ref"})
  <2>1. u \in 1..(Len(d) + 1)
    BY <1>0, <1>2, OpensAtIs
  <2>2. QED
    BY <1>2, <2>1, OpensRegular
<1>7. a \in Nat /\ a + 1 = u /\ a \in 0..Len(d) /\ a = u - 1
  BY <1>3, <1>5, <1>6
<1>8. Put(d, a, 0, b, e)
  <2>1. e = Splice(d, a, b)
    BY <1>1, <1>2, <1>3 DEF OpenUnreleased, OpensAt
  <2>2. Spliced(d, a, b, e)
    BY <1>0, <1>4, <1>7, <2>1, SpliceIs
  <2>3. QED
    BY <1>0, <1>4, <1>7, <2>2, SplicePuts
<1>9. ASSUME NEW i \in 1..Len(b)
      PROVE  /\ i = 1 \/ b[i].kind \in {"section", "text"}
             /\ b[i].kind = "section" => i + 1 <= Len(b) /\ b[i + 1].kind = "text"
  <2>1. CASE i = 1
    BY <1>4, <2>1
  <2>2. CASE i = 2
    <3>1. 1 \in 1..n /\ 1 + 2 = i + 1 /\ i + 1 <= Len(b)
      BY <1>4, <1>5, <2>2
    <3>2. b[1 + 2].kind = "text"
      BY <1>4, <3>1
    <3>3. b[i + 1].kind = "text"
      BY <3>1, <3>2
    <3>4. QED
      BY <1>4, <2>2, <3>1, <3>3
  <2>3. CASE i # 1 /\ i # 2
    <3>1. i - 2 \in 1..n /\ (i - 2) + 2 = i
      BY <1>4, <1>5, <2>3
    <3>2. b[(i - 2) + 2].kind = "text"
      BY <1>4, <3>1
    <3>3. b[i].kind = "text"
      BY <3>1, <3>2
    <3>4. QED
      BY <3>3
  <2>4. QED
    BY <2>1, <2>2, <2>3
<1>10. \A i \in 1..Len(b) : b[i].kind \in {"unreleased", "section", "text"}
  BY <1>4, <1>9
<1>11. \A i \in 1..Len(b) : /\ b[i].kind \in Kinds \cup {"section", "text", "ref"}
                            /\ b[i].kind # "ref" /\ b[i].kind # "version"
  <2>1. TAKE i \in 1..Len(b)
  <2>2. b[i].kind = "unreleased" \/ b[i].kind = "section" \/ b[i].kind = "text"
    BY <1>10
  <2>3. QED
    BY <2>2 DEF Kinds
<1>12. ASSUME NEW i \in 1..Len(b), b[i].kind = "unreleased" PROVE i = 1
  BY <1>9, <1>12
<1>13. ASSUME NEW j \in (a + 0 + 1)..Len(d) PROVE d[j].kind # "title"
  <2>1. u \in 1..Len(d) /\ j \in 1..Len(d) /\ (u = j \/ u < j) /\ d[u].kind \in Kinds \cup {"ref"}
    BY <1>5, <1>6, <1>7
  <2>2. CASE u = j
    BY <2>1, <2>2 DEF Kinds
  <2>3. CASE u < j /\ d[u].kind \in Kinds
    BY <1>0, <2>1, <2>3
  <2>4. CASE u < j /\ d[u].kind = "ref"
    <3>1. d[j].kind = "ref"
      BY <1>0, <2>1, <2>4
    <3>2. QED
      BY <3>1
  <2>5. QED
    BY <2>1, <2>2, <2>3, <2>4
<1>14. \A j \in (1..a) \cup ((a + 0 + 1)..Len(d)) : d[j].kind # "unreleased"
  <2>1. \A i \in 1..Len(d) : d[i].kind # "unreleased"
    BY <1>0, UnreleasedIs
  <2>2. \A j \in (1..a) \cup ((a + 0 + 1)..Len(d)) : j \in 1..Len(d)
    BY <1>5, <1>7
  <2>3. QED
    BY <2>1, <2>2
<1>15. ~(a # 0 /\ d[a].kind = "section")
  <2>1. SUFFICES ASSUME a # 0, d[a].kind = "section" PROVE FALSE
    OBVIOUS
  <2>2. a \in 1..Len(d)
    BY <1>5, <1>7, <2>1
  <2>3. a + 1 <= Len(d) /\ d[a + 1].kind = "text"
    BY <1>0, <2>1, <2>2
  <2>4. u \in 1..Len(d) /\ d[u].kind \in Kinds \cup {"ref"} /\ d[u].kind = "text"
    BY <1>5, <1>6, <1>7, <2>3
  <2>5. QED
    BY <2>4 DEF Kinds
<1>16. \A i \in 1..a : d[i].kind # "ref"
  BY <1>6, <1>7
<1>17. Fits(d, a, 0, b)
  BY <1>9, <1>11, <1>12, <1>13, <1>14, <1>15, <1>16 DEF Fits
<1>18. QED
  BY <1>8, <1>17, PutIsRegular

\* What append makes of a regular document is regular, and the note joins what waits, if
\* it is not there already.
LEMMA AppendJoins ==
  ASSUME NEW d, Regular(d), NEW name, NEW note, IsSequence(note), NEW e \in AppendNote(d, name, note)
  PROVE  Regular(e) /\ name \in DOMAIN Fold /\ (e = d \/ Joins(d, e, name, note))
<1> DEFINE u == Unreleased(d)
           s == SectionNamed(d, u, name)
           block == <<SectionLine(name)>> \o Item(note)
<1>0. IsSequence(d)
  BY DEF Regular
<1>1. name \in DOMAIN Fold /\ note # <<>>
  BY DEF AppendNote
<1>2. e = IF u = 0 THEN OpenUnreleased(d, block)
          ELSE IF s # 0 THEN AddItem(d, s, SectionEnd(d, u, s), Item(note))
          ELSE AddSection(d, u, name, block)
  BY <1>1 DEF AppendNote
<1>3. CASE u = 0
  BY <1>1, <1>2, <1>3, OpenUnreleasedIsRegular, OpenUnreleasedJoins
<1>4. CASE u # 0
  <2>1. u \in 1..Len(d) /\ d[u].kind = "unreleased"
    BY <1>0, <1>4, UnreleasedIs
  <2>2. CASE s = 0
    BY <1>0, <1>1, <1>2, <1>4, <2>1, <2>2, AddSectionIsRegular, AddSectionJoins
  <2>3. CASE s # 0
    <3>1. e = d \/ e = Splice(d, SectionEnd(d, u, s), Item(note))
      BY <1>2, <1>4, <2>3 DEF AddItem
    <3>2. s \in SectionsOf(d, u) /\ Fold[d[s].name] = Fold[name]
      BY <1>0, <2>1, <2>3, SectionNamedIs
    <3>3. CASE e = d
      BY <1>1, <3>3
    <3>4. CASE e = Splice(d, SectionEnd(d, u, s), Item(note))
      BY <1>0, <1>1, <2>1, <3>2, <3>4, AddItemIsRegular, AddItemJoins
    <3>5. QED
      BY <3>1, <3>3, <3>4
  <2>4. QED
    BY <2>2, <2>3
<1>5. QED
  BY <1>3, <1>4

\* The links of a release are no part of the ledger.
LEMMA RelinkedKeeps ==
  ASSUME NEW d, Regular(d), NEW r, NEW b, NEW e, Relinked(d, r, b, e)
  PROVE  /\ Regular(e) /\ Releases(e) = Releases(d) /\ Pending(e) = Pending(d)
         /\ Unreleased(e) = Unreleased(d)
<1>0. /\ IsSequence(d)
      /\ \A i, j \in 1..Len(d) : i < j /\ d[i].kind = "ref" => d[j].kind = "ref"
      /\ \A i \in 1..Len(d) : d[i].kind = "section" => i + 1 <= Len(d) /\ d[i + 1].kind = "text"
  BY DEF Regular
<1>1. CASE e = d
  BY <1>1
<1>2. CASE /\ r \in 1..Len(d) /\ d[r].kind = "ref" /\ Replaced(d, r, b, e)
           /\ IsSequence(b) /\ Len(b) = 2 /\ b[1].kind = "ref" /\ b[2].kind = "ref"
  <2>1. PICK a : a = r - 1
    OBVIOUS
  <2>2. Put(d, a, 1, b, e)
    BY <1>0, <1>2, <2>1, ReplacePuts
  <2>3. Len(d) \in Nat /\ a \in Nat /\ a + 1 = r /\ Len(b) \in Nat
    BY <1>0, <1>2, <2>1, SequenceIs
  <2>4. /\ IsSequence(e) /\ Len(e) = Len(d) - 1 + Len(b)
        /\ \A i \in 1..a : e[i] = d[i]
        /\ \A i \in 1..Len(b) : e[a + i] = b[i]
        /\ \A i \in (a + 1 + 1)..Len(d) : e[i - 1 + Len(b)] = d[i]
    BY <2>2 DEF Put
  <2>5. \A i \in 1..Len(b) : b[i].kind = "ref"
    <3>1. \A i \in 1..Len(b) : i = 1 \/ i = 2
      BY <1>2
    <3>2. QED
      BY <1>2, <3>1
  <2>6. \A i \in 1..Len(b) : b[i].kind \notin Kinds /\ b[i].kind # "section"
    BY <2>5 DEF Kinds
  <2>7. ~(a # 0 /\ d[a].kind = "section")
    <3>1. SUFFICES ASSUME a # 0, d[a].kind = "section" PROVE FALSE
      OBVIOUS
    <3>2. a \in 1..Len(d)
      BY <1>2, <2>3, <3>1
    <3>3. d[a + 1].kind = "text"
      BY <1>0, <3>1, <3>2
    <3>4. QED
      BY <1>2, <2>3, <3>3
  <2>8. \A i \in 1..Len(b) : b[i].kind # "unreleased" /\ b[i].kind # "version"
    BY <2>6 DEF Kinds
  <2>9. Fits(d, a, 1, b)
    <3>1. d[a + 1].kind = "ref"
      BY <1>2, <2>3
    <3>2. \A i \in 1..Len(b) : b[i].kind \in Kinds \cup {"section", "text", "ref"}
      BY <2>5
    <3>3. QED
      BY <2>5, <2>6, <2>7, <2>8, <3>1, <3>2 DEF Fits
  <2>10. Regular(e)
    BY <2>2, <2>9, PutIsRegular
  <2>11. ASSUME NEW k \in (a + 1)..Len(d) PROVE d[k].kind = "ref"
    <3>1. k \in 1..Len(d) /\ (k = r \/ r < k)
      BY <2>3
    <3>2. QED
      BY <1>0, <1>2, <3>1
  <2>12. ASSUME NEW k \in (a + 1)..Len(e) PROVE e[k].kind = "ref"
    <3>1. Regular(e) /\ r \in 1..Len(e) /\ k \in 1..Len(e) /\ (k = r \/ r < k)
      BY <1>2, <2>3, <2>4, <2>10
    <3>2. e[r].kind = "ref"
      <4>1. 1 \in 1..Len(b)
        BY <1>2
      <4>2. e[a + 1] = b[1]
        BY <2>4, <4>1
      <4>3. QED
        BY <1>2, <2>3, <4>2
    <3>3. QED
      BY <3>1, <3>2 DEF Regular
  <2>13. \A g \in 1..a : LinesUnder(e, g) = LinesUnder(d, g)
    <3>1. TAKE g \in 1..a
    <3>2. Blocked(d, g, a) /\ Blocked(e, g, a)
      BY <2>11, <2>12 DEF Blocked
    <3>3. QED
      BY <2>2, <3>2, LinesKept
  <2>14. \A x : x \in Releases(e) <=> x \in Releases(d)
    <3>1. d[a + 1].kind # "version"
      BY <1>2, <2>3
    <3>2. QED
      BY <2>2, <2>8, <2>13, <3>1, ReleasesPut
  <2>15. Releases(e) = Releases(d)
    <3>1. \A x \in Releases(e) : x \in Releases(d)
      BY <2>14
    <3>2. \A x \in Releases(d) : x \in Releases(e)
      BY <2>14
    <3>3. QED
      BY <3>1, <3>2
  <2>16. Unreleased(e) = Unreleased(d) /\ (Unreleased(d) # 0 => Unreleased(d) \in 1..a)
    <3>1. PICK u : u = Unreleased(d)
      OBVIOUS
    <3>2. CASE u = 0
      <4>1. \A i \in 1..Len(d) : d[i].kind # "unreleased"
        BY <1>0, <3>1, <3>2, UnreleasedIs
      <4>2. ASSUME NEW i \in 1..Len(e) PROVE e[i].kind # "unreleased"
        <5>1. CASE i <= a
          <6>1. i \in 1..a /\ i \in 1..Len(d)
            BY <1>2, <2>3, <5>1
          <6>2. QED
            BY <2>4, <4>1, <6>1
        <5>2. CASE i > a
          <6>1. i \in (a + 1)..Len(e)
            BY <2>3, <5>2
          <6>2. e[i].kind = "ref"
            BY <2>12, <6>1
          <6>3. QED
            BY <6>2
        <5>3. QED
          BY <2>3, <5>1, <5>2
      <4>3. ASSUME Unreleased(e) # 0 PROVE FALSE
        <5>1. Unreleased(e) \in 1..Len(e) /\ e[Unreleased(e)].kind = "unreleased"
          BY <2>4, <4>3, UnreleasedIs
        <5>2. QED
          BY <4>2, <5>1
      <4>4. QED
        BY <3>1, <3>2, <4>3
    <3>3. CASE u # 0
      <4>1. u \in 1..Len(d) /\ d[u].kind = "unreleased" /\ \A i \in 1..(u - 1) : d[i].kind # "unreleased"
        BY <1>0, <3>1, <3>3, UnreleasedIs
      <4>2. ~(u \in (a + 1)..Len(d))
        BY <2>11, <4>1
      <4>3. u \in 1..a /\ u \in 1..Len(e)
        BY <1>2, <2>3, <2>4, <4>1, <4>2
      <4>4. e[u].kind = "unreleased" /\ \A i \in 1..(u - 1) : e[i].kind # "unreleased"
        <5>1. \A i \in 1..(u - 1) : i \in 1..a
          BY <2>3, <4>3
        <5>2. QED
          BY <2>4, <4>1, <4>3, <5>1
      <4>5. Unreleased(e) = u
        BY <2>4, <4>3, <4>4, UnreleasedIs
      <4>6. QED
        BY <3>1, <4>3, <4>5
    <3>4. QED
      BY <3>2, <3>3
  <2>17. Pending(e) = Pending(d)
    BY <2>13, <2>16 DEF Pending
  <2>18. QED
    BY <2>10, <2>15, <2>16, <2>17
<1>3. QED
  BY <1>1, <1>2 DEF Relinked

\* The headings of an empty [Unreleased] and of a release.
Cuts(b) == /\ IsSequence(b) /\ Len(b) = 2
           /\ b[1].kind = "unreleased" /\ b[2].kind = "version" /\ b[2].ver \in Numbers

\* Two headings in the place of that of [Unreleased] put all that waits under the second.
LEMMA RenamedReleases ==
  ASSUME NEW d, Regular(d), NEW u \in 1..Len(d), Unreleased(d) = u, NEW b, Cuts(b),
         NEW e, Replaced(d, u, b, e)
  PROVE  /\ Regular(e) /\ Pending(e) = {}
         /\ Releases(e) = Releases(d) \cup {[ver |-> b[2].ver, lines |-> Pending(d)]}
<1>0. /\ IsSequence(d)
      /\ \A i, j \in 1..Len(d) : i < j /\ d[i].kind \in Kinds => d[j].kind # "title"
      /\ \A i, j \in 1..Len(d) : d[i].kind = "unreleased" /\ d[j].kind = "unreleased" => i = j
      /\ \A i \in 1..Len(d) : d[i].kind = "section" => i + 1 <= Len(d) /\ d[i + 1].kind = "text"
  BY DEF Regular
<1>1. PICK a : a = u - 1
  OBVIOUS
<1>2. Len(d) \in Nat /\ a \in Nat /\ a + 1 = u /\ u # 0
  BY <1>0, <1>1, SequenceIs
<1>3. d[u].kind = "unreleased" /\ \A i \in 1..(u - 1) : d[i].kind # "unreleased"
  BY <1>0, <1>2, UnreleasedIs
<1>4. Put(d, a, 1, b, e)
  BY <1>0, <1>1, ReplacePuts DEF Cuts
<1>5. /\ IsSequence(e) /\ Len(e) = Len(d) + 1
      /\ \A i \in 1..a : e[i] = d[i]
      /\ \A i \in 1..Len(b) : e[a + i] = b[i]
  BY <1>2, <1>4 DEF Put, Cuts
<1>6. \A i \in 1..Len(b) : i = 1 \/ i = 2
  BY DEF Cuts
<1>7. Fits(d, a, 1, b)
  <2>1. \A i \in 1..a : d[i].kind # "ref"
    <3>1. \A i \in 1..u : d[i].kind # "ref"
      BY <1>3, NoRefAbove
    <3>2. \A i \in 1..a : i \in 1..u
      BY <1>2
    <3>3. QED
      BY <3>1, <3>2
  <2>2. \A j \in (a + 1 + 1)..Len(d) : d[j].kind # "title"
    <3>1. d[u].kind \in Kinds
      BY <1>3 DEF Kinds
    <3>2. \A j \in (a + 1 + 1)..Len(d) : j \in 1..Len(d) /\ u < j
      BY <1>2
    <3>3. QED
      BY <1>0, <3>1, <3>2
  <2>3. \A j \in (1..a) \cup ((a + 1 + 1)..Len(d)) : d[j].kind # "unreleased"
    <3>1. \A j \in (1..a) \cup ((a + 1 + 1)..Len(d)) : j \in 1..Len(d) /\ j # u
      BY <1>2
    <3>2. QED
      BY <1>0, <1>3, <3>1
  <2>4. ~(a # 0 /\ d[a].kind = "section")
    <3>1. SUFFICES ASSUME a # 0, d[a].kind = "section" PROVE FALSE
      OBVIOUS
    <3>2. a \in 1..Len(d)
      BY <1>2, <3>1
    <3>3. d[a + 1].kind = "text"
      BY <1>0, <3>1, <3>2
    <3>4. QED
      BY <1>2, <1>3, <3>3
  <2>5. \A i \in 1..Len(b) : b[i].kind \in Kinds /\ b[i].kind # "ref" /\ b[i].kind # "section"
    BY <1>6 DEF Kinds, Cuts
  <2>6. \A i \in 1..Len(b) : b[i].kind = "unreleased" => i = 1
    BY <1>6 DEF Cuts
  <2>7. \A i \in 1..Len(b) : b[i].kind = "version" => i = 2
    BY <1>6 DEF Cuts
  <2>8. QED
    BY <2>1, <2>2, <2>3, <2>4, <2>5, <2>6, <2>7 DEF Fits, Cuts
<1>8. Regular(e)
  BY <1>4, <1>7, PutIsRegular
<1>9. PICK v : v = u + 1
  OBVIOUS
<1>10. u \in 1..Len(e) /\ v \in 1..Len(e) /\ e[u] = b[1] /\ e[v] = b[2]
  <2>1. 1 \in 1..Len(b) /\ 2 \in 1..Len(b) /\ a + 1 = u /\ a + 2 = v
    BY <1>2, <1>9 DEF Cuts
  <2>2. e[a + 1] = b[1] /\ e[a + 2] = b[2]
    BY <1>5, <2>1
  <2>3. QED
    BY <1>2, <1>5, <1>9, <2>1, <2>2 DEF Cuts
<1>11. d[u].kind \in Stops /\ e[u].kind \in Stops /\ e[v].kind \in Stops
  BY <1>3, <1>10 DEF Stops, Kinds, Cuts
<1>12. \A g \in 1..a : LinesUnder(e, g) = LinesUnder(d, g)
  <2>1. TAKE g \in 1..a
  <2>2. \A k : k \in (a + 1)..Len(d) => u \in (g + 1)..k
    BY <1>2
  <2>3. \A k : k \in (a + 1)..Len(e) => u \in (g + 1)..k
    BY <1>2, <1>5
  <2>4. Blocked(d, g, a) /\ Blocked(e, g, a)
    BY <1>11, <2>2, <2>3 DEF Blocked
  <2>5. QED
    BY <1>4, <2>4, LinesKept
<1>13. LinesUnder(e, v) = LinesUnder(d, u)
  <2>1. PICK m \in Int : m = 1
    OBVIOUS
  <2>2. Put(d, a, m, b, e)
    BY <1>4, <2>1
  <2>3. u >= a + m /\ v = u - m + Len(b)
    BY <1>2, <1>9, <2>1 DEF Cuts
  <2>4. PICK n \in 1..Len(e) : n = v
    BY <1>10
  <2>5. n = u - m + Len(b)
    BY <2>3, <2>4
  <2>6. LinesUnder(e, n) = LinesUnder(d, u)
    BY <2>2, <2>3, <2>5, LinesShifted
  <2>7. QED
    BY <2>4, <2>6
<1>14. Pending(d) = LinesUnder(d, u)
  BY <1>2 DEF Pending
<1>15. Unreleased(e) = u
  <2>1. \A i \in 1..(u - 1) : e[i].kind # "unreleased"
    <3>1. \A i \in 1..(u - 1) : i \in 1..a
      BY <1>2
    <3>2. QED
      BY <1>3, <1>5, <3>1
  <2>2. QED
    BY <1>2, <1>5, <1>10, <2>1, UnreleasedIs DEF Cuts
<1>16. Pending(e) = {}
  <2>1. Pending(e) = LinesUnder(e, u)
    BY <1>2, <1>15 DEF Pending
  <2>2. ASSUME NEW x \in LinesUnder(e, u) PROVE FALSE
    <3>1. PICK k \in 1..Len(e) : Under(e, u, k) /\ e[k].kind = "text"
      BY <1>5, <1>10, <2>2, LinesAre
    <3>2. v \in (u + 1)..k /\ \A i \in (u + 1)..k : e[i].kind \notin Stops
      BY <1>2, <1>5, <1>9, <3>1 DEF Under
    <3>3. QED
      BY <1>11, <3>2
  <2>3. QED
    BY <2>1, <2>2
<1>17. \A x : x \in Releases(e) <=> x \in Releases(d) \/ x = [ver |-> b[2].ver, lines |-> Pending(d)]
  <2>1. TAKE x
  <2>2. d[a + 1].kind # "version"
    BY <1>2, <1>3
  <2>3. x \in Releases(e) <=>
           \/ x \in Releases(d)
           \/ \E i \in 1..Len(b) : b[i].kind = "version"
                                   /\ x = [ver |-> b[i].ver, lines |-> LinesUnder(e, a + i)]
    BY <1>4, <1>12, <2>2, ReleasesPut
  <2>4. a + 2 = v /\ 2 \in 1..Len(b)
    BY <1>2, <1>9 DEF Cuts
  <2>5. (\E i \in 1..Len(b) : b[i].kind = "version"
                              /\ x = [ver |-> b[i].ver, lines |-> LinesUnder(e, a + i)])
          <=> x = [ver |-> b[2].ver, lines |-> LinesUnder(e, v)]
    BY <1>6, <2>4 DEF Cuts
  <2>6. QED
    BY <1>13, <1>14, <2>3, <2>5
<1>18. Releases(e) = Releases(d) \cup {[ver |-> b[2].ver, lines |-> Pending(d)]}
  BY <1>17
<1>19. QED
  BY <1>8, <1>16, <1>18

\* Where a release is not refused, notes wait for it.
LEMMA NotesWait ==
  ASSUME NEW d, Regular(d), NEW v, NEW date, ~Refused(Parse(d), v, date)
  PROVE  Pending(d) # {}
<1>0. /\ IsSequence(d)
      /\ \A i \in 1..Len(d) : d[i].kind \in Kinds \cup {"title", "section", "text", "ref"}
      /\ \A i, j \in 1..Len(d) : i < j /\ d[i].kind \in Kinds => d[j].kind # "title"
      /\ \A i, j \in 1..Len(d) : d[i].kind = "unreleased" /\ d[j].kind = "unreleased" => i = j
      /\ \A i \in 1..Len(d) : d[i].kind = "section" => i + 1 <= Len(d) /\ d[i + 1].kind = "text"
  BY DEF Regular
<1>1. PICK doc : doc = Parse(d)
  OBVIOUS
<1>2. PICK heads : heads = Ascending(At(d, Kinds))
  OBVIOUS
<1>3. Parsed(d, heads, doc)
  BY <1>0, <1>1, <1>2, ParseIs
<1>4. PICK u : u = Unreleased(d)
  OBVIOUS
<1>5. Len(d) \in Nat /\ u \in 1..Len(d) /\ d[u].kind = "unreleased"
  BY <1>0, <1>4, SequenceIs, NotesToRelease
<1>6. \E i \in DOMAIN doc : doc[i].kind = "unreleased" /\ doc[i].body # Empty
  <2>1. Offered(doc) # {} /\ doc[Greatest(Offered(doc))].body # Empty
    BY <1>1 DEF Refused
  <2>2. Len(heads) \in Nat /\ DOMAIN doc = 1..Len(heads)
    BY <1>3 DEF Parsed, Ascends
  <2>3. PICK S : S = Offered(doc)
    OBVIOUS
  <2>4. S \in SUBSET (1..Len(heads)) /\ \A i \in S : doc[i].kind = "unreleased"
    BY <2>2, <2>3 DEF Offered
  <2>5. Greatest(S) \in S
    BY <2>1, <2>2, <2>3, <2>4, GreatestPosition
  <2>6. QED
    BY <2>1, <2>2, <2>3, <2>4, <2>5
<1>7. Body(d, u) # Empty
  <2>1. PICK i \in DOMAIN doc : doc[i].kind = "unreleased" /\ doc[i].body # Empty
    BY <1>6
  <2>2. heads[i] \in 1..Len(d) /\ d[heads[i]].kind = "unreleased" /\ doc[i].body = Body(d, heads[i])
    BY <1>3, <2>1 DEF Parsed
  <2>3. heads[i] = u
    BY <1>0, <1>5, <2>2
  <2>4. QED
    BY <2>1, <2>2, <2>3
<1>8. PICK a : a = After(At(d, Kinds), u, d)
  OBVIOUS
<1>9. PICK k \in (u + 1)..(a - 1) : d[k].kind # "ref"
  BY <1>7, <1>8 DEF Body
<1>10. At(d, Kinds) \in SUBSET Nat /\ \A i : i \in At(d, Kinds) <=> i \in 1..Len(d) /\ d[i].kind \in Kinds
  BY <1>0, <1>5, SequenceIs DEF At
<1>11. a \in Nat /\ a <= Len(d) + 1 /\ \A i \in 1..Len(d) : u < i /\ i < a => d[i].kind \notin Kinds
  <2>1. PICK S : S = At(d, Kinds)
    OBVIOUS
  <2>2. u \in Nat
    BY <1>5
  <2>3. \/ a \in S /\ u < a /\ \A j \in S : u < j => a <= j
        \/ a = Len(d) + 1 /\ \A j \in S : j <= u
    <3>1. S \in SUBSET Nat /\ a = After(S, u, d)
      BY <1>8, <1>10, <2>1
    <3>2. QED
      BY <1>0, <2>2, <3>1, AfterIs
  <2>4. a \in Nat /\ a <= Len(d) + 1
    BY <1>5, <1>10, <2>1, <2>3
  <2>5. ASSUME NEW i \in 1..Len(d), u < i, i < a, d[i].kind \in Kinds PROVE FALSE
    <3>1. i \in S
      BY <1>10, <2>1, <2>5
    <3>2. QED
      BY <1>5, <2>3, <2>4, <2>5, <3>1
  <2>6. QED
    BY <2>4, <2>5
<1>12. k \in 1..Len(d) /\ u < k
  BY <1>5, <1>9, <1>11
<1>13. \A i \in (u + 1)..k : i \in 1..Len(d) /\ d[i].kind \notin Stops
  <2>1. TAKE i \in (u + 1)..k
  <2>2. i \in 1..Len(d) /\ u < i /\ i < a
    BY <1>5, <1>9, <1>11, <1>12
  <2>3. d[i].kind # "title"
    BY <1>0, <1>5, <2>2 DEF Kinds
  <2>4. QED
    BY <1>11, <2>2, <2>3 DEF Stops
<1>14. Under(d, u, k)
  BY <1>12, <1>13 DEF Under
<1>15. \E l \in 1..Len(d) : Under(d, u, l) /\ d[l].kind = "text"
  <2>1. d[k].kind \in {"section", "text"}
    <3>1. k \in (u + 1)..k
      BY <1>5, <1>12
    <3>2. d[k].kind \notin Kinds /\ d[k].kind # "title"
      BY <1>13, <3>1 DEF Stops
    <3>3. QED
      BY <1>0, <1>9, <1>12, <3>2
  <2>2. CASE d[k].kind = "text"
    BY <1>12, <1>14, <2>2
  <2>3. CASE d[k].kind = "section"
    <3>1. k + 1 \in 1..Len(d) /\ d[k + 1].kind = "text"
      BY <1>0, <1>12, <2>3
    <3>2. \A i \in (u + 1)..(k + 1) : d[i].kind \notin Stops
      <4>1. TAKE i \in (u + 1)..(k + 1)
      <4>2. i = k + 1 \/ i \in (u + 1)..k
        BY <1>5, <1>12
      <4>3. QED
        BY <1>13, <3>1, <4>2 DEF Stops, Kinds
    <3>3. Under(d, u, k + 1)
      BY <1>5, <1>12, <3>1, <3>2 DEF Under
    <3>4. QED
      BY <3>1, <3>3
  <2>4. QED
    BY <2>1, <2>2, <2>3
<1>16. PICK l \in 1..Len(d) : Under(d, u, l) /\ d[l].kind = "text"
  BY <1>15
<1>17. PICK x : x = <<SectionOver(d, u, l), d[l].text>>
  OBVIOUS
<1>18. x \in LinesUnder(d, u)
  BY <1>0, <1>5, <1>16, <1>17, LinesAre
<1>19. Pending(d) = LinesUnder(d, u)
  BY <1>4, <1>5 DEF Pending
<1>20. QED
  BY <1>18, <1>19

\* It names a version above every release there is.
LEMMA RisesAbove ==
  ASSUME NEW d, Regular(d), Numbers \subseteq Versions, NEW v \in Versions, NEW date,
         ~Refused(Parse(d), v, date), NEW r \in Releases(d)
  PROVE  Compare(v, r.ver) > 0
<1>0. IsSequence(d) /\ \A i \in 1..Len(d) : d[i].kind = "version" => d[i].ver \in Numbers
  BY DEF Regular
<1>1. PICK h \in 1..Len(d) : d[h].kind = "version" /\ r = [ver |-> d[h].ver, lines |-> LinesUnder(d, h)]
  BY <1>0, ReleasesAre
<1>2. r.ver = d[h].ver /\ r.ver \in Versions
  BY <1>0, <1>1
<1>3. PICK doc : doc = Parse(d)
  OBVIOUS
<1>4. PICK heads : heads = Ascending(At(d, Kinds))
  OBVIOUS
<1>5. Parsed(d, heads, doc)
  BY <1>0, <1>3, <1>4, ParseIs
<1>6. h \in At(d, Kinds)
  BY <1>0, <1>1, SequenceIs DEF At, Kinds
<1>7. PICK n \in 1..Len(heads) : heads[n] = h
  BY <1>5, <1>6 DEF Parsed, Ascends
<1>8. n \in Released(doc) /\ doc[n].ver = r.ver
  BY <1>1, <1>2, <1>5, <1>7 DEF Parsed, Released
<1>9. ~(Compare(v, r.ver) <= 0)
  BY <1>3, <1>8 DEF Refused
<1>10. Compare(v, r.ver) \in Comparisons
  BY <1>2, VersionsOrdered
<1>11. QED
  BY <1>9, <1>10 DEF Comparisons

\* The version of three numbers.
Final(a, b, c) == [major |-> a, minor |-> b, patch |-> c, pre |-> <<>>, build |-> <<>>]

\* A bump is such a version, whatever the notes.
LEMMA BumpIs ==
  ASSUME NEW base, base.major \in 0..MaxComponent, base.minor \in 0..MaxComponent,
         base.patch \in 0..MaxComponent, NEW e
  PROVE  \E a, b, c \in 0..MaxComponent : Bump(base, e) = Final(a, b, c)
<1>1. ASSUME NEW n \in 0..MaxComponent PROVE Inc(n) \in 0..MaxComponent
  <2>1. PICK m \in Nat : m = MaxComponent
    BY MaxComponentAssumption
  <2>2. n \in 0..m /\ m + 1 > 0
    BY <2>1
  <2>3. (n + 1) % (m + 1) \in 0..m
    BY <2>2
  <2>4. QED
    BY <2>1, <2>3 DEF Inc
<1>2. 0 \in 0..MaxComponent
  BY MaxComponentAssumption
<1>3. PICK k : k = Bump(base, e)
  OBVIOUS
<1>4. PICK z : z = NoVersion
  OBVIOUS
<1>5. z = Final(0, 0, 0)
  BY <1>4 DEF NoVersion, Final
<1>6. PICK a, b, c \in 0..MaxComponent : a = Inc(base.major) /\ b = Inc(base.minor) /\ c = Inc(base.patch)
  BY <1>1
<1>7. PICK x, y \in 0..MaxComponent : x = base.major /\ y = base.minor
  OBVIOUS
<1>8. PICK p, q, r : /\ p = [z EXCEPT !.major = a]
                     /\ q = [z EXCEPT !.major = x, !.minor = b]
                     /\ r = [z EXCEPT !.major = x, !.minor = y, !.patch = c]
  OBVIOUS
<1>9. k = p \/ k = q \/ k = r
  BY <1>3, <1>4, <1>6, <1>7, <1>8 DEF Bump
<1>10. p = Final(a, 0, 0)
  BY <1>5, <1>8 DEF Final
<1>11. q = Final(x, b, 0)
  BY <1>5, <1>8 DEF Final
<1>12. r = Final(x, y, c)
  BY <1>5, <1>8 DEF Final
<1>13. QED
  BY <1>2, <1>3, <1>9, <1>10, <1>11, <1>12

\* All a release may name: every version of three numbers, and what is asked for.
AllNumbers ==
  /\ Numbers \subseteq Versions
  /\ \A a, b, c \in 0..MaxComponent : Final(a, b, c) \in Numbers
  /\ \A c \in Commands : \A req \in Requests[c] : req.op # "append" => req.given \subseteq Numbers

\* It does: a version released is one asked for, or a final one.
LEMMA NumberIs ==
  ASSUME AllNumbers, NEW c \in Commands, NEW req \in Requests[c], req.op # "append",
         NEW d, Regular(d), NEW v \in Number(Parse(d), req.given)
  PROVE  v \in Numbers /\ (v \in req.given \/ \E x, y, z \in 0..MaxComponent : v = Final(x, y, z))
<1>1. CASE req.given # {}
  BY <1>1 DEF Number, AllNumbers
<1>2. CASE req.given = {}
  <2>1. PICK doc : doc = Parse(d)
    OBVIOUS
  <2>2. PICK heads : heads = Ascending(At(d, Kinds))
    OBVIOUS
  <2>3. IsSequence(d) /\ \A i \in 1..Len(d) : d[i].kind = "version" => d[i].ver \in Numbers
    BY DEF Regular
  <2>4. Parsed(d, heads, doc)
    BY <2>1, <2>2, <2>3, ParseIs
  <2>5. Len(heads) \in Nat /\ DOMAIN doc = 1..Len(heads)
    BY <2>4 DEF Parsed, Ascends
  <2>6. PICK S : S = {i \in Released(doc) : ~Prerelease(doc[i].ver)}
    OBVIOUS
  <2>7. PICK T : T = {i \in DOMAIN doc : doc[i].kind = "unreleased"}
    OBVIOUS
  <2>8. S # {} /\ v = Bump(doc[Least(S)].ver, doc[Least(T)])
    BY <1>2, <2>1, <2>6, <2>7 DEF Number, NextVersion
  <2>9. S \in SUBSET Nat /\ \A i \in S : i \in 1..Len(heads) /\ doc[i].kind = "version"
    BY <2>5, <2>6 DEF Released
  <2>10. Least(S) \in S
    BY <2>8, <2>9, LeastPosition
  <2>11. PICK i : i = Least(S)
    OBVIOUS
  <2>12. i \in 1..Len(heads) /\ doc[i].kind = "version"
    BY <2>9, <2>10, <2>11
  <2>13. doc[i].ver \in Versions
    BY <2>3, <2>4, <2>12 DEF Parsed, AllNumbers
  <2>14. PICK base \in Versions : base = doc[i].ver
    BY <2>13
  <2>15. base.major \in 0..MaxComponent /\ base.minor \in 0..MaxComponent /\ base.patch \in 0..MaxComponent
    BY DEF Versions
  <2>16. PICK e : e = doc[Least(T)]
    OBVIOUS
  <2>17. v = Bump(base, e)
    BY <2>8, <2>11, <2>14, <2>16
  <2>18. PICK x, y, z \in 0..MaxComponent : v = Final(x, y, z)
    BY <2>15, <2>17, BumpIs
  <2>19. QED
    BY <2>18 DEF AllNumbers
<1>3. QED
  BY <1>1, <1>2

\* The links of d moved make it f, and two headings in the place of that of [Unreleased], at u
\* in both, make f the release e.
Cut(d, v, date, f, u, b, e) ==
  /\ ~Refused(Parse(d), v, date) /\ u = Unreleased(d)
  /\ f \in ReleaseRefs(d, v) /\ (\E r, c : Relinked(d, r, c, f))
  /\ Regular(f) /\ Releases(f) = Releases(d)
  /\ u \in 1..Len(d) /\ d[u].kind = "unreleased" /\ u \in 1..Len(f) /\ f[u].kind = "unreleased"
  /\ Cuts(b) /\ b[2].ver = v /\ b[2].date = date /\ Replaced(f, u, b, e)
  /\ b[1].bracketed = d[u].bracketed /\ b[2].bracketed = d[u].bracketed

LEMMA ReleaseIsCut ==
  ASSUME Numbers \subseteq Versions, NEW d, Regular(d), NEW v \in Numbers, NEW date,
         NEW e \in Release(d, v, date)
  PROVE  \E f, u, b : Cut(d, v, date, f, u, b, e)
<1>0. IsSequence(d)
  BY DEF Regular
<1>1. PICK u : u = Unreleased(d)
  OBVIOUS
<1>2. PICK b : b = <<Heading("unreleased", NoVersion, NoDate, d[u].bracketed),
                     Heading("version", v, date, d[u].bracketed)>>
  OBVIOUS
<1>3. ~Refused(Parse(d), v, date) /\ \E f \in ReleaseRefs(d, v) : e = Replace(f, u, b)
  BY <1>1, <1>2 DEF Release
<1>4. PICK f \in ReleaseRefs(d, v) : e = Replace(f, u, b)
  BY <1>3
<1>5. u \in 1..Len(d) /\ d[u].kind = "unreleased"
  BY <1>0, <1>1, <1>3, NotesToRelease
<1>6. PICK r, c : Relinked(d, r, c, f)
  BY <1>0, ReleaseRefsAre
<1>7. Regular(f) /\ Releases(f) = Releases(d) /\ Unreleased(f) = u
  BY <1>1, <1>6, RelinkedKeeps
<1>8. IsSequence(f) /\ u \in 1..Len(f) /\ f[u].kind = "unreleased"
  <2>1. IsSequence(f) /\ u # 0
    BY <1>0, <1>5, <1>7, SequenceIs DEF Regular
  <2>2. QED
    BY <1>7, <2>1, UnreleasedIs
<1>9. /\ Cuts(b) /\ b[2].ver = v /\ b[2].date = date
      /\ b[1].bracketed = d[u].bracketed /\ b[2].bracketed = d[u].bracketed
  <2>1. /\ Len(b) = 2 /\ b[1].kind = "unreleased" /\ b[2].kind = "version" /\ b[2].ver = v
        /\ b[2].date = date
        /\ b[1].bracketed = d[u].bracketed /\ b[2].bracketed = d[u].bracketed
    BY <1>2 DEF Heading
  <2>2. IsSequence(b)
    <3>1. PICK x, y : b = <<x, y>>
      BY <1>2
    <3>2. b \in Seq({x, y})
      BY <3>1
    <3>3. QED
      BY <3>2 DEF IsSequence
  <2>3. QED
    BY <2>1, <2>2 DEF Cuts
<1>10. Replaced(f, u, b, e)
  BY <1>4, <1>8, <1>9, ReplaceIs DEF Cuts
<1>11. Cut(d, v, date, f, u, b, e)
  BY <1>1, <1>3, <1>4, <1>5, <1>6, <1>7, <1>8, <1>9, <1>10 DEF Cut
<1>12. QED
  BY <1>11

\* What release makes of a regular document is regular: all that waited stands under the
\* version, none waits, and the releases before are what they were.
Cutting(d, e, v) ==
  /\ v \in Numbers /\ Pending(d) # {} /\ Pending(e) = {}
  /\ \A r \in Releases(d) : Compare(v, r.ver) > 0
  /\ Releases(e) = Releases(d) \cup {[ver |-> v, lines |-> Pending(d)]}

LEMMA ReleaseCuts ==
  ASSUME Numbers \subseteq Versions, NEW d, Regular(d), NEW v \in Numbers, NEW date,
         NEW e \in Release(d, v, date)
  PROVE  Regular(e) /\ Cutting(d, e, v)
<1>1. PICK f, u, b : Cut(d, v, date, f, u, b, e)
  BY ReleaseIsCut
<1>2. /\ ~Refused(Parse(d), v, date) /\ Regular(f) /\ Releases(f) = Releases(d)
      /\ u \in 1..Len(f) /\ Cuts(b) /\ b[2].ver = v /\ Replaced(f, u, b, e)
  BY <1>1 DEF Cut
<1>3. Pending(f) = Pending(d) /\ Unreleased(f) = u
  BY <1>1, RelinkedKeeps DEF Cut
<1>4. /\ Regular(e) /\ Pending(e) = {}
      /\ Releases(e) = Releases(f) \cup {[ver |-> b[2].ver, lines |-> Pending(f)]}
  BY <1>2, <1>3, RenamedReleases
<1>5. Pending(d) # {}
  BY <1>2, NotesWait
<1>6. \A x \in Releases(d) : Compare(v, x.ver) > 0
  BY <1>2, RisesAbove
<1>7. Cutting(d, e, v)
  BY <1>2, <1>3, <1>4, <1>5, <1>6 DEF Cutting
<1>8. QED
  BY <1>4, <1>7

-----------------------------------------------------------------------------
(* The commands keep the ledger                                            *)

\* What one edit does to the ledger: nothing; a note joins what waits; all that waits is
\* cut as a release; or everything is lost.
Entered(d, e) ==
  \/ e = d
  \/ \E note \in Brought : Releases(e) = Releases(d) /\ Pending(e) = Pending(d) \cup note
  \/ \E v : Cutting(d, e, v)
  \/ Pending(e) = {} /\ Releases(e) = {}

LEMMA EditEnters ==
  ASSUME AllNumbers, NEW c \in Commands, NEW req \in Requests[c], NEW day, NEW d, Regular(d),
         NEW e \in Edited(req, day, d)
  PROVE  Regular(e) /\ Entered(d, e)
<1>1. CASE req.op = "append"
  <2>1. PICK name, note : name = req.section /\ note = req.note
    OBVIOUS
  <2>2. IsSequence(note)
    BY <1>1, <2>1, EditorAssumption DEF IsSequence
  <2>3. e \in AppendNote(d, name, note)
    BY <1>1, <2>1 DEF Edited
  <2>4. Regular(e) /\ name \in DOMAIN Fold /\ (e = d \/ Joins(d, e, name, note))
    BY <2>2, <2>3, AppendJoins
  <2>5. Noted(name, note) \in Brought
    <3>1. req \in {r \in UNION {Requests[x] : x \in Commands} :
                     r.op = "append" /\ r.section \in DOMAIN Fold}
      BY <1>1, <2>1, <2>4
    <3>2. Noted(name, note) = {<<Fold[req.section], req.note[i]>> : i \in DOMAIN req.note}
      BY <2>1 DEF Noted
    <3>3. QED
      BY <3>1, <3>2 DEF Brought
  <2>6. QED
    BY <2>4, <2>5 DEF Joins, Entered
<1>2. CASE req.op # "append"
  <2>1. PICK v \in Number(Parse(d), req.given) : e \in Release(d, v, day)
    BY <1>2 DEF Edited
  <2>2. v \in Numbers
    BY <1>2, <2>1, NumberIs
  <2>3. Regular(e) /\ Cutting(d, e, v)
    BY <2>1, <2>2, ReleaseCuts DEF AllNumbers
  <2>4. QED
    BY <2>3 DEF Entered
<1>3. QED
  BY <1>1, <1>2

\* No command but c is at work.
OnlyAt(j, c) == DOMAIN j = Commands /\ \A x \in Commands : x # c => j[x].phase = "idle"

\* What is held where the file is f and the commands are j.
HeldIn(f, j) == IF \E c \in Commands : j[c].phase = "opened"
                THEN j[CHOOSE c \in Commands : j[c].phase = "opened"].out
                ELSE f

LEMMA HeldOnly ==
  ASSUME NEW f, NEW j, NEW c \in Commands, OnlyAt(j, c)
  PROVE  HeldIn(f, j) = IF j[c].phase = "opened" THEN j[c].out ELSE f
<1>1. \A x \in Commands : j[x].phase = "opened" => x = c
  BY DEF OnlyAt
<1>2. CASE j[c].phase = "opened"
  <2>1. PICK x : x = CHOOSE y \in Commands : j[y].phase = "opened"
    OBVIOUS
  <2>2. x \in Commands /\ j[x].phase = "opened"
    BY <1>2, <2>1
  <2>3. x = c
    BY <1>1, <2>2
  <2>4. HeldIn(f, j) = j[x].out
    BY <1>2, <2>1 DEF HeldIn
  <2>5. QED
    BY <1>2, <2>3, <2>4
<1>3. CASE j[c].phase # "opened"
  BY <1>1, <1>3 DEF HeldIn
<1>4. QED
  BY <1>2, <1>3

\* One command at a time: the file is regular, is still what the command read until it is
\* opened, and what then waits to be written is regular.
Sound(f, j) ==
  /\ Regular(f)
  /\ \A c, x \in Commands : j[c].phase # "idle" /\ j[x].phase # "idle" => c = x
  /\ \A c \in Commands : /\ j[c].phase = "read" => j[c].src = f
                         /\ j[c].phase = "opened" => f = <<>> /\ Regular(j[c].out)

LedgerInv == apart => Sound(file, jobs)

LEMMA SoundOnly ==
  ASSUME NEW f, Regular(f), NEW j, NEW c \in Commands, OnlyAt(j, c),
         j[c].phase = "read" => j[c].src = f,
         j[c].phase = "opened" => f = <<>> /\ Regular(j[c].out)
  PROVE  Sound(f, j)
<1>1. \A x \in Commands : j[x].phase # "idle" => x = c
  BY DEF OnlyAt
<1>2. QED
  BY <1>1 DEF Sound

\* k is j, but for what c holds.
Turns(j, c, new, k) == k = [j EXCEPT ![c] = new]

LEMMA OnlyStays ==
  ASSUME NEW j, NEW c \in Commands, OnlyAt(j, c), NEW new, NEW k, Turns(j, c, new, k)
  PROVE  OnlyAt(k, c) /\ k[c] = new
<1>1. DOMAIN j = Commands /\ \A x \in Commands : x # c => j[x].phase = "idle"
  BY DEF OnlyAt
<1>2. DOMAIN k = Commands /\ k[c] = new /\ \A x \in Commands : x # c => k[x] = j[x]
  BY <1>1 DEF Turns
<1>3. QED
  BY <1>1, <1>2 DEF OnlyAt

\* The empty document is regular, and its ledger empty.
LEMMA NothingHeld ==
  Regular(<<>>) /\ Pending(<<>>) = {} /\ Releases(<<>>) = {}
<1>1. IsSequence(<<>>)
  <2>1. <<>> \in Seq({})
    OBVIOUS
  <2>2. QED
    BY <2>1 DEF IsSequence
<1>2. PICK d : d = <<>>
  OBVIOUS
<1>3. IsSequence(d) /\ \A i : i \notin 1..Len(d)
  BY <1>1, <1>2
<1>4. Regular(d)
  BY <1>3 DEF Regular
<1>5. Releases(d) = {}
  BY <1>3, ReleasesAre
<1>6. Unreleased(d) = 0
  BY <1>3, UnreleasedIs
<1>7. Pending(d) = {}
  BY <1>6 DEF Pending
<1>8. QED
  BY <1>2, <1>4, <1>5, <1>7

\* What is written over nothing is what the file then holds.
LEMMA FilledIs ==
  ASSUME NEW b, IsSequence(b), NEW d, d = <<>>
  PROVE  b \o SubSeq(d, Len(b) + 1, Len(d)) = b
<1>1. PICK S : b \in Seq(S)
  BY DEF IsSequence
<1>2. PICK q : q = SubSeq(d, Len(b) + 1, Len(d))
  OBVIOUS
<1>3. q = <<>>
  BY <1>1, <1>2
<1>4. b \o <<>> = b
  BY <1>1
<1>5. QED
  BY <1>2, <1>3, <1>4

LEMMA LedgerStep ==
  ASSUME AllNumbers, LinesInv, LedgerInv, [Next]_vars, apart'
  PROVE  Sound(file', jobs') /\ Entered(HeldIn(file, jobs), HeldIn(file', jobs'))
<1>1. DOMAIN jobs = Commands /\ \A c \in Commands : Works(c)
  BY DEF LinesInv
<1>2. \A c \in Commands : IsJob(jobs[c])
  BY <1>1 DEF Works
<1>3. apart => Sound(file, jobs)
  BY DEF LedgerInv
<1>4. ASSUME apart, NEW c \in Commands, jobs[c].phase # "idle" PROVE OnlyAt(jobs, c)
  BY <1>1, <1>3, <1>4 DEF Sound, OnlyAt
<1>5. \A d : Entered(d, d)
  BY DEF Entered
<1>6. CASE UNCHANGED <<file, jobs, apart>>
  BY <1>3, <1>5, <1>6
<1>7. ASSUME apart, NEW c \in Commands, jobs[c].phase # "idle",
             jobs' = [jobs EXCEPT ![c] = Idle], file' = file
      PROVE  Sound(file', jobs') /\ Entered(HeldIn(file, jobs), HeldIn(file', jobs'))
  <2>1. OnlyAt(jobs, c)
    BY <1>4, <1>7
  <2>2. PICK k : k = jobs'
    OBVIOUS
  <2>3. OnlyAt(k, c) /\ k[c] = Idle
    <3>1. Turns(jobs, c, Idle, k)
      BY <1>7, <2>2 DEF Turns
    <3>2. QED
      BY <2>1, <3>1, OnlyStays
  <2>4. k[c].phase = "idle"
    BY <2>3 DEF Idle
  <2>5. Sound(file, k)
    BY <1>3, <1>7, <2>3, <2>4, SoundOnly DEF Sound
  <2>6. HeldIn(file, k) = file
    BY <2>3, <2>4, HeldOnly
  <2>7. HeldIn(file, jobs) = file \/ file = <<>>
    BY <1>3, <1>7, <2>1, HeldOnly DEF Sound
  <2>8. Entered(HeldIn(file, jobs), HeldIn(file, k))
    <3>1. CASE HeldIn(file, jobs) = file
      BY <1>5, <2>6, <3>1
    <3>2. CASE file = <<>>
      BY <2>6, <3>2, NothingHeld DEF Entered
    <3>3. QED
      BY <2>7, <3>1, <3>2
  <2>9. QED
    BY <1>7, <2>2, <2>5, <2>8
<1>8. ASSUME NEW c \in Commands, Read(c)
      PROVE  Sound(file', jobs') /\ Entered(HeldIn(file, jobs), HeldIn(file', jobs'))
  <2>1. apart /\ file' = file /\ \A x \in Commands : jobs[x].phase = "idle"
    BY <1>8 DEF Read
  <2>2. PICK req \in Requests[c] :
          jobs' = [jobs EXCEPT ![c] = [phase |-> "read", req |-> req, day |-> DayFor(req),
                                       src |-> file, out |-> <<>>, said |-> Nothing]]
    BY <1>8 DEF Read
  <2>3. PICK new : new = [phase |-> "read", req |-> req, day |-> DayFor(req), src |-> file,
                          out |-> <<>>, said |-> Nothing]
    OBVIOUS
  <2>4. new.phase = "read" /\ new.src = file
    BY <2>3
  <2>5. OnlyAt(jobs, c)
    BY <1>1, <2>1 DEF OnlyAt
  <2>6. PICK k : k = jobs'
    OBVIOUS
  <2>7. OnlyAt(k, c) /\ k[c] = new
    <3>1. Turns(jobs, c, new, k)
      BY <2>2, <2>3, <2>6 DEF Turns
    <3>2. QED
      BY <2>5, <3>1, OnlyStays
  <2>8. Sound(file, k)
    <3>1. Regular(file)
      BY <1>3, <2>1 DEF Sound
    <3>2. QED
      BY <2>4, <2>7, <3>1, SoundOnly
  <2>9. HeldIn(file, k) = file /\ HeldIn(file, jobs) = file
    BY <2>1, <2>4, <2>5, <2>7, HeldOnly
  <2>10. QED
    BY <1>5, <2>1, <2>6, <2>8, <2>9
<1>9. ASSUME NEW c \in Commands, Refuse(c)
      PROVE  Sound(file', jobs') /\ Entered(HeldIn(file, jobs), HeldIn(file', jobs'))
  BY <1>7, <1>9 DEF Refuse
<1>10. ASSUME NEW c \in Commands, Open(c)
       PROVE  Sound(file', jobs') /\ Entered(HeldIn(file, jobs), HeldIn(file', jobs'))
  <2>1. PICK j : j = jobs[c]
    OBVIOUS
  <2>2. PICK out \in Edited(j.req, j.day, j.src) :
          jobs' = [jobs EXCEPT ![c].phase = "opened", ![c].out = out]
    BY <1>10, <2>1 DEF Open
  <2>3. apart /\ j.phase = "read" /\ file' = <<>>
    BY <1>10, <2>1 DEF Open
  <2>4. j.req \in Requests[c] /\ j.src = file /\ Regular(file)
    BY <1>1, <1>3, <2>1, <2>3 DEF Works, Sound
  <2>5. Regular(out) /\ Entered(file, out)
    BY <2>2, <2>4, EditEnters
  <2>6. PICK new : new = [phase |-> "opened", req |-> j.req, day |-> j.day, src |-> j.src,
                          out |-> out, said |-> j.said]
    OBVIOUS
  <2>7. jobs' = [jobs EXCEPT ![c] = new]
    <3>1. jobs' = [jobs EXCEPT ![c] = [jobs[c] EXCEPT !.phase = "opened", !.out = out]]
      BY <2>2
    <3>2. [j EXCEPT !.phase = "opened", !.out = out] = new
      BY <1>2, <2>1, <2>6, JobSteps
    <3>3. QED
      BY <2>1, <3>1, <3>2
  <2>8. new.phase = "opened" /\ new.out = out
    BY <2>6
  <2>9. OnlyAt(jobs, c)
    BY <1>4, <2>1, <2>3
  <2>10. PICK k : k = jobs'
    OBVIOUS
  <2>11. OnlyAt(k, c) /\ k[c] = new
    <3>1. Turns(jobs, c, new, k)
      BY <2>7, <2>10 DEF Turns
    <3>2. QED
      BY <2>9, <3>1, OnlyStays
  <2>12. Sound(<<>>, k)
    BY <2>5, <2>8, <2>11, NothingHeld, SoundOnly
  <2>13. HeldIn(<<>>, k) = out
    BY <2>8, <2>11, HeldOnly
  <2>14. HeldIn(file, jobs) = file
    BY <2>1, <2>3, <2>9, HeldOnly
  <2>15. QED
    BY <2>3, <2>5, <2>10, <2>12, <2>13, <2>14
<1>11. ASSUME NEW c \in Commands, Write(c)
       PROVE  Sound(file', jobs') /\ Entered(HeldIn(file, jobs), HeldIn(file', jobs'))
  <2>1. PICK j : j = jobs[c]
    OBVIOUS
  <2>2. apart /\ j.phase = "opened" /\ file' = j.out \o SubSeq(file, Len(j.out) + 1, Len(file))
        /\ jobs' = [jobs EXCEPT ![c].phase = "written"]
    BY <1>11, <2>1 DEF Write
  <2>3. file = <<>> /\ Regular(j.out)
    BY <1>3, <2>1, <2>2 DEF Sound
  <2>4. file' = j.out
    BY <2>2, <2>3, FilledIs DEF Regular
  <2>5. PICK new : new = [phase |-> "written", req |-> j.req, day |-> j.day, src |-> j.src,
                          out |-> j.out, said |-> j.said]
    OBVIOUS
  <2>6. jobs' = [jobs EXCEPT ![c] = new]
    <3>1. jobs' = [jobs EXCEPT ![c] = [jobs[c] EXCEPT !.phase = "written"]]
      BY <2>2
    <3>2. [j EXCEPT !.phase = "written"] = new
      BY <1>2, <2>1, <2>5, JobSteps
    <3>3. QED
      BY <2>1, <3>1, <3>2
  <2>7. new.phase = "written"
    BY <2>5
  <2>8. OnlyAt(jobs, c)
    BY <1>4, <2>1, <2>2
  <2>9. PICK k : k = jobs'
    OBVIOUS
  <2>10. OnlyAt(k, c) /\ k[c] = new
    <3>1. Turns(jobs, c, new, k)
      BY <2>6, <2>9 DEF Turns
    <3>2. QED
      BY <2>8, <3>1, OnlyStays
  <2>11. Sound(j.out, k)
    BY <2>3, <2>7, <2>10, SoundOnly
  <2>12. HeldIn(j.out, k) = j.out
    BY <2>7, <2>10, HeldOnly
  <2>13. HeldIn(file, jobs) = j.out
    BY <2>1, <2>2, <2>8, HeldOnly
  <2>14. QED
    BY <1>5, <2>4, <2>9, <2>11, <2>12, <2>13
<1>12. ASSUME NEW c \in Commands, Return(c)
       PROVE  Sound(file', jobs') /\ Entered(HeldIn(file, jobs), HeldIn(file', jobs'))
  <2>1. PICK j : j = jobs[c]
    OBVIOUS
  <2>2. apart /\ j.phase = "written" /\ file' = file
    BY <1>12, <2>1 DEF Return
  <2>3. PICK new : new = [phase |-> "returned", req |-> j.req, day |-> j.day, src |-> j.src,
                          out |-> j.out, said |-> Report(c)]
    OBVIOUS
  <2>4. jobs' = [jobs EXCEPT ![c] = new]
    <3>1. jobs' = [jobs EXCEPT ![c] = [jobs[c] EXCEPT !.phase = "returned", !.said = Report(c)]]
      BY <1>12 DEF Return
    <3>2. [j EXCEPT !.phase = "returned", !.said = Report(c)] = new
      BY <1>2, <2>1, <2>3, JobSteps
    <3>3. QED
      BY <2>1, <3>1, <3>2
  <2>5. new.phase = "returned"
    BY <2>3
  <2>6. OnlyAt(jobs, c)
    BY <1>4, <2>1, <2>2
  <2>7. PICK k : k = jobs'
    OBVIOUS
  <2>8. OnlyAt(k, c) /\ k[c] = new
    <3>1. Turns(jobs, c, new, k)
      BY <2>4, <2>7 DEF Turns
    <3>2. QED
      BY <2>6, <3>1, OnlyStays
  <2>9. Regular(file)
    BY <1>3, <2>2 DEF Sound
  <2>10. Sound(file, k)
    BY <2>5, <2>8, <2>9, SoundOnly
  <2>11. HeldIn(file, k) = file /\ HeldIn(file, jobs) = file
    BY <2>1, <2>2, <2>5, <2>6, <2>8, HeldOnly
  <2>12. QED
    BY <1>5, <2>2, <2>7, <2>10, <2>11
<1>13. ASSUME NEW c \in Commands, End(c)
       PROVE  Sound(file', jobs') /\ Entered(HeldIn(file, jobs), HeldIn(file', jobs'))
  BY <1>7, <1>13 DEF End
<1>14. CASE Tick \/ UNCHANGED vars
  BY <1>6, <1>14 DEF Tick, vars
<1>15. QED
  BY <1>8, <1>9, <1>10, <1>11, <1>12, <1>13, <1>14 DEF Next

\* The ledger's precedence is that of the versions.
LEMMA BookCompares ==
  \A v, w : Book!Compare(v, w) = Compare(v, w)
<1>1. \A a, b : Book!Cmp(a, b) = Cmp(a, b)
  BY DEF Book!Cmp, Cmp
<1>2. \A s, t : Book!Shared(s, t) = Shared(s, t)
  BY DEF Book!Shared, Shared
<1>3. \A id : Book!AllDigits(id) = AllDigits(id)
  BY DEF Book!AllDigits, AllDigits
<1>4. \A c, m, n : Book!Decide(c, m, n) = Decide(c, m, n)
  BY <1>1 DEF Book!Decide, Decide
<1>5. \A a, b : Book!CompareText(a, b) = CompareText(a, b)
  BY <1>1, <1>2, <1>4 DEF Book!CompareText, CompareText
<1>6. \A a, b : Book!CompareIdent(a, b) = CompareIdent(a, b)
  BY <1>1, <1>3, <1>5 DEF Book!CompareIdent, CompareIdent
<1>7. \A a, b : Book!ComparePre(a, b) = ComparePre(a, b)
  BY <1>2, <1>4, <1>6 DEF Book!ComparePre, ComparePre
<1>8. QED
  BY <1>1, <1>7 DEF Book!Compare, Compare

\* What waits in the document d and what was made of it; nothing where nothing is promised.
Waits(promised, d) == IF promised THEN Pending(d) ELSE {}
Made(promised, d) == IF promised THEN Releases(d) ELSE {}

\* One step of the ledger, from what waits and what was made to what does and is.
Posted(p, r, q, s) ==
  \/ q = p /\ s = r
  \/ \E note \in Brought : q = p \cup note /\ s = r
  \/ /\ p # {} /\ q = {}
     /\ \E v \in Numbers : /\ \A x \in r : Compare(v, x.ver) > 0
                           /\ s = r \cup {[ver |-> v, lines |-> p]}
  \/ q = {} /\ s = {}

LEMMA LedgerSteps ==
  ASSUME AllNumbers, LinesInv, LedgerInv, [Next]_vars
  PROVE  /\ LedgerInv'
         /\ Posted(Waits(apart, Held), Made(apart, Held), Waits(apart, Held)', Made(apart, Held)')
<1>1. Held = HeldIn(file, jobs) /\ Held' = HeldIn(file', jobs')
  BY DEF Held, HeldIn
<1>2. CASE apart'
  <2>1. apart
    BY <1>2 DEF Next, vars, Tick, Read, Refuse, Open, Write, Return, End
  <2>2. Sound(file', jobs') /\ Entered(HeldIn(file, jobs), HeldIn(file', jobs'))
    BY <1>2, LedgerStep
  <2>3. PICK d, e : d = HeldIn(file, jobs) /\ e = HeldIn(file', jobs')
    OBVIOUS
  <2>4. Posted(Pending(d), Releases(d), Pending(e), Releases(e))
    BY <2>2, <2>3 DEF Entered, Cutting, Posted
  <2>5. /\ Waits(apart, Held) = Pending(d) /\ Made(apart, Held) = Releases(d)
        /\ Waits(apart, Held)' = Pending(e) /\ Made(apart, Held)' = Releases(e)
    BY <1>1, <1>2, <2>1, <2>3 DEF Waits, Made
  <2>6. LedgerInv'
    BY <2>2 DEF LedgerInv
  <2>7. QED
    BY <2>4, <2>5, <2>6
<1>3. CASE ~apart'
  <2>1. Waits(apart, Held)' = {} /\ Made(apart, Held)' = {}
    BY <1>3 DEF Waits, Made
  <2>2. LedgerInv'
    BY <1>3 DEF LedgerInv
  <2>3. QED
    BY <2>1, <2>2 DEF Posted
<1>4. QED
  BY <1>2, <1>3

\* README.md:377-380 and edit.go:218: commands that run one after another keep the ledger,
\* in a changelog of any length, for notes of any length and any versions: append adds its
\* note to what waits or leaves all as it is, and release moves all that waits under a
\* version above every one before and leaves every release before as it is.
THEOREM WritersKeepTheLedger ==
  ASSUME AllNumbers, \A d \in StartDocs : Regular(d) /\ Pending(d) \subseteq UNION Brought
  PROVE  Spec => KeepsTheLedger
<1>1. Init => LedgerInv /\ Book!Init
  <2>1. SUFFICES ASSUME Init PROVE LedgerInv /\ Book!Init
    OBVIOUS
  <2>2. file \in StartDocs /\ apart /\ \A c \in Commands : jobs[c].phase = "idle"
    BY <2>1 DEF Init, Idle
  <2>3. Regular(file) /\ Pending(file) \subseteq UNION Brought
    BY <2>2
  <2>4. Held = file
    BY <2>2 DEF Held
  <2>5. \A r \in Releases(file) : r.ver \in Numbers
    <3>1. TAKE r \in Releases(file)
    <3>2. IsSequence(file) /\ \A i \in 1..Len(file) : file[i].kind = "version" => file[i].ver \in Numbers
      BY <2>3 DEF Regular
    <3>3. PICK h \in 1..Len(file) : file[h].kind = "version"
                                    /\ r = [ver |-> file[h].ver, lines |-> LinesUnder(file, h)]
      BY <3>2, ReleasesAre
    <3>4. QED
      BY <3>2, <3>3
  <2>6. LedgerInv
    BY <2>2, <2>3 DEF LedgerInv, Sound
  <2>7. Book!Init
    BY <2>2, <2>3, <2>4, <2>5 DEF Book!Init
  <2>8. QED
    BY <2>6, <2>7
<1>2. LinesInv /\ LedgerInv /\ [Next]_vars
        => LedgerInv' /\ [Book!Add \/ Book!Cut \/ Book!Lose]_(Book!ledger)
  <2>1. SUFFICES ASSUME LinesInv, LedgerInv, [Next]_vars
                 PROVE  LedgerInv' /\ [Book!Add \/ Book!Cut \/ Book!Lose]_(Book!ledger)
    OBVIOUS
  <2>2. LedgerInv'
        /\ Posted(Waits(apart, Held), Made(apart, Held), Waits(apart, Held)', Made(apart, Held)')
    BY <2>1, LedgerSteps
  <2>3. PICK p, r, q, s : /\ p = Waits(apart, Held) /\ r = Made(apart, Held)
                          /\ q = Waits(apart, Held)' /\ s = Made(apart, Held)'
    OBVIOUS
  <2>4. /\ p = (IF apart THEN Pending(Held) ELSE {}) /\ r = (IF apart THEN Releases(Held) ELSE {})
        /\ q = (IF apart THEN Pending(Held) ELSE {})' /\ s = (IF apart THEN Releases(Held) ELSE {})'
    BY <2>3 DEF Waits, Made
  <2>5. Posted(p, r, q, s)
    BY <2>2, <2>3
  <2>6. CASE q = p /\ s = r
    <3>1. UNCHANGED Book!ledger
      BY <2>4, <2>6 DEF Book!ledger
    <3>2. QED
      BY <2>2, <3>1
  <2>7. CASE \E note \in Brought : q = p \cup note /\ s = r
    <3>1. Book!Add
      BY <2>4, <2>7 DEF Book!Add
    <3>2. QED
      BY <2>2, <3>1
  <2>8. ASSUME p # {}, q = {}, NEW v \in Numbers, \A x \in r : Compare(v, x.ver) > 0,
               s = r \cup {[ver |-> v, lines |-> p]}
        PROVE  [Book!Add \/ Book!Cut \/ Book!Lose]_(Book!ledger)
    <3>1. \A x \in r : Book!Compare(v, x.ver) > 0
      BY <2>8, BookCompares
    <3>2. Book!Cut
      BY <2>4, <2>8, <3>1 DEF Book!Cut
    <3>3. QED
      BY <3>2
  <2>9. CASE q = {} /\ s = {}
    <3>1. Book!Lose
      BY <2>4, <2>9 DEF Book!Lose
    <3>2. QED
      BY <2>2, <3>1
  <2>10. QED
    BY <2>2, <2>5, <2>6, <2>7, <2>8, <2>9 DEF Posted
<1>3. QED
  BY <1>1, <1>2, LinesInit, LinesStep, PTL DEF Spec, KeepsTheLedger, Book!Spec

-----------------------------------------------------------------------------
(* What release reports                                                    *)

\* Line k is of the entry at h, as the parser reads it.
Within(d, h, k) ==
  k \in 1..Len(d) /\ h < k /\ \A i \in (h + 1)..k : d[i].kind \notin Kinds

Content(d, h) == {k \in 1..Len(d) : Within(d, h, k) /\ d[k].kind # "ref"}

LEMMA WithinIs ==
  ASSUME NEW d, IsSequence(d), NEW h \in 1..Len(d), NEW a, a = After(At(d, Kinds), h, d)
  PROVE  \A k : k \in (h + 1)..(a - 1) <=> Within(d, h, k)
<1>1. PICK S : S = At(d, Kinds)
  OBVIOUS
<1>3. Len(d) \in Nat /\ h \in Nat /\ S \in SUBSET Nat
      /\ \A i : i \in S <=> i \in 1..Len(d) /\ d[i].kind \in Kinds
  <2>1. Len(d) \in Nat /\ \A i : i \in S <=> i \in 1..Len(d) /\ d[i].kind \in Kinds
    BY <1>1, SequenceIs DEF At
  <2>2. QED
    BY <2>1
<1>4. a = After(S, h, d)
  BY <1>1
<1>5. \/ a \in S /\ h < a /\ \A j \in S : h < j => a <= j
      \/ a = Len(d) + 1 /\ \A j \in S : j <= h
  BY <1>3, <1>4, AfterIs
<1>6. a \in Nat /\ a <= Len(d) + 1
  BY <1>3, <1>5
<1>7. ASSUME NEW k \in (h + 1)..(a - 1) PROVE Within(d, h, k)
  <2>1. k \in 1..Len(d) /\ h < k
    BY <1>3, <1>6
  <2>2. ASSUME NEW i \in (h + 1)..k, d[i].kind \in Kinds PROVE FALSE
    <3>1. i \in S /\ h < i /\ i < a
      BY <1>3, <1>6, <2>1, <2>2
    <3>2. QED
      BY <1>3, <1>5, <1>6, <3>1
  <2>3. QED
    BY <2>1, <2>2 DEF Within
<1>8. ASSUME NEW k, Within(d, h, k) PROVE k \in (h + 1)..(a - 1)
  <2>1. k \in 1..Len(d) /\ h < k /\ \A i \in (h + 1)..k : d[i].kind \notin Kinds
    BY <1>8 DEF Within
  <2>2. SUFFICES ASSUME a <= k PROVE FALSE
    BY <1>3, <1>6, <2>1
  <2>3. a \in S /\ h < a
    BY <1>3, <1>5, <2>1, <2>2
  <2>4. a \in (h + 1)..k /\ d[a].kind \in Kinds
    BY <1>3, <1>6, <2>2, <2>3
  <2>5. QED
    BY <2>1, <2>4
<1>9. QED
  BY <1>7, <1>8

LEMMA BodyIs ==
  ASSUME NEW d, IsSequence(d), NEW h \in 1..Len(d)
  PROVE  Body(d, h) = IF Content(d, h) = {} THEN Empty
                      ELSE SubSeq(d, Least(Content(d, h)), Greatest(Content(d, h)))
<1>1. PICK a : a = After(At(d, Kinds), h, d)
  OBVIOUS
<1>9. PICK C : C = {k \in (h + 1)..(a - 1) : d[k].kind # "ref"}
  OBVIOUS
<1>10. PICK D : D = Content(d, h)
  OBVIOUS
<1>11. C = D
  <2>1. \A k : k \in D <=> k \in 1..Len(d) /\ Within(d, h, k) /\ d[k].kind # "ref"
    BY <1>10 DEF Content
  <2>2. \A k : k \in C <=> Within(d, h, k) /\ d[k].kind # "ref"
    BY <1>1, <1>9, WithinIs
  <2>3. \A k : Within(d, h, k) => k \in 1..Len(d)
    BY DEF Within
  <2>4. \A k : k \in C <=> k \in D
    BY <2>1, <2>2, <2>3
  <2>5. QED
    BY <2>4
<1>12. Body(d, h) = IF C = {} THEN Empty ELSE SubSeq(d, Least(C), Greatest(C))
  BY <1>1, <1>9 DEF Body
<1>13. QED
  BY <1>10, <1>11, <1>12

\* Lines g + 1 to n of d stand in e, z lines off, and what is below is definitions.
Carried(d, g, n, e, z) ==
  /\ IsSequence(d) /\ IsSequence(e) /\ z \in Int /\ g \in 1..Len(d) /\ g + z \in 1..Len(e)
  /\ n \in g..Len(d) /\ n + z <= Len(e)
  /\ \A i \in (g + 1)..n : e[i + z] = d[i]
  /\ \A k \in (n + 1)..Len(d) : d[k].kind = "ref"
  /\ \A k \in (n + z + 1)..Len(e) : e[k].kind = "ref"

\* One direction of what follows.
LEMMA ContentCarried ==
  ASSUME NEW d, NEW g, NEW n, NEW e, NEW z, Carried(d, g, n, e, z), NEW k \in Content(d, g)
  PROVE  k \in (g + 1)..n /\ k + z \in Content(e, g + z)
<1>1. /\ IsSequence(d) /\ IsSequence(e) /\ z \in Int /\ g \in 1..Len(d) /\ g + z \in 1..Len(e)
      /\ n \in g..Len(d) /\ n + z <= Len(e)
      /\ \A i \in (g + 1)..n : e[i + z] = d[i]
      /\ \A j \in (n + 1)..Len(d) : d[j].kind = "ref"
  BY DEF Carried
<1>2. Len(d) \in Nat /\ Len(e) \in Nat
  BY <1>1, SequenceIs
<1>3. /\ k \in 1..Len(d) /\ g < k /\ d[k].kind # "ref"
      /\ \A i \in (g + 1)..k : d[i].kind \notin Kinds
  BY DEF Content, Within
<1>4. k <= n
  BY <1>1, <1>2, <1>3
<1>5. PICK l : l = k + z
  OBVIOUS
<1>6. PICK h : h = g + z
  OBVIOUS
<1>7. l \in 1..Len(e) /\ h < l /\ h \in 1..Len(e)
  BY <1>1, <1>2, <1>3, <1>4, <1>5, <1>6
<1>8. e[l] = d[k]
  BY <1>1, <1>2, <1>3, <1>4, <1>5
<1>9. ASSUME NEW i \in (h + 1)..l PROVE e[i].kind \notin Kinds
  <2>1. i - z \in (g + 1)..n /\ i - z \in (g + 1)..k /\ (i - z) + z = i
    BY <1>1, <1>2, <1>3, <1>4, <1>5, <1>6
  <2>2. e[i] = d[i - z]
    BY <1>1, <2>1
  <2>3. QED
    BY <1>3, <2>1, <2>2
<1>10. Within(e, h, l)
  BY <1>7, <1>9 DEF Within
<1>11. l \in Content(e, h)
  BY <1>3, <1>7, <1>8, <1>10 DEF Content
<1>12. QED
  BY <1>1, <1>2, <1>3, <1>4, <1>5, <1>6, <1>11

\* It is carried back as well.
LEMMA CarriedBack ==
  ASSUME NEW d, NEW g, NEW n, NEW e, NEW z, Carried(d, g, n, e, z), NEW y, y = -z
  PROVE  Carried(e, g + z, n + z, d, y)
<1>1. /\ IsSequence(d) /\ IsSequence(e) /\ z \in Int /\ g \in 1..Len(d) /\ g + z \in 1..Len(e)
      /\ n \in g..Len(d) /\ n + z <= Len(e)
      /\ \A i \in (g + 1)..n : e[i + z] = d[i]
      /\ \A j \in (n + 1)..Len(d) : d[j].kind = "ref"
      /\ \A j \in (n + z + 1)..Len(e) : e[j].kind = "ref"
  BY DEF Carried
<1>2. Len(d) \in Nat /\ Len(e) \in Nat
  BY <1>1, SequenceIs
<1>3. PICK h, m : h = g + z /\ m = n + z
  OBVIOUS
<1>4. h + y = g /\ m + y = n /\ m \in h..Len(e) /\ y \in Int /\ h \in 1..Len(e)
  BY <1>1, <1>2, <1>3
<1>5. ASSUME NEW i \in (h + 1)..m PROVE d[i + y] = e[i]
  <2>1. i + y \in (g + 1)..n /\ (i + y) + z = i
    BY <1>1, <1>2, <1>3, <1>4
  <2>2. QED
    BY <1>1, <2>1
<1>6. \A k \in (m + y + 1)..Len(d) : d[k].kind = "ref"
  BY <1>1, <1>4
<1>7. \A k \in (m + 1)..Len(e) : e[k].kind = "ref"
  BY <1>1, <1>3
<1>8. Carried(e, h, m, d, y)
  BY <1>1, <1>2, <1>4, <1>5, <1>6, <1>7 DEF Carried
<1>9. QED
  BY <1>3, <1>8

\* A section of the entry at h has the name x.
Names(d, h, x) == \E k \in Content(d, h) : d[k].kind = "section" /\ d[k].name = x

\* The entry at h of e has the body and the sections of that at g of d.
Kept(d, g, e, h) == Body(e, h) = Body(d, g) /\ \A x : Names(e, h, x) <=> Names(d, g, x)

\* The names of the sections go with the lines of an entry.
LEMMA NamesCarried ==
  ASSUME NEW d, NEW g, NEW n, NEW e, NEW z, Carried(d, g, n, e, z), NEW h, h = g + z,
         NEW x, Names(d, g, x)
  PROVE  Names(e, h, x)
<1>1. PICK k \in Content(d, g) : d[k].kind = "section" /\ d[k].name = x
  BY DEF Names
<1>2. k \in (g + 1)..n /\ k + z \in Content(e, g + z)
  BY <1>1, ContentCarried
<1>3. e[k + z] = d[k]
  BY <1>2 DEF Carried
<1>4. QED
  BY <1>1, <1>2, <1>3 DEF Names

\* The body of an entry goes with its lines.
LEMMA BodyCarried ==
  ASSUME NEW d, NEW g, NEW n, NEW e, NEW z, Carried(d, g, n, e, z), NEW h, h = g + z
  PROVE  Body(e, h) = Body(d, g)
<1>1. /\ IsSequence(d) /\ IsSequence(e) /\ z \in Int /\ g \in 1..Len(d) /\ h \in 1..Len(e)
      /\ n \in g..Len(d) /\ n + z <= Len(e)
      /\ \A i \in (g + 1)..n : e[i + z] = d[i]
  BY DEF Carried
<1>2. Len(d) \in Nat /\ Len(e) \in Nat
  BY <1>1, SequenceIs
<1>3. PICK y \in Int : y = -z
  BY <1>1
<1>4. Carried(e, h, n + z, d, y)
  BY <1>3, CarriedBack
<1>5. PICK C : C = Content(d, g)
  OBVIOUS
<1>6. PICK D : D = Content(e, h)
  OBVIOUS
<1>7. \A k \in C : k \in (g + 1)..n /\ k + z \in D
  BY <1>5, <1>6, ContentCarried
<1>8. \A k \in D : k \in Int /\ k + y \in C
  <2>1. TAKE k \in D
  <2>2. k + y \in Content(d, h + y)
    BY <1>4, <1>6, ContentCarried
  <2>3. h + y = g
    BY <1>1, <1>3
  <2>4. k \in 1..Len(e)
    BY <1>6 DEF Content
  <2>5. QED
    BY <1>5, <2>2, <2>3, <2>4
<1>9. /\ Body(d, g) = IF C = {} THEN Empty ELSE SubSeq(d, Least(C), Greatest(C))
      /\ Body(e, h) = IF D = {} THEN Empty ELSE SubSeq(e, Least(D), Greatest(D))
  BY <1>1, <1>5, <1>6, BodyIs
<1>10. CASE C = {}
  <2>1. D = {}
    BY <1>8, <1>10
  <2>2. QED
    BY <1>9, <1>10, <2>1
<1>11. CASE C # {}
  <2>1. D # {}
    BY <1>7, <1>11
  <2>2. C \in SUBSET Nat /\ C \in SUBSET (1..Len(d)) /\ D \in SUBSET Nat /\ D \in SUBSET (1..Len(e))
    <3>1. \A k \in C : k \in 1..Len(d) /\ k \in Nat
      BY <1>2, <1>5 DEF Content
    <3>2. \A k \in D : k \in 1..Len(e) /\ k \in Nat
      BY <1>2, <1>6 DEF Content
    <3>3. QED
      BY <3>1, <3>2
  <2>3. PICK l, m, p, q : l = Least(C) /\ m = Greatest(C) /\ p = Least(D) /\ q = Greatest(D)
    OBVIOUS
  <2>4. l \in C /\ p \in D /\ (\A i \in C : l <= i) /\ (\A i \in D : p <= i)
    BY <1>11, <2>1, <2>2, <2>3, LeastPosition
  <2>5. m \in C /\ q \in D /\ (\A i \in C : i <= m) /\ (\A i \in D : i <= q)
    BY <1>2, <1>11, <2>1, <2>2, <2>3, GreatestPosition
  <2>6. p = l + z
    <3>1. l + z \in D /\ p + y \in C
      BY <1>7, <1>8, <2>4
    <3>2. p <= l + z /\ l <= p + y
      BY <2>4, <3>1
    <3>3. QED
      BY <1>1, <1>3, <2>2, <2>4, <3>2
  <2>7. q = m + z
    <3>1. m + z \in D /\ q + y \in C
      BY <1>7, <1>8, <2>5
    <3>2. m + z <= q /\ q + y <= m
      BY <2>5, <3>1
    <3>3. QED
      BY <1>1, <1>3, <2>2, <2>5, <3>2
  <2>8. PICK b : b = SubSeq(d, l, m)
    OBVIOUS
  <2>9. l \in 1..Len(d) /\ m \in 1..Len(d) /\ l <= m /\ l \in (g + 1)..n /\ m \in (g + 1)..n
    BY <1>7, <2>2, <2>4, <2>5
  <2>10. IsSequence(b) /\ Len(b) = m - l + 1 /\ \A i \in 1..Len(b) : b[i] = d[l + i - 1]
    <3>1. PICK S : d \in Seq(S)
      BY <1>1 DEF IsSequence
    <3>2. b \in Seq(S) /\ Len(b) = m - l + 1 /\ \A i \in 1..(m - l + 1) : b[i] = d[l + i - 1]
      BY <1>2, <2>8, <2>9, <3>1
    <3>3. QED
      BY <3>2 DEF IsSequence
  <2>11. PICK k : k = p - 1
    OBVIOUS
  <2>12. k \in 0..Len(e) /\ k + Len(b) <= Len(e) /\ k + 1 = p /\ k + Len(b) = q
    BY <1>1, <1>2, <2>2, <2>4, <2>5, <2>6, <2>7, <2>9, <2>10, <2>11
  <2>13. \A i \in 1..Len(b) : e[k + i] = b[i]
    <3>1. TAKE i \in 1..Len(b)
    <3>2. PICK j : j = l + i - 1
      OBVIOUS
    <3>3. j \in (g + 1)..n /\ j + z = k + i
      BY <1>1, <1>2, <2>6, <2>9, <2>10, <2>11, <3>2
    <3>4. e[j + z] = d[j]
      BY <1>1, <3>3
    <3>5. QED
      BY <2>10, <3>2, <3>3, <3>4
  <2>14. SubSeq(e, p, q) = b
    BY <1>1, <2>10, <2>12, <2>13, StandTogether
  <2>15. QED
    BY <1>9, <1>11, <2>1, <2>3, <2>8, <2>14
<1>12. QED
  BY <1>10, <1>11

LEMMA EntryCarried ==
  ASSUME NEW d, NEW g, NEW n, NEW e, NEW z, Carried(d, g, n, e, z), NEW h, h = g + z
  PROVE  Kept(d, g, e, h)
<1>1. Body(e, h) = Body(d, g)
  BY BodyCarried
<1>2. z \in Int /\ g \in Int
  BY DEF Carried
<1>3. PICK y, m : y = -z /\ m = n + z
  OBVIOUS
<1>4. Carried(e, h, m, d, y) /\ g = h + y
  <2>1. Carried(e, g + z, n + z, d, y)
    BY <1>3, CarriedBack
  <2>2. QED
    BY <1>2, <1>3, <2>1
<1>5. \A x : Names(e, h, x) => Names(d, g, x)
  BY <1>4, NamesCarried
<1>6. \A x : Names(d, g, x) => Names(e, h, x)
  BY NamesCarried
<1>7. QED
  BY <1>1, <1>5, <1>6 DEF Kept

\* The links of a release leave the body and the sections of [Unreleased] as they are.
LEMMA RelinkedBody ==
  ASSUME NEW d, Regular(d), NEW r, NEW b, NEW e, Relinked(d, r, b, e),
         NEW u \in 1..Len(d), d[u].kind = "unreleased"
  PROVE  Kept(d, u, e, u)
<1>1. CASE e = d
  BY <1>1 DEF Kept
<1>2. CASE /\ r \in 1..Len(d) /\ d[r].kind = "ref" /\ Replaced(d, r, b, e)
           /\ IsSequence(b) /\ Len(b) = 2 /\ b[1].kind = "ref" /\ b[2].kind = "ref"
  <2>1. IsSequence(d) /\ \A i, j \in 1..Len(d) : i < j /\ d[i].kind = "ref" => d[j].kind = "ref"
    BY DEF Regular
  <2>2. Regular(e)
    BY RelinkedKeeps
  <2>3. /\ Len(d) \in Nat /\ IsSequence(e) /\ Len(e) = Len(d) + 1
        /\ (\A i \in 1..(r - 1) : e[i] = d[i]) /\ (\A i \in 1..Len(b) : e[r - 1 + i] = b[i])
    BY <1>2, <2>1, SequenceIs DEF Replaced
  <2>4. PICK n, z : n = r - 1 /\ z = 0
    OBVIOUS
  <2>5. u < r
    <3>1. u # r
      BY <1>2
    <3>2. ~(r < u)
      BY <1>2, <2>1
    <3>3. QED
      BY <1>2, <2>3, <3>1, <3>2
  <2>6. \A k \in (n + 1)..Len(d) : d[k].kind = "ref"
    <3>1. TAKE k \in (n + 1)..Len(d)
    <3>2. k \in 1..Len(d) /\ (k = r \/ r < k)
      BY <1>2, <2>3, <2>4
    <3>3. QED
      BY <1>2, <2>1, <3>2
  <2>7. r \in 1..Len(e) /\ e[r].kind = "ref"
    <3>1. 1 \in 1..Len(b) /\ r - 1 + 1 = r /\ r \in 1..Len(e)
      BY <1>2, <2>3
    <3>2. e[r - 1 + 1] = b[1]
      BY <2>3, <3>1
    <3>3. QED
      BY <1>2, <3>1, <3>2
  <2>8. \A k \in (n + z + 1)..Len(e) : e[k].kind = "ref"
    <3>1. TAKE k \in (n + z + 1)..Len(e)
    <3>2. k \in 1..Len(e) /\ (k = r \/ r < k)
      BY <1>2, <2>3, <2>4
    <3>3. QED
      BY <2>2, <2>7, <3>2 DEF Regular
  <2>9. \A i \in (u + 1)..n : e[i + z] = d[i]
    <3>1. TAKE i \in (u + 1)..n
    <3>2. i \in 1..(r - 1) /\ i + z = i
      BY <1>2, <2>3, <2>4
    <3>3. QED
      BY <2>3, <3>2
  <2>10. /\ z \in Int /\ u + z \in 1..Len(e) /\ n \in u..Len(d) /\ n + z <= Len(e) /\ u = u + z
    BY <1>2, <2>3, <2>4, <2>5
  <2>11. Carried(d, u, n, e, z)
    BY <2>1, <2>3, <2>6, <2>8, <2>9, <2>10 DEF Carried
  <2>12. QED
    BY <2>10, <2>11, EntryCarried
<1>3. QED
  BY <1>1, <1>2 DEF Relinked

\* The body and the sections that [Unreleased] had are those of the release, whose heading is the one line of
\* it that names a version and was not there.
LEMMA RenamedBody ==
  ASSUME NEW d, IsSequence(d), NEW u \in 1..Len(d), NEW b, Cuts(b), NEW e, Replaced(d, u, b, e),
         NEW w, w = u + 1
  PROVE  /\ IsSequence(e) /\ w \in 1..Len(e) /\ e[w] = b[2] /\ Kept(d, u, e, w)
         /\ \A h \in 1..Len(e) : e[h].kind = "version" /\ h # w => \E g \in 1..Len(d) : d[g] = e[h]
<1>1. Len(d) \in Nat /\ Len(b) = 2 /\ b[1].kind = "unreleased"
  BY SequenceIs DEF Cuts
<1>2. /\ IsSequence(e) /\ Len(e) = Len(d) + 1
      /\ (\A i \in 1..(u - 1) : e[i] = d[i]) /\ (\A i \in 1..2 : e[u - 1 + i] = b[i])
      /\ (\A i \in (u + 1)..Len(d) : e[i - 1 + 2] = d[i])
  BY <1>1 DEF Replaced
<1>3. e[w] = b[2] /\ e[u] = b[1] /\ w \in 1..Len(e)
  <2>1. u - 1 + 1 = u /\ u - 1 + 2 = w /\ 1 \in 1..2 /\ 2 \in 1..2
    BY <1>1
  <2>2. e[u - 1 + 1] = b[1] /\ e[u - 1 + 2] = b[2]
    BY <1>2, <2>1
  <2>3. QED
    BY <1>1, <1>2, <2>1, <2>2
<1>4. PICK n, z : n = Len(d) /\ z = 1
  OBVIOUS
<1>5. \A i \in (u + 1)..n : e[i + z] = d[i]
  <2>1. TAKE i \in (u + 1)..n
  <2>2. i \in (u + 1)..Len(d) /\ i - 1 + 2 = i + z
    BY <1>1, <1>4
  <2>3. QED
    BY <1>2, <2>2
<1>6. z \in Int /\ u + z = w /\ n \in u..Len(d) /\ n + z <= Len(e)
  BY <1>1, <1>2, <1>4
<1>7. (\A k \in (n + 1)..Len(d) : d[k].kind = "ref") /\ (\A k \in (n + z + 1)..Len(e) : e[k].kind = "ref")
  BY <1>1, <1>2, <1>4
<1>8. Carried(d, u, n, e, z)
  BY <1>2, <1>3, <1>5, <1>6, <1>7 DEF Carried
<1>9. Kept(d, u, e, w)
  BY <1>6, <1>8, EntryCarried
<1>10. ASSUME NEW h \in 1..Len(e), e[h].kind = "version", h # w PROVE \E g \in 1..Len(d) : d[g] = e[h]
  <2>1. h # u
    BY <1>1, <1>3, <1>10
  <2>2. CASE h < u
    <3>1. h \in 1..(u - 1) /\ h \in 1..Len(d)
      BY <1>1, <2>2
    <3>2. QED
      BY <1>2, <3>1
  <2>3. CASE h > w
    <3>1. h - 1 \in (u + 1)..Len(d) /\ h - 1 \in 1..Len(d) /\ h - 1 - 1 + 2 = h
      BY <1>1, <1>2, <2>3
    <3>2. e[h - 1 - 1 + 2] = d[h - 1]
      BY <1>2, <3>1
    <3>3. QED
      BY <3>1, <3>2
  <2>4. QED
    BY <1>1, <1>10, <2>1, <2>2, <2>3
<1>11. QED
  BY <1>2, <1>3, <1>9, <1>10

\* The entry that the parser finds for a position of one heading that names v, where no
\* other names it.
LEMMA FindIs ==
  ASSUME NEW e, IsSequence(e), NEW v \in Versions, NEW w \in 1..Len(e), e[w].kind = "version",
         e[w].ver = v,
         \A h \in 1..Len(e) : e[h].kind = "version" /\ h # w => Compare(e[h].ver, v) # 0
  PROVE  Find(Parse(e), v) # 0 /\ Parse(e)[Find(Parse(e), v)].body = Body(e, w)
<1>1. PICK doc : doc = Parse(e)
  OBVIOUS
<1>2. PICK heads : heads = Ascending(At(e, Kinds))
  OBVIOUS
<1>3. Parsed(e, heads, doc)
  BY <1>1, <1>2, ParseIs
<1>4. Len(heads) \in Nat /\ DOMAIN doc = 1..Len(heads)
  BY <1>3 DEF Parsed, Ascends
<1>5. w \in At(e, Kinds)
  BY SequenceIs DEF At, Kinds
<1>6. PICK n \in 1..Len(heads) : heads[n] = w
  BY <1>3, <1>5 DEF Parsed, Ascends
<1>7. PICK T : T = {i \in Released(doc) : Compare(doc[i].ver, v) = 0}
  OBVIOUS
<1>8. n \in T
  <2>1. doc[n].kind = "version" /\ doc[n].ver = v
    BY <1>3, <1>6 DEF Parsed
  <2>2. Compare(v, v) = 0
    BY VersionsOrdered
  <2>3. QED
    BY <1>4, <1>6, <1>7, <2>1, <2>2 DEF Released
<1>9. ASSUME NEW m \in T PROVE m = n
  <2>1. m \in 1..Len(heads) /\ doc[m].kind = "version" /\ Compare(doc[m].ver, v) = 0
    BY <1>4, <1>7 DEF Released
  <2>2. heads[m] \in 1..Len(e) /\ e[heads[m]].kind = "version" /\ e[heads[m]].ver = doc[m].ver
    BY <1>3, <2>1 DEF Parsed
  <2>3. heads[m] = w
    BY <2>1, <2>2
  <2>4. \A i \in 1..Len(heads) : heads[i] \in 1..Len(e)
    BY <1>3 DEF Parsed
  <2>5. \A i, k \in 1..Len(heads) : i < k => heads[i] < heads[k]
    BY <1>3 DEF Parsed, Ascends
  <2>6. ~(m < n) /\ ~(n < m)
    <3>1. ~(w < w)
      BY SequenceIs
    <3>2. QED
      BY <1>6, <2>1, <2>3, <2>5, <3>1
  <2>7. QED
    BY <1>4, <1>6, <2>1, <2>6
<1>10. T = {n}
  BY <1>8, <1>9
<1>11. Least(T) = n
  <2>1. T # {} /\ T \in SUBSET Nat
    BY <1>4, <1>10
  <2>2. Least(T) \in T
    BY <2>1, LeastPosition
  <2>3. QED
    BY <1>10, <2>2
<1>12. Find(doc, v) = n
  BY <1>7, <1>8, <1>11 DEF Find
<1>13. doc[n].body = Body(e, w)
  BY <1>3, <1>6 DEF Parsed
<1>14. QED
  BY <1>1, <1>4, <1>12, <1>13

\* The body of the first entry of a parsed document that is [Unreleased].
WaitingIn(doc) == doc[Least({i \in DOMAIN doc : doc[i].kind = "unreleased"})].body

LEMMA WaitingIs ==
  ASSUME NEW d, Regular(d), NEW u \in 1..Len(d), d[u].kind = "unreleased"
  PROVE  WaitingIn(Parse(d)) = Body(d, u)
<1>0. /\ IsSequence(d)
      /\ \A i, j \in 1..Len(d) : d[i].kind = "unreleased" /\ d[j].kind = "unreleased" => i = j
  BY DEF Regular
<1>1. PICK doc : doc = Parse(d)
  OBVIOUS
<1>2. PICK heads : heads = Ascending(At(d, Kinds))
  OBVIOUS
<1>3. Parsed(d, heads, doc)
  BY <1>0, <1>1, <1>2, ParseIs
<1>4. Len(heads) \in Nat /\ DOMAIN doc = 1..Len(heads)
  BY <1>3 DEF Parsed, Ascends
<1>5. u \in At(d, Kinds)
  BY <1>0, SequenceIs DEF At, Kinds
<1>6. PICK n \in 1..Len(heads) : heads[n] = u
  BY <1>3, <1>5 DEF Parsed, Ascends
<1>7. PICK S : S = {i \in DOMAIN doc : doc[i].kind = "unreleased"}
  OBVIOUS
<1>8. n \in S
  BY <1>3, <1>4, <1>6, <1>7 DEF Parsed
<1>9. S \in SUBSET Nat /\ \A i \in S : i \in 1..Len(heads) /\ doc[i].kind = "unreleased"
  BY <1>4, <1>7
<1>10. PICK i : i = Least(S)
  OBVIOUS
<1>11. i \in S
  BY <1>8, <1>9, <1>10, LeastPosition
<1>12. i \in 1..Len(heads) /\ doc[i].kind = "unreleased"
  BY <1>9, <1>11
<1>13. heads[i] \in 1..Len(d) /\ d[heads[i]].kind = "unreleased" /\ doc[i].body = Body(d, heads[i])
  BY <1>3, <1>12 DEF Parsed
<1>14. heads[i] = u
  BY <1>0, <1>13
<1>15. QED
  BY <1>1, <1>7, <1>10, <1>13, <1>14 DEF WaitingIn

\* What release makes has for its version the notes that waited, and the version is above
\* all that the document named.
Announced(d, e, v) ==
  /\ Find(Parse(e), v) # 0 /\ Parse(e)[Find(Parse(e), v)].body = WaitingIn(Parse(d))
  /\ \A i \in Released(Parse(d)) : Compare(v, Parse(d)[i].ver) > 0

LEMMA ReleaseAnnounced ==
  ASSUME Numbers \subseteq Versions, NEW d, Regular(d), NEW v \in Numbers, NEW date,
         NEW e \in Release(d, v, date)
  PROVE  Announced(d, e, v)
<1>0. IsSequence(d) /\ v \in Versions /\ \A i \in 1..Len(d) : d[i].kind = "version" => d[i].ver \in Versions
  BY DEF Regular
<1>1. PICK linked, u, b : Cut(d, v, date, linked, u, b, e)
  BY ReleaseIsCut
<1>3. ~Refused(Parse(d), v, date)
  BY <1>1 DEF Cut
<1>5. u \in 1..Len(d) /\ d[u].kind = "unreleased"
  BY <1>1 DEF Cut
<1>6. PICK r, c : Relinked(d, r, c, linked)
  BY <1>1 DEF Cut
<1>7. /\ Regular(linked) /\ Releases(linked) = Releases(d)
      /\ Body(linked, u) = Body(d, u)
  BY <1>1, <1>5, <1>6, RelinkedBody DEF Cut, Kept
<1>8. IsSequence(linked) /\ u \in 1..Len(linked)
  BY <1>1 DEF Cut, Regular
<1>9. Cuts(b) /\ b[2].ver = v /\ b[2].kind = "version"
  BY <1>1 DEF Cut, Cuts
<1>10. Replaced(linked, u, b, e)
  BY <1>1 DEF Cut
<1>11. PICK w : w = u + 1
  OBVIOUS
<1>12. /\ IsSequence(e) /\ w \in 1..Len(e) /\ e[w] = b[2] /\ Body(e, w) = Body(linked, u)
       /\ \A h \in 1..Len(e) : e[h].kind = "version" /\ h # w => \E g \in 1..Len(linked) : linked[g] = e[h]
  BY <1>8, <1>9, <1>10, <1>11, RenamedBody DEF Kept
<1>13. \A h \in 1..Len(e) : e[h].kind = "version" /\ h # w => Compare(e[h].ver, v) # 0
  <2>1. SUFFICES ASSUME NEW h \in 1..Len(e), e[h].kind = "version", h # w
                 PROVE  Compare(e[h].ver, v) # 0
    OBVIOUS
  <2>2. PICK g \in 1..Len(linked) : linked[g] = e[h]
    BY <1>12, <2>1
  <2>3. PICK x : x = [ver |-> linked[g].ver, lines |-> LinesUnder(linked, g)]
    OBVIOUS
  <2>4. x \in Releases(d)
    BY <1>7, <1>8, <2>1, <2>2, <2>3, ReleasesAre
  <2>5. x.ver = e[h].ver /\ Compare(v, x.ver) > 0
    BY <1>0, <1>3, <2>2, <2>3, <2>4, RisesAbove
  <2>6. x.ver \in Versions
    BY <1>7, <2>1, <2>2, <2>5 DEF Regular
  <2>7. Compare(v, x.ver) \in Comparisons /\ Compare(x.ver, v) = -Compare(v, x.ver)
    BY <1>0, <2>6, VersionsOrdered
  <2>8. PICK p : p = Compare(v, x.ver)
    OBVIOUS
  <2>9. p \in {-1, 0, 1} /\ p > 0
    BY <2>5, <2>7, <2>8 DEF Comparisons
  <2>10. -p # 0
    BY <2>9
  <2>11. QED
    BY <2>5, <2>7, <2>8, <2>10
<1>14. Find(Parse(e), v) # 0 /\ Parse(e)[Find(Parse(e), v)].body = Body(e, w)
  <2>1. e[w].kind = "version" /\ e[w].ver = v
    BY <1>9, <1>12
  <2>2. QED
    BY <1>0, <1>12, <1>13, <2>1, FindIs
<1>15. WaitingIn(Parse(d)) = Body(d, u)
  BY <1>5, WaitingIs
<1>16. \A i \in Released(Parse(d)) : Compare(v, Parse(d)[i].ver) > 0
  <2>1. PICK doc : doc = Parse(d)
    OBVIOUS
  <2>2. PICK heads : heads = Ascending(At(d, Kinds))
    OBVIOUS
  <2>3. Parsed(d, heads, doc)
    BY <1>0, <2>1, <2>2, ParseIs
  <2>4. ASSUME NEW i \in Released(doc) PROVE Compare(v, doc[i].ver) > 0
    <3>1. i \in 1..Len(heads) /\ doc[i].kind = "version"
      BY <2>3, <2>4 DEF Parsed, Released
    <3>2. doc[i].ver \in Versions
      BY <1>0, <2>3, <3>1 DEF Parsed
    <3>3. ~(Compare(v, doc[i].ver) <= 0)
      BY <1>3, <2>1, <2>4 DEF Refused
    <3>4. Compare(v, doc[i].ver) \in Comparisons
      BY <1>0, <3>2, VersionsOrdered
    <3>5. QED
      BY <3>3, <3>4 DEF Comparisons
  <2>5. QED
    BY <2>1, <2>4
<1>17. QED
  BY <1>7, <1>12, <1>14, <1>15, <1>16 DEF Announced

\* No request names more than one version.
AskedOnce ==
  \A c \in Commands : \A req \in Requests[c] : req.op # "append" =>
    \A x, y \in req.given : x = y

\* What a command said is right: the notes that waited in what it read, under the version
\* asked for, and above all that was there.
Right(j) ==
  j.said # Nothing =>
    /\ j.said[2] = WaitingIn(Parse(j.src))
    /\ j.req.given # {} => j.req.given = {j.said[1]}
    /\ \A i \in Released(Parse(j.src)) : Compare(j.said[1], Parse(j.src)[i].ver) > 0

\* One command at a time reads a regular document, says nothing before the file is what it
\* made of that, and is right then.
Filed(f, j) ==
  /\ j.phase \in {"read", "opened", "written"} => Regular(j.src) /\ j.said = Nothing
  /\ j.phase = "written" => f = j.out
  /\ Right(j)

ReportInv == apart => \A c \in Commands : Filed(file, jobs[c])

\* What Report reads in the file that release made.
LEMMA ReportIs ==
  ASSUME AllNumbers, AskedOnce, NEW c \in Commands, jobs[c].req \in Requests[c],
         jobs[c].req.op # "append", Regular(jobs[c].src),
         NEW out \in Edited(jobs[c].req, jobs[c].day, jobs[c].src), file = out
  PROVE  \E v : /\ Report(c) = <<v, WaitingIn(Parse(jobs[c].src))>>
                /\ jobs[c].req.given # {} => jobs[c].req.given = {v}
                /\ \A i \in Released(Parse(jobs[c].src)) : Compare(v, Parse(jobs[c].src)[i].ver) > 0
<1>1. PICK req, src, day : req = jobs[c].req /\ src = jobs[c].src /\ day = jobs[c].day
  OBVIOUS
<1>2. req \in Requests[c] /\ req.op # "append" /\ Regular(src) /\ out \in Edited(req, day, src)
  BY <1>1
<1>3. PICK N : N = Number(Parse(src), req.given)
  OBVIOUS
<1>4. PICK v \in N : out \in Release(src, v, day)
  BY <1>2, <1>3 DEF Edited
<1>5. \A x \in N : x = v
  <2>1. CASE req.given # {}
    BY <1>2, <1>3, <2>1 DEF Number, AskedOnce
  <2>2. CASE req.given = {}
    BY <1>3, <2>2 DEF Number, NextVersion
  <2>3. QED
    BY <2>1, <2>2
<1>6. N = {v}
  BY <1>5
<1>7. v \in Numbers
  BY <1>2, <1>3, NumberIs
<1>8. Announced(src, out, v)
  BY <1>2, <1>4, <1>7, ReleaseAnnounced DEF AllNumbers
<1>9. PICK doc, i : doc = Parse(out) /\ i = Find(doc, v)
  OBVIOUS
<1>10. i # 0 /\ doc[i].body = WaitingIn(Parse(src))
  BY <1>8, <1>9 DEF Announced
<1>11. Report(c) = <<v, WaitingIn(Parse(src))>>
  <2>1. (CHOOSE x \in N : TRUE) = v
    BY <1>6
  <2>2. PICK y : y = CHOOSE x \in Number(Parse(jobs[c].src), jobs[c].req.given) : TRUE
    OBVIOUS
  <2>3. y = v
    <3>1. Number(Parse(jobs[c].src), jobs[c].req.given) = N
      BY <1>1, <1>3
    <3>2. QED
      BY <2>1, <2>2, <3>1
  <2>4. jobs[c].req.op # "append"
    BY <1>1, <1>2
  <2>5. Report(c) = <<y, IF Find(Parse(file), y) = 0 THEN Empty ELSE Parse(file)[Find(Parse(file), y)].body>>
    BY <2>2, <2>4 DEF Report
  <2>6. Parse(file) = doc
    BY <1>9
  <2>7. Report(c) = <<v, IF i = 0 THEN Empty ELSE doc[i].body>>
    BY <1>9, <2>3, <2>5, <2>6
  <2>8. QED
    BY <1>10, <2>7
<1>12. req.given # {} => req.given = {v}
  BY <1>3, <1>6 DEF Number
<1>13. \A k \in Released(Parse(src)) : Compare(v, Parse(src)[k].ver) > 0
  BY <1>8 DEF Announced
<1>14. QED
  BY <1>1, <1>11, <1>12, <1>13

\* A step of the one command at work leaves the others, which said what they said, as they
\* were.
LEMMA FiledStays ==
  ASSUME NEW j, NEW c \in Commands, OnlyAt(j, c), NEW f, \A x \in Commands : Filed(f, j[x]),
         NEW new, NEW k, Turns(j, c, new, k), NEW g, Filed(g, new)
  PROVE  \A x \in Commands : Filed(g, k[x])
<1>1. DOMAIN j = Commands /\ \A x \in Commands : x # c => j[x].phase = "idle"
  BY DEF OnlyAt
<1>2. k[c] = new /\ \A x \in Commands : x # c => k[x] = j[x]
  BY <1>1 DEF Turns
<1>3. ASSUME NEW x \in Commands PROVE Filed(g, k[x])
  <2>1. CASE x = c
    BY <1>2, <2>1
  <2>2. CASE x # c
    <3>1. PICK i : i = j[x]
      OBVIOUS
    <3>2. i.phase = "idle" /\ k[x] = i /\ Right(i)
      BY <1>1, <1>2, <2>2, <3>1 DEF Filed
    <3>3. Filed(g, i)
      BY <3>2 DEF Filed
    <3>4. QED
      BY <3>2, <3>3
  <2>3. QED
    BY <2>1, <2>2
<1>4. QED
  BY <1>3

LEMMA ReportStep ==
  ASSUME AllNumbers, AskedOnce, LinesInv, LedgerInv, ReportInv, [Next]_vars
  PROVE  ReportInv'
<1>0. SUFFICES ASSUME apart' PROVE \A c \in Commands : Filed(file', jobs'[c])
  BY DEF ReportInv
<1>1. DOMAIN jobs = Commands /\ \A c \in Commands : Works(c)
  BY DEF LinesInv
<1>2. \A c \in Commands : IsJob(jobs[c])
  BY <1>1 DEF Works
<1>3. apart
  BY <1>0 DEF Next, vars, Tick, Read, Refuse, Open, Write, Return, End
<1>4. Sound(file, jobs) /\ \A c \in Commands : Filed(file, jobs[c])
  BY <1>3 DEF LedgerInv, ReportInv
<1>5. ASSUME NEW c \in Commands, jobs[c].phase # "idle" PROVE OnlyAt(jobs, c)
  BY <1>1, <1>4, <1>5 DEF Sound, OnlyAt
<1>6. ASSUME NEW c \in Commands, OnlyAt(jobs, c), NEW new, jobs' = [jobs EXCEPT ![c] = new],
             Filed(file', new)
      PROVE  \A x \in Commands : Filed(file', jobs'[x])
  <2>1. PICK k, g : k = jobs' /\ g = file'
    OBVIOUS
  <2>2. Turns(jobs, c, new, k)
    BY <1>6, <2>1 DEF Turns
  <2>3. Filed(g, new)
    BY <1>6, <2>1
  <2>4. \A x \in Commands : Filed(g, k[x])
    BY <1>4, <1>6, <2>2, <2>3, FiledStays
  <2>5. QED
    BY <2>1, <2>4
<1>7. \A f : Filed(f, Idle)
  BY DEF Filed, Right, Idle, Nothing
<1>8. CASE Tick \/ UNCHANGED vars
  BY <1>4, <1>8 DEF Tick, vars
<1>9. ASSUME NEW c \in Commands, Read(c) PROVE \A x \in Commands : Filed(file', jobs'[x])
  <2>1. file' = file /\ \A x \in Commands : jobs[x].phase = "idle"
    BY <1>0, <1>9 DEF Read
  <2>2. PICK req \in Requests[c] :
          jobs' = [jobs EXCEPT ![c] = [phase |-> "read", req |-> req, day |-> DayFor(req),
                                       src |-> file, out |-> <<>>, said |-> Nothing]]
    BY <1>9 DEF Read
  <2>3. PICK new : new = [phase |-> "read", req |-> req, day |-> DayFor(req), src |-> file,
                          out |-> <<>>, said |-> Nothing]
    OBVIOUS
  <2>4. new.phase = "read" /\ new.src = file /\ new.said = Nothing
    BY <2>3
  <2>5. Regular(file) /\ OnlyAt(jobs, c)
    BY <1>1, <1>4, <2>1 DEF Sound, OnlyAt
  <2>6. Filed(file', new)
    BY <2>4, <2>5 DEF Filed, Right
  <2>7. QED
    BY <1>6, <2>2, <2>3, <2>5, <2>6
<1>10. ASSUME NEW c \in Commands, Refuse(c) PROVE \A x \in Commands : Filed(file', jobs'[x])
  <2>1. jobs[c].phase # "idle" /\ jobs' = [jobs EXCEPT ![c] = Idle]
    BY <1>10 DEF Refuse
  <2>2. QED
    BY <1>5, <1>6, <1>7, <2>1
<1>11. ASSUME NEW c \in Commands, Open(c) PROVE \A x \in Commands : Filed(file', jobs'[x])
  <2>1. PICK j : j = jobs[c]
    OBVIOUS
  <2>2. PICK out : jobs' = [jobs EXCEPT ![c].phase = "opened", ![c].out = out]
    BY <1>11 DEF Open
  <2>3. j.phase = "read" /\ Filed(file, j)
    BY <1>4, <1>11, <2>1 DEF Open
  <2>4. PICK new : new = [phase |-> "opened", req |-> j.req, day |-> j.day, src |-> j.src,
                          out |-> out, said |-> j.said]
    OBVIOUS
  <2>5. jobs' = [jobs EXCEPT ![c] = new]
    <3>1. jobs' = [jobs EXCEPT ![c] = [jobs[c] EXCEPT !.phase = "opened", !.out = out]]
      BY <2>2
    <3>2. [j EXCEPT !.phase = "opened", !.out = out] = new
      BY <1>2, <2>1, <2>4, JobSteps
    <3>3. QED
      BY <2>1, <3>1, <3>2
  <2>6. new.phase = "opened" /\ new.src = j.src /\ new.said = j.said
    BY <2>4
  <2>7. Filed(file', new)
    BY <2>3, <2>6 DEF Filed, Right
  <2>8. OnlyAt(jobs, c)
    BY <1>5, <2>1, <2>3
  <2>9. QED
    BY <1>6, <2>5, <2>7, <2>8
<1>12. ASSUME NEW c \in Commands, Write(c) PROVE \A x \in Commands : Filed(file', jobs'[x])
  <2>1. PICK j : j = jobs[c]
    OBVIOUS
  <2>2. /\ j.phase = "opened" /\ file' = j.out \o SubSeq(file, Len(j.out) + 1, Len(file))
        /\ jobs' = [jobs EXCEPT ![c].phase = "written"]
    BY <1>12, <2>1 DEF Write
  <2>3. Filed(file, j) /\ file = <<>> /\ Regular(j.out)
    BY <1>4, <2>1, <2>2 DEF Sound
  <2>4. file' = j.out
    BY <2>2, <2>3, FilledIs DEF Regular
  <2>5. PICK new : new = [phase |-> "written", req |-> j.req, day |-> j.day, src |-> j.src,
                          out |-> j.out, said |-> j.said]
    OBVIOUS
  <2>6. jobs' = [jobs EXCEPT ![c] = new]
    <3>1. jobs' = [jobs EXCEPT ![c] = [jobs[c] EXCEPT !.phase = "written"]]
      BY <2>2
    <3>2. [j EXCEPT !.phase = "written"] = new
      BY <1>2, <2>1, <2>5, JobSteps
    <3>3. QED
      BY <2>1, <3>1, <3>2
  <2>7. new.phase = "written" /\ new.src = j.src /\ new.said = j.said /\ new.out = j.out
    BY <2>5
  <2>8. Regular(j.src) /\ j.said = Nothing
    BY <2>2, <2>3 DEF Filed
  <2>9. Filed(file', new)
    BY <2>4, <2>7, <2>8 DEF Filed, Right
  <2>10. OnlyAt(jobs, c)
    BY <1>5, <2>1, <2>2
  <2>11. QED
    BY <1>6, <2>6, <2>9, <2>10
<1>13. ASSUME NEW c \in Commands, Return(c) PROVE \A x \in Commands : Filed(file', jobs'[x])
  <2>1. PICK j : j = jobs[c]
    OBVIOUS
  <2>2. j.phase = "written" /\ Filed(file, j)
    BY <1>4, <1>13, <2>1 DEF Return
  <2>3. PICK new : new = [phase |-> "returned", req |-> j.req, day |-> j.day, src |-> j.src,
                          out |-> j.out, said |-> Report(c)]
    OBVIOUS
  <2>4. jobs' = [jobs EXCEPT ![c] = new]
    <3>1. jobs' = [jobs EXCEPT ![c] = [jobs[c] EXCEPT !.phase = "returned", !.said = Report(c)]]
      BY <1>13 DEF Return
    <3>2. [j EXCEPT !.phase = "returned", !.said = Report(c)] = new
      BY <1>2, <2>1, <2>3, JobSteps
    <3>3. QED
      BY <2>1, <3>1, <3>2
  <2>5. new.phase = "returned" /\ new.src = j.src /\ new.req = j.req /\ new.said = Report(c)
    BY <2>3
  <2>6. Right(new)
    <3>1. CASE j.req.op = "append"
      <4>1. Report(c) = Nothing
        BY <2>1, <3>1 DEF Report
      <4>2. QED
        BY <2>5, <4>1 DEF Right
    <3>2. CASE j.req.op # "append"
      <4>1. j.req \in Requests[c] /\ j.out \in Edited(j.req, j.day, j.src)
        BY <1>1, <2>1, <2>2 DEF Works
      <4>2. Regular(j.src) /\ file = j.out
        BY <2>2 DEF Filed
      <4>3. PICK v : /\ Report(c) = <<v, WaitingIn(Parse(j.src))>>
                     /\ j.req.given # {} => j.req.given = {v}
                     /\ \A i \in Released(Parse(j.src)) : Compare(v, Parse(j.src)[i].ver) > 0
        BY <2>1, <3>2, <4>1, <4>2, ReportIs
      <4>4. new.said[1] = v /\ new.said[2] = WaitingIn(Parse(j.src))
        BY <2>5, <4>3
      <4>5. QED
        BY <2>5, <4>3, <4>4 DEF Right
    <3>3. QED
      BY <3>1, <3>2
  <2>7. Filed(file', new)
    BY <2>5, <2>6 DEF Filed
  <2>8. OnlyAt(jobs, c)
    BY <1>5, <2>1, <2>2
  <2>9. QED
    BY <1>6, <2>4, <2>7, <2>8
<1>14. ASSUME NEW c \in Commands, End(c) PROVE \A x \in Commands : Filed(file', jobs'[x])
  <2>1. jobs[c].phase # "idle" /\ jobs' = [jobs EXCEPT ![c] = Idle]
    BY <1>14 DEF End
  <2>2. QED
    BY <1>5, <1>6, <1>7, <2>1
<1>15. QED
  BY <1>8, <1>9, <1>10, <1>11, <1>12, <1>13, <1>14 DEF Next

\* write.go reads the file again and reports the entry it finds for the version: those are
\* the notes that waited, under the version asked for or a computed one, and the version is
\* above all that the document named, whatever its length, for commands that run one after
\* another.
THEOREM ReleasesAreReported ==
  ASSUME AllNumbers, AskedOnce, \A d \in StartDocs : Regular(d)
  PROVE  Spec => []ReportsItsRelease
<1>1. Init => LedgerInv /\ ReportInv
  <2>1. SUFFICES ASSUME Init PROVE LedgerInv /\ ReportInv
    OBVIOUS
  <2>2. Regular(file) /\ \A c \in Commands : jobs[c] = Idle
    BY <2>1 DEF Init
  <2>3. Idle.phase = "idle" /\ Idle.said = Nothing
    BY DEF Idle
  <2>4. QED
    BY <2>2, <2>3 DEF LedgerInv, Sound, ReportInv, Filed, Right
<1>2. LinesInv /\ LedgerInv /\ ReportInv /\ [Next]_vars => LedgerInv' /\ ReportInv'
  BY LedgerSteps, ReportStep
<1>3. ReportInv => ReportsItsRelease
  <2>1. SUFFICES ASSUME apart, \A c \in Commands : Right(jobs[c]) PROVE ReportsItsRelease
    BY DEF ReportInv, Filed, ReportsItsRelease
  <2>2. ASSUME NEW j, Right(j), j.said # Nothing
        PROVE  LET was == Parse(j.src)
                   v == j.said[1]
               IN  /\ j.said[2] = was[Least({i \in DOMAIN was : was[i].kind = "unreleased"})].body
                   /\ j.req.given # {} => j.req.given = {v}
                   /\ \A i \in Released(was) : Compare(v, was[i].ver) > 0
    BY <2>2 DEF Right, WaitingIn
  <2>3. QED
    BY <2>1, <2>2 DEF ReportsItsRelease
<1>4. QED
  BY <1>1, <1>2, <1>3, LinesInit, LinesStep, PTL DEF Spec

-----------------------------------------------------------------------------
(* The chain of the links                                                  *)

\* The versions below x.
LowerThan(x) == {w \in Numbers : Compare(w, x) < 0}

\* The topmost heading that names a version of W.
Highest(d, W, h) ==
  /\ h \in 1..Len(d) /\ d[h].kind = "version" /\ d[h].ver \in W
  /\ \A i \in 1..(h - 1) : ~(d[i].kind = "version" /\ d[i].ver \in W)

\* A link compares with the release below: that of [Unreleased] with the topmost of W, and
\* that of a version, which is not above all headings, with the topmost below it.
Points(l, d, W) ==
  \/ l.label = {} /\ \A h \in 1..Len(d) : Highest(d, W, h) => l.prev = {d[h].ver}
  \/ \E x \in Numbers :
       /\ l.label = {x}
       /\ \E h \in 1..Len(d) : d[h].kind = "version" /\ Compare(x, d[h].ver) <= 0
       /\ \A h \in 1..Len(d) : Highest(d, LowerThan(x), h) => l.prev = {d[h].ver}

\* The links of f compare the headings of d, and one at most is that of [Unreleased].
Chain(f, d, W) ==
  /\ \A k \in 1..Len(f) : f[k].kind = "ref" => Points(f[k], d, W)
  /\ \A k, l \in 1..Len(f) : f[k].kind = "ref" /\ f[l].kind = "ref" =>
       (f[k].label = {} /\ f[l].label = {} => k = l)

InChain(d) == Chain(d, d, Numbers)

\* What is put into a document and names no version of W leaves the topmost the topmost.
LEMMA HighestWas ==
  ASSUME NEW d, NEW a, NEW m, NEW b, NEW e, Put(d, a, m, b, e),
         m = 0 \/ d[a + 1].kind # "version", NEW W,
         \A i \in 1..Len(b) : b[i].kind = "version" => b[i].ver \notin W,
         NEW h, Highest(e, W, h)
  PROVE  \E g \in 1..Len(d) : Highest(d, W, g) /\ d[g] = e[h]
<1>1. /\ IsSequence(d) /\ IsSequence(b) /\ IsSequence(e) /\ a \in Nat /\ m \in {0, 1}
      /\ a + m <= Len(d) /\ Len(e) = Len(d) - m + Len(b)
      /\ \A i \in 1..a : e[i] = d[i]
      /\ \A i \in 1..Len(b) : e[a + i] = b[i]
      /\ \A i \in (a + m + 1)..Len(d) : e[i - m + Len(b)] = d[i]
  BY DEF Put
<1>2. Len(d) \in Nat /\ Len(b) \in Nat /\ Len(e) \in Nat
  BY <1>1, SequenceIs
<1>3. /\ h \in 1..Len(e) /\ e[h].kind = "version" /\ e[h].ver \in W
      /\ \A i \in 1..(h - 1) : ~(e[i].kind = "version" /\ e[i].ver \in W)
  BY DEF Highest
<1>4. Outside(a, b, h)
  <2>1. SUFFICES ASSUME ~Outside(a, b, h) PROVE FALSE
    OBVIOUS
  <2>2. PICK i \in 1..Len(b) : h = a + i
    <3>1. h - a \in 1..Len(b) /\ h = a + (h - a)
      BY <1>1, <1>2, <1>3, <2>1 DEF Outside
    <3>2. QED
      BY <3>1
  <2>3. e[h] = b[i]
    BY <1>1, <2>2
  <2>4. QED
    BY <1>3, <2>3
<1>5. PICK g : g = Was(a, m, b, h)
  OBVIOUS
<1>6. g \in 1..Len(d) /\ e[h] = d[g]
  BY <1>3, <1>4, <1>5, WasIs
<1>7. g = IF h <= a THEN h ELSE h - Len(b) + m
  BY <1>5 DEF Was
<1>8. h <= a \/ h > a + Len(b)
  BY <1>4 DEF Outside
<1>9. ASSUME NEW i \in 1..(g - 1), d[i].kind = "version", d[i].ver \in W PROVE FALSE
  <2>1. CASE i <= a
    <3>1. i \in 1..a /\ i \in 1..(h - 1)
      BY <1>1, <1>2, <1>3, <1>6, <1>7, <1>8, <2>1
    <3>2. QED
      BY <1>1, <1>3, <1>9, <3>1
  <2>2. CASE i > a + m
    <3>1. i \in (a + m + 1)..Len(d) /\ i - m + Len(b) \in 1..(h - 1)
      BY <1>1, <1>2, <1>3, <1>6, <1>7, <1>8, <2>2
    <3>2. e[i - m + Len(b)] = d[i]
      BY <1>1, <3>1
    <3>3. QED
      BY <1>3, <1>9, <3>1, <3>2
  <2>3. i <= a \/ i > a + m \/ (m = 1 /\ i = a + 1)
    BY <1>1, <1>6
  <2>4. QED
    BY <1>9, <2>1, <2>2, <2>3
<1>10. Highest(d, W, g)
  BY <1>3, <1>6, <1>9 DEF Highest
<1>11. QED
  BY <1>6, <1>10

\* Every line but one that is replaced is there still.
LEMMA StillThere ==
  ASSUME NEW d, NEW a, NEW m, NEW b, NEW e, Put(d, a, m, b, e), NEW g \in 1..Len(d),
         m = 0 \/ g # a + 1
  PROVE  \E h \in 1..Len(e) : e[h] = d[g]
<1>1. /\ IsSequence(d) /\ IsSequence(b) /\ a \in Nat /\ m \in {0, 1}
      /\ a + m <= Len(d) /\ Len(e) = Len(d) - m + Len(b)
      /\ \A i \in 1..a : e[i] = d[i]
      /\ \A i \in (a + m + 1)..Len(d) : e[i - m + Len(b)] = d[i]
  BY DEF Put
<1>2. Len(d) \in Nat /\ Len(b) \in Nat
  BY <1>1, SequenceIs
<1>3. CASE g <= a
  <2>1. g \in 1..a /\ g \in 1..Len(e)
    BY <1>1, <1>2, <1>3
  <2>2. QED
    BY <1>1, <2>1
<1>4. CASE g > a + m
  <2>1. g \in (a + m + 1)..Len(d) /\ g - m + Len(b) \in 1..Len(e)
    BY <1>1, <1>2, <1>4
  <2>2. QED
    BY <1>1, <2>1
<1>5. g <= a \/ g > a + m
  BY <1>1
<1>6. QED
  BY <1>3, <1>4, <1>5

\* A link goes on pointing where it should when what is put names none of the versions it
\* might point to.
LEMMA PointsStill ==
  ASSUME NEW d, NEW a, NEW m, NEW b, NEW e, Put(d, a, m, b, e),
         m = 0 \/ d[a + 1].kind # "version", NEW W, NEW l, Points(l, d, W),
         \A i \in 1..Len(b) : b[i].kind = "version" =>
           b[i].ver \notin W /\ \A x \in Numbers : l.label = {x} => b[i].ver \notin LowerThan(x)
  PROVE  Points(l, e, W)
<1>1. CASE l.label = {} /\ \A h \in 1..Len(d) : Highest(d, W, h) => l.prev = {d[h].ver}
  <2>1. ASSUME NEW h \in 1..Len(e), Highest(e, W, h) PROVE l.prev = {e[h].ver}
    <3>1. PICK g \in 1..Len(d) : Highest(d, W, g) /\ d[g] = e[h]
      BY <2>1, HighestWas
    <3>2. QED
      BY <1>1, <3>1
  <2>2. QED
    BY <1>1, <2>1 DEF Points
<1>2. ASSUME NEW x \in Numbers, l.label = {x},
             \E h \in 1..Len(d) : d[h].kind = "version" /\ Compare(x, d[h].ver) <= 0,
             \A h \in 1..Len(d) : Highest(d, LowerThan(x), h) => l.prev = {d[h].ver}
      PROVE  Points(l, e, W)
  <2>1. PICK V : V = LowerThan(x)
    OBVIOUS
  <2>2. ASSUME NEW h \in 1..Len(e), Highest(e, V, h) PROVE l.prev = {e[h].ver}
    <3>1. \A i \in 1..Len(b) : b[i].kind = "version" => b[i].ver \notin V
      BY <1>2, <2>1
    <3>2. PICK g \in 1..Len(d) : Highest(d, V, g) /\ d[g] = e[h]
      BY <2>2, <3>1, HighestWas
    <3>3. QED
      BY <1>2, <2>1, <3>2
  <2>3. PICK g \in 1..Len(d) : d[g].kind = "version" /\ Compare(x, d[g].ver) <= 0
    BY <1>2
  <2>4. PICK h \in 1..Len(e) : e[h] = d[g]
    <3>1. m = 0 \/ g # a + 1
      BY <2>3
    <3>2. QED
      BY <3>1, StillThere
  <2>5. e[h].kind = "version" /\ Compare(x, e[h].ver) <= 0
    BY <2>3, <2>4
  <2>6. QED
    BY <1>2, <2>1, <2>2, <2>5 DEF Points
<1>3. QED
  BY <1>1, <1>2 DEF Points

\* No two lines stood in one place.
LEMMA WasOnce ==
  ASSUME NEW a \in Int, NEW m \in Int, 0 <= m, NEW b, Len(b) \in Int, NEW k \in Int, NEW l \in Int,
         Outside(a, b, k), Outside(a, b, l), Was(a, m, b, k) = Was(a, m, b, l)
  PROVE  k = l
<1>1. PICK n \in Int : n = Len(b)
  OBVIOUS
<1>2. PICK p, q : p = Was(a, m, b, k) /\ q = Was(a, m, b, l) /\ p = q
  OBVIOUS
<1>3. p = (IF k <= a THEN k ELSE k - n + m) /\ q = (IF l <= a THEN l ELSE l - n + m)
  BY <1>1, <1>2 DEF Was
<1>4. (k <= a \/ k > a + n) /\ (l <= a \/ l > a + n)
  BY <1>1 DEF Outside
<1>5. QED
  BY <1>2, <1>3, <1>4

\* Links that stay where they are stay the chain they were.
LEMMA ChainWas ==
  ASSUME NEW f, NEW a, NEW m, NEW b, NEW g, Put(f, a, m, b, g),
         \A i \in 1..Len(b) : b[i].kind # "ref", NEW d, NEW W, Chain(f, d, W)
  PROVE  Chain(g, d, W)
<1>1. /\ IsSequence(f) /\ IsSequence(b) /\ a \in Nat /\ m \in {0, 1}
      /\ a + m <= Len(f) /\ Len(g) = Len(f) - m + Len(b)
      /\ \A i \in 1..Len(b) : g[a + i] = b[i]
  BY DEF Put
<1>2. Len(f) \in Nat /\ Len(b) \in Nat /\ Len(g) \in Nat
  BY <1>1, SequenceIs
<1>3. \A k \in 1..Len(g) : g[k].kind = "ref" => Outside(a, b, k)
  <2>1. SUFFICES ASSUME NEW k \in 1..Len(g), g[k].kind = "ref", ~Outside(a, b, k) PROVE FALSE
    OBVIOUS
  <2>2. k - a \in 1..Len(b) /\ k = a + (k - a)
    BY <1>1, <1>2, <2>1 DEF Outside
  <2>3. g[a + (k - a)] = b[k - a]
    BY <1>1, <2>2
  <2>4. QED
    BY <2>1, <2>2, <2>3
<1>4. ASSUME NEW k \in 1..Len(g), g[k].kind = "ref" PROVE Points(g[k], d, W)
  <2>1. Was(a, m, b, k) \in 1..Len(f) /\ g[k] = f[Was(a, m, b, k)]
    BY <1>3, <1>4, WasIs
  <2>2. QED
    BY <1>4, <2>1 DEF Chain
<1>5. ASSUME NEW k \in 1..Len(g), NEW l \in 1..Len(g), g[k].kind = "ref", g[k].label = {},
             g[l].kind = "ref", g[l].label = {}
      PROVE  k = l
  <2>1. Outside(a, b, k) /\ Outside(a, b, l)
    BY <1>3, <1>5
  <2>2. PICK p, q : p = Was(a, m, b, k) /\ q = Was(a, m, b, l)
    OBVIOUS
  <2>3. p \in 1..Len(f) /\ g[k] = f[p] /\ q \in 1..Len(f) /\ g[l] = f[q]
    BY <2>1, <2>2, WasIs
  <2>4. p = q
    BY <1>5, <2>3 DEF Chain
  <2>5. a \in Int /\ m \in Int /\ 0 <= m /\ Len(b) \in Int /\ k \in Int /\ l \in Int
    BY <1>1, <1>2
  <2>6. QED
    BY <2>1, <2>2, <2>4, <2>5, WasOnce
<1>6. QED
  BY <1>4, <1>5 DEF Chain

\* Lines put in without links and without versions, and without the heading of [Unreleased]
\* but above all headings.
Quiet(d, a, b, e) ==
  /\ Put(d, a, 0, b, e)
  /\ \A i \in 1..Len(b) : b[i].kind \in {"unreleased", "section", "text"}
  /\ \/ \A i \in 1..Len(b) : b[i].kind # "unreleased"
     \/ /\ \A i \in 1..a : d[i].kind \notin Kinds
        /\ At(d, Kinds) = {} \/ d[a + 1].kind \in Kinds

\* The heading among them is in brackets, and a section has the name asked for.
Asked(b, name) ==
  \A i \in 1..Len(b) : /\ b[i].kind = "unreleased" => b[i].bracketed = TRUE
                       /\ b[i].kind = "section" => b[i].name = name

\* They keep the chain.

LEMMA QuietIsChained ==
  ASSUME NEW d, InChain(d), NEW a, NEW b, NEW e, Quiet(d, a, b, e)
  PROVE  InChain(e)
<1>1. PICK m : m = 0
  OBVIOUS
<1>2. Put(d, a, m, b, e) /\ \A i \in 1..Len(b) : b[i].kind # "ref" /\ b[i].kind # "version"
  <2>1. Put(d, a, m, b, e) /\ \A i \in 1..Len(b) : b[i].kind \in {"unreleased", "section", "text"}
    BY <1>1 DEF Quiet
  <2>2. QED
    BY <2>1
<1>3. Chain(d, d, Numbers)
  BY DEF InChain
<1>4. \A k \in 1..Len(d) : d[k].kind = "ref" => Points(d[k], e, Numbers)
  <2>1. SUFFICES ASSUME NEW k \in 1..Len(d), d[k].kind = "ref" PROVE Points(d[k], e, Numbers)
    OBVIOUS
  <2>2. Points(d[k], d, Numbers)
    BY <1>3, <2>1 DEF Chain
  <2>3. QED
    BY <1>1, <1>2, <2>2, PointsStill
<1>5. Chain(d, e, Numbers)
  BY <1>3, <1>4 DEF Chain
<1>6. Chain(e, e, Numbers)
  BY <1>2, <1>5, ChainWas
<1>7. QED
  BY <1>6 DEF InChain

\* Append puts in just that.
LEMMA AppendIsQuiet ==
  ASSUME NEW d, IsSequence(d), NEW name, NEW note, IsSequence(note), NEW e \in AppendNote(d, name, note)
  PROVE  e = d \/ \E a, b : Quiet(d, a, b, e) /\ Asked(b, name)
<1> DEFINE u == Unreleased(d)
           s == SectionNamed(d, u, name)
           block == <<SectionLine(name)>> \o Item(note)
<1>1. Len(d) \in Nat /\ Len(note) \in Nat
  BY SequenceIs
<1>2. e = IF u = 0 THEN OpenUnreleased(d, block)
          ELSE IF s # 0 THEN AddItem(d, s, SectionEnd(d, u, s), Item(note))
          ELSE AddSection(d, u, name, block)
  BY DEF AppendNote
<1>3. ASSUME NEW k \in 0..Len(d), NEW b, IsSequence(b), e = Splice(d, k, b),
             \A i \in 1..Len(b) : b[i].kind \in {"unreleased", "section", "text"}, Asked(b, name),
             \/ \A i \in 1..Len(b) : b[i].kind # "unreleased"
             \/ /\ \A i \in 1..k : d[i].kind \notin Kinds
                /\ At(d, Kinds) = {} \/ d[k + 1].kind \in Kinds
      PROVE  \E a, x : Quiet(d, a, x, e) /\ Asked(x, name)
  <2>1. Spliced(d, k, b, e)
    BY <1>3, SpliceIs
  <2>2. Put(d, k, 0, b, e)
    BY <1>3, <2>1, SplicePuts
  <2>3. Quiet(d, k, b, e)
    BY <1>3, <2>2 DEF Quiet
  <2>4. QED
    BY <1>3, <2>3
<1>4. CASE u = 0
  <2>1. PICK b : b = <<Heading("unreleased", NoVersion, NoDate, TRUE)>>
                       \o (<<SectionLine(name)>> \o Item(note))
    OBVIOUS
  <2>2. PICK w : w = OpensAt(d)
    OBVIOUS
  <2>3. PICK a : a = w - 1
    OBVIOUS
  <2>4. e = Splice(d, a, b)
    BY <1>2, <1>4, <2>1, <2>2, <2>3 DEF OpenUnreleased, OpensAt
  <2>5. /\ w \in 1..(Len(d) + 1) /\ \A i \in 1..(w - 1) : d[i].kind \notin Kinds
        /\ At(d, Kinds) # {} => d[w].kind \in Kinds
    BY <2>2, OpensAtIs
  <2>6. /\ a \in 0..Len(d) /\ \A i \in 1..a : d[i].kind \notin Kinds
        /\ At(d, Kinds) = {} \/ d[a + 1].kind \in Kinds
    <3>1. w = a + 1 /\ a \in 0..Len(d)
      BY <1>1, <2>3, <2>5
    <3>2. QED
      BY <2>3, <2>5, <3>1
  <2>7. /\ IsSequence(b) /\ Len(b) = Len(note) + 2 /\ b[1].kind = "unreleased" /\ b[2].kind = "section"
        /\ b[1].bracketed = TRUE /\ b[2].name = name
        /\ \A i \in 1..Len(note) : b[i + 2].kind = "text"
    <3>1. Opening(name, note, b)
      BY <2>1, OpeningIs
    <3>2. QED
      BY <3>1 DEF Opening, Heading, SectionLine
  <2>8. ASSUME NEW i \in 1..Len(b)
        PROVE  /\ b[i].kind \in {"unreleased", "section", "text"}
               /\ b[i].kind = "unreleased" => b[i].bracketed = TRUE
               /\ b[i].kind = "section" => b[i].name = name
    <3>1. CASE i = 1 \/ i = 2
      BY <2>7, <3>1
    <3>2. CASE i # 1 /\ i # 2
      <4>1. i - 2 \in 1..Len(note) /\ (i - 2) + 2 = i
        BY <1>1, <2>7, <3>2
      <4>2. b[(i - 2) + 2].kind = "text"
        BY <2>7, <4>1
      <4>3. b[i].kind = "text"
        BY <4>1, <4>2
      <4>4. QED
        BY <4>3
    <3>3. QED
      BY <3>1, <3>2
  <2>9. Asked(b, name)
    BY <2>8 DEF Asked
  <2>10. QED
    BY <1>3, <2>4, <2>6, <2>7, <2>8, <2>9
<1>5. CASE u # 0
  <2>1. u \in 1..Len(d) /\ d[u].kind = "unreleased"
    BY <1>5, UnreleasedIs
  <2>2. CASE s = 0
    <3>1. PICK b : b = <<SectionLine(name)>> \o Item(note)
      OBVIOUS
    <3>2. PICK a : a = Place(d, u, name)
      OBVIOUS
    <3>3. e = Splice(d, a, b)
      BY <1>2, <1>5, <2>2, <3>1, <3>2 DEF AddSection, Place
    <3>4. a \in 0..Len(d)
      <4>1. a \in 1..Len(d)
        BY <1>1, <2>1, <3>2, PlaceIs
      <4>2. QED
        BY <1>1, <4>1
    <3>5. /\ IsSequence(b) /\ Len(b) = Len(note) + 1 /\ b[1].kind = "section" /\ b[1].name = name
          /\ \A i \in 1..Len(note) : b[i + 1].kind = "text"
      <4>1. Block(name, note, b)
        BY <3>1, BlockIs
      <4>2. QED
        BY <4>1 DEF Block, SectionLine
    <3>6. ASSUME NEW i \in 1..Len(b)
          PROVE  b[i].kind \in {"section", "text"} /\ (b[i].kind = "section" => b[i].name = name)
      <4>1. CASE i = 1
        BY <3>5, <4>1
      <4>2. CASE i # 1
        <5>1. i - 1 \in 1..Len(note) /\ (i - 1) + 1 = i
          BY <1>1, <3>5, <4>2
        <5>2. b[(i - 1) + 1].kind = "text"
          BY <3>5, <5>1
        <5>3. b[i].kind = "text"
          BY <5>1, <5>2
        <5>4. QED
          BY <5>3
      <4>3. QED
        BY <4>1, <4>2
    <3>7. \A i \in 1..Len(b) : b[i].kind \in {"unreleased", "section", "text"} /\ b[i].kind # "unreleased"
      BY <3>6
    <3>8. Asked(b, name)
      BY <3>6 DEF Asked
    <3>9. QED
      BY <1>3, <3>3, <3>4, <3>5, <3>7, <3>8
  <2>3. CASE s # 0
    <3>1. PICK a : a = SectionEnd(d, u, s)
      OBVIOUS
    <3>2. PICK b : b = Item(note)
      OBVIOUS
    <3>3. e = d \/ e = Splice(d, a, b)
      BY <1>2, <1>5, <2>3, <3>1, <3>2 DEF AddItem
    <3>4. s \in SectionsOf(d, u)
      BY <2>1, <2>3, SectionNamedIs
    <3>5. Ends(d, s, a) /\ s \in 1..Len(d)
      BY <2>1, <3>1, <3>4, SectionEndIs, SectionsAre
    <3>6. a \in 0..Len(d)
      BY <1>1, <3>5 DEF Ends
    <3>7. IsSequence(b) /\ \A i \in 1..Len(b) : b[i].kind = "text"
      BY <3>2, ItemIs
    <3>8. \A i \in 1..Len(b) : b[i].kind \in {"unreleased", "section", "text"} /\ b[i].kind # "unreleased"
      BY <3>7
    <3>9. Asked(b, name)
      BY <3>7 DEF Asked
    <3>10. QED
      BY <1>3, <3>3, <3>6, <3>7, <3>8, <3>9
  <2>4. QED
    BY <2>2, <2>3
<1>6. QED
  BY <1>4, <1>5

\* No version stands above the notes that release takes.
LEMMA NoneAbove ==
  ASSUME NEW d, Regular(d), NEW v, NEW date, ~Refused(Parse(d), v, date), NEW u, u = Unreleased(d)
  PROVE  \A i \in 1..(u - 1) : d[i].kind # "version"
<1>0. /\ IsSequence(d)
      /\ \A i, j \in 1..Len(d) : d[i].kind = "unreleased" /\ d[j].kind = "unreleased" => i = j
  BY DEF Regular
<1>1. Len(d) \in Nat /\ u \in 1..Len(d) /\ d[u].kind = "unreleased"
  BY <1>0, NotesToRelease, SequenceIs
<1>2. PICK doc : doc = Parse(d)
  OBVIOUS
<1>3. PICK heads : heads = Ascending(At(d, Kinds))
  OBVIOUS
<1>4. Parsed(d, heads, doc)
  BY <1>0, <1>2, <1>3, ParseIs
<1>5. Len(heads) \in Nat /\ DOMAIN doc = 1..Len(heads)
  BY <1>4 DEF Parsed, Ascends
<1>6. Offered(doc) # {}
  BY <1>2 DEF Refused
<1>7. PICK i \in 1..Len(heads) : /\ doc[i].kind = "unreleased"
                                 /\ Released(doc) # {} => i < Least(Released(doc))
  BY <1>5, <1>6 DEF Offered
<1>8. heads[i] = u
  <2>1. heads[i] \in 1..Len(d) /\ d[heads[i]].kind = "unreleased"
    BY <1>4, <1>7 DEF Parsed
  <2>2. QED
    BY <1>0, <1>1, <2>1
<1>9. SUFFICES ASSUME NEW g \in 1..(u - 1), d[g].kind = "version" PROVE FALSE
  OBVIOUS
<1>10. g \in 1..Len(d) /\ g < u
  BY <1>1
<1>11. g \in At(d, Kinds)
  BY <1>0, <1>9, <1>10, SequenceIs DEF At, Kinds
<1>12. PICK n \in 1..Len(heads) : heads[n] = g
  BY <1>4, <1>11 DEF Parsed, Ascends
<1>13. PICK S : S = Released(doc)
  OBVIOUS
<1>14. n \in S
  BY <1>4, <1>5, <1>9, <1>12, <1>13 DEF Parsed, Released
<1>15. S \in SUBSET Nat
  BY <1>5, <1>13 DEF Released
<1>16. Least(S) \in S /\ Least(S) <= n
  BY <1>14, <1>15, LeastPosition
<1>17. i < n
  <2>1. PICK l : l = Least(S)
    OBVIOUS
  <2>2. i < l /\ l \in 1..Len(heads) /\ l <= n
    BY <1>5, <1>7, <1>13, <1>14, <1>16, <2>1 DEF Released
  <2>3. QED
    BY <1>5, <2>2
<1>18. heads[i] < heads[n]
  BY <1>4, <1>17 DEF Parsed, Ascends
<1>19. QED
  BY <1>1, <1>8, <1>10, <1>12, <1>18

\* The compare link of [Unreleased] starts at the new version, and below it is the link of
\* that version, from where the other started.
Moved(d, v, r, c, f) ==
  /\ r \in 1..Len(d) /\ d[r].kind = "ref" /\ d[r].label = {} /\ Replaced(d, r, c, f)
  /\ IsSequence(c) /\ Len(c) = 2
  /\ c[1].kind = "ref" /\ c[1].label = {} /\ c[1].prev = {v}
  /\ c[2].kind = "ref" /\ c[2].label = {v} /\ c[2].prev = d[r].prev

LEMMA RefsMove ==
  ASSUME NEW d, IsSequence(d), NEW v, NEW f \in ReleaseRefs(d, v)
  PROVE  \/ f = d /\ \A k \in 1..Len(d) : d[k].kind # "ref"
         \/ \E r, c : Moved(d, v, r, c, f)
<1> DEFINE refs == At(d, {"ref"})
           own == {k \in refs : d[k].label = {}}
<1>1. PICK r : r = Least(own)
  OBVIOUS
<1>2. PICK c : c = <<Ref({}, d[r].v, {v}, {}), Ref({v}, d[r].v, d[r].prev, {v})>>
  OBVIOUS
<1>3. (f = d /\ refs = {}) \/ (own # {} /\ f = Replace(d, r, c))
  BY <1>1, <1>2 DEF ReleaseRefs
<1>4. \A k : k \in refs <=> k \in 1..Len(d) /\ d[k].kind = "ref"
  BY SequenceIs DEF At
<1>5. CASE f = d /\ refs = {}
  BY <1>4, <1>5
<1>6. CASE own # {} /\ f = Replace(d, r, c)
  <2>1. \A k \in own : k \in 1..Len(d) /\ d[k].kind = "ref" /\ d[k].label = {}
    BY <1>4
  <2>2. own \in SUBSET Nat
    BY <2>1
  <2>3. r \in own
    <3> HIDE DEF own
    <3>1. QED
      BY <1>1, <1>6, <2>2, LeastPosition
  <2>4. r \in 1..Len(d) /\ d[r].kind = "ref" /\ d[r].label = {}
    BY <2>1, <2>3
  <2>5. /\ Len(c) = 2 /\ c[1].kind = "ref" /\ c[1].label = {} /\ c[1].prev = {v}
        /\ c[2].kind = "ref" /\ c[2].label = {v} /\ c[2].prev = d[r].prev
    BY <1>2 DEF Ref
  <2>6. IsSequence(c)
    <3>1. PICK x, y : c = <<x, y>>
      BY <1>2
    <3>2. c \in Seq({x, y})
      BY <3>1
    <3>3. QED
      BY <3>2 DEF IsSequence
  <2>7. Replaced(d, r, c, f)
    BY <1>6, <2>4, <2>6, ReplaceIs
  <2>8. Moved(d, v, r, c, f)
    BY <2>4, <2>5, <2>6, <2>7 DEF Moved
  <2>9. QED
    BY <2>8
<1>7. QED
  BY <1>3, <1>5, <1>6

\* A version above w is above all that are not.
LEMMA ComparesBack ==
  ASSUME NEW v \in Versions, NEW w \in Versions, Compare(v, w) > 0
  PROVE  /\ Compare(w, v) < 0
         /\ \A x \in Versions : Compare(x, w) <= 0 => Compare(v, x) > 0
<1>1. Compare(v, w) = 1 /\ Compare(w, v) = -1
  <2>1. Compare(v, w) \in {-1, 0, 1} /\ Compare(w, v) = -Compare(v, w)
    BY VersionsOrdered DEF Comparisons
  <2>2. QED
    BY <2>1
<1>2. ASSUME NEW x \in Versions, Compare(x, w) <= 0 PROVE Compare(v, x) > 0
  <2>1. Compare(v, x) \in {-1, 0, 1}
    BY VersionsOrdered DEF Comparisons
  <2>2. ~(Compare(v, x) <= 0)
    <3>1. SUFFICES ASSUME Compare(v, x) <= 0 PROVE FALSE
      OBVIOUS
    <3>2. Compare(v, w) <= 0
      BY <1>2, <3>1, VersionsChain DEF Chained
    <3>3. QED
      BY <1>1, <3>2
  <2>3. QED
    BY <2>1, <2>2
<1>3. QED
  BY <1>1, <1>2

\* A new version above all others is what no link of another points to.
LEMMA PointsUnder ==
  ASSUME Numbers \subseteq Versions, NEW f, NEW a, NEW m, NEW b, NEW e, Put(f, a, m, b, e),
         f[a + 1].kind # "version", Cuts(b), NEW v \in Numbers, b[2].ver = v,
         \A i \in 1..Len(f) : f[i].kind = "version" => f[i].ver \in Numbers /\ Compare(v, f[i].ver) > 0,
         NEW l, Points(l, f, Numbers)
  PROVE  Points(l, e, LowerThan(v))
<1>1. v \in Versions /\ Compare(v, v) = 0
  BY VersionsOrdered
<1>2. \A i \in 1..Len(f) : f[i].kind = "version" => f[i].ver \in LowerThan(v)
  <2>1. SUFFICES ASSUME NEW i \in 1..Len(f), f[i].kind = "version" PROVE f[i].ver \in LowerThan(v)
    OBVIOUS
  <2>2. PICK w \in Numbers : w = f[i].ver /\ Compare(v, w) > 0
    BY <2>1
  <2>3. Compare(w, v) < 0
    BY <1>1, <2>2, ComparesBack
  <2>4. QED
    BY <2>2, <2>3 DEF LowerThan
<1>3. PICK W : W = LowerThan(v)
  OBVIOUS
<1>4. Points(l, f, W)
  <2>1. CASE l.label = {} /\ \A h \in 1..Len(f) : Highest(f, Numbers, h) => l.prev = {f[h].ver}
    <3>1. ASSUME NEW h \in 1..Len(f), Highest(f, W, h) PROVE Highest(f, Numbers, h)
      <4>1. /\ h \in 1..Len(f) /\ f[h].kind = "version"
            /\ \A i \in 1..(h - 1) : ~(f[i].kind = "version" /\ f[i].ver \in W)
        BY <3>1 DEF Highest
      <4>2. Put(f, a, m, b, e) => IsSequence(f)
        BY DEF Put
      <4>3. \A i \in 1..(h - 1) : i \in 1..Len(f)
        BY <4>1, <4>2, SequenceIs
      <4>4. \A i \in 1..(h - 1) : f[i].kind # "version"
        BY <1>2, <1>3, <4>1, <4>3
      <4>5. QED
        BY <4>1, <4>4 DEF Highest
    <3>2. QED
      BY <2>1, <3>1 DEF Points
  <2>2. QED
    BY <2>1 DEF Points
<1>5. \A i \in 1..Len(b) : b[i].kind = "version" => b[i].ver = v
  <2>1. \A i \in 1..Len(b) : i = 1 \/ i = 2
    BY DEF Cuts
  <2>2. QED
    BY <2>1 DEF Cuts
<1>6. v \notin W
  BY <1>1, <1>3 DEF LowerThan
<1>7. ASSUME NEW x \in Numbers, l.label = {x} PROVE v \notin LowerThan(x)
  <2>1. PICK h \in 1..Len(f) : f[h].kind = "version" /\ Compare(x, f[h].ver) <= 0
    BY <1>7 DEF Points
  <2>2. PICK w \in Versions : w = f[h].ver /\ Compare(v, w) > 0
    BY <2>1
  <2>3. Compare(v, x) > 0
    BY <1>1, <2>1, <2>2, ComparesBack
  <2>4. QED
    BY <1>1, <1>7, <2>3, VersionsOrdered DEF LowerThan, Comparisons
<1>8. m = 0 \/ f[a + 1].kind # "version"
  OBVIOUS
<1>9. Points(l, e, W)
  BY <1>4, <1>5, <1>6, <1>7, <1>8, PointsStill
<1>10. QED
  BY <1>3, <1>9

\* The links moved, and the version put under [Unreleased] with no other above it.
Chains(d, f, e, v, u, r, c, b) ==
  /\ Chain(d, d, Numbers) /\ Moved(d, v, r, c, f)
  /\ IsSequence(d) /\ IsSequence(f)
  /\ \A i \in 1..Len(f) : f[i].kind = "version" => f[i].ver \in Numbers /\ Compare(v, f[i].ver) > 0
  /\ u \in 1..Len(f) /\ f[u].kind = "unreleased" /\ \A i \in 1..(u - 1) : f[i].kind # "version"
  /\ Cuts(b) /\ b[2].ver = v /\ Replaced(f, u, b, e)

\* The links of that are a chain.
LEMMA MovedIsChained ==
  ASSUME Numbers \subseteq Versions, NEW v \in Numbers, NEW d, NEW f, NEW e, NEW u, NEW r, NEW c,
         NEW b, Chains(d, f, e, v, u, r, c, b)
  PROVE  Chain(e, e, Numbers)
<1>1. /\ Chain(d, d, Numbers) /\ Moved(d, v, r, c, f) /\ IsSequence(d) /\ IsSequence(f)
      /\ \A i \in 1..Len(f) : f[i].kind = "version" => f[i].ver \in Numbers /\ Compare(v, f[i].ver) > 0
      /\ u \in 1..Len(f) /\ f[u].kind = "unreleased" /\ \A i \in 1..(u - 1) : f[i].kind # "version"
      /\ Cuts(b) /\ b[2].ver = v /\ Replaced(f, u, b, e)
  BY DEF Chains
<1>2. /\ r \in 1..Len(d) /\ d[r].kind = "ref" /\ d[r].label = {} /\ Replaced(d, r, c, f)
      /\ IsSequence(c) /\ Len(c) = 2 /\ c[1].kind = "ref" /\ c[1].label = {} /\ c[1].prev = {v}
      /\ c[2].kind = "ref" /\ c[2].label = {v} /\ c[2].prev = d[r].prev
  BY <1>1 DEF Moved
<1>3. Len(d) \in Nat /\ Len(f) \in Nat /\ r \in Int /\ u \in Int
  BY <1>1, <1>2, SequenceIs
<1>4. PICK a, z, m : a = r - 1 /\ z = u - 1 /\ m = 1
  OBVIOUS
<1>5. a \in Int /\ a + 1 = r /\ z \in Int /\ z + 1 = u
  BY <1>3, <1>4
<1>6. Put(d, a, m, c, f)
  BY <1>1, <1>2, <1>4, ReplacePuts
<1>7. Put(f, z, m, b, e) /\ IsSequence(b)
  BY <1>1, <1>4, ReplacePuts DEF Cuts
<1>8. IsSequence(e) /\ Len(e) = Len(f) + 1 /\ (\A i \in 1..z : e[i] = f[i]) /\ e[u] = b[1] /\ e[u + 1] = b[2]
  <2>1. /\ IsSequence(e) /\ Len(b) = 2 /\ Len(e) = Len(f) + Len(b) - 1
        /\ \A i \in 1..(u - 1) : e[i] = f[i]
        /\ \A i \in 1..Len(b) : e[u - 1 + i] = b[i]
    BY <1>1 DEF Replaced, Cuts
  <2>2. 1 \in 1..Len(b) /\ 2 \in 1..Len(b) /\ u - 1 + 1 = u /\ u - 1 + 2 = u + 1
    BY <1>3, <2>1
  <2>3. e[u - 1 + 1] = b[1] /\ e[u - 1 + 2] = b[2]
    BY <2>1, <2>2
  <2>4. Len(e) = Len(f) + 1
    BY <1>3, <2>1
  <2>5. QED
    BY <1>4, <2>1, <2>2, <2>3, <2>4
<1>9. u + 1 \in 1..Len(e) /\ e[u + 1].kind = "version" /\ e[u + 1].ver = v
  BY <1>1, <1>3, <1>8 DEF Cuts
<1>10. ASSUME NEW k \in 1..Len(d), d[k].kind = "ref" PROVE Points(d[k], e, LowerThan(v))
  <2>1. Points(d[k], d, Numbers)
    BY <1>1, <1>10 DEF Chain
  <2>2. \A i \in 1..Len(c) : c[i].kind # "version"
    <3>1. \A i \in 1..Len(c) : i = 1 \/ i = 2
      BY <1>2
    <3>2. QED
      BY <1>2, <3>1
  <2>3. d[a + 1].kind # "version"
    BY <1>2, <1>5
  <2>4. Points(d[k], f, Numbers)
    BY <1>6, <2>1, <2>2, <2>3, PointsStill
  <2>5. f[z + 1].kind # "version"
    BY <1>1, <1>5
  <2>6. QED
    BY <1>1, <1>7, <2>4, <2>5, PointsUnder
<1>11. PICK p : p = c[1]
  OBVIOUS
<1>12. PICK q : q = c[2]
  OBVIOUS
<1>13. ASSUME NEW k \in 1..Len(f), f[k].kind = "ref"
       PROVE  \/ k = r /\ f[k] = p
              \/ f[k] = q
              \/ \E l \in 1..Len(d) : f[k] = d[l] /\ d[l].label # {}
  <2>1. CASE Outside(a, c, k)
    <3>1. PICK l : l = Was(a, m, c, k)
      OBVIOUS
    <3>2. l \in 1..Len(d) /\ f[k] = d[l]
      BY <1>6, <2>1, <3>1, WasIs
    <3>3. l # r
      <4>1. l = IF k <= a THEN k ELSE k - Len(c) + m
        BY <3>1 DEF Was
      <4>2. k <= a \/ k > a + Len(c)
        BY <2>1 DEF Outside
      <4>3. k \in Int
        BY <1>3
      <4>4. QED
        BY <1>2, <1>4, <1>5, <4>1, <4>2, <4>3
    <3>4. d[l].label # {}
      BY <1>1, <1>2, <1>13, <3>2, <3>3 DEF Chain
    <3>5. QED
      BY <3>2, <3>4
  <2>2. CASE ~Outside(a, c, k)
    <3>1. k - a \in 1..Len(c) /\ k = a + (k - a) /\ (k - a = 1 \/ k - a = 2) /\ k \in Int
      BY <1>2, <1>3, <1>5, <2>2 DEF Outside
    <3>2. f[a + (k - a)] = c[k - a]
      BY <1>6, <3>1 DEF Put
    <3>3. f[k] = c[k - a]
      BY <3>1, <3>2
    <3>4. CASE k - a = 1
      BY <1>5, <1>11, <3>1, <3>3, <3>4
    <3>5. CASE k - a = 2
      BY <1>12, <3>3, <3>5
    <3>6. QED
      BY <3>1, <3>4, <3>5
  <2>3. QED
    BY <2>1, <2>2
<1>14. Points(p, e, Numbers)
  <2>1. ASSUME NEW h \in 1..Len(e), Highest(e, Numbers, h) PROVE e[h].ver = v
    <3>1. /\ e[h].kind = "version" /\ e[h].ver \in Numbers
          /\ \A i \in 1..(h - 1) : ~(e[i].kind = "version" /\ e[i].ver \in Numbers)
      BY <2>1 DEF Highest
    <3>2. h \in Int /\ ~(u + 1 \in 1..(h - 1))
      BY <1>3, <1>8, <1>9, <3>1
    <3>3. h <= u + 1
      BY <1>3, <1>9, <3>2
    <3>4. h # u
      BY <1>1, <1>8, <3>1 DEF Cuts
    <3>5. ~(h \in 1..z)
      <4>1. SUFFICES ASSUME h \in 1..z PROVE FALSE
        OBVIOUS
      <4>2. e[h] = f[h] /\ h \in 1..(u - 1)
        BY <1>4, <1>8, <4>1
      <4>3. QED
        BY <1>1, <3>1, <4>2
    <3>6. h = u + 1
      BY <1>3, <1>4, <3>2, <3>3, <3>4, <3>5
    <3>7. QED
      BY <1>9, <3>6
  <2>2. p.label = {} /\ p.prev = {v}
    BY <1>2, <1>11
  <2>3. \A h \in 1..Len(e) : Highest(e, Numbers, h) => p.prev = {e[h].ver}
    BY <2>1, <2>2
  <2>4. QED
    BY <2>2, <2>3 DEF Points
<1>15. Points(q, e, Numbers)
  <2>1. q.label = {v} /\ q.prev = d[r].prev
    BY <1>2, <1>12
  <2>2. Points(d[r], e, LowerThan(v)) /\ d[r].label = {}
    BY <1>2, <1>10
  <2>3. \A h \in 1..Len(e) : Highest(e, LowerThan(v), h) => q.prev = {e[h].ver}
    BY <2>1, <2>2 DEF Points
  <2>4. Compare(v, v) <= 0
    <3>1. v \in Versions /\ Compare(v, v) = 0
      BY VersionsOrdered
    <3>2. QED
      BY <3>1
  <2>5. \E h \in 1..Len(e) : e[h].kind = "version" /\ Compare(v, e[h].ver) <= 0
    BY <1>9, <2>4
  <2>6. QED
    BY <2>1, <2>3, <2>5 DEF Points
<1>16. \A k \in 1..Len(f) : f[k].kind = "ref" => Points(f[k], e, Numbers)
  <2>1. SUFFICES ASSUME NEW k \in 1..Len(f), f[k].kind = "ref" PROVE Points(f[k], e, Numbers)
    OBVIOUS
  <2>2. CASE \E l \in 1..Len(d) : f[k] = d[l] /\ d[l].label # {}
    <3>1. PICK l \in 1..Len(d) : f[k] = d[l] /\ d[l].label # {}
      BY <2>2
    <3>2. Points(d[l], e, LowerThan(v))
      BY <1>10, <2>1, <3>1
    <3>3. Points(d[l], e, Numbers)
      BY <3>1, <3>2 DEF Points
    <3>4. QED
      BY <3>1, <3>3
  <2>3. QED
    BY <1>13, <1>14, <1>15, <2>1, <2>2
<1>17. \A k \in 1..Len(f) : f[k].kind = "ref" /\ f[k].label = {} => k = r
  BY <1>2, <1>12, <1>13
<1>18. Chain(f, e, Numbers)
  BY <1>16, <1>17 DEF Chain
<1>19. \A i \in 1..Len(b) : b[i].kind # "ref"
  <2>1. \A i \in 1..Len(b) : i = 1 \/ i = 2
    BY <1>1 DEF Cuts
  <2>2. QED
    BY <1>1, <2>1 DEF Cuts
<1>20. QED
  BY <1>7, <1>18, <1>19, ChainWas

LEMMA ReleaseIsChained ==
  ASSUME Numbers \subseteq Versions, NEW d, Regular(d), InChain(d), NEW v \in Numbers, NEW date,
         NEW e \in Release(d, v, date)
  PROVE  InChain(e)
<1>0. IsSequence(d)
  BY DEF Regular
<1>1. PICK f, u, b : Cut(d, v, date, f, u, b, e)
  BY ReleaseIsCut
<1>3. ~Refused(Parse(d), v, date) /\ u = Unreleased(d)
  BY <1>1 DEF Cut
<1>4. f \in ReleaseRefs(d, v)
  BY <1>1 DEF Cut
<1>5. u \in 1..Len(d) /\ d[u].kind = "unreleased"
  BY <1>1 DEF Cut
<1>7. Regular(f) /\ Releases(f) = Releases(d)
  BY <1>1 DEF Cut
<1>8. IsSequence(f) /\ u \in 1..Len(f) /\ f[u].kind = "unreleased"
  BY <1>1 DEF Cut, Regular
<1>9. Cuts(b) /\ b[2].ver = v
  BY <1>1 DEF Cut
<1>10. Replaced(f, u, b, e)
  BY <1>1 DEF Cut
<1>11. CASE f = d /\ \A k \in 1..Len(d) : d[k].kind # "ref"
  <2>1. PICK a, m : a = u - 1 /\ m = 1
    OBVIOUS
  <2>2. Put(d, a, m, b, e)
    BY <1>0, <1>5, <1>9, <1>10, <1>11, <2>1, ReplacePuts DEF Cuts
  <2>3. \A i \in 1..Len(b) : b[i].kind # "ref"
    <3>1. \A i \in 1..Len(b) : i = 1 \/ i = 2
      BY <1>9 DEF Cuts
    <3>2. QED
      BY <1>9, <3>1 DEF Cuts
  <2>4. Chain(d, e, Numbers)
    BY <1>11 DEF Chain
  <2>5. QED
    BY <2>2, <2>3, <2>4, ChainWas DEF InChain
<1>12. ASSUME NEW x, NEW y, Moved(d, v, x, y, f) PROVE InChain(e)
  <2>1. ASSUME NEW i \in 1..Len(f), f[i].kind = "version"
        PROVE  f[i].ver \in Numbers /\ Compare(v, f[i].ver) > 0
    <3>1. PICK w : w = [ver |-> f[i].ver, lines |-> LinesUnder(f, i)]
      OBVIOUS
    <3>2. w \in Releases(d)
      BY <1>7, <1>8, <2>1, <3>1, ReleasesAre
    <3>3. w.ver = f[i].ver /\ Compare(v, w.ver) > 0
      BY <1>3, <3>1, <3>2, RisesAbove
    <3>4. QED
      BY <1>7, <2>1, <3>3 DEF Regular
  <2>2. ASSUME NEW i \in 1..(u - 1) PROVE f[i].kind # "version"
    <3>1. Len(d) \in Nat /\ \A k \in 1..u : d[k].kind # "ref"
      BY <1>0, <1>5, NoRefAbove, SequenceIs
    <3>2. /\ x \in 1..Len(d) /\ d[x].kind = "ref"
          /\ \A k \in 1..(x - 1) : f[k] = d[k]
      BY <1>12 DEF Moved, Replaced
    <3>3. ~(x \in 1..u) /\ i \in 1..(x - 1)
      BY <1>5, <3>1, <3>2
    <3>4. d[i].kind # "version"
      BY <1>3, NoneAbove
    <3>5. QED
      BY <3>2, <3>3, <3>4
  <2>3. Chain(d, d, Numbers)
    BY DEF InChain
  <2>4. Chains(d, f, e, v, u, x, y, b)
    BY <1>0, <1>8, <1>9, <1>10, <1>12, <2>1, <2>2, <2>3 DEF Chains
  <2>5. Chain(e, e, Numbers)
    BY <2>4, MovedIsChained
  <2>6. QED
    BY <2>5 DEF InChain
<1>13. QED
  BY <1>0, <1>4, <1>11, <1>12, RefsMove

-----------------------------------------------------------------------------
(* What stays true of every file that is whole                             *)

\* No heading above that of [Unreleased] is one that cannot be read.
Legible(d) == \A i, u \in 1..Len(d) : i < u /\ d[u].kind = "unreleased" => d[i].kind # "unreadable"

\* Lines put into such a document leave it one, if what stands above a heading of
\* [Unreleased] that comes with them can be read.
LEMMA PutIsLegible ==
  ASSUME NEW d, NEW a, NEW m, NEW b, NEW e, Put(d, a, m, b, e), Legible(d),
         \A i \in 1..Len(b) : b[i].kind # "unreadable",
         \/ \A i \in 1..Len(b) : b[i].kind # "unreleased"
         \/ \A i \in 1..a : d[i].kind # "unreadable"
  PROVE  Legible(e)
<1>1. /\ IsSequence(d) /\ IsSequence(b) /\ IsSequence(e) /\ a \in Nat /\ m \in {0, 1}
      /\ a + m <= Len(d) /\ Len(e) = Len(d) - m + Len(b)
      /\ \A i \in 1..a : e[i] = d[i]
      /\ \A i \in 1..Len(b) : e[a + i] = b[i]
  BY DEF Put
<1>2. Len(d) \in Nat /\ Len(b) \in Nat /\ Len(e) \in Nat
  BY <1>1, SequenceIs
<1>3. SUFFICES ASSUME NEW i \in 1..Len(e), NEW u \in 1..Len(e), i < u, e[u].kind = "unreleased",
                      e[i].kind = "unreadable"
               PROVE  FALSE
  BY DEF Legible
<1>4. ASSUME NEW j \in 1..Len(e), ~Outside(a, b, j) PROVE \E k \in 1..Len(b) : j = a + k /\ e[j] = b[k]
  <2>1. j - a \in 1..Len(b) /\ j = a + (j - a)
    BY <1>1, <1>2, <1>4 DEF Outside
  <2>2. e[a + (j - a)] = b[j - a]
    BY <1>1, <2>1
  <2>3. QED
    BY <2>1, <2>2
<1>5. Outside(a, b, i)
  BY <1>3, <1>4
<1>6. PICK g : g = Was(a, m, b, i)
  OBVIOUS
<1>7. g \in 1..Len(d) /\ d[g].kind = "unreadable"
  BY <1>3, <1>5, <1>6, WasIs
<1>8. g = IF i <= a THEN i ELSE i - Len(b) + m
  BY <1>6 DEF Was
<1>9. CASE Outside(a, b, u)
  <2>1. PICK w : w = Was(a, m, b, u)
    OBVIOUS
  <2>2. w \in 1..Len(d) /\ d[w].kind = "unreleased"
    BY <1>3, <1>9, <2>1, WasIs
  <2>3. w = IF u <= a THEN u ELSE u - Len(b) + m
    BY <2>1 DEF Was
  <2>4. (i <= a \/ i > a + Len(b)) /\ (u <= a \/ u > a + Len(b))
    BY <1>5, <1>9 DEF Outside
  <2>5. g < w
    BY <1>1, <1>2, <1>3, <1>8, <2>3, <2>4
  <2>6. QED
    BY <1>7, <2>2, <2>5 DEF Legible
<1>10. CASE ~Outside(a, b, u)
  <2>1. PICK k \in 1..Len(b) : u = a + k /\ e[u] = b[k]
    BY <1>4, <1>10
  <2>2. \A j \in 1..a : d[j].kind # "unreadable"
    BY <1>3, <2>1
  <2>3. i <= a \/ i > a + Len(b)
    BY <1>5 DEF Outside
  <2>4. i \in 1..a
    BY <1>1, <1>2, <1>3, <2>1, <2>3
  <2>5. QED
    BY <1>7, <1>8, <2>2, <2>4
<1>11. QED
  BY <1>9, <1>10

\* What append puts in, and the links and the headings of a release, are such lines.
LEMMA QuietIsLegible ==
  ASSUME NEW d, Legible(d), NEW a, NEW b, NEW e, Quiet(d, a, b, e)
  PROVE  Legible(e)
<1>1. PICK m : m = 0
  OBVIOUS
<1>2. /\ Put(d, a, m, b, e)
      /\ \A i \in 1..Len(b) : b[i].kind \in {"unreleased", "section", "text"}
      /\ \/ \A i \in 1..Len(b) : b[i].kind # "unreleased"
         \/ \A i \in 1..a : d[i].kind \notin Kinds
  BY <1>1 DEF Quiet
<1>3. \A i \in 1..Len(b) : b[i].kind # "unreadable"
  BY <1>2
<1>4. \/ \A i \in 1..Len(b) : b[i].kind # "unreleased"
      \/ \A i \in 1..a : d[i].kind # "unreadable"
  BY <1>2 DEF Kinds
<1>5. QED
  BY <1>2, <1>3, <1>4, PutIsLegible

LEMMA RelinkedIsLegible ==
  ASSUME NEW d, IsSequence(d), Legible(d), NEW r, NEW b, NEW e, Relinked(d, r, b, e)
  PROVE  Legible(e)
<1>1. SUFFICES ASSUME /\ r \in 1..Len(d) /\ d[r].kind = "ref" /\ Replaced(d, r, b, e)
                      /\ IsSequence(b) /\ Len(b) = 2 /\ b[1].kind = "ref" /\ b[2].kind = "ref"
               PROVE  Legible(e)
  BY DEF Relinked
<1>2. \A i \in 1..Len(b) : b[i].kind = "ref"
  <2>1. \A i \in 1..Len(b) : i = 1 \/ i = 2
    BY <1>1
  <2>2. QED
    BY <1>1, <2>1
<1>3. PICK a, m : a = r - 1 /\ m = 1
  OBVIOUS
<1>4. Put(d, a, m, b, e)
  BY <1>1, <1>3, ReplacePuts
<1>5. (\A i \in 1..Len(b) : b[i].kind # "unreadable") /\ (\A i \in 1..Len(b) : b[i].kind # "unreleased")
  BY <1>2
<1>6. QED
  BY <1>4, <1>5, PutIsLegible

LEMMA RenamedIsLegible ==
  ASSUME NEW d, IsSequence(d), Legible(d), NEW u \in 1..Len(d), d[u].kind = "unreleased",
         NEW b, Cuts(b), NEW e, Replaced(d, u, b, e)
  PROVE  Legible(e)
<1>1. PICK a, m : a = u - 1 /\ m = 1
  OBVIOUS
<1>2. Put(d, a, m, b, e)
  BY <1>1, ReplacePuts DEF Cuts
<1>3. \A i \in 1..Len(b) : b[i].kind # "unreadable"
  <2>1. \A i \in 1..Len(b) : i = 1 \/ i = 2
    BY DEF Cuts
  <2>2. QED
    BY <2>1 DEF Cuts
<1>4. \A i \in 1..a : d[i].kind # "unreadable"
  <2>1. Len(d) \in Nat
    BY SequenceIs
  <2>2. \A i \in 1..a : i \in 1..Len(d) /\ i < u
    BY <1>1, <2>1
  <2>3. QED
    BY <2>2 DEF Legible
<1>5. QED
  BY <1>2, <1>3, <1>4, PutIsLegible

LEMMA ReleaseIsLegible ==
  ASSUME Numbers \subseteq Versions, NEW d, Regular(d), Legible(d), NEW v \in Numbers, NEW date,
         NEW e \in Release(d, v, date)
  PROVE  Legible(e)
<1>1. PICK f, u, b : Cut(d, v, date, f, u, b, e)
  BY ReleaseIsCut
<1>2. PICK r, c : Relinked(d, r, c, f)
  BY <1>1 DEF Cut
<1>3. Legible(f)
  BY <1>2, RelinkedIsLegible DEF Regular
<1>4. /\ Regular(f) /\ u \in 1..Len(f) /\ f[u].kind = "unreleased"
      /\ Cuts(b) /\ Replaced(f, u, b, e)
  BY <1>1 DEF Cut
<1>5. QED
  BY <1>3, <1>4, RenamedIsLegible DEF Regular

\* What stands where lines were put is one of them.
LEMMA InsideIs ==
  ASSUME NEW d, NEW a, NEW m, NEW b, NEW e, Put(d, a, m, b, e),
         NEW j \in 1..Len(e), ~Outside(a, b, j)
  PROVE  \E i \in 1..Len(b) : j = a + i /\ e[j] = b[i]
<1>1. /\ Len(b) \in Nat /\ Len(e) \in Nat /\ a \in Nat
      /\ \A i \in 1..Len(b) : e[a + i] = b[i]
  BY SequenceIs DEF Put
<1>2. j - a \in 1..Len(b) /\ j = a + (j - a)
  BY <1>1 DEF Outside
<1>3. e[a + (j - a)] = b[j - a]
  BY <1>1, <1>2
<1>4. QED
  BY <1>2, <1>3

\* A line of a document that has links: the heading of [Unreleased] is in brackets, and so is
\* that of a version, which has a link of its own.
Adorned(x, d) ==
  (\E k \in 1..Len(d) : d[k].kind = "ref") =>
    /\ x.kind \in {"unreleased", "version"} => x.bracketed = TRUE
    /\ x.kind = "version" => \E k \in 1..Len(d) : d[k].kind = "ref" /\ d[k].label = {x.ver}

Styled(d) == \A h \in 1..Len(d) : Adorned(d[h], d)

\* Lines put in leave it so, if no link goes and none comes.
LEMMA PutIsStyled ==
  ASSUME NEW d, NEW a, NEW m, NEW b, NEW e, Put(d, a, m, b, e), Styled(d),
         m = 0 \/ d[a + 1].kind # "ref",
         \A i \in 1..Len(b) : b[i].kind # "ref" /\ Adorned(b[i], d)
  PROVE  Styled(e)
<1>1. SUFFICES ASSUME NEW j \in 1..Len(e), NEW l \in 1..Len(e), e[l].kind = "ref"
               PROVE  /\ e[j].kind \in {"unreleased", "version"} => e[j].bracketed = TRUE
                      /\ e[j].kind = "version" =>
                           \E k \in 1..Len(e) : e[k].kind = "ref" /\ e[k].label = {e[j].ver}
  BY DEF Styled, Adorned
<1>2. Outside(a, b, l)
  BY <1>1, InsideIs
<1>3. PICK r \in 1..Len(d) : d[r].kind = "ref"
  BY <1>1, <1>2, WasIs
<1>4. Adorned(e[j], d)
  <2>1. CASE Outside(a, b, j)
    BY <2>1, WasIs DEF Styled
  <2>2. CASE ~Outside(a, b, j)
    BY <2>2, InsideIs
  <2>3. QED
    BY <2>1, <2>2
<1>5. /\ e[j].kind \in {"unreleased", "version"} => e[j].bracketed = TRUE
      /\ e[j].kind = "version" => \E k \in 1..Len(d) : d[k].kind = "ref" /\ d[k].label = {e[j].ver}
  BY <1>3, <1>4 DEF Adorned
<1>6. ASSUME e[j].kind = "version" PROVE \E k \in 1..Len(e) : e[k].kind = "ref" /\ e[k].label = {e[j].ver}
  <2>1. PICK k \in 1..Len(d) : d[k].kind = "ref" /\ d[k].label = {e[j].ver}
    BY <1>5, <1>6
  <2>2. m = 0 \/ k # a + 1
    BY <2>1
  <2>3. PICK h \in 1..Len(e) : e[h] = d[k]
    BY <2>2, StillThere
  <2>4. QED
    BY <2>1, <2>3
<1>7. QED
  BY <1>5, <1>6

LEMMA QuietIsStyled ==
  ASSUME NEW d, Styled(d), NEW a, NEW b, NEW e, NEW name, Quiet(d, a, b, e), Asked(b, name)
  PROVE  Styled(e)
<1>1. PICK m : m = 0
  OBVIOUS
<1>2. Put(d, a, m, b, e) /\ \A i \in 1..Len(b) : b[i].kind \in {"unreleased", "section", "text"}
  BY <1>1 DEF Quiet
<1>3. \A i \in 1..Len(b) : b[i].kind # "ref" /\ Adorned(b[i], d)
  <2>1. ASSUME NEW i \in 1..Len(b) PROVE b[i].kind # "ref" /\ Adorned(b[i], d)
    <3>1. b[i].kind \in {"unreleased", "section", "text"} /\ (b[i].kind = "unreleased" => b[i].bracketed = TRUE)
      BY <1>2 DEF Asked
    <3>2. QED
      BY <3>1 DEF Adorned
  <2>2. QED
    BY <2>1
<1>4. QED
  BY <1>1, <1>2, <1>3, PutIsStyled

\* The links of a release leave it so, and the version has one.
LEMMA MovedIsStyled ==
  ASSUME NEW d, IsSequence(d), Styled(d), NEW v, NEW r, NEW c, NEW f, Moved(d, v, r, c, f)
  PROVE  /\ Styled(f)
         /\ \E k \in 1..Len(f) : f[k].kind = "ref" /\ f[k].label = {v}
<1>1. /\ r \in 1..Len(d) /\ d[r].kind = "ref" /\ d[r].label = {} /\ Replaced(d, r, c, f)
      /\ IsSequence(c) /\ Len(c) = 2 /\ c[1].kind = "ref"
      /\ c[2].kind = "ref" /\ c[2].label = {v}
  BY DEF Moved
<1>2. PICK a, m : a = r - 1 /\ m = 1
  OBVIOUS
<1>3. Put(d, a, m, c, f)
  BY <1>1, <1>2, ReplacePuts
<1>4. \A i \in 1..Len(c) : c[i].kind = "ref"
  <2>1. \A i \in 1..Len(c) : i = 1 \/ i = 2
    BY <1>1
  <2>2. QED
    BY <1>1, <2>1
<1>5. ASSUME NEW j \in 1..Len(f) PROVE Adorned(f[j], f)
  <2>1. SUFFICES ASSUME f[j].kind \in {"unreleased", "version"} PROVE Adorned(f[j], f)
    BY DEF Adorned
  <2>2. Outside(a, c, j)
    BY <1>3, <1>4, <2>1, InsideIs
  <2>3. PICK h \in 1..Len(d) : f[j] = d[h]
    BY <1>3, <2>2, WasIs
  <2>4. Adorned(f[j], d)
    BY <2>3 DEF Styled
  <2>5. /\ f[j].bracketed = TRUE
        /\ f[j].kind = "version" => \E k \in 1..Len(d) : d[k].kind = "ref" /\ d[k].label = {f[j].ver}
    BY <1>1, <2>1, <2>4 DEF Adorned
  <2>6. ASSUME f[j].kind = "version"
        PROVE  \E k \in 1..Len(f) : f[k].kind = "ref" /\ f[k].label = {f[j].ver}
    <3>1. PICK k \in 1..Len(d) : d[k].kind = "ref" /\ d[k].label = {f[j].ver}
      BY <2>5, <2>6
    <3>2. k # r
      <4>1. {f[j].ver} # {}
        OBVIOUS
      <4>2. QED
        BY <1>1, <3>1, <4>1
    <3>3. k # a + 1
      <4>1. r \in Int /\ a + 1 = r
        BY <1>1, <1>2
      <4>2. QED
        BY <3>2, <4>1
    <3>4. PICK l \in 1..Len(f) : f[l] = d[k]
      BY <1>3, <3>3, StillThere
    <3>5. QED
      BY <3>1, <3>4
  <2>7. QED
    BY <2>5, <2>6 DEF Adorned
<1>6. \E k \in 1..Len(f) : f[k].kind = "ref" /\ f[k].label = {v}
  <2>1. Len(d) \in Nat /\ Len(f) = Len(d) + 1
    BY <1>1, SequenceIs DEF Replaced
  <2>2. 2 \in 1..Len(c) /\ r - 1 + 2 \in 1..Len(f)
    BY <1>1, <2>1
  <2>3. f[r - 1 + 2] = c[2]
    BY <1>1, <2>2 DEF Replaced
  <2>4. QED
    BY <1>1, <2>2, <2>3
<1>7. QED
  BY <1>5, <1>6 DEF Styled

LEMMA ReleaseIsStyled ==
  ASSUME Numbers \subseteq Versions, NEW d, Regular(d), Styled(d), NEW v \in Numbers, NEW date,
         NEW e \in Release(d, v, date)
  PROVE  Styled(e)
<1>1. PICK f, u, b : Cut(d, v, date, f, u, b, e)
  BY ReleaseIsCut
<1>2. /\ f \in ReleaseRefs(d, v) /\ Regular(f)
      /\ u \in 1..Len(d) /\ d[u].kind = "unreleased" /\ u \in 1..Len(f) /\ f[u].kind = "unreleased"
      /\ Cuts(b) /\ b[2].ver = v /\ Replaced(f, u, b, e)
      /\ b[1].bracketed = d[u].bracketed /\ b[2].bracketed = d[u].bracketed
  BY <1>1 DEF Cut
<1>3. IsSequence(d) /\ IsSequence(f) /\ IsSequence(b) /\ Len(b) = 2
      /\ b[1].kind = "unreleased" /\ b[2].kind = "version"
  BY <1>2 DEF Regular, Cuts
<1>4. /\ Styled(f)
      /\ (\E k \in 1..Len(f) : f[k].kind = "ref") =>
           /\ d[u].bracketed = TRUE
           /\ \E k \in 1..Len(f) : f[k].kind = "ref" /\ f[k].label = {v}
  <2>1. CASE f = d /\ \A k \in 1..Len(d) : d[k].kind # "ref"
    BY <2>1
  <2>2. CASE \E r, c : Moved(d, v, r, c, f)
    <3>1. PICK r, c : Moved(d, v, r, c, f)
      BY <2>2
    <3>2. r \in 1..Len(d) /\ d[r].kind = "ref" /\ Adorned(d[u], d)
      BY <1>2, <3>1 DEF Moved, Styled
    <3>3. d[u].bracketed = TRUE
      BY <1>2, <3>2 DEF Adorned
    <3>4. QED
      BY <1>3, <3>1, <3>3, MovedIsStyled
  <2>3. QED
    BY <1>2, <1>3, <2>1, <2>2, RefsMove
<1>5. PICK a, m : a = u - 1 /\ m = 1
  OBVIOUS
<1>6. Put(f, a, m, b, e)
  BY <1>2, <1>3, <1>5, ReplacePuts
<1>7. f[a + 1].kind # "ref"
  <2>1. u \in Int /\ a + 1 = u
    BY <1>2, <1>5
  <2>2. QED
    BY <1>2, <2>1
<1>8. ASSUME NEW i \in 1..Len(b) PROVE b[i].kind # "ref" /\ Adorned(b[i], f)
  <2>1. i = 1 \/ i = 2
    BY <1>3
  <2>2. Adorned(b[1], f)
    BY <1>2, <1>3, <1>4 DEF Adorned
  <2>3. Adorned(b[2], f)
    BY <1>2, <1>3, <1>4 DEF Adorned
  <2>4. QED
    BY <1>3, <2>1, <2>2, <2>3
<1>9. QED
  BY <1>4, <1>6, <1>7, <1>8, PutIsStyled

\* The dates of the versions are days no later than n, or none.
Timely(d, n) == \A h \in 1..Len(d) : d[h].kind = "version" => d[h].date \in BadDate..n

LEMMA PutIsTimely ==
  ASSUME NEW d, NEW a, NEW m, NEW b, NEW e, Put(d, a, m, b, e), NEW n, Timely(d, n),
         \A i \in 1..Len(b) : b[i].kind = "version" => b[i].date \in BadDate..n
  PROVE  Timely(e, n)
<1>1. SUFFICES ASSUME NEW j \in 1..Len(e), e[j].kind = "version" PROVE e[j].date \in BadDate..n
  BY DEF Timely
<1>2. CASE Outside(a, b, j)
  BY <1>1, <1>2, WasIs DEF Timely
<1>3. CASE ~Outside(a, b, j)
  BY <1>1, <1>3, InsideIs
<1>4. QED
  BY <1>2, <1>3

LEMMA QuietIsTimely ==
  ASSUME NEW d, NEW n, Timely(d, n), NEW a, NEW b, NEW e, Quiet(d, a, b, e)
  PROVE  Timely(e, n)
<1>1. PICK m : m = 0
  OBVIOUS
<1>2. Put(d, a, m, b, e) /\ \A i \in 1..Len(b) : b[i].kind # "version"
  <2>1. Put(d, a, m, b, e) /\ \A i \in 1..Len(b) : b[i].kind \in {"unreleased", "section", "text"}
    BY <1>1 DEF Quiet
  <2>2. QED
    BY <2>1
<1>3. QED
  BY <1>2, PutIsTimely

LEMMA RelinkedIsTimely ==
  ASSUME NEW d, IsSequence(d), NEW n, Timely(d, n), NEW r, NEW b, NEW e, Relinked(d, r, b, e)
  PROVE  Timely(e, n)
<1>1. SUFFICES ASSUME /\ r \in 1..Len(d) /\ Replaced(d, r, b, e)
                      /\ IsSequence(b) /\ Len(b) = 2 /\ b[1].kind = "ref" /\ b[2].kind = "ref"
               PROVE  Timely(e, n)
  BY DEF Relinked
<1>2. PICK a, m : a = r - 1 /\ m = 1
  OBVIOUS
<1>3. Put(d, a, m, b, e)
  BY <1>1, <1>2, ReplacePuts
<1>4. \A i \in 1..Len(b) : b[i].kind # "version"
  <2>1. \A i \in 1..Len(b) : i = 1 \/ i = 2
    BY <1>1
  <2>2. QED
    BY <1>1, <2>1
<1>5. QED
  BY <1>3, <1>4, PutIsTimely

LEMMA ReleaseIsTimely ==
  ASSUME Numbers \subseteq Versions, NEW d, Regular(d), NEW n, Timely(d, n), NEW v \in Numbers,
         NEW date \in BadDate..n, NEW e \in Release(d, v, date)
  PROVE  Timely(e, n)
<1>1. PICK f, u, b : Cut(d, v, date, f, u, b, e)
  BY ReleaseIsCut
<1>2. PICK r, c : Relinked(d, r, c, f)
  BY <1>1 DEF Cut
<1>3. Timely(f, n)
  BY <1>2, RelinkedIsTimely DEF Regular
<1>4. /\ IsSequence(f) /\ u \in 1..Len(f) /\ IsSequence(b) /\ Len(b) = 2 /\ Replaced(f, u, b, e)
      /\ b[1].kind = "unreleased" /\ b[2].date = date
  BY <1>1 DEF Cut, Cuts, Regular
<1>5. PICK a, m : a = u - 1 /\ m = 1
  OBVIOUS
<1>6. Put(f, a, m, b, e)
  BY <1>4, <1>5, ReplacePuts
<1>7. \A i \in 1..Len(b) : b[i].kind = "version" => b[i].date \in BadDate..n
  <2>1. \A i \in 1..Len(b) : i = 1 \/ i = 2
    BY <1>4
  <2>2. QED
    BY <1>4, <2>1
<1>8. QED
  BY <1>3, <1>6, <1>7, PutIsTimely

\* What is asked for has nothing in it that lint objects to: no day but that of the command, no
\* version with build metadata or too long for an OCI tag, no section that is not accepted.
\* A version of three numbers alone is never too long.
Modest ==
  /\ Empty = <<>>
  /\ \A a, b, c \in 0..MaxComponent : Final(a, b, c) \notin Overlong
  /\ \A c \in Commands : \A req \in Requests[c] :
       /\ req.op \in {"append", "release"}
       /\ req.op = "append" /\ req.section \in DOMAIN Fold => req.section \in AllowedSections
       /\ req.op = "release" =>
            /\ req.date \in {NoDate, BadDate}
            /\ \A v \in req.given : v.build = <<>> /\ v \notin Overlong

\* The day that release writes is none, or one that the document has reached.
Ready(day, d, n) == day \in {NoDate, BadDate} \/ (day \in 1..n /\ Timely(d, day))

LEMMA TimelyLater ==
  ASSUME NEW d, NEW n \in Nat, NEW m \in Nat, n <= m
  PROVE  /\ Timely(d, n) => Timely(d, m)
         /\ \A day : Ready(day, d, n) => Ready(day, d, m)
<1>1. \A x : x \in BadDate..n => x \in BadDate..m
  BY DEF BadDate
<1>2. \A x : x \in 1..n => x \in 1..m
  OBVIOUS
<1>3. QED
  BY <1>1, <1>2 DEF Timely, Ready

\* A regular document whose links are a chain, or whose [Unreleased] stands as told above, or
\* whose headings, links, sections and dates, on day n, are as lint would have them.
Bound(t, d, n) ==
  /\ Regular(d)
  /\ t = "chain" => InChain(d)
  /\ t = "top" => Legible(d)
  /\ t = "lint" => Well(d) /\ Styled(d) /\ Timely(d, n)

LEMMA EditedIsBound ==
  ASSUME AllNumbers, NEW c \in Commands, NEW req \in Requests[c], NEW day, NEW t, NEW n \in Nat,
         NEW d, Bound(t, d, n), t = "lint" => Ready(day, d, n), NEW e \in Edited(req, day, d)
  PROVE  Bound(t, e, n)
<1>1. /\ Regular(d) /\ (t = "chain" => InChain(d)) /\ (t = "top" => Legible(d))
      /\ t = "lint" => Well(d) /\ Styled(d) /\ Timely(d, n)
  BY DEF Bound
<1>2. Regular(e)
  BY <1>1, EditEnters
<1>3. CASE req.op = "append"
  <2>1. PICK name, note : name = req.section /\ note = req.note
    OBVIOUS
  <2>2. IsSequence(note) /\ IsSequence(d)
    BY <1>1, <1>3, <2>1, EditorAssumption DEF IsSequence, Regular
  <2>3. e \in AppendNote(d, name, note)
    BY <1>3, <2>1 DEF Edited
  <2>4. e = d \/ \E a, b : Quiet(d, a, b, e) /\ Asked(b, name)
    BY <2>2, <2>3, AppendIsQuiet
  <2>5. t = "lint" => Well(e)
    BY <1>1, EditedIsWell
  <2>6. QED
    BY <1>1, <1>2, <2>4, <2>5, QuietIsChained, QuietIsLegible, QuietIsStyled, QuietIsTimely DEF Bound
<1>4. CASE req.op # "append"
  <2>1. PICK v \in Number(Parse(d), req.given) : e \in Release(d, v, day)
    BY <1>4 DEF Edited
  <2>2. v \in Numbers
    BY <1>1, <1>4, <2>1, NumberIs
  <2>3. (t = "chain" => InChain(e)) /\ (t = "top" => Legible(e))
    BY <1>1, <2>1, <2>2, ReleaseIsChained, ReleaseIsLegible DEF AllNumbers
  <2>4. ASSUME t = "lint" PROVE Well(e) /\ Styled(e) /\ Timely(e, n)
    <3>1. Well(e) /\ Styled(e)
      BY <1>1, <2>1, <2>2, <2>4, EditedIsWell, ReleaseIsStyled DEF AllNumbers
    <3>2. day \in BadDate..n
      <4>1. day \in {NoDate, BadDate} \/ day \in 1..n
        BY <2>4 DEF Ready
      <4>2. QED
        BY <4>1 DEF NoDate, BadDate
    <3>3. QED
      BY <1>1, <2>1, <2>2, <2>4, <3>1, <3>2, ReleaseIsTimely DEF AllNumbers
  <2>5. QED
    BY <1>2, <2>3, <2>4 DEF Bound
<1>5. QED
  BY <1>3, <1>4

\* The topmost heading of the lines is that of the first such entry.
NamedBy(doc, W, S) ==
  S # {} /\ \A i : i \in S <=> i \in Released(doc) /\ doc[i].ver \in W

LEMMA HighestIs ==
  ASSUME NEW d, Regular(d), NEW W, NEW S, NamedBy(Parse(d), W, S)
  PROVE  \E h \in 1..Len(d) : Highest(d, W, h) /\ Parse(d)[Least(S)].ver = d[h].ver
<1>0. IsSequence(d)
  BY DEF Regular
<1>1. PICK doc : doc = Parse(d)
  OBVIOUS
<1>2. PICK heads : heads = Ascending(At(d, Kinds))
  OBVIOUS
<1>3. Parsed(d, heads, doc)
  BY <1>0, <1>1, <1>2, ParseIs
<1>4. Len(heads) \in Nat /\ DOMAIN doc = 1..Len(heads) /\ Len(d) \in Nat
  BY <1>0, <1>3, SequenceIs DEF Parsed, Ascends
<1>5. \A i : i \in S <=> i \in 1..Len(heads) /\ doc[i].kind = "version" /\ doc[i].ver \in W
  BY <1>1, <1>4 DEF Released, NamedBy
<1>6. S \in SUBSET Nat /\ S # {}
  BY <1>5 DEF NamedBy
<1>7. PICK n : n = Least(S)
  OBVIOUS
<1>8. n \in S /\ \A i \in S : n <= i
  BY <1>6, <1>7, LeastPosition
<1>9. PICK h : h = heads[n]
  OBVIOUS
<1>10. h \in 1..Len(d) /\ d[h].kind = "version" /\ d[h].ver = doc[n].ver /\ d[h].ver \in W
  BY <1>3, <1>5, <1>8, <1>9 DEF Parsed
<1>11. ASSUME NEW g \in 1..(h - 1), d[g].kind = "version", d[g].ver \in W PROVE FALSE
  <2>1. g \in 1..Len(d) /\ g < h
    BY <1>4, <1>10
  <2>2. g \in At(d, Kinds)
    BY <1>0, <1>11, <2>1, SequenceIs DEF At, Kinds
  <2>3. PICK k \in 1..Len(heads) : heads[k] = g
    BY <1>3, <2>2 DEF Parsed, Ascends
  <2>4. k \in S
    BY <1>3, <1>5, <1>11, <2>3 DEF Parsed
  <2>5. n \in 1..Len(heads) /\ (n = k \/ n < k)
    BY <1>4, <1>5, <1>8, <2>4
  <2>6. h = g \/ h < g
    BY <1>3, <1>9, <2>3, <2>5 DEF Parsed, Ascends
  <2>7. QED
    BY <1>4, <1>10, <2>1, <2>6
<1>12. Highest(d, W, h)
  BY <1>10, <1>11 DEF Highest
<1>13. QED
  BY <1>1, <1>7, <1>10, <1>12

LEMMA BoundLater ==
  ASSUME NEW t, NEW d, NEW n \in Nat, NEW m \in Nat, n <= m, Bound(t, d, n)
  PROVE  Bound(t, d, m)
BY TimelyLater DEF Bound

\* So it is with a file that is whole, with what a command read, and with what it is about
\* to write.
BoundInv(t) ==
  /\ today \in Nat \ {0}
  /\ ~torn => Bound(t, file, today)
  /\ \A c \in Commands :
       /\ jobs[c].phase \in {"read", "opened", "written"} =>
            /\ Bound(t, jobs[c].src, today)
            /\ t = "lint" => Ready(jobs[c].day, jobs[c].src, today)
       /\ jobs[c].phase = "opened" => Bound(t, jobs[c].out, today)

LEMMA BoundStep ==
  ASSUME AllNumbers, LinesInv, NEW t, BoundInv(t), t = "lint" => Modest, [Next]_vars
  PROVE  BoundInv(t)'
<1>1. IsSequence(file) /\ DOMAIN jobs = Commands /\ \A c \in Commands : Works(c)
  BY DEF LinesInv
<1>2. \A c \in Commands : IsJob(jobs[c])
  BY <1>1 DEF Works
<1>3. ASSUME NEW c \in Commands, jobs' = [jobs EXCEPT ![c] = Idle], UNCHANGED <<file, today, torn>>
      PROVE  BoundInv(t)'
  <2>1. jobs'[c].phase = "idle" /\ \A x \in Commands : x # c => jobs'[x] = jobs[x]
    BY <1>1, <1>3 DEF Idle
  <2>2. QED
    BY <1>3, <2>1 DEF BoundInv
<1>4. CASE UNCHANGED vars
  BY <1>4 DEF BoundInv, vars
<1>5. CASE Tick
  <2>1. /\ today' = today + 1 /\ file' = file /\ jobs' = jobs /\ torn' = torn
        /\ today \in Nat \ {0} /\ (~torn => Bound(t, file, today))
    BY <1>5 DEF BoundInv, Tick
  <2>2. PICK n : n = today'
    OBVIOUS
  <2>3. today \in Nat /\ n \in Nat \ {0} /\ today <= n /\ n \in Nat
    BY <2>1, <2>2
  <2>4. ~torn => Bound(t, file, n)
    BY <2>1, <2>3, BoundLater
  <2>5. ASSUME NEW c \in Commands
        PROVE  /\ jobs[c].phase \in {"read", "opened", "written"} =>
                    /\ Bound(t, jobs[c].src, n)
                    /\ t = "lint" => Ready(jobs[c].day, jobs[c].src, n)
               /\ jobs[c].phase = "opened" => Bound(t, jobs[c].out, n)
    <3>1. /\ jobs[c].phase \in {"read", "opened", "written"} =>
               /\ Bound(t, jobs[c].src, today)
               /\ t = "lint" => Ready(jobs[c].day, jobs[c].src, today)
          /\ jobs[c].phase = "opened" => Bound(t, jobs[c].out, today)
      BY DEF BoundInv
    <3>2. QED
      BY <2>3, <3>1, BoundLater, TimelyLater
  <2>6. QED
    BY <2>1, <2>2, <2>3, <2>4, <2>5 DEF BoundInv
<1>6. ASSUME NEW c \in Commands, Read(c) PROVE BoundInv(t)'
  <2>1. ~torn /\ torn' = torn /\ file' = file /\ today' = today
    BY <1>6 DEF Read
  <2>2. PICK req \in Requests[c] : jobs' = [jobs EXCEPT ![c] =
          [phase |-> "read", req |-> req, day |-> DayFor(req), src |-> file, out |-> <<>>,
           said |-> Nothing]]
    BY <1>6 DEF Read
  <2>3. /\ jobs'[c].src = file /\ jobs'[c].phase = "read" /\ jobs'[c].day = DayFor(req)
        /\ \A x \in Commands : x # c => jobs'[x] = jobs[x]
    BY <1>1, <2>2
  <2>4. Bound(t, file, today) /\ today \in Nat \ {0}
    BY <2>1 DEF BoundInv
  <2>5. ASSUME t = "lint" PROVE Ready(DayFor(req), file, today)
    <3>1. DayFor(req) \in {NoDate, BadDate, today}
      BY <2>5 DEF DayFor, Modest
    <3>2. today \in 1..today /\ Timely(file, today)
      BY <2>4, <2>5 DEF Bound
    <3>3. QED
      BY <3>1, <3>2 DEF Ready
  <2>6. QED
    BY <2>1, <2>3, <2>4, <2>5 DEF BoundInv
<1>7. ASSUME NEW c \in Commands, Refuse(c) PROVE BoundInv(t)'
  BY <1>3, <1>7 DEF Refuse
<1>8. ASSUME NEW c \in Commands, Open(c) PROVE BoundInv(t)'
  <2>1. PICK j : j = jobs[c]
    OBVIOUS
  <2>2. PICK out \in Edited(j.req, j.day, j.src) :
          jobs' = [jobs EXCEPT ![c].phase = "opened", ![c].out = out]
    BY <1>8, <2>1 DEF Open
  <2>3. j.phase = "read" /\ file' = <<>> /\ torn' = torn /\ today' = today
    BY <1>8, <2>1 DEF Open
  <2>4. /\ j.req \in Requests[c] /\ Bound(t, j.src, today) /\ today \in Nat /\ today \in Nat \ {0}
        /\ t = "lint" => Ready(j.day, j.src, today)
    BY <1>1, <2>1, <2>3 DEF Works, BoundInv
  <2>5. Bound(t, out, today)
    BY <2>2, <2>4, EditedIsBound
  <2>6. PICK new : new = [phase |-> "opened", req |-> j.req, day |-> j.day, src |-> j.src,
                          out |-> out, said |-> j.said]
    OBVIOUS
  <2>7. jobs' = [jobs EXCEPT ![c] = new]
    <3>1. jobs' = [jobs EXCEPT ![c] = [jobs[c] EXCEPT !.phase = "opened", !.out = out]]
      BY <2>2
    <3>2. [j EXCEPT !.phase = "opened", !.out = out] = new
      BY <1>2, <2>1, <2>6, JobSteps
    <3>3. QED
      BY <2>1, <3>1, <3>2
  <2>8. new.phase = "opened" /\ new.out = out /\ new.src = j.src /\ new.day = j.day
    BY <2>6
  <2>9. jobs'[c] = new /\ \A x \in Commands : x # c => jobs'[x] = jobs[x]
    BY <1>1, <2>7
  <2>10. Bound(t, <<>>, today)
    <3>1. IsSequence(<<>>)
      <4>1. <<>> \in Seq({})
        OBVIOUS
      <4>2. QED
        BY <4>1 DEF IsSequence
    <3>2. Len(<<>>) = 0
      OBVIOUS
    <3>3. Regular(<<>>)
      BY <3>1, <3>2 DEF Regular
    <3>4. InChain(<<>>) /\ Legible(<<>>)
      BY <3>2 DEF InChain, Chain, Legible
    <3>5. Well(<<>>) /\ Styled(<<>>) /\ Timely(<<>>, today)
      <4>1. At(<<>>, Kinds) = {} /\ At(<<>>, {"section"}) = {}
        BY DEF At
      <4>2. QED
        BY <3>1, <3>2, <4>1 DEF Well, InOrder, Styled, Timely
    <3>6. QED
      BY <3>3, <3>4, <3>5 DEF Bound
  <2>11. QED
    BY <2>3, <2>4, <2>5, <2>8, <2>9, <2>10 DEF BoundInv
<1>9. ASSUME NEW c \in Commands, Write(c) PROVE BoundInv(t)'
  <2>1. PICK out : out = jobs[c].out
    OBVIOUS
  <2>2. /\ jobs[c].phase = "opened" /\ file' = out \o SubSeq(file, Len(out) + 1, Len(file))
        /\ torn' = (torn \/ Len(file) > Len(out))
        /\ jobs' = [jobs EXCEPT ![c].phase = "written"] /\ today' = today
    BY <1>9, <2>1 DEF Write
  <2>3. /\ Bound(t, out, today) /\ IsSequence(out) /\ Bound(t, jobs[c].src, today)
        /\ t = "lint" => Ready(jobs[c].day, jobs[c].src, today)
    BY <1>1, <2>1, <2>2 DEF BoundInv, Works
  <2>4. ASSUME ~torn' PROVE file' = out
    <3>1. ~(Len(file) > Len(out))
      BY <2>2, <2>4
    <3>2. PICK S : file \in Seq(S) /\ out \in Seq(S)
      BY <1>1, <2>3, SequencesShare
    <3>3. PICK q : q = SubSeq(file, Len(out) + 1, Len(file))
      OBVIOUS
    <3>4. q = <<>>
      BY <3>1, <3>2, <3>3
    <3>5. out \o <<>> = out
      BY <3>2
    <3>6. QED
      BY <2>2, <3>3, <3>4, <3>5
  <2>5. PICK j : j = jobs[c]
    OBVIOUS
  <2>6. PICK new : new = [phase |-> "written", req |-> j.req, day |-> j.day, src |-> j.src,
                          out |-> j.out, said |-> j.said]
    OBVIOUS
  <2>7. jobs' = [jobs EXCEPT ![c] = new]
    <3>1. jobs' = [jobs EXCEPT ![c] = [jobs[c] EXCEPT !.phase = "written"]]
      BY <2>2
    <3>2. [j EXCEPT !.phase = "written"] = new
      BY <1>2, <2>5, <2>6, JobSteps
    <3>3. QED
      BY <2>5, <3>1, <3>2
  <2>8. /\ jobs'[c].phase = "written" /\ jobs'[c].src = jobs[c].src /\ jobs'[c].day = jobs[c].day
        /\ \A x \in Commands : x # c => jobs'[x] = jobs[x]
    BY <1>1, <2>5, <2>6, <2>7
  <2>9. QED
    BY <2>2, <2>3, <2>4, <2>8 DEF BoundInv
<1>10. ASSUME NEW c \in Commands, Return(c) PROVE BoundInv(t)'
  <2>1. PICK j : j = jobs[c]
    OBVIOUS
  <2>2. PICK new : new = [phase |-> "returned", req |-> j.req, day |-> j.day, src |-> j.src,
                          out |-> j.out, said |-> Report(c)]
    OBVIOUS
  <2>3. jobs' = [jobs EXCEPT ![c] = new]
    <3>1. jobs' = [jobs EXCEPT ![c] = [jobs[c] EXCEPT !.phase = "returned", !.said = Report(c)]]
      BY <1>10 DEF Return
    <3>2. [j EXCEPT !.phase = "returned", !.said = Report(c)] = new
      BY <1>2, <2>1, <2>2, JobSteps
    <3>3. QED
      BY <2>1, <3>1, <3>2
  <2>4. jobs'[c].phase = "returned" /\ \A x \in Commands : x # c => jobs'[x] = jobs[x]
    BY <1>1, <2>2, <2>3
  <2>5. file' = file /\ torn' = torn /\ today' = today
    BY <1>10 DEF Return
  <2>6. QED
    BY <2>4, <2>5 DEF BoundInv
<1>11. ASSUME NEW c \in Commands, End(c) PROVE BoundInv(t)'
  BY <1>3, <1>11 DEF End
<1>12. QED
  BY <1>4, <1>5, <1>6, <1>7, <1>8, <1>9, <1>10, <1>11 DEF Next

\* What the lines say, the entries that the parser makes of them say.
LEMMA ChainShows ==
  ASSUME Numbers \subseteq Versions, ~torn => Bound("chain", file, today)
  PROVE  LinksChain
<1> DEFINE doc == Parse(file)
           below(v) == {i \in Released(doc) : Compare(doc[i].ver, v) < 0}
<1>1. SUFFICES ASSUME ~torn, NEW k \in At(file, {"ref"}), NEW v \in file[k].label
               PROVE  /\ below(v) # {} => file[k].prev = {doc[Least(below(v))].ver}
                      /\ \A j \in At(file, {"ref"}) : file[j].label = {} /\ Released(doc) # {} =>
                           file[j].prev = {doc[Least(Released(doc))].ver}
  BY DEF LinksChain
<1>2. Regular(file) /\ Chain(file, file, Numbers) /\ IsSequence(file)
  BY <1>1 DEF Bound, InChain, Regular
<1>3. \A j \in At(file, {"ref"}) : /\ j \in 1..Len(file) /\ file[j].kind = "ref"
                                  /\ Points(file[j], file, Numbers)
  <2>1. \A j \in At(file, {"ref"}) : j \in 1..Len(file) /\ file[j].kind = "ref"
    BY <1>2, SequenceIs DEF At
  <2>2. QED
    BY <1>2, <2>1 DEF Chain
<1>4. ASSUME NEW i \in Released(doc) PROVE doc[i].ver \in Numbers
  <2>1. PICK heads : heads = Ascending(At(file, Kinds))
    OBVIOUS
  <2>2. Parsed(file, heads, doc)
    BY <1>2, <2>1, ParseIs
  <2>3. i \in 1..Len(heads) /\ doc[i].kind = "version"
    BY <1>4, <2>2 DEF Parsed, Released
  <2>4. QED
    BY <1>2, <2>2, <2>3 DEF Parsed, Regular
<1>5. ASSUME below(v) # {} PROVE file[k].prev = {doc[Least(below(v))].ver}
  <2>1. PICK S : S = {i \in Released(doc) : doc[i].ver \in LowerThan(v)}
    OBVIOUS
  <2>2. \A i : i \in below(v) <=> i \in S
    BY <1>4, <2>1 DEF LowerThan
  <2>3. below(v) = S
    BY <2>2
  <2>4. PICK h \in 1..Len(file) : Highest(file, LowerThan(v), h) /\ doc[Least(S)].ver = file[h].ver
    <3>1. PICK W : W = LowerThan(v)
      OBVIOUS
    <3>2. NamedBy(Parse(file), W, S)
      BY <1>5, <2>1, <2>3, <3>1 DEF NamedBy
    <3>3. \E h \in 1..Len(file) : Highest(file, W, h) /\ Parse(file)[Least(S)].ver = file[h].ver
      BY <1>2, <3>2, HighestIs
    <3>4. QED
      BY <3>1, <3>3
  <2>5. PICK x \in Numbers :
          /\ file[k].label = {x}
          /\ \A g \in 1..Len(file) : Highest(file, LowerThan(x), g) => file[k].prev = {file[g].ver}
    BY <1>1, <1>3 DEF Points
  <2>6. x = v
    BY <1>1, <2>5
  <2>7. file[k].prev = {file[h].ver}
    BY <2>4, <2>5, <2>6
  <2>8. QED
    BY <2>3, <2>4, <2>7
<1>6. ASSUME NEW j \in At(file, {"ref"}), file[j].label = {}, Released(doc) # {}
      PROVE  file[j].prev = {doc[Least(Released(doc))].ver}
  <2>1. PICK S : S = {i \in Released(doc) : doc[i].ver \in Numbers}
    OBVIOUS
  <2>2. Released(doc) = S
    BY <1>4, <2>1
  <2>3. PICK h \in 1..Len(file) : Highest(file, Numbers, h) /\ doc[Least(S)].ver = file[h].ver
    <3>1. NamedBy(Parse(file), Numbers, S)
      BY <1>6, <2>1, <2>2 DEF NamedBy
    <3>2. \E h \in 1..Len(file) : Highest(file, Numbers, h) /\ Parse(file)[Least(S)].ver = file[h].ver
      BY <1>2, <3>1, HighestIs
    <3>3. QED
      BY <3>2
  <2>4. file[j].prev = {file[h].ver}
    BY <1>3, <1>6, <2>3 DEF Points
  <2>5. QED
    BY <2>2, <2>3, <2>4
<1>7. QED
  BY <1>5, <1>6

\* edit.go moves the start of the [Unreleased] link to the new version, and gives the old one
\* to the link of that version: in a file whose links were a chain they are one ever after,
\* whatever its length, whichever versions are named, and however many commands overlap, short
\* of one that tears the file.
THEOREM LinksStayAChain ==
  ASSUME AllNumbers, \A d \in StartDocs : Regular(d) /\ InChain(d)
  PROVE  Spec => []LinksChain
<1>1. Init => BoundInv("chain")
  <2>1. SUFFICES ASSUME Init PROVE BoundInv("chain")
    OBVIOUS
  <2>2. Bound("chain", file, today)
    BY <2>1 DEF Init, Bound
  <2>3. \A c \in Commands : jobs[c].phase = "idle"
    BY <2>1 DEF Init, Idle
  <2>4. today \in Nat \ {0}
    BY <2>1 DEF Init
  <2>5. QED
    BY <2>2, <2>3, <2>4 DEF BoundInv
<1>2. BoundInv("chain") => LinksChain
  BY ChainShows DEF BoundInv, AllNumbers
<1>3. LinesInv /\ BoundInv("chain") /\ [Next]_vars => BoundInv("chain")'
  BY BoundStep
<1>4. QED
  BY <1>1, <1>2, <1>3, LinesInit, LinesStep, PTL DEF Spec

-----------------------------------------------------------------------------
(* What breaks is no patch                                                 *)

\* An entry of a parsed document, and the heading it is read from.
ReadFrom(d, h, p) ==
  /\ p.kind = d[h].kind /\ p.ver = d[h].ver /\ p.body = Body(d, h)
  /\ p.sections = SectionNames(d, h) /\ p.date = d[h].date /\ p.link = Linked(d, h)

\* The headings are read in their order, each to an entry.
Entries(d, heads, doc) ==
  /\ Len(d) \in Nat /\ Len(heads) \in Nat /\ DOMAIN doc = 1..Len(heads)
  /\ \A n \in 1..Len(heads) : /\ heads[n] \in 1..Len(d) /\ d[heads[n]].kind \in Kinds
                              /\ ReadFrom(d, heads[n], doc[n])
  /\ \A i, j \in 1..Len(heads) : i < j => heads[i] < heads[j]
  /\ \A h \in 1..Len(d) : d[h].kind \in Kinds => \E n \in 1..Len(heads) : heads[n] = h

LEMMA EntriesAre ==
  ASSUME NEW d, IsSequence(d)
  PROVE  \E heads : Entries(d, heads, Parse(d))
<1>1. PICK heads : heads = Ascending(At(d, Kinds))
  OBVIOUS
<1>2. PICK doc : doc = Parse(d)
  OBVIOUS
<1>3. Parsed(d, heads, doc)
  BY <1>1, <1>2, ParseIs
<1>4. /\ Len(d) \in Nat /\ Len(heads) \in Nat /\ DOMAIN heads = 1..Len(heads) /\ DOMAIN doc = 1..Len(heads)
      /\ \A n \in 1..Len(heads) : heads[n] \in 1..Len(d) /\ d[heads[n]].kind \in Kinds
      /\ \A i, j \in 1..Len(heads) : i < j => heads[i] < heads[j]
      /\ \A k \in At(d, Kinds) : \E n \in 1..Len(heads) : heads[n] = k
  BY <1>3, SequenceIs DEF Parsed, Ascends
<1>5. \A h \in 1..Len(d) : d[h].kind \in Kinds => h \in At(d, Kinds)
  BY SequenceIs DEF At
<1>6. doc = [n \in DOMAIN heads |->
               [kind |-> d[heads[n]].kind, ver |-> d[heads[n]].ver, date |-> d[heads[n]].date,
                body |-> Body(d, heads[n]), sections |-> SectionNames(d, heads[n]),
                link |-> Linked(d, heads[n])]]
  BY <1>1, <1>2 DEF Parse
<1>7. ASSUME NEW n \in 1..Len(heads) PROVE ReadFrom(d, heads[n], doc[n])
  BY <1>4, <1>6 DEF ReadFrom
<1>8. Entries(d, heads, doc)
  BY <1>4, <1>5, <1>7 DEF Entries
<1>9. QED
  BY <1>2, <1>8

\* The sections of an entry carry the names that its lines do.
LEMMA NamesAre ==
  ASSUME NEW d, IsSequence(d), NEW h \in 1..Len(d), NEW s, s = SectionNames(d, h), NEW x
  PROVE  Names(d, h, x) <=> \E n \in DOMAIN s : s[n] = x
<1>1. PICK a : a = After(At(d, Kinds), h, d)
  OBVIOUS
<1>9. PICK C : C = {k \in (h + 1)..(a - 1) : d[k].kind = "section"}
  OBVIOUS
<1>10. PICK own : own = Ascending(C)
  OBVIOUS
<1>11. s = [n \in DOMAIN own |-> d[own[n]].name]
  BY <1>1, <1>9, <1>10 DEF SectionNames
<1>12. \A k : k \in C <=> k \in 1..Len(d) /\ Within(d, h, k) /\ d[k].kind = "section"
  <2>1. \A k : k \in C <=> Within(d, h, k) /\ d[k].kind = "section"
    BY <1>1, <1>9, WithinIs
  <2>2. \A k : Within(d, h, k) => k \in 1..Len(d)
    BY DEF Within
  <2>3. QED
    BY <2>1, <2>2
<1>13. C \in SUBSET (1..Len(d))
  BY <1>12
<1>14. Ascends(C, own)
  <2>1. Len(d) \in Nat
    BY SequenceIs
  <2>2. QED
    BY <1>10, <1>13, <2>1, AscendingIs
<1>15. DOMAIN own = 1..Len(own) /\ (\A n \in 1..Len(own) : own[n] \in C)
       /\ \A k \in C : \E n \in 1..Len(own) : own[n] = k
  BY <1>14 DEF Ascends
<1>16. ASSUME Names(d, h, x) PROVE \E n \in DOMAIN s : s[n] = x
  <2>1. PICK k \in Content(d, h) : d[k].kind = "section" /\ d[k].name = x
    BY <1>16 DEF Names
  <2>2. k \in C
    BY <1>12, <2>1 DEF Content
  <2>3. PICK n \in 1..Len(own) : own[n] = k
    BY <1>15, <2>2
  <2>4. QED
    BY <1>11, <1>15, <2>1, <2>3
<1>17. ASSUME NEW n \in DOMAIN s, s[n] = x PROVE Names(d, h, x)
  <2>1. own[n] \in C /\ d[own[n]].name = x
    BY <1>11, <1>15, <1>17
  <2>2. own[n] \in Content(d, h) /\ d[own[n]].kind = "section"
    BY <1>12, <2>1 DEF Content
  <2>3. QED
    BY <2>1, <2>2 DEF Names
<1>18. QED
  BY <1>16, <1>17

\* Of two entries with one body and the same names of sections, both break or neither does.
LEMMA BreaksAlike ==
  ASSUME NEW d, IsSequence(d), NEW g \in 1..Len(d), NEW e, IsSequence(e), NEW h \in 1..Len(e),
         Kept(d, g, e, h), NEW p, ReadFrom(d, g, p), NEW q, ReadFrom(e, h, q), IsBreaking(q)
  PROVE  IsBreaking(p)
<1>1. p.body = q.body
  BY DEF Kept, ReadFrom
<1>2. CASE \E n \in DOMAIN q.sections : Fold[q.sections[n]] = "Breaking"
  <2>1. PICK n \in DOMAIN q.sections : Fold[q.sections[n]] = "Breaking"
    BY <1>2
  <2>2. PICK x : x = q.sections[n]
    OBVIOUS
  <2>3. Names(e, h, x)
    BY <2>1, <2>2, NamesAre DEF ReadFrom
  <2>4. Names(d, g, x)
    BY <2>3 DEF Kept
  <2>5. PICK m \in DOMAIN p.sections : p.sections[m] = x
    BY <2>4, NamesAre DEF ReadFrom
  <2>6. QED
    BY <2>1, <2>2, <2>5 DEF IsBreaking
<1>3. CASE \E k \in DOMAIN q.body : q.body[k].kind = "text" /\ q.body[k].text \in Breaking
  BY <1>1, <1>3 DEF IsBreaking
<1>4. QED
  BY <1>2, <1>3 DEF IsBreaking

\* A version that breaking entries call for, and that is above the final version it is bumped
\* from, differs from it in more than the patch.
LEMMA BumpBreaks ==
  ASSUME NEW base \in Versions, ~Prerelease(base), NEW e, IsBreaking(e), NEW v \in Versions,
         v = Bump(base, e), Compare(v, base) > 0
  PROVE  <<v.major, v.minor>> # <<base.major, base.minor>>
<1>1. SUFFICES ASSUME v.major = base.major, v.minor = base.minor PROVE FALSE
  OBVIOUS
<1>2. base.pre = <<>> /\ base.patch \in Nat
  BY MaxComponentAssumption DEF Prerelease, Versions
<1>3. v = [NoVersion EXCEPT !.major = Inc(base.major)]
      \/ v = [NoVersion EXCEPT !.major = base.major, !.minor = Inc(base.minor)]
  BY DEF Bump
<1>4. v.patch = 0 /\ v.pre = <<>>
  BY <1>3 DEF NoVersion
<1>5. CASE base.patch = 0
  <2>1. Compare(v, base) = ComparePre(v.pre, base.pre)
    BY <1>1, <1>4, <1>5 DEF Compare
  <2>2. Compare(v, base) = 0
    BY <1>2, <1>4, <2>1 DEF ComparePre
  <2>3. QED
    BY <2>2
<1>6. CASE base.patch # 0
  <2>1. Compare(v, base) = Cmp(0, base.patch)
    BY <1>1, <1>4, <1>6 DEF Compare
  <2>2. Cmp(0, base.patch) = -1
    BY <1>2, <1>6 DEF Cmp
  <2>3. QED
    BY <2>1, <2>2
<1>7. QED
  BY <1>5, <1>6

\* The versions that are no pre-releases.
Finals == {w \in Numbers : ~Prerelease(w)}

\* A computed version is bumped from the topmost of them, for the notes that wait.
BumpedFrom(d, u, v, h, p) ==
  Highest(d, Finals, h) /\ ReadFrom(d, u, p) /\ v = Bump(d[h].ver, p)

LEMMA NextIs ==
  ASSUME NEW d, Regular(d), NEW u \in 1..Len(d), d[u].kind = "unreleased",
         NEW v \in NextVersion(Parse(d))
  PROVE  \E h, p : BumpedFrom(d, u, v, h, p)
<1>0. /\ IsSequence(d) /\ \A i \in 1..Len(d) : d[i].kind = "version" => d[i].ver \in Numbers
      /\ \A i, j \in 1..Len(d) : d[i].kind = "unreleased" /\ d[j].kind = "unreleased" => i = j
  BY DEF Regular
<1>1. PICK doc : doc = Parse(d)
  OBVIOUS
<1>2. PICK heads : Entries(d, heads, doc)
  BY <1>0, <1>1, EntriesAre
<1>3. /\ Len(d) \in Nat /\ Len(heads) \in Nat /\ DOMAIN doc = 1..Len(heads)
      /\ \A n \in 1..Len(heads) : /\ heads[n] \in 1..Len(d) /\ d[heads[n]].kind \in Kinds
                                  /\ ReadFrom(d, heads[n], doc[n])
  BY <1>2 DEF Entries
<1>4. PICK N : N = {i \in DOMAIN doc : doc[i].kind = "unreleased"}
  OBVIOUS
<1>5. PICK S : S = {i \in Released(doc) : ~Prerelease(doc[i].ver)}
  OBVIOUS
<1>6. N # {} /\ S # {} /\ v = Bump(doc[Least(S)].ver, doc[Least(N)])
  BY <1>1, <1>4, <1>5 DEF NextVersion
<1>7. PICK n : n = Least(N)
  OBVIOUS
<1>8. n \in 1..Len(heads) /\ doc[n].kind = "unreleased"
  <2>1. N \in SUBSET Nat /\ \A i \in N : i \in 1..Len(heads) /\ doc[i].kind = "unreleased"
    BY <1>3, <1>4
  <2>2. n \in N
    BY <1>6, <1>7, <2>1, LeastPosition
  <2>3. QED
    BY <2>1, <2>2
<1>9. heads[n] = u /\ ReadFrom(d, u, doc[n])
  <2>1. heads[n] \in 1..Len(d) /\ ReadFrom(d, heads[n], doc[n])
    BY <1>3, <1>8
  <2>2. d[heads[n]].kind = "unreleased"
    BY <1>8, <2>1 DEF ReadFrom
  <2>3. heads[n] = u
    BY <1>0, <2>1, <2>2
  <2>4. QED
    BY <2>1, <2>3
<1>10. NamedBy(Parse(d), Finals, S)
  <2>1. \A i : i \in S <=> i \in Released(doc) /\ ~Prerelease(doc[i].ver)
    BY <1>5
  <2>2. ASSUME NEW i \in Released(doc) PROVE doc[i].ver \in Numbers
    <3>1. i \in 1..Len(heads) /\ doc[i].kind = "version"
      BY <1>3, <2>2 DEF Released
    <3>2. QED
      BY <1>0, <1>3, <3>1 DEF ReadFrom
  <2>3. \A i : i \in S <=> i \in Released(doc) /\ doc[i].ver \in Finals
    BY <2>1, <2>2 DEF Finals
  <2>4. QED
    BY <1>1, <1>6, <2>3 DEF NamedBy
<1>11. PICK h \in 1..Len(d) : Highest(d, Finals, h) /\ Parse(d)[Least(S)].ver = d[h].ver
  BY <1>10, HighestIs
<1>12. BumpedFrom(d, u, v, h, doc[n])
  BY <1>1, <1>6, <1>7, <1>9, <1>11 DEF BumpedFrom
<1>13. QED
  BY <1>12

\* The entry i of doc is read from line w of e, and below it are the other releases.
Newest(e, w, doc, i) ==
  /\ ReadFrom(e, w, doc[i])
  /\ \A j \in Released(doc) : j > i =>
       \E g \in 1..Len(e) : e[g].kind = "version" /\ doc[j].ver = e[g].ver /\ g # w
  /\ \A j \in Released(doc) : ~(j > i) => doc[j].ver = e[w].ver
  /\ \A g \in 1..Len(e) : e[g].kind = "version" /\ g # w =>
       \E j \in Released(doc) : j > i /\ doc[j].ver = e[g].ver

\* The newest entry is the topmost that names a version, where none above is unreadable.
LEMMA NewestIs ==
  ASSUME NEW e, IsSequence(e), NEW w \in 1..Len(e), e[w].kind = "version",
         \A i \in 1..(w - 1) : e[i].kind # "version" /\ e[i].kind # "unreadable"
  PROVE  Newest(e, w, Parse(e), Latest(Parse(e)))
<1>1. PICK doc : doc = Parse(e)
  OBVIOUS
<1>2. PICK heads : Entries(e, heads, doc)
  BY <1>1, EntriesAre
<1>3. /\ Len(e) \in Nat /\ Len(heads) \in Nat /\ DOMAIN doc = 1..Len(heads)
      /\ \A n \in 1..Len(heads) : /\ heads[n] \in 1..Len(e) /\ e[heads[n]].kind \in Kinds
                                  /\ ReadFrom(e, heads[n], doc[n])
      /\ \A i, j \in 1..Len(heads) : i < j => heads[i] < heads[j]
      /\ \A h \in 1..Len(e) : e[h].kind \in Kinds => \E n \in 1..Len(heads) : heads[n] = h
  BY <1>2 DEF Entries
<1>4. PICK m \in 1..Len(heads) : heads[m] = w
  BY <1>3 DEF Kinds
<1>5. doc[m].kind = "version" /\ ReadFrom(e, w, doc[m])
  BY <1>3, <1>4 DEF ReadFrom
<1>6. PICK S : S = {i \in DOMAIN doc : doc[i].kind # "unreleased"}
  OBVIOUS
<1>7. S \in SUBSET Nat /\ \A i : i \in S <=> i \in 1..Len(heads) /\ doc[i].kind # "unreleased"
  BY <1>3, <1>6
<1>8. m \in S
  BY <1>5, <1>7
<1>9. PICK i : i = Least(S)
  OBVIOUS
<1>10. i \in S /\ i <= m
  BY <1>7, <1>8, <1>9, LeastPosition
<1>11. i = m
  <2>1. SUFFICES ASSUME i < m PROVE FALSE
    BY <1>7, <1>10
  <2>2. i \in 1..Len(heads) /\ doc[i].kind # "unreleased"
    BY <1>7, <1>10
  <2>3. heads[i] \in 1..Len(e) /\ heads[i] < w /\ e[heads[i]].kind \in Kinds /\ e[heads[i]].kind # "unreleased"
    BY <1>3, <1>4, <2>1, <2>2 DEF ReadFrom
  <2>4. heads[i] \in 1..(w - 1)
    BY <1>3, <2>3
  <2>5. QED
    BY <2>3, <2>4 DEF Kinds
<1>12. Latest(doc) = m
  <2>1. S # {} /\ doc[Least(S)].kind # "unreadable"
    BY <1>5, <1>8, <1>9, <1>11
  <2>2. QED
    BY <1>6, <1>9, <1>11, <2>1 DEF Latest
<1>13. ASSUME NEW j \in Released(doc)
       PROVE  /\ j \in 1..Len(heads) /\ heads[j] \in 1..Len(e) /\ e[heads[j]].kind = "version"
              /\ doc[j].ver = e[heads[j]].ver
  BY <1>3, <1>13 DEF Released, ReadFrom
<1>14. ASSUME NEW j \in Released(doc), j > m
       PROVE  \E g \in 1..Len(e) : e[g].kind = "version" /\ doc[j].ver = e[g].ver /\ g # w
  <2>1. heads[j] > w
    BY <1>3, <1>4, <1>13, <1>14
  <2>2. heads[j] # w
    BY <1>3, <1>13, <2>1
  <2>3. QED
    BY <1>13, <2>2
<1>15. ASSUME NEW j \in Released(doc), ~(j > m) PROVE doc[j].ver = e[w].ver
  <2>1. SUFFICES ASSUME j < m PROVE FALSE
    BY <1>3, <1>5, <1>13, <1>15 DEF ReadFrom
  <2>2. j \in 1..Len(heads) /\ heads[j] \in 1..Len(e) /\ e[heads[j]].kind = "version"
    BY <1>13, <1>15
  <2>3. heads[j] < w
    BY <1>3, <1>4, <2>1, <2>2
  <2>4. heads[j] \in 1..(w - 1)
    BY <1>3, <2>2, <2>3
  <2>5. QED
    BY <2>2, <2>4
<1>16. ASSUME NEW g \in 1..Len(e), e[g].kind = "version", g # w
       PROVE  \E j \in Released(doc) : j > m /\ doc[j].ver = e[g].ver
  <2>1. PICK j \in 1..Len(heads) : heads[j] = g
    BY <1>3, <1>16 DEF Kinds
  <2>2. j \in Released(doc) /\ doc[j].ver = e[g].ver
    BY <1>3, <1>16, <2>1 DEF Released, ReadFrom
  <2>3. ~(j < m)
    <3>1. SUFFICES ASSUME j < m PROVE FALSE
      OBVIOUS
    <3>2. g \in 1..(w - 1)
      BY <1>3, <1>4, <2>1, <3>1
    <3>3. QED
      BY <1>16, <3>2
  <2>4. j # m
    BY <1>4, <1>16, <2>1
  <2>5. QED
    BY <1>3, <2>1, <2>2, <2>3, <2>4
<1>17. Newest(e, w, doc, m)
  BY <1>5, <1>14, <1>15, <1>16 DEF Newest
<1>18. QED
  BY <1>1, <1>12, <1>17

\* The links of a release leave the lines above the heading of [Unreleased] as they are.
LEMMA RelinkedAbove ==
  ASSUME NEW d, Regular(d), NEW r, NEW b, NEW e, Relinked(d, r, b, e),
         NEW u \in 1..Len(d), d[u].kind = "unreleased", NEW i \in 1..u
  PROVE  e[i] = d[i]
<1>1. SUFFICES ASSUME r \in 1..Len(d), d[r].kind = "ref", Replaced(d, r, b, e) PROVE e[i] = d[i]
  BY DEF Relinked
<1>2. Len(d) \in Nat /\ \A k \in 1..u : d[k].kind # "ref"
  BY NoRefAbove, SequenceIs DEF Regular
<1>3. ~(r \in 1..u)
  BY <1>1, <1>2
<1>4. i \in 1..(r - 1)
  BY <1>1, <1>2, <1>3
<1>5. QED
  BY <1>1, <1>4 DEF Replaced

\* A heading of a version is one of a release, and is there when links have been moved.
LEMMA RelinkedThere ==
  ASSUME NEW d, IsSequence(d), NEW r, NEW b, NEW e, Relinked(d, r, b, e),
         NEW h \in 1..Len(d), d[h].kind = "version"
  PROVE  \E g \in 1..Len(e) : e[g] = d[h]
<1>1. CASE e = d
  BY <1>1
<1>2. CASE /\ r \in 1..Len(d) /\ d[r].kind = "ref" /\ Replaced(d, r, b, e) /\ IsSequence(b)
  <2>1. PICK a, m : a = r - 1 /\ m = 1
    OBVIOUS
  <2>2. Put(d, a, m, b, e)
    BY <1>2, <2>1, ReplacePuts
  <2>3. h # a + 1
    <3>1. r \in Int /\ h # r
      BY <1>2
    <3>2. QED
      BY <2>1, <3>1
  <2>4. QED
    BY <2>2, <2>3, StillThere
<1>3. QED
  BY <1>1, <1>2 DEF Relinked

LEMMA HighestRelinked ==
  ASSUME NEW d, IsSequence(d), NEW r, NEW b, NEW e, Relinked(d, r, b, e), NEW W,
         NEW h, Highest(e, W, h)
  PROVE  \E g : Highest(d, W, g) /\ d[g] = e[h]
<1>1. CASE e = d
  BY <1>1
<1>2. CASE /\ r \in 1..Len(d) /\ d[r].kind = "ref" /\ Replaced(d, r, b, e)
           /\ IsSequence(b) /\ Len(b) = 2 /\ b[1].kind = "ref" /\ b[2].kind = "ref"
  <2>1. PICK a, m : a = r - 1 /\ m = 1
    OBVIOUS
  <2>2. Put(d, a, m, b, e)
    BY <1>2, <2>1, ReplacePuts
  <2>3. d[a + 1].kind # "version"
    <3>1. r \in Int /\ a + 1 = r
      BY <1>2, <2>1
    <3>2. QED
      BY <1>2, <3>1
  <2>4. \A i \in 1..Len(b) : b[i].kind = "version" => b[i].ver \notin W
    <3>1. \A i \in 1..Len(b) : i = 1 \/ i = 2
      BY <1>2
    <3>2. QED
      BY <1>2, <3>1
  <2>5. QED
    BY <2>2, <2>3, <2>4, HighestWas
<1>3. QED
  BY <1>1, <1>2 DEF Relinked

\* The headings of a release, with nothing that can be taken for a version above its own.
LEMMA CutIs ==
  ASSUME Numbers \subseteq Versions, NEW d, Regular(d), Legible(d), NEW v \in Numbers, NEW date,
         NEW f, NEW u, NEW b, NEW e, Cut(d, v, date, f, u, b, e), NEW w, w = u + 1
  PROVE  /\ IsSequence(e) /\ w \in 1..Len(e) /\ e[w].kind = "version" /\ e[w].ver = v
         /\ Kept(d, u, e, w)
         /\ \A i \in 1..(w - 1) : e[i].kind # "version" /\ e[i].kind # "unreadable"
         /\ \A g \in 1..Len(e) : e[g].kind = "version" /\ g # w =>
              e[g].ver \in Numbers /\ e[g].ver # v /\ \E x \in 1..Len(f) : f[x] = e[g]
<1>1. /\ ~Refused(Parse(d), v, date) /\ u = Unreleased(d) /\ Regular(f) /\ Releases(f) = Releases(d)
      /\ u \in 1..Len(d) /\ d[u].kind = "unreleased" /\ u \in 1..Len(f) /\ f[u].kind = "unreleased"
      /\ Cuts(b) /\ b[2].ver = v /\ Replaced(f, u, b, e)
  BY DEF Cut
<1>2. PICK r, c : Relinked(d, r, c, f)
  BY DEF Cut
<1>3. IsSequence(f) /\ IsSequence(d) /\ Len(f) \in Nat /\ Len(d) \in Nat
  BY <1>1, SequenceIs DEF Regular
<1>4. Kept(d, u, f, u)
  BY <1>1, <1>2, RelinkedBody
<1>5. /\ IsSequence(e) /\ w \in 1..Len(e) /\ e[w] = b[2] /\ Kept(f, u, e, w)
      /\ \A h \in 1..Len(e) : e[h].kind = "version" /\ h # w => \E g \in 1..Len(f) : f[g] = e[h]
  BY <1>1, <1>3, RenamedBody
<1>6. Kept(d, u, e, w)
  BY <1>4, <1>5 DEF Kept
<1>7. ASSUME NEW i \in 1..(w - 1) PROVE e[i].kind # "version" /\ e[i].kind # "unreadable"
  <2>1. CASE i = u
    <3>1. Len(b) = 2 /\ b[1].kind = "unreleased"
      BY <1>1 DEF Cuts
    <3>2. 1 \in 1..Len(b) /\ u - 1 + 1 = u
      BY <1>1, <1>3, <3>1
    <3>3. e[u - 1 + 1] = b[1]
      BY <1>1, <3>2 DEF Replaced
    <3>4. QED
      BY <2>1, <3>1, <3>2, <3>3
  <2>2. CASE i # u
    <3>1. i \in 1..(u - 1) /\ i \in 1..u /\ i \in 1..Len(d) /\ i < u
      BY <1>1, <1>3, <2>2
    <3>2. e[i] = f[i] /\ f[i] = d[i]
      BY <1>1, <1>2, <3>1, RelinkedAbove DEF Replaced
    <3>3. d[i].kind # "version"
      BY <1>1, <3>1, NoneAbove
    <3>4. d[i].kind # "unreadable"
      BY <1>1, <3>1 DEF Legible
    <3>5. QED
      BY <3>2, <3>3, <3>4
  <2>3. QED
    BY <2>1, <2>2
<1>8. ASSUME NEW g \in 1..Len(e), e[g].kind = "version", g # w
      PROVE  e[g].ver \in Numbers /\ e[g].ver # v /\ \E x \in 1..Len(f) : f[x] = e[g]
  <2>1. PICK x \in 1..Len(f) : f[x] = e[g]
    BY <1>5, <1>8
  <2>2. PICK y : y = [ver |-> f[x].ver, lines |-> LinesUnder(f, x)]
    OBVIOUS
  <2>3. y \in Releases(d)
    BY <1>1, <1>3, <1>8, <2>1, <2>2, ReleasesAre
  <2>4. y.ver = e[g].ver /\ Compare(v, y.ver) > 0
    BY <1>1, <2>1, <2>2, <2>3, RisesAbove
  <2>5. Compare(v, v) = 0
    BY VersionsOrdered
  <2>6. e[g].ver # v
    BY <2>4, <2>5
  <2>7. e[g].ver \in Numbers
    BY <1>1, <1>8, <2>1 DEF Regular
  <2>8. QED
    BY <2>1, <2>6, <2>7
<1>9. e[w].kind = "version" /\ e[w].ver = v
  BY <1>1, <1>5 DEF Cuts
<1>10. QED
  BY <1>5, <1>6, <1>7, <1>8, <1>9

\* The final versions below entry i.
FinalsBelow(doc, i, S) == S = {j \in Released(doc) : j > i /\ ~Prerelease(doc[j].ver)}

\* A release whose version is computed, and that breaks, is no patch of the final below it.
LEMMA ReleaseBreaks ==
  ASSUME AllNumbers, NEW d, Regular(d), Legible(d), NEW v \in Numbers, v \in NextVersion(Parse(d)),
         NEW date, NEW e \in Release(d, v, date), NEW doc, doc = Parse(e), NEW i, i = Latest(doc),
         IsBreaking(doc[i]), NEW S, FinalsBelow(doc, i, S), NEW base, base = doc[Least(S)].ver
  PROVE  <<doc[i].ver.major, doc[i].ver.minor>> # <<base.major, base.minor>>
<1>0. Numbers \subseteq Versions /\ IsSequence(d) /\ v \in Versions
  BY DEF AllNumbers, Regular
<1>1. PICK f, u, b : Cut(d, v, date, f, u, b, e)
  BY <1>0, ReleaseIsCut
<1>2. /\ Regular(f) /\ u \in 1..Len(d) /\ d[u].kind = "unreleased" /\ u \in 1..Len(f)
      /\ f[u].kind = "unreleased" /\ Cuts(b) /\ b[2].ver = v /\ Replaced(f, u, b, e)
  BY <1>1 DEF Cut
<1>3. PICK r, c : Relinked(d, r, c, f)
  BY <1>1 DEF Cut
<1>4. PICK w : w = u + 1
  OBVIOUS
<1>5. /\ IsSequence(e) /\ w \in 1..Len(e) /\ e[w].kind = "version" /\ e[w].ver = v
      /\ Kept(d, u, e, w)
      /\ \A k \in 1..(w - 1) : e[k].kind # "version" /\ e[k].kind # "unreadable"
      /\ \A g \in 1..Len(e) : e[g].kind = "version" /\ g # w =>
           e[g].ver \in Numbers /\ e[g].ver # v /\ \E x \in 1..Len(f) : f[x] = e[g]
  BY <1>0, <1>1, <1>4, CutIs
<1>6. Newest(e, w, doc, i)
  BY <1>5, NewestIs
<1>7. /\ ReadFrom(e, w, doc[i])
      /\ \A j \in Released(doc) : j > i =>
           \E g \in 1..Len(e) : e[g].kind = "version" /\ doc[j].ver = e[g].ver /\ g # w
      /\ \A j \in Released(doc) : ~(j > i) => doc[j].ver = e[w].ver
      /\ \A g \in 1..Len(e) : e[g].kind = "version" /\ g # w =>
           \E j \in Released(doc) : j > i /\ doc[j].ver = e[g].ver
  BY <1>6 DEF Newest
<1>8. PICK h, p : BumpedFrom(d, u, v, h, p)
  BY <1>2, NextIs
<1>9. Highest(d, Finals, h) /\ ReadFrom(d, u, p) /\ v = Bump(d[h].ver, p)
  BY <1>8 DEF BumpedFrom
<1>10. IsBreaking(p)
  BY <1>0, <1>2, <1>5, <1>7, <1>9, BreaksAlike
<1>11. PICK a, m : a = u - 1 /\ m = 1
  OBVIOUS
<1>12. Put(f, a, m, b, e) /\ IsSequence(f) /\ a + 1 = u
  <2>1. IsSequence(f) /\ IsSequence(b) /\ u \in Int
    BY <1>2 DEF Cuts, Regular
  <2>2. QED
    BY <1>2, <1>11, <2>1, ReplacePuts
<1>13. ASSUME NEW k \in 1..Len(d), d[k].kind = "version"
       PROVE  \E g \in 1..Len(e) : e[g] = d[k]
  <2>1. PICK x \in 1..Len(f) : f[x] = d[k]
    BY <1>0, <1>3, <1>13, RelinkedThere
  <2>2. x # a + 1
    BY <1>2, <1>12, <1>13, <2>1
  <2>3. \E g \in 1..Len(e) : e[g] = f[x]
    BY <1>12, <2>2, StillThere
  <2>4. QED
    BY <2>1, <2>3
<1>14. ASSUME NEW k \in 1..Len(d), d[k].kind = "version"
       PROVE  Compare(v, d[k].ver) > 0 /\ d[k].ver # v
  <2>1. PICK y : y = [ver |-> d[k].ver, lines |-> LinesUnder(d, k)]
    OBVIOUS
  <2>2. y \in Releases(d)
    BY <1>0, <1>14, <2>1, ReleasesAre
  <2>3. y.ver = d[k].ver /\ Compare(v, y.ver) > 0
    BY <1>0, <1>1, <2>1, <2>2, RisesAbove DEF Cut
  <2>4. Compare(v, v) = 0
    BY <1>0, VersionsOrdered
  <2>5. QED
    BY <2>3, <2>4
<1>15. PICK W : W = Finals \ {v}
  OBVIOUS
<1>16. /\ h \in 1..Len(d) /\ d[h].kind = "version" /\ d[h].ver \in W /\ d[h].ver \in Finals
       /\ \A k \in 1..(h - 1) : ~(d[k].kind = "version" /\ d[k].ver \in W)
  BY <1>9, <1>14, <1>15 DEF Highest
<1>17. NamedBy(Parse(e), W, S)
  <2>1. ASSUME NEW j \in Released(doc), j > i, ~Prerelease(doc[j].ver) PROVE doc[j].ver \in W
    <3>1. PICK g \in 1..Len(e) : e[g].kind = "version" /\ doc[j].ver = e[g].ver /\ g # w
      BY <1>7, <2>1
    <3>2. e[g].ver \in Numbers /\ e[g].ver # v
      BY <1>5, <3>1
    <3>3. QED
      BY <1>15, <2>1, <3>1, <3>2 DEF Finals
  <2>2. ASSUME NEW j \in Released(doc), doc[j].ver \in W PROVE j > i /\ ~Prerelease(doc[j].ver)
    <3>1. doc[j].ver # v /\ ~Prerelease(doc[j].ver)
      BY <1>15, <2>2 DEF Finals
    <3>2. QED
      BY <1>5, <1>7, <3>1
  <2>3. \A j : j \in S <=> j \in Released(doc) /\ j > i /\ ~Prerelease(doc[j].ver)
    BY DEF FinalsBelow
  <2>4. \A j : j \in S <=> j \in Released(doc) /\ doc[j].ver \in W
    BY <2>1, <2>2, <2>3
  <2>5. S # {}
    <3>1. PICK g \in 1..Len(e) : e[g] = d[h]
      BY <1>13, <1>16
    <3>2. g # w /\ e[g].kind = "version"
      BY <1>5, <1>14, <1>16, <3>1
    <3>3. PICK j \in Released(doc) : j > i /\ doc[j].ver = e[g].ver
      BY <1>7, <3>2
    <3>4. doc[j].ver \in W
      BY <1>16, <3>1, <3>3
    <3>5. QED
      BY <2>4, <3>4
  <2>6. QED
    BY <2>4, <2>5 DEF NamedBy
<1>18. PICK g \in 1..Len(e) : Highest(e, W, g) /\ Parse(e)[Least(S)].ver = e[g].ver
  <2>1. Regular(e)
    BY <1>0, ReleaseCuts
  <2>2. QED
    BY <1>17, <2>1, HighestIs
<1>19. PICK x \in 1..Len(f) : Highest(f, W, x) /\ f[x] = e[g]
  <2>1. f[a + 1].kind # "version"
    BY <1>2, <1>12
  <2>2. \A k \in 1..Len(b) : b[k].kind = "version" => b[k].ver \notin W
    <3>1. \A k \in 1..Len(b) : k = 1 \/ k = 2
      BY <1>2 DEF Cuts
    <3>2. QED
      BY <1>2, <1>15, <3>1 DEF Cuts
  <2>3. QED
    BY <1>12, <1>18, <2>1, <2>2, HighestWas
<1>20. PICK y : Highest(d, W, y) /\ d[y] = f[x]
  BY <1>0, <1>3, <1>19, HighestRelinked
<1>21. y = h
  <2>1. /\ y \in 1..Len(d) /\ d[y].kind = "version" /\ d[y].ver \in W
        /\ \A k \in 1..(y - 1) : ~(d[k].kind = "version" /\ d[k].ver \in W)
    BY <1>20 DEF Highest
  <2>2. Len(d) \in Nat
    BY <1>0, SequenceIs
  <2>3. ~(h \in 1..(y - 1)) /\ ~(y \in 1..(h - 1))
    BY <1>16, <2>1
  <2>4. QED
    BY <1>16, <2>1, <2>2, <2>3
<1>22. base = d[h].ver
  BY <1>18, <1>19, <1>20, <1>21
<1>23. base \in Versions /\ ~Prerelease(base) /\ v = Bump(base, p) /\ Compare(v, base) > 0
  BY <1>0, <1>9, <1>14, <1>16, <1>22 DEF Finals
<1>24. <<v.major, v.minor>> # <<base.major, base.minor>>
  BY <1>0, <1>10, <1>23, BumpBreaks
<1>25. doc[i].ver = v
  BY <1>5, <1>7 DEF ReadFrom
<1>26. QED
  BY <1>24, <1>25

\* edit.go bumps the newest final version for the first [Unreleased] entry, and only then are
\* links and heading edited: what release made of notes that break is, for whoever reads it,
\* no patch of the final version below, whatever the document, and be the number at its limit.
THEOREM BreakingNeverPatches ==
  ASSUME AllNumbers, \A d \in StartDocs : Regular(d) /\ Legible(d)
  PROVE  Spec => []BreakingIsNoPatch
<1>1. Init => BoundInv("top")
  <2>1. SUFFICES ASSUME Init PROVE BoundInv("top")
    OBVIOUS
  <2>2. Bound("top", file, today)
    BY <2>1 DEF Init, Bound
  <2>3. \A c \in Commands : jobs[c].phase = "idle"
    BY <2>1 DEF Init, Idle
  <2>4. today \in Nat \ {0}
    BY <2>1 DEF Init
  <2>5. QED
    BY <2>2, <2>3, <2>4 DEF BoundInv
<1>2. LinesInv /\ BoundInv("top") => BreakingIsNoPatch
  <2>1. SUFFICES ASSUME LinesInv, BoundInv("top"), NEW c \in Commands,
                        jobs[c].phase = "written", jobs[c].req.op = "release",
                        jobs[c].req.given = {}, NEW doc, doc = Parse(jobs[c].out),
                        NEW i, i = Latest(doc), IsBreaking(doc[i]), NEW S, FinalsBelow(doc, i, S),
                        NEW base, base = doc[Least(S)].ver
                 PROVE  <<doc[i].ver.major, doc[i].ver.minor>> # <<base.major, base.minor>>
    BY DEF BreakingIsNoPatch, FinalsBelow
  <2>2. PICK req, d, e, day : /\ req = jobs[c].req /\ d = jobs[c].src /\ e = jobs[c].out
                              /\ day = jobs[c].day
    OBVIOUS
  <2>3. Regular(d) /\ Legible(d)
    BY <2>1, <2>2 DEF BoundInv, Bound
  <2>4. req \in Requests[c] /\ e \in Edited(req, day, d) /\ req.op # "append" /\ req.given = {}
    BY <2>1, <2>2 DEF LinesInv, Works
  <2>5. PICK v \in Number(Parse(d), req.given) : e \in Release(d, v, day)
    BY <2>4 DEF Edited
  <2>6. v \in Numbers
    BY <2>3, <2>4, <2>5, NumberIs
  <2>7. v \in NextVersion(Parse(d))
    BY <2>4, <2>5 DEF Number
  <2>8. doc = Parse(e)
    BY <2>1, <2>2
  <2>9. QED
    BY <2>1, <2>3, <2>5, <2>6, <2>7, <2>8, ReleaseBreaks
<1>3. LinesInv /\ BoundInv("top") /\ [Next]_vars => BoundInv("top")'
  BY BoundStep
<1>4. QED
  BY <1>1, <1>2, <1>3, LinesInit, LinesStep, PTL DEF Spec

-----------------------------------------------------------------------------
(* What lints clean                                                        *)

\* A heading that lint takes as it is; two of them, one above the other, that it takes so; and
\* one with content right below it.
Stated(x) == x.date # BadDate /\ x.ver.build = <<>> /\ x.ver \notin Overlong

Falls(x, y) == /\ Compare(x.ver, y.ver) > 0 /\ y.date # NoDate
               /\ x.date = NoDate \/ y.date <= x.date

Filled(d, h) == h + 1 \in 1..Len(d) /\ d[h + 1].kind \notin Kinds \cup {"ref"}

\* What lint says of a document, said of its lines.
Orderly(d) ==
  /\ \A h \in 1..Len(d) : d[h].kind # "unreadable"
  /\ \A h \in 1..Len(d) : d[h].kind = "version" => Stated(d[h])
  /\ \A g, h \in 1..Len(d) :
       g < h /\ d[g].kind = "version" /\ d[h].kind = "version" => Falls(d[g], d[h])

AllFilled(d) == \A h \in 1..Len(d) : d[h].kind = "version" => Filled(d, h)

Accepted(d) ==
  \A h, k \in 1..Len(d) :
    h < k /\ d[h].kind \in Kinds /\ d[k].kind = "section" => d[k].name \in AllowedSections

FaultFree(d) == Orderly(d) /\ AllFilled(d) /\ Accepted(d)

\* Each of the three survives lines put in, where they do not break it themselves.
LEMMA PutIsOrderly ==
  ASSUME NEW d, NEW a, NEW m, NEW b, NEW e, Put(d, a, m, b, e), Orderly(d),
         \A i \in 1..Len(b) : b[i].kind # "unreadable",
         \A i \in 1..Len(b) : b[i].kind = "version" =>
           /\ Stated(b[i])
           /\ \A j \in 1..Len(b) : b[j].kind = "version" => j = i
           /\ \A g \in 1..a : d[g].kind # "version"
           /\ \A h \in 1..Len(d) : d[h].kind = "version" => Falls(b[i], d[h])
  PROVE  Orderly(e)
<1>0. a \in Nat /\ m \in {0, 1} /\ Len(b) \in Nat /\ Len(e) \in Nat
  BY SequenceIs DEF Put
<1>1. ASSUME NEW j \in 1..Len(e) PROVE e[j].kind # "unreadable" /\ (e[j].kind = "version" => Stated(e[j]))
  <2>1. CASE Outside(a, b, j)
    BY <2>1, WasIs DEF Orderly
  <2>2. CASE ~Outside(a, b, j)
    BY <2>2, InsideIs
  <2>3. QED
    BY <2>1, <2>2
<1>2. ASSUME NEW g \in 1..Len(e), NEW h \in 1..Len(e), g < h, e[g].kind = "version",
             e[h].kind = "version"
      PROVE  Falls(e[g], e[h])
  <2>1. CASE Outside(a, b, g) /\ Outside(a, b, h)
    <3>1. PICK x, y : x = Was(a, m, b, g) /\ y = Was(a, m, b, h)
      OBVIOUS
    <3>2. x \in 1..Len(d) /\ y \in 1..Len(d) /\ e[g] = d[x] /\ e[h] = d[y]
      BY <2>1, <3>1, WasIs
    <3>3. x < y
      BY <1>0, <1>2, <2>1, <3>1 DEF Outside, Was
    <3>4. QED
      BY <1>2, <3>2, <3>3 DEF Orderly
  <2>2. CASE ~Outside(a, b, g) /\ Outside(a, b, h)
    <3>1. PICK i \in 1..Len(b) : e[g] = b[i]
      BY <2>2, InsideIs
    <3>2. PICK y \in 1..Len(d) : e[h] = d[y]
      BY <2>2, WasIs
    <3>3. QED
      BY <1>2, <3>1, <3>2
  <2>3. CASE Outside(a, b, g) /\ ~Outside(a, b, h)
    <3>1. PICK i \in 1..Len(b) : h = a + i /\ e[h] = b[i]
      BY <2>3, InsideIs
    <3>2. g \in 1..a /\ e[g] = d[g]
      <4>1. g <= a
        BY <1>0, <1>2, <2>3, <3>1 DEF Outside
      <4>2. QED
        BY <1>0, <4>1 DEF Put
    <3>3. QED
      BY <1>2, <3>1, <3>2
  <2>4. CASE ~Outside(a, b, g) /\ ~Outside(a, b, h)
    <3>1. PICK i \in 1..Len(b) : g = a + i /\ e[g] = b[i]
      BY <2>4, InsideIs
    <3>2. PICK j \in 1..Len(b) : h = a + j /\ e[h] = b[j]
      BY <2>4, InsideIs
    <3>3. j = i
      BY <1>2, <3>1, <3>2
    <3>4. QED
      BY <1>0, <1>2, <3>1, <3>2, <3>3
  <2>5. QED
    BY <2>1, <2>2, <2>3, <2>4
<1>3. QED
  BY <1>1, <1>2 DEF Orderly

LEMMA PutIsFilled ==
  ASSUME NEW d, NEW a, NEW m, NEW b, NEW e, Put(d, a, m, b, e), AllFilled(d),
         m = 1 => d[a + 1].kind \in Kinds \cup {"ref"},
         m = 0 /\ 1 \in 1..Len(b) =>
           b[1].kind \notin Kinds \cup {"ref"} \/ \A i \in 1..a : d[i].kind # "version",
         \A i \in 1..Len(b) : b[i].kind = "version" => Filled(e, a + i)
  PROVE  AllFilled(e)
<1>1. /\ a \in Nat /\ m \in {0, 1} /\ a + m <= Len(d) /\ Len(e) = Len(d) - m + Len(b)
      /\ \A i \in 1..a : e[i] = d[i]
      /\ \A i \in 1..Len(b) : e[a + i] = b[i]
      /\ \A i \in (a + m + 1)..Len(d) : e[i - m + Len(b)] = d[i]
  BY DEF Put
<1>2. Len(d) \in Nat /\ Len(b) \in Nat /\ Len(e) \in Nat
  BY SequenceIs DEF Put
<1>3. SUFFICES ASSUME NEW h \in 1..Len(e), e[h].kind = "version" PROVE Filled(e, h)
  BY DEF AllFilled
<1>4. CASE ~Outside(a, b, h)
  BY <1>3, <1>4, InsideIs
<1>5. CASE Outside(a, b, h)
  <2>1. PICK g : g = Was(a, m, b, h)
    OBVIOUS
  <2>2. g \in 1..Len(d) /\ d[g].kind = "version"
    BY <1>3, <1>5, <2>1, WasIs
  <2>3. g + 1 \in 1..Len(d) /\ d[g + 1].kind \notin Kinds \cup {"ref"}
    BY <2>2 DEF AllFilled, Filled
  <2>4. g = (IF h <= a THEN h ELSE h - Len(b) + m) /\ (h <= a \/ h > a + Len(b))
    BY <1>5, <2>1 DEF Was, Outside
  <2>5. CASE h < a
    <3>1. g = h /\ h + 1 \in 1..a /\ h + 1 \in 1..Len(e)
      BY <1>1, <1>2, <2>4, <2>5
    <3>2. e[h + 1] = d[h + 1]
      BY <1>1, <3>1
    <3>3. QED
      BY <2>3, <3>1, <3>2 DEF Filled
  <2>6. CASE h = a
    <3>1. g = a /\ m = 0
      BY <1>1, <2>3, <2>4, <2>6
    <3>2. CASE Len(b) = 0
      <4>1. a + 1 \in (a + m + 1)..Len(d) /\ a + 1 - m + Len(b) = a + 1 /\ h + 1 \in 1..Len(e)
        BY <1>1, <1>2, <2>3, <2>6, <3>1, <3>2
      <4>2. e[a + 1 - m + Len(b)] = d[a + 1]
        BY <1>1, <4>1
      <4>3. e[a + 1] = d[a + 1]
        BY <4>1, <4>2
      <4>4. QED
        BY <2>3, <2>6, <3>1, <4>1, <4>3 DEF Filled
    <3>3. CASE Len(b) # 0
      <4>1. 1 \in 1..Len(b) /\ h + 1 \in 1..Len(e) /\ a \in 1..a
        BY <1>1, <1>2, <2>6, <3>1, <3>3
      <4>2. e[a + 1] = b[1]
        BY <1>1, <4>1
      <4>3. b[1].kind \notin Kinds \cup {"ref"}
        BY <2>2, <3>1, <4>1
      <4>4. QED
        BY <2>6, <4>1, <4>2, <4>3 DEF Filled
    <3>4. QED
      BY <3>2, <3>3
  <2>7. CASE h > a
    <3>1. g = h - Len(b) + m /\ g + 1 \in (a + m + 1)..Len(d) /\ g + 1 - m + Len(b) = h + 1
          /\ h + 1 \in 1..Len(e)
      BY <1>1, <1>2, <2>3, <2>4, <2>7
    <3>2. e[g + 1 - m + Len(b)] = d[g + 1]
      BY <1>1, <3>1
    <3>3. e[h + 1] = d[g + 1]
      BY <3>1, <3>2
    <3>4. QED
      BY <2>3, <3>1, <3>3 DEF Filled
  <2>8. QED
    BY <1>1, <2>5, <2>6, <2>7
<1>6. QED
  BY <1>4, <1>5

LEMMA PutIsAccepted ==
  ASSUME NEW d, NEW a, NEW m, NEW b, NEW e, Put(d, a, m, b, e), Accepted(d),
         At(d, Kinds) = {} => At(d, {"section"}) = {},
         \A i \in 1..Len(b) : b[i].kind = "section" => b[i].name \in AllowedSections,
         \/ \A i \in 1..Len(b) : b[i].kind \notin Kinds
         \/ At(d, Kinds) = {}
         \/ d[a + 1].kind \in Kinds
  PROVE  Accepted(e)
<1>1. SUFFICES ASSUME NEW h \in 1..Len(e), NEW k \in 1..Len(e), h < k, e[h].kind \in Kinds,
                      e[k].kind = "section"
               PROVE  e[k].name \in AllowedSections
  BY DEF Accepted
<1>2. a \in Nat /\ m \in {0, 1} /\ Len(b) \in Nat /\ Len(e) \in Nat /\ Len(d) \in Nat /\ IsSequence(d)
  BY SequenceIs DEF Put
<1>3. CASE ~Outside(a, b, k)
  BY <1>1, <1>3, InsideIs
<1>4. CASE Outside(a, b, k)
  <2>1. PICK y : y = Was(a, m, b, k)
    OBVIOUS
  <2>2. y \in 1..Len(d) /\ d[y] = e[k]
    BY <1>4, <2>1, WasIs
  <2>3. y = (IF k <= a THEN k ELSE k - Len(b) + m) /\ (k <= a \/ k > a + Len(b))
    BY <1>4, <2>1 DEF Was, Outside
  <2>4. CASE Outside(a, b, h)
    <3>1. PICK x : x = Was(a, m, b, h)
      OBVIOUS
    <3>2. x \in 1..Len(d) /\ d[x] = e[h]
      BY <2>4, <3>1, WasIs
    <3>3. x < y
      BY <1>1, <1>2, <2>3, <2>4, <3>1 DEF Outside, Was
    <3>4. QED
      BY <1>1, <2>2, <3>2, <3>3 DEF Accepted
  <2>5. CASE ~Outside(a, b, h)
    <3>1. PICK i \in 1..Len(b) : h = a + i /\ e[h] = b[i]
      BY <2>5, InsideIs
    <3>2. At(d, Kinds) = {} \/ d[a + 1].kind \in Kinds
      BY <1>1, <3>1
    <3>3. At(d, Kinds) # {}
      <4>1. y \in At(d, {"section"})
        BY <1>1, <1>2, <2>2, SequenceIs DEF At
      <4>2. QED
        BY <4>1
    <3>4. y # a + 1
      BY <1>1, <2>2, <3>2, <3>3 DEF Kinds
    <3>5. k > a + Len(b) /\ y = k - Len(b) + m
      BY <1>1, <1>2, <2>3, <3>1
    <3>6. a + 1 < y /\ a + 1 \in 1..Len(d)
      BY <1>2, <2>2, <3>4, <3>5
    <3>7. QED
      BY <1>1, <2>2, <3>2, <3>3, <3>6 DEF Accepted
  <2>6. QED
    BY <2>4, <2>5
<1>5. QED
  BY <1>3, <1>4

\* What append puts in, and the links of a release, leave such a document without a fault.
LEMMA QuietIsFree ==
  ASSUME NEW d, Well(d), FaultFree(d), NEW a, NEW b, NEW e, Quiet(d, a, b, e),
         NEW name \in AllowedSections, Asked(b, name)
  PROVE  FaultFree(e)
<1>1. PICK m : m = 0
  OBVIOUS
<1>2. /\ Put(d, a, m, b, e)
      /\ \A i \in 1..Len(b) : b[i].kind \in {"unreleased", "section", "text"}
      /\ \/ \A i \in 1..Len(b) : b[i].kind # "unreleased"
         \/ /\ \A i \in 1..a : d[i].kind \notin Kinds
            /\ At(d, Kinds) = {} \/ d[a + 1].kind \in Kinds
  BY <1>1 DEF Quiet
<1>3. Orderly(d) /\ AllFilled(d) /\ Accepted(d)
  BY DEF FaultFree
<1>4. Orderly(e)
  <2>1. \A i \in 1..Len(b) : b[i].kind # "unreadable" /\ b[i].kind # "version"
    BY <1>2
  <2>2. QED
    BY <1>2, <1>3, <2>1, PutIsOrderly
<1>5. AllFilled(e)
  <2>1. m = 1 => d[a + 1].kind \in Kinds \cup {"ref"}
    BY <1>1
  <2>2. m = 0 /\ 1 \in 1..Len(b) =>
          b[1].kind \notin Kinds \cup {"ref"} \/ \A i \in 1..a : d[i].kind # "version"
    BY <1>2 DEF Kinds
  <2>3. \A i \in 1..Len(b) : b[i].kind = "version" => Filled(e, a + i)
    BY <1>2
  <2>4. QED
    BY <1>2, <1>3, <2>1, <2>2, <2>3, PutIsFilled
<1>6. Accepted(e)
  <2>1. At(d, Kinds) = {} => At(d, {"section"}) = {}
    BY DEF Well
  <2>2. \A i \in 1..Len(b) : b[i].kind = "section" => b[i].name \in AllowedSections
    BY DEF Asked
  <2>3. \/ \A i \in 1..Len(b) : b[i].kind \notin Kinds
        \/ At(d, Kinds) = {}
        \/ d[a + 1].kind \in Kinds
    BY <1>2 DEF Kinds
  <2>4. QED
    BY <1>2, <1>3, <2>1, <2>2, <2>3, PutIsAccepted
<1>7. QED
  BY <1>4, <1>5, <1>6 DEF FaultFree

LEMMA RelinkedIsFree ==
  ASSUME NEW d, Well(d), FaultFree(d), NEW r, NEW c, NEW f, Relinked(d, r, c, f)
  PROVE  FaultFree(f)
<1>1. SUFFICES ASSUME /\ r \in 1..Len(d) /\ d[r].kind = "ref" /\ Replaced(d, r, c, f)
                      /\ IsSequence(c) /\ Len(c) = 2 /\ c[1].kind = "ref" /\ c[2].kind = "ref"
               PROVE  FaultFree(f)
  BY DEF Relinked
<1>2. \A i \in 1..Len(c) : c[i].kind = "ref"
  <2>1. \A i \in 1..Len(c) : i = 1 \/ i = 2
    BY <1>1
  <2>2. QED
    BY <1>1, <2>1
<1>3. PICK a, m : a = r - 1 /\ m = 1
  OBVIOUS
<1>4. Put(d, a, m, c, f)
  BY <1>1, <1>3, ReplacePuts DEF Well
<1>5. d[a + 1].kind = "ref"
  <2>1. r \in Int /\ a + 1 = r
    BY <1>1, <1>3
  <2>2. QED
    BY <1>1, <2>1
<1>6. Orderly(d) /\ AllFilled(d) /\ Accepted(d) /\ (At(d, Kinds) = {} => At(d, {"section"}) = {})
  BY DEF FaultFree, Well
<1>7. Orderly(f)
  <2>1. \A i \in 1..Len(c) : c[i].kind # "unreadable" /\ c[i].kind # "version"
    BY <1>2
  <2>2. QED
    BY <1>4, <1>6, <2>1, PutIsOrderly
<1>8. AllFilled(f)
  <2>1. (m = 1 => d[a + 1].kind \in Kinds \cup {"ref"}) /\ m # 0
    BY <1>3, <1>5
  <2>2. \A i \in 1..Len(c) : c[i].kind = "version" => Filled(f, a + i)
    BY <1>2
  <2>3. QED
    BY <1>4, <1>6, <2>1, <2>2, PutIsFilled
<1>9. Accepted(f)
  <2>1. \A i \in 1..Len(c) : c[i].kind = "section" => c[i].name \in AllowedSections
    BY <1>2
  <2>2. \A i \in 1..Len(c) : c[i].kind \notin Kinds
    BY <1>2 DEF Kinds
  <2>3. QED
    BY <1>4, <1>6, <2>1, <2>2, PutIsAccepted
<1>10. QED
  BY <1>7, <1>8, <1>9 DEF FaultFree

\* A line of a document whose links were moved, unless it is a link, was there before.
LEMMA RelinkedWas ==
  ASSUME NEW d, IsSequence(d), NEW r, NEW b, NEW e, Relinked(d, r, b, e),
         NEW j \in 1..Len(e), e[j].kind # "ref"
  PROVE  \E h \in 1..Len(d) : d[h] = e[j]
<1>1. SUFFICES ASSUME /\ r \in 1..Len(d) /\ d[r].kind = "ref" /\ Replaced(d, r, b, e)
                      /\ IsSequence(b) /\ Len(b) = 2 /\ b[1].kind = "ref" /\ b[2].kind = "ref"
               PROVE  \E h \in 1..Len(d) : d[h] = e[j]
  BY DEF Relinked
<1>2. \A i \in 1..Len(b) : b[i].kind = "ref"
  <2>1. \A i \in 1..Len(b) : i = 1 \/ i = 2
    BY <1>1
  <2>2. QED
    BY <1>1, <2>1
<1>3. PICK a, m : a = r - 1 /\ m = 1
  OBVIOUS
<1>4. Put(d, a, m, b, e)
  BY <1>1, <1>3, ReplacePuts
<1>5. Outside(a, b, j)
  BY <1>2, <1>4, InsideIs
<1>6. QED
  BY <1>4, <1>5, WasIs

\* An entry with content is one with content right below its heading.
LEMMA ContentIsFilled ==
  ASSUME NEW d, Regular(d), NEW h \in 1..Len(d), d[h].kind # "ref", Empty = <<>>
  PROVE  Body(d, h) # Empty <=> Filled(d, h)
<1>0. /\ IsSequence(d) /\ Len(d) \in Nat
      /\ \A i, j \in 1..Len(d) : i < j /\ d[i].kind = "ref" => d[j].kind = "ref"
  BY SequenceIs DEF Regular
<1>1. PICK C : C = Content(d, h)
  OBVIOUS
<1>2. Body(d, h) = IF C = {} THEN Empty ELSE SubSeq(d, Least(C), Greatest(C))
  BY <1>0, <1>1, BodyIs
<1>3. ASSUME Filled(d, h) PROVE C # {}
  <2>1. h + 1 \in 1..Len(d) /\ d[h + 1].kind \notin Kinds /\ d[h + 1].kind # "ref"
    BY <1>3 DEF Filled
  <2>2. Within(d, h, h + 1)
    BY <2>1 DEF Within
  <2>3. h + 1 \in Content(d, h)
    BY <2>1, <2>2 DEF Content
  <2>4. QED
    BY <1>1, <2>3
<1>4. ASSUME NEW k \in C PROVE Filled(d, h)
  <2>1. k \in 1..Len(d) /\ h < k /\ d[k].kind # "ref" /\ \A i \in (h + 1)..k : d[i].kind \notin Kinds
    BY <1>1, <1>4 DEF Content, Within
  <2>2. h + 1 \in (h + 1)..k /\ h + 1 \in 1..Len(d) /\ (h + 1 = k \/ h + 1 < k)
    BY <1>0, <2>1
  <2>3. d[h + 1].kind # "ref"
    BY <1>0, <2>1, <2>2
  <2>4. QED
    BY <2>1, <2>2, <2>3 DEF Filled
<1>5. ASSUME C # {} PROVE Body(d, h) # Empty
  <2>1. PICK p, q : p = Least(C) /\ q = Greatest(C)
    OBVIOUS
  <2>2. C \in SUBSET (1..Len(d))
    BY <1>1 DEF Content
  <2>3. C \in SUBSET Nat
    BY <2>2
  <2>4. p \in C /\ \A i \in C : p <= i
    BY <1>5, <2>1, <2>3, LeastPosition
  <2>5. q \in C /\ \A i \in C : i <= q
    BY <1>0, <1>5, <2>1, <2>2, GreatestPosition
  <2>6. p \in 1..Len(d) /\ q \in 1..Len(d) /\ p <= q
    BY <2>2, <2>4, <2>5
  <2>7. PICK S : d \in Seq(S)
    BY <1>0 DEF IsSequence
  <2>8. Len(SubSeq(d, p, q)) = q - p + 1
    BY <2>6, <2>7
  <2>9. Len(SubSeq(d, p, q)) # 0
    BY <2>6, <2>8
  <2>10. SubSeq(d, p, q) # <<>>
    <3>1. Len(<<>>) = 0
      OBVIOUS
    <3>2. SUFFICES ASSUME SubSeq(d, p, q) = <<>> PROVE FALSE
      OBVIOUS
    <3>3. Len(SubSeq(d, p, q)) = Len(<<>>)
      BY <3>2, Zenon
    <3>4. QED
      BY <2>9, <3>1, <3>3, Zenon
  <2>11. QED
    BY <1>2, <1>5, <2>1, <2>10
<1>6. QED
  BY <1>2, <1>3, <1>4, <1>5

\* The notes that release takes are not empty, and no version is undated.
LEMMA NotesBody ==
  ASSUME NEW d, Regular(d), NEW v, NEW date, ~Refused(Parse(d), v, date), NEW u, u = Unreleased(d)
  PROVE  Body(d, u) # Empty
<1>0. /\ IsSequence(d)
      /\ \A i, j \in 1..Len(d) : d[i].kind = "unreleased" /\ d[j].kind = "unreleased" => i = j
  BY DEF Regular
<1>1. u \in 1..Len(d) /\ d[u].kind = "unreleased"
  BY <1>0, NotesToRelease
<1>2. PICK doc : doc = Parse(d)
  OBVIOUS
<1>3. PICK heads : Entries(d, heads, doc)
  BY <1>0, <1>2, EntriesAre
<1>4. /\ Len(heads) \in Nat /\ DOMAIN doc = 1..Len(heads)
      /\ \A n \in 1..Len(heads) : heads[n] \in 1..Len(d) /\ ReadFrom(d, heads[n], doc[n])
  BY <1>3 DEF Entries
<1>5. PICK O : O = Offered(doc)
  OBVIOUS
<1>6. PICK i : i = Greatest(O)
  OBVIOUS
<1>7. O # {} /\ doc[i].body # Empty
  BY <1>2, <1>5, <1>6 DEF Refused
<1>8. \A n \in O : n \in 1..Len(heads) /\ doc[n].kind = "unreleased"
  BY <1>4, <1>5 DEF Offered
<1>9. O \in SUBSET (1..Len(heads))
  BY <1>8
<1>10. i \in O
  BY <1>4, <1>6, <1>7, <1>9, GreatestPosition
<1>11. i \in 1..Len(heads) /\ doc[i].kind = "unreleased"
  BY <1>8, <1>10
<1>12. heads[i] \in 1..Len(d) /\ d[heads[i]].kind = "unreleased" /\ doc[i].body = Body(d, heads[i])
  BY <1>4, <1>11 DEF ReadFrom
<1>13. heads[i] = u
  BY <1>0, <1>1, <1>12
<1>14. QED
  BY <1>7, <1>12, <1>13

LEMMA TopDated ==
  ASSUME NEW d, Regular(d), Orderly(d), NEW v, NEW date, ~Refused(Parse(d), v, date),
         NEW g \in 1..Len(d), d[g].kind = "version"
  PROVE  d[g].date # NoDate
<1>0. IsSequence(d)
  BY DEF Regular
<1>2. PICK doc : doc = Parse(d)
  OBVIOUS
<1>3. PICK heads : Entries(d, heads, doc)
  BY <1>0, <1>2, EntriesAre
<1>4. /\ Len(heads) \in Nat /\ DOMAIN doc = 1..Len(heads)
      /\ \A n \in 1..Len(heads) : heads[n] \in 1..Len(d) /\ ReadFrom(d, heads[n], doc[n])
      /\ \A i, j \in 1..Len(heads) : i < j => heads[i] < heads[j]
      /\ \A h \in 1..Len(d) : d[h].kind \in Kinds => \E n \in 1..Len(heads) : heads[n] = h
  BY <1>3 DEF Entries
<1>5. PICK n \in 1..Len(heads) : heads[n] = g
  BY <1>4 DEF Kinds
<1>6. PICK S : S = Released(doc)
  OBVIOUS
<1>7. \A i : i \in S <=> i \in 1..Len(heads) /\ doc[i].kind = "version"
  BY <1>4, <1>6 DEF Released
<1>8. n \in S
  BY <1>4, <1>5, <1>7 DEF ReadFrom
<1>9. S \in SUBSET Nat /\ S # {}
  BY <1>7, <1>8
<1>10. PICK l : l = Least(S)
  OBVIOUS
<1>11. l \in S /\ l <= n
  BY <1>8, <1>9, <1>10, LeastPosition
<1>12. doc[l].date # NoDate
  BY <1>2, <1>6, <1>9, <1>10 DEF Refused
<1>13. l \in 1..Len(heads) /\ doc[l].kind = "version"
  BY <1>7, <1>11
<1>14. heads[l] \in 1..Len(d) /\ d[heads[l]].kind = "version" /\ d[heads[l]].date # NoDate
  BY <1>4, <1>12, <1>13 DEF ReadFrom
<1>15. CASE l = n
  BY <1>5, <1>14, <1>15
<1>16. CASE l # n
  <2>1. l < n
    BY <1>4, <1>11, <1>13, <1>16
  <2>2. heads[l] < g
    BY <1>4, <1>5, <1>13, <2>1
  <2>3. Falls(d[heads[l]], d[g])
    BY <1>14, <2>2 DEF Orderly
  <2>4. QED
    BY <2>3 DEF Falls
<1>17. QED
  BY <1>15, <1>16

\* A release of such a document is one.
LEMMA ReleaseIsFree ==
  ASSUME Numbers \subseteq Versions, Empty = <<>>, NEW d, Regular(d), Well(d), FaultFree(d),
         NEW n, NEW day, Ready(day, d, n), NEW v \in Numbers, v.build = <<>>, v \notin Overlong,
         NEW e \in Release(d, v, day)
  PROVE  FaultFree(e)
<1>0. Orderly(d) /\ \A i \in 1..Len(d) : d[i].kind # "unreadable"
  BY DEF FaultFree, Orderly
<1>1. PICK f, u, b : Cut(d, v, day, f, u, b, e)
  BY ReleaseIsCut
<1>2. /\ ~Refused(Parse(d), v, day) /\ u = Unreleased(d)
      /\ (\E r, c : Relinked(d, r, c, f))
      /\ Regular(f) /\ Releases(f) = Releases(d)
      /\ u \in 1..Len(d) /\ d[u].kind = "unreleased" /\ u \in 1..Len(f) /\ f[u].kind = "unreleased"
      /\ Cuts(b) /\ b[2].ver = v /\ b[2].date = day /\ Replaced(f, u, b, e)
  BY <1>1 DEF Cut
<1>3. PICK r, c : Relinked(d, r, c, f)
  BY <1>2
<1>4. FaultFree(f)
  BY <1>3, RelinkedIsFree
<1>5. IsSequence(d) /\ IsSequence(f) /\ IsSequence(b) /\ Len(b) = 2
      /\ b[1].kind = "unreleased" /\ b[2].kind = "version"
  BY <1>2 DEF Cuts, Regular
<1>6. PICK a, m : a = u - 1 /\ m = 1
  OBVIOUS
<1>7. Put(f, a, m, b, e)
  BY <1>2, <1>5, <1>6, ReplacePuts
<1>8. a + 1 = u /\ f[a + 1].kind = "unreleased"
  <2>1. u \in Int
    BY <1>2
  <2>2. a + 1 = u
    BY <1>6, <2>1
  <2>3. QED
    BY <1>2, <2>2
<1>9. \A i \in 1..Len(b) : i = 1 \/ i = 2
  BY <1>5
<1>10. day # BadDate
  BY <1>2 DEF Refused
<1>11. Stated(b[2])
  BY <1>2, <1>10 DEF Stated
<1>12. \A g \in 1..a : f[g].kind # "version"
  <2>1. \A g \in 1..(u - 1) : d[g].kind # "version"
    BY <1>2, NoneAbove
  <2>2. \A g \in 1..a : g \in 1..(u - 1) /\ g \in 1..u
    BY <1>2, <1>6
  <2>3. \A g \in 1..a : f[g] = d[g]
    BY <1>2, <1>3, <2>2, RelinkedAbove
  <2>4. QED
    BY <2>1, <2>2, <2>3
<1>13. ASSUME NEW h \in 1..Len(f), f[h].kind = "version" PROVE Falls(b[2], f[h])
  <2>1. Compare(v, f[h].ver) > 0
    <3>1. PICK y : y = [ver |-> f[h].ver, lines |-> LinesUnder(f, h)]
      OBVIOUS
    <3>2. y \in Releases(f)
      BY <1>5, <1>13, <3>1, ReleasesAre
    <3>3. y \in Releases(d)
      BY <1>2, <3>2
    <3>4. Compare(v, y.ver) > 0
      BY <1>2, <3>3, RisesAbove
    <3>5. y.ver = f[h].ver
      BY <3>1
    <3>6. QED
      BY <3>4, <3>5
  <2>2. PICK g \in 1..Len(d) : d[g] = f[h]
    <3>1. f[h].kind # "ref"
      BY <1>13
    <3>2. QED
      BY <1>3, <1>5, <3>1, RelinkedWas
  <2>3. d[g].kind = "version"
    BY <1>13, <2>2
  <2>4. d[g].date # NoDate
    BY <1>0, <1>2, <2>3, TopDated
  <2>5. day = NoDate \/ (day \in 1..n /\ d[g].date \in BadDate..day)
    BY <1>10, <2>3 DEF Ready, Timely
  <2>6. day = NoDate \/ d[g].date <= day
    BY <2>5
  <2>7. QED
    BY <1>2, <2>1, <2>2, <2>4, <2>6 DEF Falls
<1>14. Orderly(e)
  <2>1. \A i \in 1..Len(b) : b[i].kind # "unreadable"
    BY <1>5, <1>9
  <2>2. \A i \in 1..Len(b) : b[i].kind = "version" =>
           /\ Stated(b[i])
           /\ \A j \in 1..Len(b) : b[j].kind = "version" => j = i
           /\ \A g \in 1..a : f[g].kind # "version"
           /\ \A h \in 1..Len(f) : f[h].kind = "version" => Falls(b[i], f[h])
    <3>1. SUFFICES ASSUME NEW i \in 1..Len(b), b[i].kind = "version"
                   PROVE  /\ Stated(b[i])
                          /\ \A j \in 1..Len(b) : b[j].kind = "version" => j = i
                          /\ \A g \in 1..a : f[g].kind # "version"
                          /\ \A h \in 1..Len(f) : f[h].kind = "version" => Falls(b[i], f[h])
      OBVIOUS
    <3>2. i = 2
      BY <1>5, <1>9, <3>1
    <3>3. \A j \in 1..Len(b) : b[j].kind = "version" => j = 2
      BY <1>5, <1>9
    <3>4. QED
      BY <1>11, <1>12, <1>13, <3>2, <3>3
  <2>3. QED
    BY <1>4, <1>7, <2>1, <2>2, PutIsOrderly DEF FaultFree
<1>15. PICK w : w = u + 1
  OBVIOUS
<1>16. Filled(e, w)
  <2>1. Legible(d)
    BY <1>0 DEF Legible
  <2>2. w \in 1..Len(e) /\ e[w].kind = "version" /\ Kept(d, u, e, w)
    BY <1>1, <1>15, <2>1, CutIs
  <2>3. Body(d, u) # Empty
    BY <1>2, NotesBody
  <2>4. Body(e, w) # Empty
    BY <2>2, <2>3 DEF Kept
  <2>5. Regular(e)
    BY ReleaseCuts
  <2>6. QED
    BY <2>2, <2>4, <2>5, ContentIsFilled
<1>17. AllFilled(e)
  <2>1. (m = 1 => f[a + 1].kind \in Kinds \cup {"ref"}) /\ m # 0
    BY <1>6, <1>8 DEF Kinds
  <2>2. \A i \in 1..Len(b) : b[i].kind = "version" => Filled(e, a + i)
    <3>1. SUFFICES ASSUME NEW i \in 1..Len(b), b[i].kind = "version" PROVE Filled(e, a + i)
      OBVIOUS
    <3>2. i = 2
      BY <1>5, <1>9, <3>1
    <3>3. a + i = w
      BY <1>2, <1>6, <1>15, <3>2
    <3>4. QED
      BY <1>16, <3>3
  <2>3. QED
    BY <1>4, <1>7, <2>1, <2>2, PutIsFilled DEF FaultFree
<1>18. Accepted(e)
  <2>1. \A i \in 1..Len(b) : b[i].kind = "section" => b[i].name \in AllowedSections
    BY <1>5, <1>9
  <2>2. f[a + 1].kind \in Kinds
    BY <1>8 DEF Kinds
  <2>3. At(f, Kinds) # {}
    <3>1. u \in At(f, Kinds)
      BY <1>2, <1>5, SequenceIs DEF At, Kinds
    <3>2. QED
      BY <3>1
  <2>4. QED
    BY <1>4, <1>7, <2>1, <2>2, <2>3, PutIsAccepted DEF FaultFree
<1>19. QED
  BY <1>14, <1>17, <1>18 DEF FaultFree

\* So is every edit of one.
LEMMA EditedIsFree ==
  ASSUME AllNumbers, Modest, NEW c \in Commands, NEW req \in Requests[c], NEW day, NEW n \in Nat,
         NEW d, Bound("lint", d, n), Ready(day, d, n), FaultFree(d), NEW e \in Edited(req, day, d)
  PROVE  FaultFree(e)
<1>1. Regular(d) /\ Well(d) /\ IsSequence(d) /\ Empty = <<>>
  BY DEF Bound, Well, Modest
<1>2. CASE req.op = "append"
  <2>1. PICK name, note : name = req.section /\ note = req.note
    OBVIOUS
  <2>2. IsSequence(note)
    BY <1>2, <2>1, EditorAssumption DEF IsSequence
  <2>3. e \in AppendNote(d, name, note)
    BY <1>2, <2>1 DEF Edited
  <2>4. name \in DOMAIN Fold
    BY <1>1, <2>2, <2>3, AppendJoins
  <2>5. name \in AllowedSections
    BY <1>2, <2>1, <2>4 DEF Modest
  <2>6. e = d \/ \E a, b : Quiet(d, a, b, e) /\ Asked(b, name)
    BY <1>1, <2>2, <2>3, AppendIsQuiet
  <2>7. QED
    BY <1>1, <2>5, <2>6, QuietIsFree
<1>3. CASE req.op # "append"
  <2>1. PICK v \in Number(Parse(d), req.given) : e \in Release(d, v, day)
    BY <1>3 DEF Edited
  <2>2. v \in Numbers /\ (v \in req.given \/ \E x, y, z \in 0..MaxComponent : v = Final(x, y, z))
    BY <1>1, <1>3, <2>1, NumberIs
  <2>3. req.op = "release"
    BY <1>3 DEF Modest
  <2>4. v.build = <<>> /\ v \notin Overlong
    <3>1. CASE v \in req.given
      BY <2>3, <3>1 DEF Modest
    <3>2. CASE \E x, y, z \in 0..MaxComponent : v = Final(x, y, z)
      <4>1. PICK x, y, z \in 0..MaxComponent : v = Final(x, y, z)
        BY <3>2
      <4>2. v.build = <<>>
        BY <4>1 DEF Final
      <4>3. QED
        BY <4>1, <4>2 DEF Modest
    <3>3. QED
      BY <2>2, <3>1, <3>2
  <2>5. Numbers \subseteq Versions
    BY DEF AllNumbers
  <2>6. QED
    BY <1>1, <2>1, <2>2, <2>4, <2>5, ReleaseIsFree
<1>4. QED
  BY <1>2, <1>3

\* What a reading that sees no repository sees of it.
Nowhere == [kind |-> "absent", tags |-> <<>>, days |-> <<>>, ref |-> 0, was |-> <<>>]

\* Every check but two is silent about the document on day n.
Spotless(doc, n) ==
  \A c \in Checks : c \notin {"undated-entry", "prerelease-entry"} => Fires(c, doc, Nowhere, n) = {}

LEMMA CleanIs ==
  ASSUME NEW d
  PROVE  CleanDoc(d) <=> Spotless(Parse(d), today)
<1>1. PICK doc : doc = Parse(d)
  OBVIOUS
<1>2. PICK found : found = Lint(doc, Nowhere, today, DefaultSeverities)
  OBVIOUS
<1>3. \A f : f \in found <=>
        \E c \in Checks : /\ DefaultSeverities[c] # "off"
                          /\ \E i \in Fires(c, doc, Nowhere, today) : f = <<c, DefaultSeverities[c], i>>
  BY <1>2 DEF Lint
<1>4. \A c \in Checks : DefaultSeverities[c] # "off" <=> c # "prerelease-entry"
  BY DEF DefaultSeverities
<1>5. CleanDoc(d) <=> \A f \in found : f[1] = "undated-entry"
  BY <1>1, <1>2 DEF CleanDoc, Nowhere
<1>6. ASSUME \A f \in found : f[1] = "undated-entry", NEW c \in Checks,
             c \notin {"undated-entry", "prerelease-entry"}
      PROVE  Fires(c, doc, Nowhere, today) = {}
  <2>1. SUFFICES ASSUME NEW i \in Fires(c, doc, Nowhere, today) PROVE FALSE
    OBVIOUS
  <2>2. PICK f : f = <<c, DefaultSeverities[c], i>>
    OBVIOUS
  <2>3. f \in found
    BY <1>3, <1>4, <1>6, <2>1, <2>2
  <2>4. f[1] = c
    BY <2>2
  <2>5. QED
    BY <1>6, <2>3, <2>4
<1>7. ASSUME Spotless(doc, today), NEW f \in found PROVE f[1] = "undated-entry"
  <2>1. PICK c \in Checks : /\ DefaultSeverities[c] # "off"
                            /\ \E i \in Fires(c, doc, Nowhere, today) : f = <<c, DefaultSeverities[c], i>>
    BY <1>3
  <2>2. PICK i \in Fires(c, doc, Nowhere, today) : f = <<c, DefaultSeverities[c], i>>
    BY <2>1
  <2>3. f[1] = c /\ Fires(c, doc, Nowhere, today) # {} /\ c # "prerelease-entry"
    BY <1>4, <2>1, <2>2
  <2>4. QED
    BY <1>7, <2>3 DEF Spotless
<1>8. QED
  BY <1>1, <1>5, <1>6, <1>7 DEF Spotless

\* The checks that can speak of a document where there is no repository.
Clear(doc, n) ==
  /\ UnreadableVersion(doc) = {} /\ HeadingForm(doc) = {} /\ DateFormat(doc) = {}
  /\ VersionOrder(doc) = {} /\ EmptyEntry(doc) = {} /\ UnknownSection(doc) = {}
  /\ DuplicateSection(doc, Nowhere) = {} /\ DateOrder(doc) = {} /\ DateFuture(doc, n) = {}
  /\ PartialLinkRefs(doc) = {} /\ OCIIncompatible(doc) = {}

LEMMA ClearIs ==
  ASSUME NEW doc, NEW n
  PROVE  Spotless(doc, n) <=> Clear(doc, n)
<1>1. \A v : TagNaming(Nowhere, v) = 0
  BY DEF TagNaming, Nowhere
<1>2. UndatedRelease(doc, Nowhere) = {}
  BY <1>1 DEF UndatedRelease
<1>3. DateMismatch(doc, Nowhere) = {}
  BY <1>1 DEF DateMismatch, DayOf
<1>4. ~Compared(Nowhere) /\ NoGitTags(Nowhere) = {}
  BY DEF Compared, NoGitTags, Nowhere
<1>5. VersionBehindTag(doc, Nowhere) = {}
  BY <1>4 DEF VersionBehindTag
<1>6. \A pre : ModifiedEntries(doc, Nowhere, pre) = {}
  BY <1>4 DEF ModifiedEntries
<1>7. ASSUME Clear(doc, n), NEW c \in Checks, c \notin {"undated-entry", "prerelease-entry"}
      PROVE  Fires(c, doc, Nowhere, n) = {}
  <2>1. CASE c \in {"unreadable-version", "heading-form", "date-format", "version-order",
                    "empty-entry", "unknown-section"}
    BY <1>7, <2>1 DEF Fires, Clear
  <2>2. CASE c \in {"duplicate-section", "date-order", "date-future", "partial-link-refs",
                    "oci-incompatible-version"}
    BY <1>7, <2>2 DEF Fires, Clear
  <2>3. CASE c \in {"date-mismatch", "undated-release", "no-git-tags", "version-behind-tag",
                    "release-entry-modified", "prerelease-entry-modified"}
    BY <1>2, <1>3, <1>4, <1>5, <1>6, <2>3 DEF Fires
  <2>4. QED
    BY <1>7, <2>1, <2>2, <2>3 DEF Checks
<1>8. ASSUME Spotless(doc, n) PROVE Clear(doc, n)
  <2>1. ASSUME NEW c \in {"unreadable-version", "heading-form", "date-format", "version-order",
                          "empty-entry", "unknown-section", "duplicate-section", "date-order",
                          "date-future", "partial-link-refs", "oci-incompatible-version"}
        PROVE  Fires(c, doc, Nowhere, n) = {}
    <3>1. c \in Checks /\ c \notin {"undated-entry", "prerelease-entry"}
      BY DEF Checks
    <3>2. QED
      BY <1>8, <3>1 DEF Spotless
  <2>2. /\ Fires("unreadable-version", doc, Nowhere, n) = UnreadableVersion(doc)
        /\ Fires("heading-form", doc, Nowhere, n) = HeadingForm(doc)
        /\ Fires("date-format", doc, Nowhere, n) = DateFormat(doc)
        /\ Fires("version-order", doc, Nowhere, n) = VersionOrder(doc)
        /\ Fires("empty-entry", doc, Nowhere, n) = EmptyEntry(doc)
        /\ Fires("unknown-section", doc, Nowhere, n) = UnknownSection(doc)
    BY DEF Fires
  <2>3. /\ Fires("duplicate-section", doc, Nowhere, n) = DuplicateSection(doc, Nowhere)
        /\ Fires("date-order", doc, Nowhere, n) = DateOrder(doc)
        /\ Fires("date-future", doc, Nowhere, n) = DateFuture(doc, n)
        /\ Fires("partial-link-refs", doc, Nowhere, n) = PartialLinkRefs(doc)
        /\ Fires("oci-incompatible-version", doc, Nowhere, n) = OCIIncompatible(doc)
    BY DEF Fires
  <2>4. QED
    BY <2>1, <2>2, <2>3 DEF Clear
<1>9. QED
  BY <1>7, <1>8 DEF Spotless

LEMMA ParsedIsDocument ==
  ASSUME Numbers \subseteq Versions, NEW d, Regular(d), NEW heads, NEW doc, doc = Parse(d),
         Entries(d, heads, doc)
  PROVE  /\ IsDocument(doc)
         /\ \A i \in Released(doc) : /\ i \in 1..Len(heads) /\ heads[i] \in 1..Len(d)
                                     /\ d[heads[i]].kind = "version" /\ ReadFrom(d, heads[i], doc[i])
         /\ \A h \in 1..Len(d) : d[h].kind = "version" =>
              \E i \in Released(doc) : heads[i] = h /\ ReadFrom(d, h, doc[i])
<1>1. /\ Len(d) \in Nat /\ Len(heads) \in Nat /\ DOMAIN doc = 1..Len(heads)
      /\ \A n \in 1..Len(heads) : /\ heads[n] \in 1..Len(d) /\ d[heads[n]].kind \in Kinds
                                  /\ ReadFrom(d, heads[n], doc[n])
      /\ \A h \in 1..Len(d) : d[h].kind \in Kinds => \E n \in 1..Len(heads) : heads[n] = h
  BY DEF Entries
<1>2. Len(doc) = Len(heads)
  <2>1. PICK k : k = Len(heads)
    OBVIOUS
  <2>2. PICK own : own = Ascending(At(d, Kinds))
    OBVIOUS
  <2>3. doc = [i \in DOMAIN own |->
                [kind |-> d[own[i]].kind, ver |-> d[own[i]].ver, date |-> d[own[i]].date,
                 body |-> Body(d, own[i]), sections |-> SectionNames(d, own[i]),
                 link |-> Linked(d, own[i])]]
    BY <2>2 DEF Parse
  <2>4. DOMAIN own = 1..k
    BY <1>1, <2>1, <2>3
  <2>5. doc = [i \in 1..k |-> doc[i]]
    BY <2>3, <2>4
  <2>6. PICK S : S = {doc[i] : i \in 1..k}
    OBVIOUS
  <2>7. \A i \in 1..k : doc[i] \in S
    BY <2>6
  <2>8. [i \in 1..k |-> doc[i]] \in Seq(S)
    BY <1>1, <2>1, <2>7
  <2>9. doc \in Seq(S)
    BY <2>5, <2>8
  <2>10. Len(doc) \in Nat /\ DOMAIN doc = 1..Len(doc)
    BY <2>9
  <2>11. PICK l : l = Len(doc)
    OBVIOUS
  <2>12. k \in Nat /\ l \in Nat /\ \A i : i \in 1..k <=> i \in 1..l
    BY <1>1, <2>1, <2>10, <2>11
  <2>13. k <= l /\ l <= k
    <3>1. k # 0 => k \in 1..k
      BY <2>12
    <3>2. l # 0 => l \in 1..l
      BY <2>12
    <3>3. (k # 0 => k \in 1..l) /\ (l # 0 => l \in 1..k)
      BY <2>12, <3>1, <3>2
    <3>4. QED
      BY <2>12, <3>3
  <2>14. QED
    BY <2>1, <2>11, <2>12, <2>13
<1>3. ASSUME NEW i \in Released(doc)
      PROVE  /\ i \in 1..Len(heads) /\ heads[i] \in 1..Len(d)
             /\ d[heads[i]].kind = "version" /\ ReadFrom(d, heads[i], doc[i])
  BY <1>1, <1>3 DEF Released, ReadFrom
<1>4. ASSUME NEW h \in 1..Len(d), d[h].kind = "version"
      PROVE  \E i \in Released(doc) : heads[i] = h /\ ReadFrom(d, h, doc[i])
  <2>1. PICK i \in 1..Len(heads) : heads[i] = h
    BY <1>1, <1>4 DEF Kinds
  <2>2. ReadFrom(d, h, doc[i])
    BY <1>1, <2>1
  <2>3. i \in Released(doc)
    BY <1>1, <1>4, <2>2 DEF ReadFrom, Released
  <2>4. QED
    BY <2>1, <2>2, <2>3
<1>5. IsDocument(doc)
  <2>1. \A i \in DOMAIN doc : doc[i].kind \in Kinds
    BY <1>1 DEF ReadFrom
  <2>2. ASSUME NEW i \in Released(doc) PROVE doc[i].ver \in Versions
    BY <1>3, <2>2 DEF ReadFrom, Regular
  <2>3. QED
    BY <1>1, <1>2, <2>1, <2>2 DEF IsDocument
<1>6. QED
  BY <1>3, <1>4, <1>5

\* Where date-order and heading-form are silent, the dates fall all down the document.
LEMMA DatesFall ==
  ASSUME NEW doc, IsDocument(doc), HeadingForm(doc) = {}, DateFormat(doc) = {},
         DateOrder(doc) = {}, NEW n \in Int, \A i \in Released(doc) : doc[i].date \in BadDate..n
  PROVE  \A i, j \in Released(doc) : i < j =>
           /\ doc[j].date # NoDate
           /\ doc[i].date = NoDate \/ doc[j].date <= doc[i].date
<1> DEFINE R == {p \in Released(doc) \X Released(doc) :
                   /\ doc[p[2]].date # NoDate
                   /\ doc[p[1]].date = NoDate \/ doc[p[2]].date <= doc[p[1]].date}
<1>1. Released(doc) \subseteq Int /\ 0 \notin Released(doc)
  BY DEF Released, IsDocument
<1>2. \A i \in Released(doc) : doc[i].date \in Int /\ (doc[i].date # NoDate => IsDate(doc[i].date))
  <2>1. SUFFICES ASSUME NEW i \in Released(doc)
                 PROVE  doc[i].date \in Int /\ (doc[i].date # NoDate => IsDate(doc[i].date))
    OBVIOUS
  <2>2. doc[i].date # BadDate
    BY DEF DateFormat
  <2>3. doc[i].date \in -1..n
    BY DEF BadDate
  <2>4. QED
    BY <2>2, <2>3 DEF BadDate, NoDate, IsDate
<1>3. ASSUME NEW i \in Released(doc), NEW j \in Released(doc), i < j PROVE doc[j].date # NoDate
  <2>1. SUFFICES ASSUME doc[j].date = NoDate PROVE FALSE
    OBVIOUS
  <2>2. j = Latest(doc)
    BY <2>1 DEF HeadingForm, Undated
  <2>3. Latest(doc) <= i
    BY <1>1, <2>2, LatestIsTop
  <2>4. QED
    BY <1>1, <1>3, <2>2, <2>3
<1>4. ASSUME NEW j \in Released(doc), Above(doc, j) # 0 PROVE <<Above(doc, j), j>> \in R
  <2>1. PICK k : k = Above(doc, j)
    OBVIOUS
  <2>2. \E x \in Released(doc) : x < j
    BY <1>4 DEF Above
  <2>3. k \in Released(doc) /\ k < j
    BY <2>1, <2>2, AboveIsNearest
  <2>4. doc[j].date # NoDate
    BY <1>3, <2>3
  <2>5. doc[k].date # NoDate => ~(doc[j].date > doc[k].date)
    BY <1>2, <1>4, <2>1, <2>3, <2>4 DEF DateOrder
  <2>6. doc[k].date = NoDate \/ doc[j].date <= doc[k].date
    BY <1>2, <2>3, <2>5
  <2>7. <<k, j>> \in R
    BY <2>3, <2>4, <2>6
  <2>8. QED
    BY <2>1, <2>7
<1>5. ASSUME NEW i \in Released(doc), NEW k \in Released(doc), NEW j \in Released(doc),
             <<i, k>> \in R, <<k, j>> \in R
      PROVE  <<i, j>> \in R
  <2>1. /\ doc[k].date # NoDate /\ doc[j].date # NoDate
        /\ doc[i].date = NoDate \/ doc[k].date <= doc[i].date
        /\ doc[j].date <= doc[k].date
    BY <1>5
  <2>2. doc[i].date = NoDate \/ doc[j].date <= doc[i].date
    BY <1>2, <2>1
  <2>3. QED
    BY <2>1, <2>2
<1>6. \A i, j \in Released(doc) : i < j => <<i, j>> \in R
  <2>1. PICK Q : Q = R
    OBVIOUS
  <2>2. \A j \in Released(doc) : Above(doc, j) # 0 => <<Above(doc, j), j>> \in Q
    BY <1>4, <2>1
  <2>3. \A i, k, j \in Released(doc) : <<i, k>> \in Q /\ <<k, j>> \in Q => <<i, j>> \in Q
    BY <1>5, <2>1
  <2>4. \A i, j \in Released(doc) : i < j => <<i, j>> \in Q
    <3> HIDE DEF R
    <3>1. QED
      BY <2>2, <2>3, DownTheDocument
  <2>5. QED
    BY <2>1, <2>4
<1>7. QED
  BY <1>6

\* A section under a heading is one of an entry, the one whose heading is nearest above.
LEMMA SectionIsOwned ==
  ASSUME NEW d, IsSequence(d), NEW h \in 1..Len(d), NEW k \in 1..Len(d), h < k,
         d[h].kind \in Kinds, d[k].kind = "section"
  PROVE  \E g \in 1..Len(d) : d[g].kind \in Kinds /\ Names(d, g, d[k].name)
<1>1. Len(d) \in Nat
  BY SequenceIs
<1>2. PICK T : T = {x \in 1..k : d[x].kind \in Kinds}
  OBVIOUS
<1>3. \A x : x \in T <=> x \in 1..k /\ d[x].kind \in Kinds
  BY <1>2
<1>4. T \in SUBSET (1..k) /\ h \in T /\ k \in Nat
  BY <1>1, <1>3
<1>5. PICK g : g = Greatest(T)
  OBVIOUS
<1>6. g \in T /\ \A x \in T : x <= g
  BY <1>4, <1>5, GreatestPosition
<1>7. g \in 1..k /\ d[g].kind \in Kinds /\ g # k
  BY <1>3, <1>6 DEF Kinds
<1>8. g \in 1..Len(d) /\ g < k
  BY <1>1, <1>7
<1>9. Within(d, g, k)
  <2>1. ASSUME NEW i \in (g + 1)..k PROVE d[i].kind \notin Kinds
    <3>1. i \in 1..k /\ ~(i <= g)
      BY <1>1, <1>8
    <3>2. QED
      BY <1>3, <1>6, <3>1
  <2>2. QED
    BY <1>8, <2>1 DEF Within
<1>10. k \in Content(d, g)
  BY <1>9 DEF Content
<1>11. Names(d, g, d[k].name)
  BY <1>10 DEF Names
<1>12. QED
  BY <1>7, <1>8, <1>11

\* What lint finds nothing in has no fault.
LEMMA ClearIsFree ==
  ASSUME Numbers \subseteq Versions, Empty = <<>>, NEW d, Regular(d), NEW n \in Int, Timely(d, n),
         Clear(Parse(d), n)
  PROVE  FaultFree(d)
<1>0. IsSequence(d)
  BY DEF Regular
<1>1. PICK doc : doc = Parse(d)
  OBVIOUS
<1>2. PICK heads : Entries(d, heads, doc)
  BY <1>0, <1>1, EntriesAre
<1>3. /\ Len(heads) \in Nat /\ DOMAIN doc = 1..Len(heads) /\ Len(d) \in Nat
      /\ \A m \in 1..Len(heads) : heads[m] \in 1..Len(d) /\ ReadFrom(d, heads[m], doc[m])
      /\ \A i, j \in 1..Len(heads) : i < j => heads[i] < heads[j]
      /\ \A h \in 1..Len(d) : d[h].kind \in Kinds => \E m \in 1..Len(heads) : heads[m] = h
  BY <1>2 DEF Entries
<1>4. /\ IsDocument(doc)
      /\ \A i \in Released(doc) : /\ i \in 1..Len(heads) /\ heads[i] \in 1..Len(d)
                                  /\ d[heads[i]].kind = "version" /\ ReadFrom(d, heads[i], doc[i])
      /\ \A h \in 1..Len(d) : d[h].kind = "version" =>
           \E i \in Released(doc) : heads[i] = h /\ ReadFrom(d, h, doc[i])
  BY <1>1, <1>2, ParsedIsDocument
<1>5. /\ UnreadableVersion(doc) = {} /\ HeadingForm(doc) = {} /\ DateFormat(doc) = {}
      /\ VersionOrder(doc) = {} /\ EmptyEntry(doc) = {} /\ UnknownSection(doc) = {}
      /\ DateOrder(doc) = {} /\ OCIIncompatible(doc) = {}
  BY <1>1 DEF Clear
<1>6. ASSUME NEW h \in 1..Len(d), d[h].kind = "unreadable" PROVE FALSE
  <2>1. PICK i \in 1..Len(heads) : heads[i] = h
    BY <1>3, <1>6 DEF Kinds
  <2>2. doc[i].kind = "unreadable"
    BY <1>3, <1>6, <2>1 DEF ReadFrom
  <2>3. i \in UnreadableVersion(doc)
    BY <1>3, <2>2 DEF UnreadableVersion
  <2>4. QED
    BY <1>5, <2>3
<1>7. ASSUME NEW h \in 1..Len(d), d[h].kind = "version" PROVE Stated(d[h]) /\ Filled(d, h)
  <2>1. PICK i \in Released(doc) : heads[i] = h /\ ReadFrom(d, h, doc[i])
    BY <1>4, <1>7
  <2>2. doc[i].date = d[h].date /\ doc[i].ver = d[h].ver /\ doc[i].body = Body(d, h)
    BY <2>1 DEF ReadFrom
  <2>3. doc[i].date # BadDate
    BY <1>5 DEF DateFormat
  <2>4. doc[i].ver.build = <<>> /\ doc[i].ver \notin Overlong
    BY <1>5 DEF OCIIncompatible
  <2>5. doc[i].body # Empty
    BY <1>5 DEF EmptyEntry
  <2>6. Filled(d, h)
    BY <1>7, <2>2, <2>5, ContentIsFilled
  <2>7. QED
    BY <2>2, <2>3, <2>4, <2>6 DEF Stated
<1>8. \A i, j \in Released(doc) : i < j =>
        /\ Compare(doc[i].ver, doc[j].ver) > 0
        /\ doc[j].date # NoDate
        /\ doc[i].date = NoDate \/ doc[j].date <= doc[i].date
  <2>1. \A i \in Released(doc) : doc[i].date \in BadDate..n
    BY <1>4 DEF ReadFrom, Timely
  <2>2. \A i, j \in Released(doc) : i < j =>
          /\ doc[j].date # NoDate
          /\ doc[i].date = NoDate \/ doc[j].date <= doc[i].date
    BY <1>4, <1>5, <2>1, DatesFall
  <2>3. \A i, j \in Released(doc) : i < j => Compare(doc[i].ver, doc[j].ver) > 0
    BY <1>4, <1>5, VersionsDescend
  <2>4. QED
    BY <2>2, <2>3
<1>9. ASSUME NEW g \in 1..Len(d), NEW h \in 1..Len(d), g < h, d[g].kind = "version",
             d[h].kind = "version"
      PROVE  Falls(d[g], d[h])
  <2>1. PICK i \in Released(doc) : heads[i] = g /\ ReadFrom(d, g, doc[i])
    BY <1>4, <1>9
  <2>2. PICK j \in Released(doc) : heads[j] = h /\ ReadFrom(d, h, doc[j])
    BY <1>4, <1>9
  <2>3. i \in 1..Len(heads) /\ j \in 1..Len(heads) /\ i # j
    BY <1>3, <1>4, <1>9, <2>1, <2>2
  <2>4. ~(j < i)
    BY <1>3, <1>9, <2>1, <2>2, <2>3
  <2>5. i < j
    BY <1>3, <2>3, <2>4
  <2>6. /\ Compare(doc[i].ver, doc[j].ver) > 0
        /\ doc[j].date # NoDate
        /\ doc[i].date = NoDate \/ doc[j].date <= doc[i].date
    BY <1>8, <2>5
  <2>7. QED
    BY <2>1, <2>2, <2>6 DEF ReadFrom, Falls
<1>10. ASSUME NEW h \in 1..Len(d), NEW k \in 1..Len(d), h < k, d[h].kind \in Kinds,
              d[k].kind = "section"
       PROVE  d[k].name \in AllowedSections
  <2>1. PICK g \in 1..Len(d) : d[g].kind \in Kinds /\ Names(d, g, d[k].name)
    BY <1>0, <1>10, SectionIsOwned
  <2>2. PICK i \in 1..Len(heads) : heads[i] = g
    BY <1>3, <2>1
  <2>3. PICK s : s = SectionNames(d, g)
    OBVIOUS
  <2>4. doc[i].sections = s
    BY <1>3, <2>2, <2>3 DEF ReadFrom
  <2>5. \E m \in DOMAIN s : s[m] = d[k].name
    BY <1>0, <2>1, <2>3, NamesAre
  <2>6. QED
    BY <1>3, <1>5, <2>4, <2>5 DEF UnknownSection
<1>11. Orderly(d)
  BY <1>6, <1>7, <1>9 DEF Orderly
<1>12. AllFilled(d)
  BY <1>7 DEF AllFilled
<1>13. Accepted(d)
  BY <1>10 DEF Accepted
<1>14. QED
  BY <1>11, <1>12, <1>13 DEF FaultFree

\* No two sections of an entry have one name.
LEMMA NamesApart ==
  ASSUME NEW d, Regular(d), InOrder(d), NEW h \in 1..Len(d), d[h].kind \in Kinds,
         NEW s, s = SectionNames(d, h), NEW m \in DOMAIN s, NEW q \in DOMAIN s, m < q
  PROVE  s[m] # s[q]
<1>0. /\ IsSequence(d) /\ Len(d) \in Nat
      /\ \A i, j \in 1..Len(d) : i < j /\ d[i].kind \in Kinds => d[j].kind # "title"
  BY SequenceIs DEF Regular
<1>1. PICK a : a = After(At(d, Kinds), h, d)
  OBVIOUS
<1>2. PICK C : C = {k \in (h + 1)..(a - 1) : d[k].kind = "section"}
  OBVIOUS
<1>3. PICK own : own = Ascending(C)
  OBVIOUS
<1>4. s = [n \in DOMAIN own |-> d[own[n]].name]
  BY <1>1, <1>2, <1>3 DEF SectionNames
<1>5. \A k \in C : k \in 1..Len(d) /\ Within(d, h, k) /\ d[k].kind = "section"
  <2>1. \A k \in C : Within(d, h, k) /\ d[k].kind = "section"
    BY <1>0, <1>1, <1>2, WithinIs
  <2>2. QED
    BY <2>1 DEF Within
<1>6. C \in SUBSET (1..Len(d))
  BY <1>5
<1>7. Ascends(C, own)
  BY <1>0, <1>3, <1>6, AscendingIs
<1>8. own[m] \in C /\ own[q] \in C /\ own[m] < own[q]
  <2>1. /\ DOMAIN own = 1..Len(own) /\ \A n \in 1..Len(own) : own[n] \in C
        /\ \A x, y \in 1..Len(own) : x < y => own[x] < own[y]
    BY <1>7 DEF Ascends
  <2>2. m \in 1..Len(own) /\ q \in 1..Len(own)
    BY <1>4, <2>1
  <2>3. QED
    BY <2>1, <2>2
<1>9. ASSUME NEW k \in C PROVE k \in SectionsOf(d, h)
  <2>1. k \in 1..Len(d) /\ d[k].kind = "section" /\ h < k
        /\ \A i \in (h + 1)..k : d[i].kind \notin Kinds
    BY <1>5 DEF Within
  <2>2. ASSUME NEW i \in (h + 1)..k PROVE d[i].kind \notin Stops
    <3>1. i \in 1..Len(d) /\ h < i
      BY <1>0, <2>1
    <3>2. QED
      BY <1>0, <2>1, <3>1 DEF Stops
  <2>3. Under(d, h, k)
    BY <2>1, <2>2 DEF Under
  <2>4. QED
    BY <1>0, <2>1, <2>3, SectionsAre
<1>10. h \in At(d, Kinds)
  BY <1>0, SequenceIs DEF At
<1>11. PICK x, y : x = own[m] /\ y = own[q]
  OBVIOUS
<1>12. x \in SectionsOf(d, h) /\ y \in SectionsOf(d, h) /\ x < y
  BY <1>8, <1>9, <1>11
<1>13. Fold[d[x].name] # Fold[d[y].name]
  BY <1>10, <1>12 DEF InOrder
<1>14. s[m] = d[x].name /\ s[q] = d[y].name
  BY <1>4, <1>11
<1>15. QED
  BY <1>13, <1>14

\* In what has no fault lint finds nothing, if its links, sections and dates are as they should.
LEMMA FreeIsClear ==
  ASSUME Numbers \subseteq Versions, Empty = <<>>, NEW d, NEW n \in Int, Bound("lint", d, n),
         FaultFree(d)
  PROVE  Clear(Parse(d), n)
<1>0. Regular(d) /\ Well(d) /\ InOrder(d) /\ Styled(d) /\ Timely(d, n) /\ IsSequence(d)
  BY DEF Bound, Well
<1>1. PICK doc : doc = Parse(d)
  OBVIOUS
<1>2. PICK heads : Entries(d, heads, doc)
  BY <1>0, <1>1, EntriesAre
<1>3. /\ Len(heads) \in Nat /\ DOMAIN doc = 1..Len(heads) /\ Len(d) \in Nat
      /\ \A m \in 1..Len(heads) : /\ heads[m] \in 1..Len(d) /\ d[heads[m]].kind \in Kinds
                                  /\ ReadFrom(d, heads[m], doc[m])
      /\ \A i, j \in 1..Len(heads) : i < j => heads[i] < heads[j]
  BY <1>2 DEF Entries
<1>4. /\ IsDocument(doc)
      /\ \A i \in Released(doc) : /\ i \in 1..Len(heads) /\ heads[i] \in 1..Len(d)
                                  /\ d[heads[i]].kind = "version" /\ ReadFrom(d, heads[i], doc[i])
  BY <1>0, <1>1, <1>2, ParsedIsDocument
<1>5. /\ \A h \in 1..Len(d) : d[h].kind # "unreadable"
      /\ \A h \in 1..Len(d) : d[h].kind = "version" => Stated(d[h]) /\ Filled(d, h)
      /\ \A g, h \in 1..Len(d) :
           g < h /\ d[g].kind = "version" /\ d[h].kind = "version" => Falls(d[g], d[h])
      /\ Accepted(d)
  BY DEF FaultFree, Orderly, AllFilled
<1>6. Released(doc) \subseteq Int /\ 0 \notin Released(doc)
  BY <1>3 DEF Released
<1>7. ASSUME NEW i \in Released(doc)
      PROVE  /\ doc[i].date # BadDate /\ doc[i].ver.build = <<>> /\ doc[i].ver \notin Overlong
             /\ doc[i].date \in Int /\ doc[i].date <= n /\ doc[i].body # Empty /\ doc[i].ver \in Versions
  <2>1. PICK h : h = heads[i]
    OBVIOUS
  <2>2. /\ h \in 1..Len(d) /\ d[h].kind = "version" /\ doc[i].date = d[h].date
        /\ doc[i].ver = d[h].ver /\ doc[i].body = Body(d, h)
    BY <1>4, <2>1 DEF ReadFrom
  <2>3. Stated(d[h]) /\ Filled(d, h)
    BY <1>5, <2>2
  <2>4. Body(d, h) # Empty
    BY <1>0, <2>2, <2>3, ContentIsFilled
  <2>5. d[h].date \in -1..n
    BY <1>0, <2>2 DEF Timely, BadDate
  <2>6. doc[i].ver \in Versions
    BY <1>4 DEF IsDocument
  <2>7. QED
    BY <2>2, <2>3, <2>4, <2>5, <2>6 DEF Stated
<1>8. ASSUME NEW i \in Released(doc), NEW j \in Released(doc), i < j
      PROVE  /\ Compare(doc[i].ver, doc[j].ver) > 0 /\ doc[j].date # NoDate
             /\ doc[i].date = NoDate \/ doc[j].date <= doc[i].date
  <2>1. heads[i] < heads[j]
    BY <1>3, <1>4, <1>8
  <2>2. Falls(d[heads[i]], d[heads[j]])
    BY <1>4, <1>5, <2>1
  <2>3. /\ doc[i].ver = d[heads[i]].ver /\ doc[i].date = d[heads[i]].date
        /\ doc[j].ver = d[heads[j]].ver /\ doc[j].date = d[heads[j]].date
    BY <1>4 DEF ReadFrom
  <2>4. QED
    BY <2>2, <2>3 DEF Falls
<1>9. ASSUME NEW i \in Released(doc), Above(doc, i) # 0
      PROVE  Above(doc, i) \in Released(doc) /\ Above(doc, i) < i
  <2>1. \E x \in Released(doc) : x < i
    BY <1>9 DEF Above
  <2>2. QED
    BY <1>4, <2>1, AboveIsNearest
<1>10. UnreadableVersion(doc) = {}
  BY <1>3, <1>5 DEF UnreadableVersion, ReadFrom
<1>11. HeadingForm(doc) = {}
  <2>1. SUFFICES ASSUME NEW i \in Released(doc), doc[i].date = NoDate, i # Latest(doc) PROVE FALSE
    BY DEF HeadingForm, Undated
  <2>2. Latest(doc) # 0
    BY <1>4, <1>10, NoLatest
  <2>3. Latest(doc) \in Released(doc) /\ Latest(doc) <= i
    BY <1>4, <2>2, LatestIsTop
  <2>4. Latest(doc) < i
    BY <1>6, <2>1, <2>3
  <2>5. QED
    BY <1>8, <2>1, <2>3, <2>4
<1>12. DateFormat(doc) = {} /\ OCIIncompatible(doc) = {} /\ EmptyEntry(doc) = {}
  BY <1>7 DEF DateFormat, OCIIncompatible, EmptyEntry
<1>13. DateFuture(doc, n) = {}
  BY <1>7 DEF DateFuture
<1>14. VersionOrder(doc) = {}
  <2>1. SUFFICES ASSUME NEW i \in Released(doc), Above(doc, i) # 0,
                        Compare(doc[i].ver, doc[Above(doc, i)].ver) >= 0
                 PROVE  FALSE
    BY DEF VersionOrder
  <2>2. PICK a : a = Above(doc, i)
    OBVIOUS
  <2>3. a \in Released(doc) /\ a < i
    BY <1>9, <2>1, <2>2
  <2>4. Compare(doc[a].ver, doc[i].ver) > 0 /\ doc[a].ver \in Versions /\ doc[i].ver \in Versions
    BY <1>7, <1>8, <2>3
  <2>5. Compare(doc[i].ver, doc[a].ver) < 0
    BY <2>4, ComparesBack
  <2>6. Compare(doc[i].ver, doc[a].ver) \in {-1, 0, 1}
    BY <2>4, VersionsOrdered DEF Comparisons
  <2>7. QED
    BY <2>1, <2>2, <2>5, <2>6
<1>15. DateOrder(doc) = {}
  <2>1. SUFFICES ASSUME NEW i \in Released(doc), Above(doc, i) # 0, IsDate(doc[Above(doc, i)].date),
                        doc[i].date > doc[Above(doc, i)].date
                 PROVE  FALSE
    BY DEF DateOrder
  <2>2. PICK a : a = Above(doc, i)
    OBVIOUS
  <2>3. a \in Released(doc) /\ a < i
    BY <1>9, <2>1, <2>2
  <2>4. doc[a].date = NoDate \/ doc[i].date <= doc[a].date
    BY <1>8, <2>3
  <2>5. doc[a].date \in Int /\ doc[i].date \in Int /\ doc[a].date # NoDate
    BY <1>7, <2>1, <2>2, <2>3 DEF IsDate, NoDate
  <2>6. QED
    BY <2>1, <2>2, <2>4, <2>5
<1>16. ASSUME NEW i \in DOMAIN doc, NEW x \in DOMAIN doc[i].sections
       PROVE  doc[i].sections[x] \in AllowedSections
  <2>1. PICK h : h = heads[i]
    OBVIOUS
  <2>2. h \in 1..Len(d) /\ d[h].kind \in Kinds /\ doc[i].sections = SectionNames(d, h)
    BY <1>3, <2>1 DEF ReadFrom
  <2>3. PICK s : s = SectionNames(d, h)
    OBVIOUS
  <2>4. x \in DOMAIN s
    BY <2>2, <2>3
  <2>5. Names(d, h, s[x])
    BY <1>0, <2>2, <2>3, <2>4, NamesAre
  <2>6. PICK k \in Content(d, h) : d[k].kind = "section" /\ d[k].name = s[x]
    BY <2>5 DEF Names
  <2>7. k \in 1..Len(d) /\ h < k
    BY <2>6 DEF Content, Within
  <2>8. QED
    BY <1>5, <2>2, <2>3, <2>6, <2>7 DEF Accepted
<1>17. UnknownSection(doc) = {}
  BY <1>16 DEF UnknownSection
<1>18. DuplicateSection(doc, Nowhere) = {}
  <2>1. SUFFICES ASSUME NEW i \in DOMAIN doc, NEW x \in DOMAIN doc[i].sections,
                        NEW y \in DOMAIN doc[i].sections, x < y,
                        doc[i].sections[x] = doc[i].sections[y]
                 PROVE  FALSE
    BY DEF DuplicateSection
  <2>2. PICK h : h = heads[i]
    OBVIOUS
  <2>3. h \in 1..Len(d) /\ d[h].kind \in Kinds /\ doc[i].sections = SectionNames(d, h)
    BY <1>3, <2>2 DEF ReadFrom
  <2>4. PICK s : s = SectionNames(d, h)
    OBVIOUS
  <2>5. x \in DOMAIN s /\ y \in DOMAIN s /\ s[x] = s[y]
    BY <2>1, <2>3, <2>4
  <2>6. QED
    BY <1>0, <2>1, <2>3, <2>4, <2>5, NamesApart
<1>19. PartialLinkRefs(doc) = {}
  <2>1. SUFFICES ASSUME NEW i \in Released(doc), doc[i].link, NEW j \in Released(doc), ~doc[j].link
                 PROVE  FALSE
    BY DEF PartialLinkRefs
  <2>2. PICK g, h : g = heads[i] /\ h = heads[j]
    OBVIOUS
  <2>3. Linked(d, g)
    BY <1>4, <2>1, <2>2 DEF ReadFrom
  <2>4. h \in 1..Len(d) /\ d[h].kind = "version" /\ ~Linked(d, h)
    BY <1>4, <2>1, <2>2 DEF ReadFrom
  <2>5. \A k : k \in At(d, {"ref"}) <=> k \in 1..Len(d) /\ d[k].kind = "ref"
    BY <1>0, SequenceIs DEF At
  <2>6. \E k \in 1..Len(d) : d[k].kind = "ref"
    BY <2>3, <2>5 DEF Linked
  <2>7. /\ d[h].bracketed = TRUE
        /\ \E k \in 1..Len(d) : d[k].kind = "ref" /\ d[k].label = {d[h].ver}
    BY <1>0, <2>4, <2>6 DEF Styled, Adorned
  <2>8. \E k \in At(d, {"ref"}) : d[k].label = {d[h].ver}
    BY <2>5, <2>7
  <2>9. Linked(d, h)
    BY <2>4, <2>7, <2>8 DEF Linked
  <2>10. QED
    BY <2>4, <2>9
<1>20. QED
  BY <1>1, <1>10, <1>11, <1>12, <1>13, <1>14, <1>15, <1>17, <1>18, <1>19 DEF Clear

\* edit_test.go:178-179: what the writers make of a document that lints clean lints clean, whatever
\* the document, as long as what they are asked for is nothing that lint objects to, and the links
\* and headings are of one style; and be the command long dead or another at work.
THEOREM WritesStayClean ==
  ASSUME AllNumbers, Modest,
         \A d \in StartDocs : Regular(d) /\ Well(d) /\ Styled(d) /\ Timely(d, 1)
  PROVE  Spec => []WritesLintClean
<1>1. Init => BoundInv("lint")
  <2>1. SUFFICES ASSUME Init PROVE BoundInv("lint")
    OBVIOUS
  <2>2. today = 1 /\ file \in StartDocs /\ today \in Nat \ {0}
    BY <2>1 DEF Init
  <2>3. Bound("lint", file, today)
    BY <2>2 DEF Bound
  <2>4. \A c \in Commands : jobs[c].phase = "idle"
    BY <2>1 DEF Init, Idle
  <2>5. QED
    BY <2>2, <2>3, <2>4 DEF BoundInv
<1>2. LinesInv /\ BoundInv("lint") => WritesLintClean
  <2>1. SUFFICES ASSUME LinesInv, BoundInv("lint"), NEW c \in Commands,
                        jobs[c].phase = "written", CleanDoc(jobs[c].src)
                 PROVE  CleanDoc(jobs[c].out)
    BY DEF WritesLintClean
  <2>2. PICK req, d, e, day : /\ req = jobs[c].req /\ d = jobs[c].src /\ e = jobs[c].out
                              /\ day = jobs[c].day
    OBVIOUS
  <2>3. PICK n : n = today
    OBVIOUS
  <2>4. n \in Nat /\ n \in Int /\ Bound("lint", d, n) /\ Ready(day, d, n)
    BY <2>1, <2>2, <2>3 DEF BoundInv
  <2>5. req \in Requests[c] /\ e \in Edited(req, day, d)
    BY <2>1, <2>2 DEF LinesInv, Works
  <2>6. Bound("lint", e, n)
    BY <2>4, <2>5, EditedIsBound
  <2>7. Numbers \subseteq Versions /\ Empty = <<>>
    BY DEF AllNumbers, Modest
  <2>8. Clear(Parse(d), n)
    BY <2>1, <2>2, <2>3, CleanIs, ClearIs
  <2>9. FaultFree(d)
    BY <2>4, <2>7, <2>8, ClearIsFree DEF Bound
  <2>10. FaultFree(e)
    BY <2>4, <2>5, <2>9, EditedIsFree
  <2>11. Clear(Parse(e), n)
    BY <2>4, <2>6, <2>7, <2>10, FreeIsClear
  <2>12. QED
    BY <2>2, <2>3, <2>11, CleanIs, ClearIs
<1>3. LinesInv /\ BoundInv("lint") /\ [Next]_vars => BoundInv("lint")'
  BY BoundStep
<1>4. QED
  BY <1>1, <1>2, <1>3, LinesInit, LinesStep, PTL DEF Spec
=============================================================================
