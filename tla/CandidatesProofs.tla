-------------------------- MODULE CandidatesProofs --------------------------
(***************************************************************************)
(* The numbering of candidates, for any number of pull requests, stages,   *)
(* revisions and re-runs: proofs about module Candidates.                  *)
(***************************************************************************)
EXTENDS Candidates, SequenceTheorems, FiniteSetTheorems, TLAPS

\* A sequence one element longer holds what it held, and that element last.
LEMMA Appended ==
  ASSUME NEW S, NEW n \in Nat, NEW s \in [1..n -> S], NEW e \in S
  PROVE  /\ Append(s, e) \in Seq(S) /\ Append(s, e) \in [1..(n + 1) -> S]
         /\ Len(Append(s, e)) = n + 1
         /\ \A i \in 1..n : Append(s, e)[i] = s[i]
         /\ Append(s, e)[n + 1] = e
<1>1. s \in Seq(S) /\ Len(s) = n
  OBVIOUS
<1>2. Append(s, e) \in Seq(S) /\ Len(Append(s, e)) = n + 1
  BY <1>1, AppendProperties
<1>3. \A i \in 1..n : Append(s, e)[i] = s[i]
  BY <1>1, AppendProperties
<1>4. Append(s, e)[n + 1] = e
  BY <1>1, AppendProperties
<1>5. Append(s, e) \in [1..(n + 1) -> S]
  BY <1>2, LenProperties
<1>6. QED
  BY <1>2, <1>3, <1>4, <1>5

\* What a sequence holds at each of its positions.
LEMMA ElementsOf ==
  ASSUME NEW S, NEW s \in Seq(S), NEW i \in DOMAIN s
  PROVE  s[i] \in S
OBVIOUS

\* The domains of the sequences, and what they hold.
LEMMA Domains ==
  ASSUME TypeOK
  PROVE  /\ Revisions = 1..Len(revs) /\ Len(revs) \in Nat
         /\ DOMAIN tags = 1..Len(tags) /\ Len(tags) \in Nat
         /\ \A k \in Revisions : revs[k].of \in PRs \cup {Trunk} /\ revs[k].entry \in Entries
         /\ \A t \in DOMAIN tags : /\ tags[t].stage \in Stages \cup {Final}
                                   /\ tags[t].ordinal \in Nat /\ tags[t].rev \in Revisions
<1>1. revs \in Seq([of : PRs \cup {Trunk}, entry : Entries])
      /\ tags \in Seq([stage : Stages \cup {Final}, ordinal : Nat, rev : Revisions])
  BY DEF TypeOK
<1>2. /\ Revisions = 1..Len(revs) /\ Len(revs) \in Nat
      /\ DOMAIN tags = 1..Len(tags) /\ Len(tags) \in Nat
  BY <1>1 DEF Revisions
<1>3. \A k \in Revisions : revs[k] \in [of : PRs \cup {Trunk}, entry : Entries]
  BY <1>1, ElementsOf DEF Revisions
<1>4. \A t \in DOMAIN tags : tags[t] \in [stage : Stages \cup {Final}, ordinal : Nat, rev : Revisions]
  BY <1>1, ElementsOf
<1>5. QED
  BY <1>2, <1>3, <1>4

\* A revision is cut for a stage unless it is the trunk's.
LEMMA StageTyped ==
  ASSUME TypeOK, NEW k \in Revisions
  PROVE  /\ revs[k].of = Trunk => StageOf(k) = Final
         /\ revs[k].of # Trunk => StageOf(k) \in Stages
         /\ StageOf(k) \in Stages \cup {Final}
  BY Domains, CandidatesAssumption DEF StageOf

\* How many candidates of a stage are cut is a number.
LEMMA CutByFinite ==
  ASSUME TypeOK, NEW stage, NEW n \in 0..Len(tags)
  PROVE  IsFiniteSet(CutBy(stage, n)) /\ Cardinality(CutBy(stage, n)) \in Nat
<1>1. n \in Nat
  BY Domains
<1>2. IsFiniteSet(1..n)
  BY <1>1, FS_Interval
<1>3. IsFiniteSet(CutBy(stage, n))
  BY <1>2, FS_Subset DEF CutBy
<1>4. QED
  BY <1>3, FS_CardinalityType

\* The next ordinal of a stage is one more than the candidates it has.
LEMMA NextIsCount ==
  ASSUME TypeOK, Dense, NEW stage \in Stages
  PROVE  NextOrdinal(stage) = Cardinality(CutBy(stage, Len(tags))) + 1
<1> DEFINE c == Cardinality(CutBy(stage, Len(tags)))
           cut == {0} \cup {tags[t].ordinal : t \in {t \in DOMAIN tags : tags[t].stage = stage}}
<1>1. c \in Nat
  BY CutByFinite, Domains
<1>2. CutBy(stage, Len(tags)) = {t \in DOMAIN tags : tags[t].stage = stage}
  BY Domains DEF CutBy
<1>3. cut = {0} \cup (1..c)
  BY <1>2 DEF Dense
<1>4. cut = 0..c
  <2> HIDE DEF cut, c
  <2> QED BY <1>1, <1>3
<1>5. (CHOOSE n \in cut : \A m \in cut : m <= n) = c
  <2> HIDE DEF cut, c
  <2>1. c \in cut /\ \A m \in cut : m <= c
    BY <1>1, <1>4
  <2>2. \A n \in cut : (\A m \in cut : m <= n) => n = c
    BY <1>1, <1>4, <2>1
  <2>3. QED
    BY <2>1, <2>2
<1>6. NextOrdinal(stage) = 1 + (CHOOSE n \in cut : \A m \in cut : m <= n)
  BY DEF NextOrdinal
<1>7. QED
  <2> HIDE DEF cut, c
  <2>1. NextOrdinal(stage) = 1 + c
    BY <1>5, <1>6
  <2>2. NextOrdinal(stage) = c + 1
    BY <1>1, <2>1
  <2>3. QED
    BY <2>2 DEF c

-----------------------------------------------------------------------------
(* Steps that push no tag                                                  *)

\* The candidates cut are those of the tags: without a tag they stay as counted.
LEMMA TagsKept ==
  ASSUME OrdinalsCount, Dense, UNCHANGED tags
  PROVE  OrdinalsCount' /\ Dense'
<1>1. OrdinalsCount'
  BY Zenon DEF OrdinalsCount, CutBy
<1>2. Dense'
  <2>1. SUFFICES ASSUME NEW stage \in Stages
                 PROVE  ({tags[t].ordinal : t \in CutBy(stage, Len(tags))} =
                           1..Cardinality(CutBy(stage, Len(tags))))'
    BY DEF Dense
  <2>2. CutBy(stage, Len(tags))' = CutBy(stage, Len(tags))
    BY DEF CutBy
  <2>3. {tags[t].ordinal : t \in CutBy(stage, Len(tags))} =
          1..Cardinality(CutBy(stage, Len(tags)))
    BY DEF Dense
  <2>4. QED
    BY <2>2, <2>3
<1>3. QED
  BY <1>1, <1>2

\* A step that changes what runs are at, and lists no ordinal but the next one.
LEMMA RunsOnly ==
  ASSUME OrdinalInv, UNCHANGED <<revs, tags, built>>,
         runs' \in [Revisions -> RunType],
         \A j \in Revisions :
           runs'[j].phase = "listed" /\ revs[j].of # Trunk =>
             \/ runs[j].phase = "listed" /\ runs'[j].ordinal = runs[j].ordinal
             \/ runs'[j].ordinal = NextOrdinal(StageOf(j))
  PROVE  OrdinalInv'
<1>1. TypeOK'
  BY DEF OrdinalInv, TypeOK, Revisions
<1>2. OrdinalsCount' /\ Dense'
  BY TagsKept DEF OrdinalInv
<1>3. ListedWithin'
  <2>1. SUFFICES ASSUME NEW j \in Revisions, runs'[j].phase = "listed", revs[j].of # Trunk
                 PROVE  runs'[j].ordinal \in 1..(Cardinality(CutBy(StageOf(j), Len(tags))) + 1)
    BY DEF ListedWithin, Revisions, StageOf, CutBy
  <2> DEFINE c == Cardinality(CutBy(StageOf(j), Len(tags)))
  <2>2. c \in Nat
    BY CutByFinite, Domains DEF OrdinalInv
  <2>3. CASE runs[j].phase = "listed" /\ runs'[j].ordinal = runs[j].ordinal
    BY <2>1, <2>3 DEF OrdinalInv, ListedWithin
  <2>4. CASE runs'[j].ordinal = NextOrdinal(StageOf(j))
    <3>1. NextOrdinal(StageOf(j)) = c + 1
      BY <2>1, StageTyped, NextIsCount DEF OrdinalInv
    <3> HIDE DEF c
    <3>2. c + 1 \in 1..(c + 1)
      BY <2>2
    <3>3. QED
      BY <2>4, <3>1, <3>2 DEF c
  <2>5. QED
    BY <2>1, <2>3, <2>4
<1>4. QED
  BY <1>1, <1>2, <1>3 DEF OrdinalInv

\* The one that waits gives its place up, and no run lists for that.
LEMMA DisplacedTyped ==
  ASSUME TypeOK, NEW of
  PROVE  /\ Displaced(of) \in [Revisions -> RunType]
         /\ \A j \in Revisions : Displaced(of)[j].phase = "listed" => Displaced(of)[j] = runs[j]
<1>1. \A j \in Revisions : runs[j] \in RunType /\ [runs[j] EXCEPT !.phase = "dropped"] \in RunType
  BY DEF TypeOK, RunType, Phases
<1>2. QED
  BY <1>1 DEF Displaced, RunType

LEMMA FreshTyped == Fresh \in RunType /\ Fresh.phase = "pending"
  BY DEF Fresh, RunType, Phases

LEMMA PushStep ==
  ASSUME OrdinalInv, NEW of \in PRs \cup {Trunk}, Push(of)
  PROVE  OrdinalInv'
<1> DEFINE n == Len(revs)
           Rev == [of : PRs \cup {Trunk}, entry : Entries]
<1>1. TypeOK /\ Revisions = 1..n /\ n \in Nat
  BY Domains DEF OrdinalInv
<1>2. PICK rev \in Rev : revs' = Append(revs, rev)
  <2>1. PICK entry \in Proposed : revs' = Append(revs, [of |-> of, entry |-> entry])
    BY DEF Push
  <2>2. [of |-> of, entry |-> entry] \in Rev
    BY CandidatesAssumption
  <2>3. QED
    BY <2>1, <2>2
<1>3. revs \in Seq(Rev) /\ revs \in [1..n -> Rev]
  BY <1>1, LenProperties DEF TypeOK
<1>4. /\ revs' \in Seq(Rev) /\ Len(revs') = n + 1 /\ DOMAIN revs' = 1..(n + 1)
      /\ \A j \in 1..n : revs'[j] = revs[j]
  <2> HIDE DEF n, Rev
  <2> QED BY <1>1, <1>2, <1>3, Appended
<1>5. Revisions' = 1..(n + 1) /\ Revisions \subseteq Revisions'
  BY <1>1, <1>4 DEF Revisions
<1>6. /\ runs' \in [1..(n + 1) -> RunType]
      /\ \A j \in 1..n : runs'[j] = Displaced(of)[j]
      /\ runs'[n + 1] = Fresh
  <2>1. Displaced(of) \in [1..n -> RunType]
    BY <1>1, DisplacedTyped
  <2>2. runs' = Append(Displaced(of), Fresh)
    BY DEF Push
  <2> HIDE DEF n
  <2>3. QED
    BY <1>1, <2>1, <2>2, FreshTyped, Appended
<1>7. UNCHANGED <<tags, built>>
  BY DEF Push
<1>8. tags' \in Seq([stage : Stages \cup {Final}, ordinal : Nat, rev : Revisions'])
  <2> DEFINE T == [stage : Stages \cup {Final}, ordinal : Nat, rev : Revisions']
  <2>1. tags \in [1..Len(tags) -> T]
    <3>1. tags \in [1..Len(tags) -> [stage : Stages \cup {Final}, ordinal : Nat, rev : Revisions]]
      BY <1>1, LenProperties DEF TypeOK
    <3>2. QED
      BY <1>5, <3>1
  <2>2. tags \in Seq(T)
    <3> HIDE DEF T
    <3> QED BY <1>1, <2>1, Domains
  <2>3. QED
    BY <1>7, <2>2
<1>9. TypeOK'
  BY <1>1, <1>4, <1>5, <1>6, <1>7, <1>8 DEF TypeOK, RunType
<1>10. ListedWithin'
  <2>1. SUFFICES ASSUME NEW j \in Revisions', runs'[j].phase = "listed", revs'[j].of # Trunk
                 PROVE  runs'[j].ordinal \in 1..(Cardinality(CutBy(StageOf(j), Len(tags))') + 1)
    BY <1>7 DEF ListedWithin, CutBy
  <2>2. j \in 1..n
    BY <1>1, <1>5, <1>6, <2>1, FreshTyped
  <2>3. runs'[j] = runs[j] /\ revs'[j] = revs[j]
    BY <1>1, <1>4, <1>6, <2>1, <2>2, DisplacedTyped
  <2>4. runs[j].ordinal \in 1..(Cardinality(CutBy(StageOf(j), Len(tags))) + 1)
    BY <1>1, <2>1, <2>2, <2>3 DEF OrdinalInv, ListedWithin
  <2>5. CutBy(StageOf(j), Len(tags))' = CutBy(StageOf(j), Len(tags))
    BY <1>7, <2>3 DEF CutBy, StageOf
  <2>6. QED
    BY <2>3, <2>4, <2>5
<1>11. QED
  BY <1>7, <1>9, <1>10, TagsKept DEF OrdinalInv

LEMMA ReadStep ==
  ASSUME OrdinalInv, NEW k \in Revisions, Read(k)
  PROVE  OrdinalInv'
<1>1. /\ UNCHANGED <<revs, tags, built>> /\ runs \in [Revisions -> RunType]
      /\ revs[k].entry \in Entries
  BY Domains DEF Read, OrdinalInv, TypeOK
<1>2. PICK new \in {[runs[k] EXCEPT !.phase = "failed"],
                    [phase |-> "suite", version |-> revs[k].entry, tagged |-> FinalTagged, ordinal |-> 0]} :
        runs' = [runs EXCEPT ![k] = new]
  BY DEF Read
<1>3. new \in RunType /\ new.phase # "listed"
  <2>1. FinalTagged \in BOOLEAN
    BY DEF FinalTagged
  <2>2. QED
    BY <1>1, <1>2, <2>1 DEF RunType, Phases
<1>4. runs' \in [Revisions -> RunType]
  BY <1>1, <1>2, <1>3
<1>5. \A j \in Revisions : runs'[j].phase = "listed" => runs'[j] = runs[j]
  BY <1>1, <1>2, <1>3
<1>6. QED
  BY <1>1, <1>4, <1>5, RunsOnly

\* The ordinal listed is the next one of its stage (List).
LEMMA ListStep ==
  ASSUME OrdinalInv, NEW k \in Revisions, List(k)
  PROVE  OrdinalInv'
<1>1. UNCHANGED <<revs, tags, built>> /\ runs \in [Revisions -> RunType]
  BY DEF List, OrdinalInv, TypeOK
<1> DEFINE o == IF revs[k].of = Trunk THEN 0 ELSE NextOrdinal(StageOf(k))
<1>2. o \in Nat
  <2>1. CASE revs[k].of = Trunk
    BY <2>1
  <2>2. CASE revs[k].of # Trunk
    <3>1. StageOf(k) \in Stages
      BY <2>2, StageTyped DEF OrdinalInv
    <3>2. Cardinality(CutBy(StageOf(k), Len(tags))) \in Nat
      BY CutByFinite, Domains DEF OrdinalInv
    <3>3. NextOrdinal(StageOf(k)) \in Nat
      BY <3>1, <3>2, NextIsCount DEF OrdinalInv
    <3>4. QED
      BY <2>2, <3>3
  <2>3. QED
    BY <2>1, <2>2
<1>3. PICK p \in {"skipped", "failed", "listed"} :
        runs' = [runs EXCEPT ![k].phase = p, ![k].ordinal = o]
  BY DEF List
<1>4. runs' \in [Revisions -> RunType]
  <2> HIDE DEF o
  <2> QED BY <1>1, <1>2, <1>3 DEF RunType, Phases
<1>5. runs'[k].ordinal = o /\ \A j \in Revisions \ {k} : runs'[j] = runs[j]
  <2> HIDE DEF o
  <2> QED BY <1>1, <1>3 DEF RunType
<1>6. \A j \in Revisions :
        runs'[j].phase = "listed" /\ revs[j].of # Trunk =>
          \/ runs[j].phase = "listed" /\ runs'[j].ordinal = runs[j].ordinal
          \/ runs'[j].ordinal = NextOrdinal(StageOf(j))
  BY <1>5
<1>7. QED
  BY <1>1, <1>4, <1>6, RunsOnly

\* The tag job resumes, or a step fails: the run is at no ordinal it did not list.
LEMMA PhaseStep ==
  ASSUME OrdinalInv, NEW k \in Revisions, NEW p \in Phases \ {"listed"},
         runs' = [runs EXCEPT ![k].phase = p], UNCHANGED <<revs, tags, built>>
  PROVE  OrdinalInv'
<1>1. runs \in [Revisions -> RunType]
  BY DEF OrdinalInv, TypeOK
<1>2. runs' \in [Revisions -> RunType]
  BY <1>1 DEF RunType
<1>3. \A j \in Revisions : runs'[j].phase = "listed" => runs'[j] = runs[j]
  BY <1>1 DEF RunType
<1>4. QED
  BY <1>2, <1>3, RunsOnly

LEMMA RerunStep ==
  ASSUME OrdinalInv, NEW k \in Revisions, Rerun(k)
  PROVE  OrdinalInv'
<1> DEFINE shelved == Displaced(revs[k].of)
<1>1. /\ shelved \in [Revisions -> RunType]
      /\ \A j \in Revisions : shelved[j].phase = "listed" => shelved[j] = runs[j]
  BY DisplacedTyped DEF OrdinalInv
<1>2. PICK again \in {Fresh, [runs[k] EXCEPT !.phase = "pending"]} :
        runs' = [shelved EXCEPT ![k] = again]
  BY DEF Rerun
<1>3. again \in RunType /\ again.phase = "pending"
  <2>1. runs[k] \in RunType
    BY DEF OrdinalInv, TypeOK
  <2>2. [runs[k] EXCEPT !.phase = "pending"] \in RunType
    BY <2>1 DEF RunType, Phases
  <2>3. [runs[k] EXCEPT !.phase = "pending"].phase = "pending"
    BY <2>1 DEF RunType
  <2>4. QED
    BY <1>2, <2>2, <2>3, FreshTyped
<1>4. /\ runs' \in [Revisions -> RunType]
      /\ \A j \in Revisions : runs'[j].phase = "listed" => runs'[j] = runs[j]
  <2> HIDE DEF shelved
  <2> QED BY <1>1, <1>2, <1>3
<1>5. UNCHANGED <<revs, tags, built>>
  BY DEF Rerun
<1>6. QED
  BY <1>4, <1>5, RunsOnly

LEMMA PublishStep ==
  ASSUME OrdinalInv, NEW t \in DOMAIN tags, Publish(t)
  PROVE  OrdinalInv'
<1>1. UNCHANGED <<revs, runs, tags>>
  BY DEF Publish
<1>2. built' \in [DOMAIN tags -> {"queued", "built", "filed", "failed"}]
  BY DEF Publish, OrdinalInv, TypeOK
<1>3. TypeOK'
  BY <1>1, <1>2 DEF OrdinalInv, TypeOK, Revisions
<1>4. ListedWithin'
  BY <1>1, Zenon DEF OrdinalInv, ListedWithin, Revisions, StageOf, CutBy
<1>5. QED
  BY <1>1, <1>3, <1>4, TagsKept DEF OrdinalInv

-----------------------------------------------------------------------------
(* The push of a tag                                                       *)

\* A name the remote does not hold, listed before, is the next ordinal still.
LEMMA FreeIsNext ==
  ASSUME OrdinalInv, NEW k \in Revisions, runs[k].phase = "listed", revs[k].of # Trunk,
         ~Held(StageOf(k), runs[k].ordinal)
  PROVE  runs[k].ordinal = Cardinality(CutBy(StageOf(k), Len(tags))) + 1
<1> DEFINE c == Cardinality(CutBy(StageOf(k), Len(tags)))
<1>1. StageOf(k) \in Stages /\ c \in Nat
  BY StageTyped, CutByFinite, Domains DEF OrdinalInv
<1>2. runs[k].ordinal \in 1..(c + 1)
  BY DEF OrdinalInv, ListedWithin
<1>3. runs[k].ordinal \notin 1..c
  <2>1. runs[k].ordinal \notin {tags[t].ordinal : t \in CutBy(StageOf(k), Len(tags))}
    BY Domains DEF Held, CutBy, OrdinalInv
  <2>2. {tags[t].ordinal : t \in CutBy(StageOf(k), Len(tags))} = 1..c
    BY <1>1 DEF OrdinalInv, Dense
  <2>3. QED
    BY <2>1, <2>2
<1>4. QED
  <2> HIDE DEF c
  <2>1. runs[k].ordinal = c + 1
    BY <1>1, <1>2, <1>3
  <2>2. QED
    BY <2>1 DEF c

\* One more tag, which carries the next ordinal of its stage, keeps the count.
LEMMA OneMore ==
  ASSUME TypeOK, OrdinalsCount, Dense,
         NEW n \in Nat, n = Len(tags), NEW s \in Stages \cup {Final}, NEW o,
         s \in Stages => o = Cardinality(CutBy(s, n)) + 1,
         Len(tags') = n + 1, DOMAIN tags' = 1..(n + 1),
         \A t \in 1..n : tags'[t] = tags[t],
         tags'[n + 1].stage = s, tags'[n + 1].ordinal = o
  PROVE  /\ OrdinalsCount' /\ Dense'
         /\ \A stage \in Stages : Cardinality(CutBy(stage, n + 1)') \in
              {Cardinality(CutBy(stage, n)), Cardinality(CutBy(stage, n)) + 1}
<1>1. DOMAIN tags = 1..n
  BY Domains
<1>2. ASSUME NEW stage, NEW m \in 0..n
      PROVE  CutBy(stage, m)' = CutBy(stage, m)
  <2>1. \A t \in 1..m : tags'[t] = tags[t]
    BY <1>2
  <2>2. QED
    BY <2>1 DEF CutBy
<1>3. ASSUME NEW stage, stage # s
      PROVE  CutBy(stage, n + 1)' = CutBy(stage, n)
  <2>1. 1..(n + 1) = (1..n) \cup {n + 1}
    OBVIOUS
  <2>2. QED
    BY <1>3, <2>1 DEF CutBy
<1>4. CutBy(s, n + 1)' = CutBy(s, n) \cup {n + 1}
  <2>1. 1..(n + 1) = (1..n) \cup {n + 1}
    OBVIOUS
  <2>2. QED
    BY <2>1 DEF CutBy
<1>5. Cardinality(CutBy(s, n + 1)') = Cardinality(CutBy(s, n)) + 1
  <2>1. IsFiniteSet(CutBy(s, n))
    BY CutByFinite
  <2>2. n + 1 \notin CutBy(s, n)
    BY DEF CutBy
  <2>3. QED
    BY <1>4, <2>1, <2>2, FS_AddElement
<1>6. OrdinalsCount'
  <2>1. SUFFICES ASSUME NEW t \in 1..(n + 1), tags'[t].stage # Final
                 PROVE  tags'[t].ordinal = Cardinality(CutBy(tags[t].stage, t))'
    BY DEF OrdinalsCount
  <2>2. CASE t = n + 1
    <3>1. s \in Stages /\ tags'[t].stage = s /\ tags'[t].ordinal = o
      BY <2>1, <2>2
    <3>2. CutBy(tags[t].stage, t)' = CutBy(s, n + 1)'
      BY <2>2, <3>1 DEF CutBy
    <3>3. QED
      BY <1>5, <3>1, <3>2
  <2>3. CASE t \in 1..n
    <3>1. tags'[t] = tags[t] /\ t \in 0..n
      BY <2>3
    <3>2. tags[t].ordinal = Cardinality(CutBy(tags[t].stage, t))
      BY <1>1, <2>1, <2>3, <3>1 DEF OrdinalsCount
    <3>3. CutBy(tags[t].stage, t)' = CutBy(tags[t].stage, t)
      <4>1. \A u \in 1..t : tags'[u] = tags[u]
        BY <2>3
      <4>2. QED
        BY <3>1, <4>1 DEF CutBy
    <3>4. QED
      BY <3>1, <3>2, <3>3
  <2>4. QED
    BY <2>1, <2>2, <2>3
<1>7. Dense'
  <2>1. SUFFICES ASSUME NEW stage \in Stages
                 PROVE  {tags'[t].ordinal : t \in CutBy(stage, n + 1)'} =
                          1..Cardinality(CutBy(stage, n + 1)')
    BY DEF Dense, CutBy
  <2>2. {tags[t].ordinal : t \in CutBy(stage, n)} = 1..Cardinality(CutBy(stage, n))
    BY DEF Dense
  <2>3. {tags'[t].ordinal : t \in CutBy(stage, n)} = {tags[t].ordinal : t \in CutBy(stage, n)}
    <3>1. \A t \in CutBy(stage, n) : tags'[t] = tags[t]
      BY DEF CutBy
    <3>2. QED
      BY <3>1
  <2>4. CASE stage # s
    BY <1>3, <2>2, <2>3, <2>4
  <2>5. CASE stage = s
    <3> DEFINE c == Cardinality(CutBy(s, n))
    <3>1. c \in Nat
      BY CutByFinite
    <3> HIDE DEF c
    <3>2. {tags'[t].ordinal : t \in CutBy(s, n + 1)'} = (1..c) \cup {o}
      <4>1. {tags'[t].ordinal : t \in CutBy(s, n)} = 1..c
        BY <2>2, <2>3, <2>5 DEF c
      <4>2. {tags'[t].ordinal : t \in CutBy(s, n) \cup {n + 1}}
              = {tags'[t].ordinal : t \in CutBy(s, n)} \cup {tags'[n + 1].ordinal}
        OBVIOUS
      <4>3. tags'[n + 1].ordinal = o
        OBVIOUS
      <4>4. QED
        BY <1>4, <4>1, <4>2, <4>3
    <3>3. Cardinality(CutBy(s, n + 1)') = c + 1 /\ o = c + 1
      BY <1>5, <2>5 DEF c
    <3>4. (1..c) \cup {c + 1} = 1..(c + 1)
      BY <3>1
    <3>5. QED
      BY <2>5, <3>2, <3>3, <3>4
  <2>6. QED
    BY <2>4, <2>5
<1>8. QED
  BY <1>3, <1>5, <1>6, <1>7

LEMMA PushTagStep ==
  ASSUME OrdinalInv, NEW k \in Revisions, PushTag(k)
  PROVE  OrdinalInv'
<1>1. CASE Held(StageOf(k), runs[k].ordinal)
  <2>1. runs' = [runs EXCEPT ![k].phase = "failed"] /\ UNCHANGED <<revs, tags, built>>
    BY <1>1 DEF PushTag
  <2>2. QED
    BY <2>1, PhaseStep DEF Phases
<1>2. ASSUME ~Held(StageOf(k), runs[k].ordinal),
             NEW n \in Nat, n = Len(tags), NEW s, s = StageOf(k), NEW o, o = runs[k].ordinal
      PROVE  OrdinalInv'
  <2> DEFINE Tag == [stage : Stages \cup {Final}, ordinal : Nat, rev : Revisions]
             tag == [stage |-> s, ordinal |-> o, rev |-> k]
  <2>1. /\ TypeOK /\ DOMAIN tags = 1..n /\ UNCHANGED revs
        /\ runs[k].phase = "listed" /\ runs[k] \in RunType
    BY <1>2, Domains DEF OrdinalInv, PushTag, TypeOK
  <2>2. /\ tags' = Append(tags, tag) /\ built' = Append(built, "queued")
        /\ \E p \in {"done", "failed"} : runs' = [runs EXCEPT ![k].phase = p]
    BY <1>2 DEF PushTag
  <2>3. tag \in Tag /\ s \in Stages \cup {Final}
    BY <1>2, <2>1, StageTyped DEF RunType
  <2>4. /\ tags' \in Seq(Tag) /\ Len(tags') = n + 1 /\ DOMAIN tags' = 1..(n + 1)
        /\ \A t \in 1..n : tags'[t] = tags[t]
        /\ tags'[n + 1] = tag
    <3>1. tags \in [1..n -> Tag]
      BY <1>2, <2>1, LenProperties DEF TypeOK
    <3> HIDE DEF Tag, tag
    <3>2. QED
      BY <1>2, <2>2, <2>3, <3>1, Appended
  <2>5. built' \in [DOMAIN tags' -> {"queued", "built", "filed", "failed"}]
    <3> DEFINE B == {"queued", "built", "filed", "failed"}
    <3>1. built \in [1..n -> B] /\ "queued" \in B
      BY <2>1 DEF TypeOK
    <3> HIDE DEF B
    <3>2. Append(built, "queued") \in [1..(n + 1) -> B]
      BY <1>2, <3>1, Appended
    <3>3. QED
      BY <2>2, <2>4, <3>2 DEF B
  <2>6. PICK p \in {"done", "failed"} : runs' = [runs EXCEPT ![k].phase = p]
    BY <2>2
  <2>7. runs' \in [Revisions -> RunType]
        /\ \A j \in Revisions : runs'[j].phase = "listed" => runs'[j] = runs[j]
    BY <2>1, <2>6 DEF TypeOK, RunType, Phases
  <2>8. TypeOK'
    BY <2>1, <2>4, <2>5, <2>7 DEF TypeOK, Revisions, RunType
  <2>9. s \in Stages => o = Cardinality(CutBy(s, n)) + 1
    <3>1. s \in Stages => revs[k].of # Trunk
      BY <1>2, <2>1, StageTyped, CandidatesAssumption
    <3>2. QED
      BY <1>2, <2>1, <3>1, FreeIsNext
  <2>10. /\ OrdinalsCount' /\ Dense'
         /\ \A stage \in Stages : Cardinality(CutBy(stage, n + 1)') \in
              {Cardinality(CutBy(stage, n)), Cardinality(CutBy(stage, n)) + 1}
    BY <1>2, <2>1, <2>3, <2>4, <2>9, OneMore DEF OrdinalInv
  <2>11. ListedWithin'
    <3>1. SUFFICES ASSUME NEW j \in Revisions, runs'[j].phase = "listed", revs[j].of # Trunk
                   PROVE  runs'[j].ordinal \in 1..(Cardinality(CutBy(StageOf(j), Len(tags))') + 1)
      BY <2>1 DEF ListedWithin, Revisions
    <3>2. PICK stage \in Stages : stage = StageOf(j)
      BY <2>1, <3>1, StageTyped
    <3>3. CutBy(StageOf(j), Len(tags))' = CutBy(stage, n + 1)'
      BY <2>1, <2>4, <3>2 DEF StageOf, CutBy
    <3>4. runs'[j].ordinal \in 1..(Cardinality(CutBy(stage, n)) + 1)
      BY <1>2, <2>7, <3>1, <3>2 DEF OrdinalInv, ListedWithin
    <3>5. Cardinality(CutBy(stage, n)) \in Nat
      BY <1>2, <2>1, CutByFinite
    <3> DEFINE c == Cardinality(CutBy(stage, n))
               d == Cardinality(CutBy(stage, n + 1)')
    <3>6. c \in Nat /\ d \in {c, c + 1} /\ runs'[j].ordinal \in 1..(c + 1)
      BY <2>10, <3>4, <3>5
    <3>7. runs'[j].ordinal \in 1..(d + 1)
      <4> HIDE DEF c, d
      <4> QED BY <3>6
    <3>8. QED
      BY <3>3, <3>7
  <2>12. QED
    BY <2>8, <2>10, <2>11 DEF OrdinalInv
<1>3. QED
  BY <1>1, <1>2, Domains DEF OrdinalInv

-----------------------------------------------------------------------------
(* Theorems                                                                *)

\* release-candidate.yaml:85-95: although an ordinal is read before it is pushed, by runs
\* that interleave, fail and are run again, each stage's ordinals stay dense.
THEOREM OrdinalsStayDense == Spec => []OrdinalInv
<1>1. Init => OrdinalInv
  <2>1. SUFFICES ASSUME Init PROVE OrdinalInv
    OBVIOUS
  <2>2. Revisions = {} /\ DOMAIN tags = {} /\ Len(tags) = 0
    BY <2>1 DEF Init, Revisions
  <2>3. TypeOK
    BY <2>1, <2>2 DEF Init, TypeOK
  <2>4. OrdinalsCount /\ ListedWithin
    BY <2>2 DEF OrdinalsCount, ListedWithin
  <2>5. Dense
    <3>1. \A stage : CutBy(stage, Len(tags)) = {}
      BY <2>2 DEF CutBy
    <3>2. Cardinality({}) = 0
      BY FS_EmptySet
    <3>3. ASSUME NEW stage \in Stages
          PROVE  {tags[t].ordinal : t \in CutBy(stage, Len(tags))} = {}
      BY <3>1
    <3>4. 1..0 = {}
      OBVIOUS
    <3>5. QED
      BY <3>1, <3>2, <3>3, <3>4, Zenon DEF Dense
  <2>6. QED
    BY <2>3, <2>4, <2>5 DEF OrdinalInv
<1>2. OrdinalInv /\ [Next]_vars => OrdinalInv'
  <2>1. SUFFICES ASSUME OrdinalInv, [Next]_vars PROVE OrdinalInv'
    OBVIOUS
  <2>2. ASSUME NEW of \in PRs \cup {Trunk}, Push(of) PROVE OrdinalInv'
    BY <2>1, <2>2, PushStep
  <2>3. ASSUME NEW k \in Revisions, Works(k) PROVE OrdinalInv'
    <3>1. CASE Read(k)
      BY <2>1, <3>1, ReadStep
    <3>2. CASE Resume(k)
      BY <2>1, <3>2, PhaseStep DEF Resume, Phases
    <3>3. CASE List(k)
      BY <2>1, <3>3, ListStep
    <3>4. CASE PushTag(k)
      BY <2>1, <3>4, PushTagStep
    <3>5. QED
      BY <2>3, <3>1, <3>2, <3>3, <3>4 DEF Works
  <2>4. ASSUME NEW k \in Revisions, StepFails(k) PROVE OrdinalInv'
    BY <2>1, <2>4, PhaseStep DEF StepFails, Phases
  <2>5. ASSUME NEW k \in Revisions, Rerun(k) PROVE OrdinalInv'
    BY <2>1, <2>5, RerunStep
  <2>6. ASSUME NEW t \in DOMAIN tags, Publish(t) PROVE OrdinalInv'
    BY <2>1, <2>6, PublishStep
  <2>7. CASE UNCHANGED vars
    <3>1. UNCHANGED <<revs, tags, built>> /\ runs' = runs
      BY <2>7 DEF vars
    <3>2. QED
      BY <2>1, <3>1, RunsOnly DEF OrdinalInv, TypeOK
  <2>8. QED
    BY <2>1, <2>2, <2>3, <2>4, <2>5, <2>6, <2>7 DEF Next
<1>3. QED
  BY <1>1, <1>2, PTL DEF Spec

\* release-candidate.yaml:9: the candidates of a stage are numbered one by one, in the
\* order their tags are pushed.
THEOREM CandidatesAreCounted == Spec => []OrdinalsCount
<1>1. OrdinalInv => OrdinalsCount
  BY DEF OrdinalInv
<1>2. QED
  BY <1>1, OrdinalsStayDense, PTL

-----------------------------------------------------------------------------
(* The release                                                             *)

\* What a run works with is what it read: its revision's newest entry, which on the trunk
\* is never an open one; it lists a tag only for an entry of the version.
RunsAsRead ==
  \A k \in Revisions :
    /\ runs[k].version \in {"unread", revs[k].entry}
    /\ runs[k].phase \in InProgress => runs[k].version # "unread"
    /\ revs[k].of = Trunk => runs[k].version # "open"
    /\ runs[k].phase = "listed" => runs[k].version \notin {"none", "other"}
    /\ runs[k].phase = "listed" /\ revs[k].of = Trunk => runs[k].ordinal = 0

\* A tag is of the stage of its revision; the final one has no ordinal, and is cut from a
\* dated entry.
TagsAsCut ==
  \A t \in DOMAIN tags :
    /\ tags[t].stage = StageOf(tags[t].rev)
    /\ tags[t].stage = Final => tags[t].ordinal = 0 /\ revs[tags[t].rev].entry = "dated"

OneFinal == \A t, u \in DOMAIN tags : tags[t].stage = Final /\ tags[u].stage = Final => t = u

FiledIsFinal == \A t \in DOMAIN tags : built[t] = "filed" => tags[t].stage = Final

\* The invariant behind ReleasedFromTrunk and LateCandidatesAreNotBuilt.
ReleaseInv == RunsAsRead /\ TagsAsCut /\ OneFinal /\ FiledIsFinal /\ LateCandidatesAreNotBuilt

\* A step that changes what runs are at, and leaves the revisions and the tags.
LEMMA RunsOnlyRelease ==
  ASSUME ReleaseInv, UNCHANGED <<revs, tags, built>>, RunsAsRead'
  PROVE  ReleaseInv'
<1>1. TagsAsCut' /\ OneFinal' /\ FiledIsFinal' /\ LateCandidatesAreNotBuilt'
  BY Zenon DEF ReleaseInv, TagsAsCut, OneFinal, FiledIsFinal, LateCandidatesAreNotBuilt, StageOf
<1>2. QED
  BY <1>1 DEF ReleaseInv

\* One run goes on, with what it read.
LEMMA RunGoesOn ==
  ASSUME TypeOK, ReleaseInv, UNCHANGED <<revs, tags, built>>,
         NEW k \in Revisions, NEW new, runs' = [runs EXCEPT ![k] = new],
         new.version \in {"unread", revs[k].entry},
         new.phase \in InProgress => new.version # "unread",
         revs[k].of = Trunk => new.version # "open",
         new.phase = "listed" => new.version \notin {"none", "other"},
         new.phase = "listed" /\ revs[k].of = Trunk => new.ordinal = 0
  PROVE  ReleaseInv'
<1>1. runs'[k] = new /\ \A j \in Revisions \ {k} : runs'[j] = runs[j]
  BY DEF TypeOK
<1>2. Revisions' = Revisions
  BY DEF Revisions
<1>3. RunsAsRead'
  BY <1>1, <1>2 DEF ReleaseInv, RunsAsRead
<1>4. QED
  BY <1>3, RunsOnlyRelease

\* A revision is pushed: its run has read nothing.
LEMMA PushRelease ==
  ASSUME TypeOK, TypeOK', ReleaseInv, NEW of \in PRs \cup {Trunk}, Push(of)
  PROVE  ReleaseInv'
<1> DEFINE n == Len(revs)
           Rev == [of : PRs \cup {Trunk}, entry : Entries]
<1>1. Revisions = 1..n /\ n \in Nat /\ UNCHANGED <<tags, built>>
  BY Domains DEF Push
<1>2. PICK rev \in Rev : revs' = Append(revs, rev)
  <2>1. PICK entry \in Proposed : revs' = Append(revs, [of |-> of, entry |-> entry])
    BY DEF Push
  <2>2. [of |-> of, entry |-> entry] \in Rev
    BY CandidatesAssumption
  <2>3. QED
    BY <2>1, <2>2
<1>3. Len(revs') = n + 1 /\ DOMAIN revs' = 1..(n + 1) /\ \A j \in 1..n : revs'[j] = revs[j]
  <2>1. revs \in [1..n -> Rev]
    BY <1>1, LenProperties DEF TypeOK
  <2> HIDE DEF n, Rev
  <2>2. QED
    BY <1>1, <1>2, <2>1, Appended
<1>4. \A j \in 1..n : runs'[j] = Displaced(of)[j]
  <2>1. Displaced(of) \in [1..n -> RunType] /\ runs' = Append(Displaced(of), Fresh)
    BY <1>1, DisplacedTyped DEF Push
  <2> HIDE DEF n
  <2>2. QED
    BY <1>1, <2>1, FreshTyped, Appended
<1>5. runs'[n + 1] = Fresh
  <2>1. Displaced(of) \in [1..n -> RunType] /\ runs' = Append(Displaced(of), Fresh)
    BY <1>1, DisplacedTyped DEF Push
  <2> HIDE DEF n
  <2>2. QED
    BY <1>1, <2>1, FreshTyped, Appended
<1>6. Revisions' = 1..(n + 1)
  BY <1>3 DEF Revisions
<1>7. RunsAsRead'
  <2>1. SUFFICES ASSUME NEW j \in 1..(n + 1)
        PROVE  /\ runs'[j].version \in {"unread", revs'[j].entry}
               /\ runs'[j].phase \in InProgress => runs'[j].version # "unread"
               /\ revs'[j].of = Trunk => runs'[j].version # "open"
               /\ runs'[j].phase = "listed" => runs'[j].version \notin {"none", "other"}
               /\ runs'[j].phase = "listed" /\ revs'[j].of = Trunk => runs'[j].ordinal = 0
    BY <1>6 DEF RunsAsRead
  <2>2. CASE j = n + 1
    BY <1>5, <2>2 DEF Fresh, InProgress
  <2>3. CASE j \in 1..n
    <3>1. revs'[j] = revs[j] /\ j \in Revisions
      BY <1>1, <1>3, <2>3
    <3>2. runs'[j] = Displaced(of)[j]
      BY <1>4, <2>3
    <3>3. runs'[j] = runs[j] \/ runs'[j] = [runs[j] EXCEPT !.phase = "dropped"]
      BY <3>1, <3>2 DEF Displaced
    <3>4. CASE runs'[j] = runs[j]
      BY <3>1, <3>4 DEF ReleaseInv, RunsAsRead
    <3>5. CASE runs'[j] = [runs[j] EXCEPT !.phase = "dropped"]
      <4>1. runs'[j].phase = "dropped" /\ runs'[j].version = runs[j].version
        BY <3>1, <3>5 DEF TypeOK, RunType
      <4>2. QED
        BY <3>1, <4>1 DEF ReleaseInv, RunsAsRead, InProgress
    <3>6. QED
      BY <3>3, <3>4, <3>5
  <2>4. QED
    BY <1>1, <2>1, <2>2, <2>3
<1>8. \A t \in DOMAIN tags : revs'[tags[t].rev] = revs[tags[t].rev]
  BY <1>1, <1>3, Domains
<1>9. TagsAsCut' /\ LateCandidatesAreNotBuilt'
  BY <1>1, <1>8 DEF ReleaseInv, TagsAsCut, LateCandidatesAreNotBuilt, StageOf
<1>10. OneFinal' /\ FiledIsFinal'
  BY <1>1 DEF ReleaseInv, OneFinal, FiledIsFinal
<1>11. QED
  BY <1>7, <1>9, <1>10 DEF ReleaseInv

\* The changelog job: an open entry of the trunk ends the run.
LEMMA ReadRelease ==
  ASSUME TypeOK, ReleaseInv, NEW k \in Revisions, Read(k)
  PROVE  ReleaseInv'
<1>1. UNCHANGED <<revs, tags, built>> /\ runs[k] \in RunType /\ revs[k].entry \in Entries
      /\ runs[k].version = "unread"
  BY Domains DEF Read, TypeOK
<1>2. CASE Red(k, revs[k].of = Trunk)
  <2> DEFINE new == [runs[k] EXCEPT !.phase = "failed"]
  <2>1. runs' = [runs EXCEPT ![k] = new]
    BY <1>2 DEF Read
  <2>2. new.phase = "failed" /\ new.version = "unread"
    BY <1>1 DEF RunType
  <2> HIDE DEF new
  <2>3. QED
    BY <1>1, <2>1, <2>2, RunGoesOn DEF InProgress
<1>3. CASE ~Red(k, revs[k].of = Trunk)
  <2> DEFINE new == [phase |-> "suite", version |-> revs[k].entry, tagged |-> FinalTagged, ordinal |-> 0]
  <2>1. runs' = [runs EXCEPT ![k] = new]
    BY <1>3 DEF Read
  <2>2. new.phase = "suite" /\ new.version = revs[k].entry
    OBVIOUS
  <2>3. revs[k].of = Trunk => revs[k].entry # "open"
    BY <1>3 DEF Red
  <2>4. revs[k].entry # "unread"
    BY <1>1 DEF Entries
  <2> HIDE DEF new
  <2>5. QED
    BY <1>1, <2>1, <2>2, <2>3, <2>4, RunGoesOn DEF InProgress
<1>4. QED
  BY <1>2, <1>3

\* The run goes to a phase in which it lists no tag.
LEMMA PhaseRelease ==
  ASSUME TypeOK, ReleaseInv, NEW k \in Revisions, NEW p, p # "listed",
         p = "suite" => runs[k].version # "unread",
         runs' = [runs EXCEPT ![k].phase = p], UNCHANGED <<revs, tags, built>>
  PROVE  ReleaseInv'
<1> DEFINE new == [runs[k] EXCEPT !.phase = p]
<1>1. runs' = [runs EXCEPT ![k] = new] /\ runs[k] \in RunType
  BY DEF TypeOK
<1>2. new.phase = p /\ new.version = runs[k].version
  BY <1>1 DEF RunType
<1>3. /\ runs[k].version \in {"unread", revs[k].entry}
      /\ revs[k].of = Trunk => runs[k].version # "open"
  BY DEF ReleaseInv, RunsAsRead
<1> HIDE DEF new
<1>4. QED
  BY <1>1, <1>2, <1>3, RunGoesOn DEF InProgress

\* The tag job lists a tag only where the entry is of the version, and none for the trunk.
LEMMA ListRelease ==
  ASSUME TypeOK, ReleaseInv, NEW k \in Revisions, List(k)
  PROVE  ReleaseInv'
<1> DEFINE o == IF revs[k].of = Trunk THEN 0 ELSE NextOrdinal(StageOf(k))
<1>1. /\ UNCHANGED <<revs, tags, built>> /\ runs[k] \in RunType /\ runs[k].phase = "suite"
      /\ runs \in [Revisions -> RunType]
  BY DEF List, TypeOK
<1>2. PICK p \in {"skipped", "failed", "listed"} :
        /\ runs' = [runs EXCEPT ![k].phase = p, ![k].ordinal = o]
        /\ p = "listed" => runs[k].version \notin {"none", "other"}
  <2> DEFINE q == CASE runs[k].version = "none" -> "skipped"
                    [] runs[k].version = "other" -> IF revs[k].of = Trunk THEN "skipped" ELSE "failed"
                    [] OTHER -> IF runs[k].tagged THEN "skipped" ELSE "listed"
  <2>1. runs' = [runs EXCEPT ![k].phase = q, ![k].ordinal = o]
    BY DEF List
  <2>2. q \in {"skipped", "failed", "listed"} /\ (q = "listed" => runs[k].version \notin {"none", "other"})
    OBVIOUS
  <2> HIDE DEF q, o
  <2>3. QED
    BY <2>1, <2>2
<1> DEFINE new == [runs[k] EXCEPT !.phase = p, !.ordinal = o]
<1>3. runs' = [runs EXCEPT ![k] = new]
  <2> HIDE DEF o
  <2> QED BY <1>1, <1>2
<1>4. new.phase = p /\ new.version = runs[k].version /\ new.ordinal = o
  <2> HIDE DEF o
  <2> QED BY <1>1 DEF RunType
<1>5. /\ runs[k].version \in {"unread", revs[k].entry} /\ runs[k].version # "unread"
      /\ revs[k].of = Trunk => runs[k].version # "open"
  BY <1>1 DEF ReleaseInv, RunsAsRead, InProgress
<1>6. revs[k].of = Trunk => o = 0
  OBVIOUS
<1> HIDE DEF new, o
<1>7. QED
  BY <1>1, <1>2, <1>3, <1>4, <1>5, <1>6, RunGoesOn

\* A run that failed takes its place again, with what it read or unread.
LEMMA RerunRelease ==
  ASSUME TypeOK, ReleaseInv, NEW k \in Revisions, Rerun(k)
  PROVE  ReleaseInv'
<1> DEFINE shelved == Displaced(revs[k].of)
<1>1. UNCHANGED <<revs, tags, built>> /\ Revisions' = Revisions
  BY DEF Rerun, Revisions
<1>2. PICK again \in {Fresh, [runs[k] EXCEPT !.phase = "pending"]} :
        runs' = [shelved EXCEPT ![k] = again]
  BY DEF Rerun
<1>3. again.phase = "pending" /\ again.version \in {"unread", runs[k].version}
  <2>1. runs[k] \in RunType
    BY DEF TypeOK
  <2>2. QED
    BY <1>2, <2>1 DEF Fresh, RunType
<1>4. \A j \in Revisions : shelved[j].version = runs[j].version
                          /\ (shelved[j] = runs[j] \/ shelved[j].phase = "dropped")
  <2>1. \A j \in Revisions : runs[j] \in RunType
    BY DEF TypeOK
  <2>2. \A j \in Revisions : [runs[j] EXCEPT !.phase = "dropped"].version = runs[j].version
                             /\ [runs[j] EXCEPT !.phase = "dropped"].phase = "dropped"
    BY <2>1 DEF RunType
  <2>3. QED
    BY <2>2 DEF Displaced
<1>5. shelved \in [Revisions -> RunType]
  BY DisplacedTyped
<1>6. runs'[k] = again /\ \A j \in Revisions \ {k} : runs'[j] = shelved[j]
  <2> HIDE DEF shelved
  <2> QED BY <1>2, <1>5
<1>7. RunsAsRead'
  <2>1. SUFFICES ASSUME NEW j \in Revisions
        PROVE  /\ runs'[j].version \in {"unread", revs[j].entry}
               /\ runs'[j].phase \in InProgress => runs'[j].version # "unread"
               /\ revs[j].of = Trunk => runs'[j].version # "open"
               /\ runs'[j].phase = "listed" => runs'[j].version \notin {"none", "other"}
               /\ runs'[j].phase = "listed" /\ revs[j].of = Trunk => runs'[j].ordinal = 0
    BY <1>1 DEF RunsAsRead
  <2> HIDE DEF shelved
  <2>2. CASE j = k
    BY <1>3, <1>6, <2>2 DEF ReleaseInv, RunsAsRead, InProgress
  <2>3. CASE j # k
    BY <1>4, <1>6, <2>3 DEF ReleaseInv, RunsAsRead, InProgress
  <2>4. QED
    BY <2>2, <2>3
<1>8. QED
  BY <1>1, <1>7, RunsOnlyRelease

\* A tag is pushed: the remote holds no final tag when it takes one.
LEMMA PushTagRelease ==
  ASSUME TypeOK, ReleaseInv, NEW k \in Revisions, PushTag(k)
  PROVE  ReleaseInv'
<1>1. CASE Held(StageOf(k), runs[k].ordinal)
  <2>1. runs' = [runs EXCEPT ![k].phase = "failed"] /\ UNCHANGED <<revs, tags, built>>
    BY <1>1 DEF PushTag
  <2>2. QED
    BY <2>1, PhaseRelease
<1>2. ASSUME ~Held(StageOf(k), runs[k].ordinal),
             NEW n \in Nat, n = Len(tags), NEW s, s = StageOf(k), NEW o, o = runs[k].ordinal
      PROVE  ReleaseInv'
  <2> DEFINE Tag == [stage : Stages \cup {Final}, ordinal : Nat, rev : Revisions]
             tag == [stage |-> s, ordinal |-> o, rev |-> k]
             B == {"queued", "built", "filed", "failed"}
  <2>1. /\ DOMAIN tags = 1..n /\ UNCHANGED revs /\ Revisions' = Revisions
        /\ runs[k].phase = "listed" /\ runs[k] \in RunType
    BY <1>2, Domains DEF PushTag, TypeOK, Revisions
  <2>2. /\ tags' = Append(tags, tag) /\ built' = Append(built, "queued")
        /\ \E p \in {"done", "failed"} : runs' = [runs EXCEPT ![k].phase = p]
    BY <1>2 DEF PushTag
  <2>3. tag \in Tag
    BY <1>2, <2>1, StageTyped DEF RunType
  <2>4. /\ DOMAIN tags' = 1..(n + 1)
        /\ \A t \in 1..n : tags'[t] = tags[t]
        /\ tags'[n + 1].stage = s /\ tags'[n + 1].ordinal = o /\ tags'[n + 1].rev = k
    <3>1. tags \in [1..n -> Tag]
      BY <1>2, <2>1, LenProperties DEF TypeOK
    <3>2. /\ Append(tags, tag) \in [1..(n + 1) -> Tag]
          /\ \A t \in 1..n : Append(tags, tag)[t] = tags[t]
          /\ Append(tags, tag)[n + 1] = tag
      <4>1. tag \in Tag
        BY <2>3
      <4> HIDE DEF Tag, tag
      <4>2. Append(tags, tag) \in [1..(n + 1) -> Tag]
        BY <3>1, <4>1, Appended
      <4>3. \A t \in 1..n : Append(tags, tag)[t] = tags[t]
        BY <3>1, <4>1, Appended
      <4>4. Append(tags, tag)[n + 1] = tag
        BY <3>1, <4>1, Appended
      <4>5. QED
        BY <4>2, <4>3, <4>4
    <3>3. tags' = Append(tags, tag)
      BY <2>2
    <3>4. tag.stage = s /\ tag.ordinal = o /\ tag.rev = k
      OBVIOUS
    <3> HIDE DEF Tag, tag
    <3>5. QED
      BY <3>2, <3>3, <3>4
  <2>5. (\A t \in 1..n : built'[t] = built[t]) /\ built'[n + 1] = "queued"
    <3>1. built \in [1..n -> B] /\ "queued" \in B
      BY <2>1 DEF TypeOK
    <3> HIDE DEF B
    <3>2. QED
      BY <1>2, <2>2, <3>1, Appended
  <2>6. PICK p \in {"done", "failed"} : runs' = [runs EXCEPT ![k].phase = p]
    BY <2>2
  <2>7. RunsAsRead'
    <3>1. runs'[k].phase = p /\ runs'[k].version = runs[k].version
          /\ \A j \in Revisions \ {k} : runs'[j] = runs[j]
      BY <2>1, <2>6 DEF TypeOK, RunType
    <3>2. QED
      BY <2>1, <3>1 DEF ReleaseInv, RunsAsRead, InProgress
  <2>8. s = Final <=> revs[k].of = Trunk
    BY <1>2, StageTyped, CandidatesAssumption
  <2>9. s = Final => o = 0 /\ revs[k].entry = "dated"
    <3>1. revs[k].entry \in Entries /\ runs[k].version = revs[k].entry
          /\ runs[k].version \notin {"none", "other"}
          /\ (revs[k].of = Trunk => runs[k].version # "open" /\ runs[k].ordinal = 0)
      BY <2>1, Domains DEF ReleaseInv, RunsAsRead, InProgress
    <3>2. QED
      BY <1>2, <2>8, <3>1 DEF Entries
  <2>10. TagsAsCut'
    <3>1. SUFFICES ASSUME NEW t \in 1..(n + 1)
          PROVE  /\ tags'[t].stage = StageOf(tags'[t].rev)
                 /\ tags'[t].stage = Final => tags'[t].ordinal = 0 /\ revs[tags'[t].rev].entry = "dated"
      BY <2>1, <2>4 DEF TagsAsCut, StageOf
    <3>2. CASE t = n + 1
      BY <1>2, <2>4, <2>9, <3>2
    <3>3. CASE t \in 1..n
      BY <2>1, <2>4, <3>3 DEF ReleaseInv, TagsAsCut
    <3>4. QED
      BY <3>1, <3>2, <3>3
  <2>11. s = Final => \A t \in 1..n : tags[t].stage # Final
    BY <1>2, <2>1, <2>9 DEF Held, ReleaseInv, TagsAsCut
  <2>12. OneFinal'
    <3>1. SUFFICES ASSUME NEW t \in 1..(n + 1), NEW u \in 1..(n + 1),
                          tags'[t].stage = Final, tags'[u].stage = Final
                   PROVE  t = u
      BY <2>4 DEF OneFinal
    <3>2. CASE t = n + 1 \/ u = n + 1
      BY <2>4, <2>11, <3>1, <3>2
    <3>3. CASE t \in 1..n /\ u \in 1..n
      BY <2>1, <2>4, <3>1, <3>3 DEF ReleaseInv, OneFinal
    <3>4. QED
      BY <3>1, <3>2, <3>3
  <2>13. FiledIsFinal'
    <3>1. SUFFICES ASSUME NEW t \in 1..(n + 1), built'[t] = "filed" PROVE tags'[t].stage = Final
      BY <2>4 DEF FiledIsFinal
    <3>2. t \in 1..n
      BY <2>5, <3>1
    <3>3. QED
      BY <2>1, <2>4, <2>5, <3>1, <3>2 DEF ReleaseInv, FiledIsFinal
  <2>14. LateCandidatesAreNotBuilt'
    <3>1. SUFFICES ASSUME NEW t \in 1..(n + 1), NEW u \in 1..(n + 1), t < u,
                          tags'[t].stage = Final, revs[tags'[u].rev].entry = "open"
                   PROVE  built'[u] \notin {"built", "filed"}
      BY <2>1, <2>4 DEF LateCandidatesAreNotBuilt
    <3>2. CASE u = n + 1
      BY <2>5, <3>2
    <3>3. CASE u \in 1..n
      <4>1. t \in 1..n
        BY <3>1, <3>3
      <4>2. QED
        BY <2>1, <2>4, <2>5, <3>1, <3>3, <4>1 DEF ReleaseInv, LateCandidatesAreNotBuilt
    <3>4. QED
      BY <3>1, <3>2, <3>3
  <2>15. QED
    BY <2>7, <2>10, <2>12, <2>13, <2>14 DEF ReleaseInv
<1>3. QED
  BY <1>1, <1>2, Domains

\* Publishing files the final tag alone, and refuses an open entry once that tag is there.
LEMMA PublishRelease ==
  ASSUME TypeOK, ReleaseInv, NEW t \in DOMAIN tags, Publish(t)
  PROVE  ReleaseInv'
<1>1. UNCHANGED <<revs, runs, tags>> /\ Revisions' = Revisions
  BY DEF Publish, Revisions
<1>2. \A u \in DOMAIN tags : u # t => built'[u] = built[u]
  BY DEF Publish, TypeOK
<1>3. built'[t] = "filed" => tags[t].stage = Final
  BY DEF Publish, TypeOK
<1>4. Red(tags[t].rev, FALSE) => built'[t] = "failed"
  BY DEF Publish, TypeOK
<1>5. RunsAsRead' /\ TagsAsCut' /\ OneFinal'
  BY <1>1, Zenon DEF ReleaseInv, RunsAsRead, TagsAsCut, OneFinal, StageOf
<1>6. FiledIsFinal'
  BY <1>1, <1>2, <1>3 DEF ReleaseInv, FiledIsFinal
<1>7. LateCandidatesAreNotBuilt'
  <2>1. SUFFICES ASSUME NEW v \in DOMAIN tags, NEW u \in DOMAIN tags, v < u, tags[v].stage = Final,
                        revs[tags[u].rev].entry = "open"
                 PROVE  built'[u] \notin {"built", "filed"}
    BY <1>1 DEF LateCandidatesAreNotBuilt
  <2>2. CASE u = t
    <3>1. FinalTagged
      BY <2>1 DEF FinalTagged
    <3>2. Red(tags[t].rev, FALSE)
      BY <2>1, <2>2, <3>1 DEF Red
    <3>3. QED
      BY <1>4, <2>2, <3>2
  <2>3. CASE u # t
    BY <1>2, <2>1, <2>3 DEF ReleaseInv, LateCandidatesAreNotBuilt
  <2>4. QED
    BY <2>2, <2>3
<1>8. QED
  BY <1>5, <1>6, <1>7 DEF ReleaseInv

\* Every interleaving of runs, re-runs and publish runs keeps the release to the trunk.
LEMMA ReleaseIsInvariant == Spec => []ReleaseInv
<1>1. Init => ReleaseInv
  <2>1. SUFFICES ASSUME Init PROVE ReleaseInv
    OBVIOUS
  <2>2. Revisions = {} /\ DOMAIN tags = {}
    BY <2>1 DEF Init, Revisions
  <2>3. QED
    BY <2>2 DEF ReleaseInv, RunsAsRead, TagsAsCut, OneFinal, FiledIsFinal, LateCandidatesAreNotBuilt
<1>2. OrdinalInv /\ OrdinalInv' /\ ReleaseInv /\ [Next]_vars => ReleaseInv'
  <2>1. SUFFICES ASSUME TypeOK, TypeOK', ReleaseInv, [Next]_vars PROVE ReleaseInv'
    BY DEF OrdinalInv
  <2>2. ASSUME NEW of \in PRs \cup {Trunk}, Push(of) PROVE ReleaseInv'
    BY <2>1, <2>2, PushRelease
  <2>3. ASSUME NEW k \in Revisions, Works(k) PROVE ReleaseInv'
    <3>1. CASE Read(k)
      BY <2>1, <3>1, ReadRelease
    <3>2. CASE Resume(k)
      BY <2>1, <3>2, PhaseRelease DEF Resume
    <3>3. CASE List(k)
      BY <2>1, <3>3, ListRelease
    <3>4. CASE PushTag(k)
      BY <2>1, <3>4, PushTagRelease
    <3>5. QED
      BY <2>3, <3>1, <3>2, <3>3, <3>4 DEF Works
  <2>4. ASSUME NEW k \in Revisions, StepFails(k) PROVE ReleaseInv'
    BY <2>1, <2>4, PhaseRelease DEF StepFails
  <2>5. ASSUME NEW k \in Revisions, Rerun(k) PROVE ReleaseInv'
    BY <2>1, <2>5, RerunRelease
  <2>6. ASSUME NEW t \in DOMAIN tags, Publish(t) PROVE ReleaseInv'
    BY <2>1, <2>6, PublishRelease
  <2>7. CASE UNCHANGED vars
    <3>1. UNCHANGED <<revs, tags, built>> /\ runs' = runs /\ Revisions' = Revisions
      BY <2>7 DEF vars, Revisions
    <3>2. RunsAsRead'
      BY <2>1, <3>1 DEF ReleaseInv, RunsAsRead
    <3>3. QED
      BY <2>1, <3>1, <3>2, RunsOnlyRelease
  <2>8. QED
    BY <2>1, <2>2, <2>3, <2>4, <2>5, <2>6, <2>7 DEF Next
<1>3. QED
  BY <1>1, <1>2, OrdinalsStayDense, PTL DEF Spec

\* release.yaml, publish.yaml: the version is released from the trunk, once, from its
\* dated entry.
THEOREM ReleasedOnceFromTrunk == Spec => []ReleasedFromTrunk
<1>1. OrdinalInv /\ ReleaseInv => ReleasedFromTrunk
  <2>1. SUFFICES ASSUME TypeOK, ReleaseInv, NEW t \in DOMAIN tags, built[t] = "filed"
                 PROVE  /\ revs[tags[t].rev].of = Trunk /\ revs[tags[t].rev].entry = "dated"
                        /\ \A u \in DOMAIN tags : built[u] = "filed" => u = t
    BY DEF OrdinalInv, ReleasedFromTrunk
  <2>2. tags[t].stage = Final /\ tags[t].rev \in Revisions
    BY <2>1, Domains DEF ReleaseInv, FiledIsFinal
  <2>3. StageOf(tags[t].rev) = Final /\ revs[tags[t].rev].entry = "dated"
    BY <2>1, <2>2 DEF ReleaseInv, TagsAsCut
  <2>4. revs[tags[t].rev].of = Trunk
    BY <2>1, <2>2, <2>3, StageTyped, CandidatesAssumption
  <2>5. \A u \in DOMAIN tags : built[u] = "filed" => u = t
    BY <2>1, <2>2 DEF ReleaseInv, FiledIsFinal, OneFinal
  <2>6. QED
    BY <2>3, <2>4, <2>5
<1>2. QED
  BY <1>1, OrdinalsStayDense, ReleaseIsInvariant, PTL

\* publish.yaml:35-36: a candidate that comes after its release is not built.
THEOREM LateCandidatesAreRefused == Spec => []LateCandidatesAreNotBuilt
<1>1. ReleaseInv => LateCandidatesAreNotBuilt
  BY DEF ReleaseInv
<1>2. QED
  BY <1>1, ReleaseIsInvariant, PTL
=============================================================================
