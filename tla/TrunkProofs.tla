----------------------------- MODULE TrunkProofs -----------------------------
(***************************************************************************)
(* What every interleaving of release runs keeps, for every set of         *)
(* documents, every history and every number of runs and re-runs: proofs   *)
(* about module Trunk.                                                     *)
(***************************************************************************)
EXTENDS Trunk, ChangelogProofs, SequenceTheorems, FiniteSetTheorems, TLAPS

-----------------------------------------------------------------------------
\* What a sequence holds at each of its positions.
LEMMA ElementsOf ==
  ASSUME NEW S, NEW s \in Seq(S), NEW i \in DOMAIN s
  PROVE  s[i] \in S
OBVIOUS

\* A list of n elements is a sequence of that length.
LEMMA ListOfLength ==
  ASSUME NEW S, NEW n \in Nat, NEW s \in [1..n -> S]
  PROVE  s \in Seq(S) /\ Len(s) = n
OBVIOUS

\* A sequence one element longer holds what it held, and that element last.
LEMMA AppendedElements ==
  ASSUME NEW S, NEW s \in Seq(S), NEW e \in S
  PROVE  /\ Append(s, e) \in [1..(Len(s) + 1) -> S]
         /\ \A i \in 1..Len(s) : Append(s, e)[i] = s[i]
         /\ Append(s, e)[Len(s) + 1] = e
<1>1. Append(s, e) \in Seq(S) /\ Len(Append(s, e)) = Len(s) + 1
  BY AppendProperties
<1>2. Append(s, e) \in [1..(Len(s) + 1) -> S]
  BY <1>1, LenProperties
<1> QED BY <1>2, AppendProperties

\* The newest entry of a document, where it has one, names a version.
LEMMA LatestIsReleased ==
  ASSUME NEW doc \in Docs, Latest(doc) # 0
  PROVE  Latest(doc) \in Released(doc)
<1> DEFINE named == {i \in DOMAIN doc : doc[i].kind # "unreleased"}
<1>1. /\ named # {} /\ named \subseteq Nat
      /\ doc[Least(named)].kind # "unreadable" /\ Latest(doc) = Least(named)
  BY TrunkAssumption DEF Latest
<1>2. Least(named) \in named
  <2> HIDE DEF named
  <2> QED BY <1>1, LeastNatural DEF Least
<1> QED BY <1>1, <1>2, TrunkAssumption DEF Released, Kinds

\* A moving tag reads as the first version of its line.
LEMMA MajorTagReads ==
  ASSUME NEW v
  PROVE  /\ Expanded(MajorTag(v)) = [prefix |-> TRUE, core |-> <<v.major, 0, 0>>,
                                     pre |-> <<>>, build |-> <<>>]
         /\ ParseTag(MajorTag(v)) = [major |-> v.major, minor |-> 0, patch |-> 0,
                                     pre |-> <<>>, build |-> <<>>]
<1>1. ExpandCore(<<v.major>>) = <<v.major, 0, 0>>
  <2>1. Len(<<v.major>>) = 1 /\ Len(<<v.major>>) # 2 /\ <<v.major>>[1] = v.major
    OBVIOUS
  <2> QED BY <2>1, Zenon DEF ExpandCore
<1>2. Expanded(MajorTag(v)) = [prefix |-> TRUE, core |-> <<v.major, 0, 0>>,
                               pre |-> <<>>, build |-> <<>>]
  <2>1. Expanded(MajorTag(v)) = [MajorTag(v) EXCEPT !.core = <<v.major, 0, 0>>]
    BY <1>1, Zenon DEF Expanded, MajorTag
  <2> QED BY <2>1 DEF MajorTag
<1> QED BY <1>2 DEF ParseTag

\* The tags cut for a version, and moved for its line, name versions; the moving
\* tag is spelled with one component where a release is spelled with three.
LEMMA TagSpellings ==
  ASSUME NEW v \in Versions, NamesVersion(TagOf(v))
  PROVE  /\ TagOf(v) \in TagForms /\ MajorTag(v) \in TagForms
         /\ Len(TagOf(v).core) = 3 /\ Len(MajorTag(v).core) = 1
         /\ NamesVersion(MajorTag(v))
         /\ ParseTag(TagOf(v)) = v
<1>1. /\ v.major \in 0..MaxComponent /\ v.minor \in 0..MaxComponent
      /\ v.patch \in 0..MaxComponent /\ MaxComponent \in Nat
      /\ v.pre \in Seq(Identifiers) /\ v.build \in Seq(Identifiers)
      /\ v = [major |-> v.major, minor |-> v.minor, patch |-> v.patch,
              pre |-> v.pre, build |-> v.build]
  BY MaxComponentAssumption DEF Versions
<1>2. Len(TagOf(v).core) = 3 /\ Len(MajorTag(v).core) = 1
  BY DEF TagOf, MajorTag
<1>3. TagOf(v) \in TagForms /\ MajorTag(v) \in TagForms
  BY <1>1 DEF TagForms, TagOf, MajorTag
<1>4. ParseTag(TagOf(v)) = v
  BY <1>1 DEF ParseTag, Expanded, ExpandCore, TagOf
<1>5. NamesVersion(MajorTag(v))
  <2>1. Expanded(MajorTag(v)) = [prefix |-> TRUE, core |-> <<v.major, 0, 0>>,
                                 pre |-> <<>>, build |-> <<>>]
    BY MajorTagReads
  <2> QED BY <1>1, <2>1 DEF NamesVersion, Readable
<1> QED BY <1>2, <1>3, <1>4, <1>5

\* What may be released is a version a tag can spell.
LEMMA ReleasableNames ==
  ASSUME TypeOK, NEW c \in Commits, Releasable(c)
  PROVE  /\ Newest(c) \in Versions /\ NamesVersion(TagOf(Newest(c)))
         /\ Newest(c).pre = <<>> /\ Newest(c).build = <<>>
<1>1. main[c].doc \in Docs /\ Latest(main[c].doc) # 0
  <2>1. main \in Seq([doc : Docs, day : 1..MaxDay]) /\ c \in DOMAIN main
    BY DEF TypeOK, Commits
  <2>2. main[c] \in [doc : Docs, day : 1..MaxDay]
    BY <2>1, ElementsOf
  <2> QED BY <2>2 DEF Releasable
<1>2. Latest(main[c].doc) \in Released(main[c].doc)
  BY <1>1, LatestIsReleased
<1> QED BY <1>1, <1>2, TrunkAssumption DEF Newest, Releasable, Prerelease

\* A valid reading leaves no version with build metadata in the document.
LEMMA ValidSpells ==
  ASSUME NEW doc \in Docs, NEW c, NEW saw, Valid(Reading(doc, c, saw)), Latest(doc) # 0
  PROVE  doc[Latest(doc)].ver.build = <<>>
<1> DEFINE k == "oci-incompatible-version"
           i == Latest(doc)
<1>1. i \in Released(doc)
  BY LatestIsReleased
<1> SUFFICES ASSUME doc[i].ver.build # <<>> PROVE FALSE
  OBVIOUS
<1>2. i \in OCIIncompatible(doc)
  BY <1>1 DEF OCIIncompatible
<1>3. i \in Fires(k, doc, State(c, saw), today)
  BY <1>2 DEF Fires
<1>4. k \in Checks /\ Severities[k] = "error"
  BY SeveritiesAssumption DEF Checks
<1>5. <<k, Severities[k], i>> \in Reading(doc, c, saw)
  <2> HIDE DEF k, i
  <2> QED BY <1>3, <1>4 DEF Reading, Lint
<1> QED BY <1>4, <1>5 DEF Valid

-----------------------------------------------------------------------------
(* One step of a run                                                       *)

Carried == [name : TagForms, commit : Commits]
Runs == [phase : Phases, saw : SUBSET Carried]
Decided == {"due", "cut", "published", "smoked"}

\* A run that moves to another phase leaves the other runs alone.
LEMMA PhaseMoves ==
  ASSUME TypeOK, NEW c \in Commits, NEW p \in Phases, Phase(c, p)
  PROVE  /\ runs' \in [Commits -> Runs]
         /\ \A d \in Commits \ {c} : runs'[d] = runs[d]
         /\ runs'[c].phase = p
<1>1. runs \in [Commits -> Runs]
  BY DEF TypeOK, Runs, Carried
<1>2. runs' = [runs EXCEPT ![c] = [runs[c] EXCEPT !.phase = p]]
  BY <1>1 DEF Phase
<1>3. runs[c] \in Runs
  BY <1>1
<1>4. [runs[c] EXCEPT !.phase = p] \in Runs /\ [runs[c] EXCEPT !.phase = p].phase = p
  BY <1>3 DEF Runs
<1> QED BY <1>1, <1>2, <1>4

\* A run moves on alone, to a decision only where its commit may be released, and
\* the release tags it leaves are those there were and perhaps its own, which no
\* other commit held: then the invariant is kept.
LEMMA RunKeepsReleaseInv ==
  ASSUME ReleaseInv, NEW c \in Commits, UNCHANGED <<main, today>>,
         runs' \in [Commits -> Runs],
         \A d \in Commits \ {c} : runs'[d] = runs[d],
         runs'[c].phase \in Decided => Releasable(c),
         tags' \subseteq Carried, \A t \in tags' : NamesVersion(t.name),
         \A t \in ReleaseTags' :
           \/ t \in ReleaseTags
           \/ /\ t = [name |-> TagOf(Newest(c)), commit |-> c]
              /\ Releasable(c) /\ ~Held(TagOf(Newest(c)), c)
  PROVE  ReleaseInv'
<1>1. /\ Commits' = Commits
      /\ \A d : Releasable(d)' = Releasable(d) /\ Newest(d)' = Newest(d)
  BY DEF Commits, Releasable, Newest
<1>2. TypeOK'
  BY <1>1 DEF ReleaseInv, TypeOK, Runs, Carried
<1>3. \A d \in Commits' : runs'[d].phase \in Decided => Releasable(d)'
  BY <1>1 DEF ReleaseInv, Decided
<1>4. \A t \in ReleaseTags' : Releasable(t.commit)' /\ t.name = TagOf(Newest(t.commit)')
  <2> SUFFICES ASSUME NEW t \in ReleaseTags'
               PROVE  Releasable(t.commit) /\ t.name = TagOf(Newest(t.commit))
    BY <1>1
  <2>1. CASE t \in ReleaseTags
    BY <2>1 DEF ReleaseInv
  <2>2. CASE t \notin ReleaseTags
    <3>1. t.name = TagOf(Newest(c)) /\ t.commit = c /\ Releasable(c)
      BY <2>2
    <3> QED BY <3>1
  <2> QED BY <2>1, <2>2
<1>5. \A t, u \in ReleaseTags' : t.name = u.name => t = u
  <2> SUFFICES ASSUME NEW t \in ReleaseTags', NEW u \in ReleaseTags', t.name = u.name
               PROVE  t = u
    OBVIOUS
  <2> DEFINE own == [name |-> TagOf(Newest(c)), commit |-> c]
  <2>1. ASSUME NEW x \in ReleaseTags, x.name = own.name, ~Held(TagOf(Newest(c)), c)
        PROVE  x = own
    <3>1. x \in tags /\ x \in Carried /\ x.commit = c
      BY <2>1 DEF ReleaseTags, ReleaseInv, TypeOK, Carried, Held
    <3> QED BY <2>1, <3>1 DEF Carried
  <2>2. CASE t \in ReleaseTags /\ u \in ReleaseTags
    BY <2>2 DEF ReleaseInv
  <2>3. CASE t \notin ReleaseTags \/ u \notin ReleaseTags
    BY <2>1, <2>3
  <2> QED BY <2>2, <2>3
<1> QED BY <1>1, <1>2, <1>3, <1>4, <1>5 DEF ReleaseInv, Decided

\* The same where the tags are left as they were.
LEMMA QuietKeepsReleaseInv ==
  ASSUME ReleaseInv, NEW c \in Commits, UNCHANGED <<main, tags, today>>,
         runs' \in [Commits -> Runs],
         \A d \in Commits \ {c} : runs'[d] = runs[d],
         runs'[c].phase \in Decided => Releasable(c)
  PROVE  ReleaseInv'
<1>1. /\ tags' \subseteq Carried /\ \A t \in tags' : NamesVersion(t.name)
      /\ ReleaseTags' = ReleaseTags
  BY DEF ReleaseInv, TypeOK, Carried, ReleaseTags
<1> QED BY <1>1, RunKeepsReleaseInv

-----------------------------------------------------------------------------
(* Each action                                                             *)

\* A push adds a commit and a queued run, and leaves the older ones as they were.
LEMMA MergeGrows ==
  ASSUME TypeOK, Merge
  PROVE  /\ Len(main) \in Nat /\ Commits = 1..Len(main)
         /\ Len(main') = Len(main) + 1 /\ Commits' = 1..(Len(main) + 1)
         /\ main' \in Seq([doc : Docs, day : 1..MaxDay])
         /\ \A c \in Commits : main'[c] = main[c] /\ runs'[c] = runs[c]
         /\ runs' \in [Commits' -> [phase : Phases, saw : SUBSET [name : TagForms, commit : Commits']]]
         /\ runs'[Len(main) + 1].phase = "queued"
         /\ UNCHANGED <<tags, today>>
<1> DEFINE Commit == [doc : Docs, day : 1..MaxDay]
<1>1. main \in Seq(Commit) /\ runs \in [Commits -> Runs] /\ today \in 1..MaxDay
  BY DEF TypeOK, Carried, Runs
<1>2. PICK doc \in Docs : main' = Append(main, [doc |-> doc, day |-> today])
  BY DEF Merge
<1>3. [doc |-> doc, day |-> today] \in Commit
  BY <1>1
<1>4. /\ main' \in Seq(Commit) /\ Len(main) \in Nat /\ Len(main') = Len(main) + 1
      /\ Commits = 1..Len(main) /\ Commits' = 1..(Len(main) + 1)
      /\ \A c \in Commits : main'[c] = main[c]
  <2> HIDE DEF Commit
  <2> QED BY <1>1, <1>2, <1>3 DEF Commits
<1>5. /\ runs' \in [Commits' -> [phase : Phases, saw : SUBSET [name : TagForms, commit : Commits']]]
      /\ \A c \in Commits : runs'[c] = runs[c]
      /\ runs'[Len(main) + 1].phase = "queued"
  <2> DEFINE new == [phase |-> "queued", saw |-> {}]
  <2>1. runs' = Append(runs, new) /\ new \in Runs
    BY DEF Merge, Runs, Phases
  <2>2. runs \in Seq(Runs) /\ Len(runs) = Len(main)
    BY <1>1, <1>4, ListOfLength
  <2>3. /\ runs' \in [1..(Len(main) + 1) -> Runs]
        /\ \A c \in 1..Len(main) : runs'[c] = runs[c]
        /\ runs'[Len(main) + 1] = new
    <3> HIDE DEF new
    <3> QED BY <2>1, <2>2, AppendedElements
  <2>4. Runs \subseteq [phase : Phases, saw : SUBSET [name : TagForms, commit : Commits']]
    BY <1>4 DEF Runs, Carried
  <2> QED BY <1>4, <2>3, <2>4
<1> QED BY <1>4, <1>5 DEF Merge

LEMMA MergeKeepsReleaseInv == ReleaseInv /\ Merge => ReleaseInv'
<1> SUFFICES ASSUME ReleaseInv, Merge PROVE ReleaseInv'
  OBVIOUS
<1>1. TypeOK /\ tags \subseteq Carried
  BY DEF ReleaseInv, TypeOK, Carried
<1>2. /\ Len(main) \in Nat /\ Commits = 1..Len(main) /\ Commits' = 1..(Len(main) + 1)
      /\ \A c \in Commits : main'[c] = main[c] /\ runs'[c] = runs[c]
      /\ runs'[Len(main) + 1].phase = "queued" /\ UNCHANGED <<tags, today>>
  BY <1>1, MergeGrows
<1>3. TypeOK'
  BY <1>1, <1>2, MergeGrows DEF TypeOK
<1>4. \A c \in Commits : Releasable(c)' = Releasable(c) /\ Newest(c)' = Newest(c)
  BY <1>2 DEF Releasable, Newest
<1>5. \A c \in Commits' : runs'[c].phase \in Decided => Releasable(c)'
  BY <1>2, <1>4 DEF ReleaseInv, Decided
<1>6. ReleaseTags' = ReleaseTags /\ \A t \in ReleaseTags : t.commit \in Commits
  BY <1>1, <1>2 DEF ReleaseTags, Carried
<1> QED BY <1>3, <1>4, <1>5, <1>6 DEF ReleaseInv, Decided

LEMMA ReadKeepsReleaseInv ==
  ASSUME ReleaseInv, NEW c \in Commits, Read(c)
  PROVE  ReleaseInv'
<1> DEFINE doc == main[c].doc
           findings == Reading(doc, c, tags)
<1>1. /\ TypeOK /\ runs \in [Commits -> Runs] /\ tags \subseteq Carried
      /\ main \in Seq([doc : Docs, day : 1..MaxDay]) /\ c \in DOMAIN main
  BY DEF ReleaseInv, TypeOK, Carried, Runs, Commits
<1>2. doc \in Docs
  <2>1. main[c] \in [doc : Docs, day : 1..MaxDay]
    BY <1>1, ElementsOf
  <2> QED BY <2>1
<1>3. PICK p \in {"failed", "idle", "due"} :
        /\ runs' = [runs EXCEPT ![c] = [phase |-> p, saw |-> tags]]
        /\ p = "due" => Valid(findings) /\ Latest(doc) # 0 /\ ~Prerelease(Newest(c))
  BY Zenon DEF Read
<1>4. [phase |-> p, saw |-> tags] \in Runs
  BY <1>1 DEF Runs, Phases
<1>5. /\ runs' \in [Commits -> Runs]
      /\ \A d \in Commits \ {c} : runs'[d] = runs[d]
      /\ runs'[c].phase = p
  BY <1>1, <1>3, <1>4
<1>6. p = "due" => Releasable(c)
  <2> HIDE DEF findings
  <2>1. p = "due" => Newest(c).build = <<>>
    BY <1>2, <1>3, ValidSpells DEF Newest, findings
  <2> QED BY <1>3, <2>1 DEF Releasable
<1> QED BY <1>5, <1>6, QuietKeepsReleaseInv DEF Decided, Read

\* A cut adds a tag of its own, under a name no other commit holds.
LEMMA CutKeepsReleaseInv ==
  ASSUME ReleaseInv, NEW c \in Commits, Cut(c)
  PROVE  ReleaseInv'
<1> DEFINE own == [name |-> TagOf(Newest(c)), commit |-> c]
<1>1. /\ TypeOK /\ Releasable(c)
      /\ tags \subseteq Carried /\ \A t \in tags : NamesVersion(t.name)
  BY DEF ReleaseInv, TypeOK, Carried, Cut
<1>2. own \in Carried /\ NamesVersion(own.name) /\ Len(own.name.core) = 3
  BY <1>1, ReleasableNames, TagSpellings DEF Carried
<1>3. CASE Held(own.name, c)
  <2>1. Phase(c, "failed") /\ UNCHANGED <<main, tags, today>>
    BY <1>3 DEF Cut
  <2> QED BY <1>1, <2>1, PhaseMoves, QuietKeepsReleaseInv DEF Phases, Decided
<1>4. CASE ~Held(own.name, c)
  <2>1. Phase(c, "cut") /\ tags' = tags \cup {own} /\ UNCHANGED <<main, today>>
    BY <1>4 DEF Cut
  <2>2. \A t \in ReleaseTags' : t \in ReleaseTags \/ t = own
    BY <2>1 DEF ReleaseTags
  <2>3. tags' \subseteq Carried /\ \A t \in tags' : NamesVersion(t.name)
    BY <1>1, <1>2, <2>1
  <2>4. /\ runs' \in [Commits -> Runs]
        /\ \A d \in Commits \ {c} : runs'[d] = runs[d]
    BY <1>1, <2>1, PhaseMoves DEF Phases
  <2> QED BY <1>1, <1>4, <2>1, <2>2, <2>3, <2>4, RunKeepsReleaseInv
<1> QED BY <1>3, <1>4

\* The major tag is spelled with one component, so that moving it moves no release.
LEMMA MoveMajorLeavesReleases ==
  ASSUME ReleaseInv, NEW c \in Commits, MoveMajor(c)
  PROVE  /\ tags' \subseteq Carried /\ \A t \in tags' : NamesVersion(t.name)
         /\ ReleaseTags' = ReleaseTags
<1> DEFINE name == MajorTag(Newest(c))
<1>1. /\ TypeOK /\ Releasable(c)
      /\ tags \subseteq Carried /\ \A t \in tags : NamesVersion(t.name)
  BY DEF ReleaseInv, TypeOK, Carried, MoveMajor
<1>2. name \in TagForms /\ NamesVersion(name) /\ Len(name.core) = 1
  BY <1>1, ReleasableNames, TagSpellings
<1>3. tags' = {t \in tags : t.name # name} \cup {[name |-> name, commit |-> c]}
  BY DEF MoveMajor
<1> HIDE DEF name
<1>4. [name |-> name, commit |-> c] \in Carried
  BY <1>2 DEF Carried
<1> QED BY <1>1, <1>2, <1>3, <1>4 DEF ReleaseTags

LEMMA MoveMajorKeepsReleaseInv ==
  ASSUME ReleaseInv, NEW c \in Commits, MoveMajor(c)
  PROVE  ReleaseInv'
<1>1. TypeOK /\ Phase(c, "done") /\ UNCHANGED <<main, today>>
  BY DEF ReleaseInv, MoveMajor
<1>2. /\ runs' \in [Commits -> Runs]
      /\ \A d \in Commits \ {c} : runs'[d] = runs[d]
      /\ runs'[c].phase = "done"
  BY <1>1, PhaseMoves DEF Phases
<1> QED BY <1>1, <1>2, MoveMajorLeavesReleases, RunKeepsReleaseInv DEF Decided

\* The steps that move one run and nothing else.
LEMMA QuietStepsKeepReleaseInv ==
  ASSUME ReleaseInv, NEW c \in Commits,
         StepFails(c) \/ Publish(c) \/ Smoke(c) \/ Rerun(c)
  PROVE  ReleaseInv'
<1>1. UNCHANGED <<main, tags, today>> /\ TypeOK
  BY DEF StepFails, Publish, Smoke, Rerun, ReleaseInv
<1>2. PICK p \in Phases : /\ Phase(c, p)
                          /\ p \in Decided => runs[c].phase \in Decided
  BY DEF StepFails, Publish, Smoke, Rerun, Phases, Decided
<1>3. p \in Decided => Releasable(c)
  BY <1>2 DEF ReleaseInv, Decided
<1> QED BY <1>1, <1>2, <1>3, PhaseMoves, QuietKeepsReleaseInv

\* The invariant is inductive: nothing in it has to be strengthened, because a
\* step past the decision only ever needs what the decision read.
LEMMA NextReleaseInv == ReleaseInv /\ [Next]_vars => ReleaseInv'
<1> SUFFICES ASSUME ReleaseInv, [Next]_vars PROVE ReleaseInv'
  OBVIOUS
<1>1. CASE Merge
  BY <1>1, MergeKeepsReleaseInv
<1>2. CASE Tick \/ UNCHANGED vars
  <2>1. UNCHANGED <<main, tags, runs>> /\ today' \in 1..MaxDay
    BY <1>2, TrunkAssumption DEF Tick, vars, ReleaseInv, TypeOK
  <2> QED BY <2>1 DEF ReleaseInv, TypeOK, Commits, Releasable, Newest, ReleaseTags
<1>3. ASSUME NEW c \in Commits, Step(c) PROVE ReleaseInv'
  BY <1>3, ReadKeepsReleaseInv, CutKeepsReleaseInv, MoveMajorKeepsReleaseInv,
     QuietStepsKeepReleaseInv DEF Step
<1> QED BY <1>1, <1>2, <1>3 DEF Next

-----------------------------------------------------------------------------
\* Whatever order runs interleave in, fail in and are run again in, a run past its
\* decision stands on a commit that may be released, each release tag spells the
\* newest version of its own commit, and no name is on two commits
\* (release.yaml:47-97).
THEOREM ReleasesAreOwn == Spec => []ReleaseInv
<1>1. Init => ReleaseInv
  <2> SUFFICES ASSUME Init PROVE ReleaseInv
    OBVIOUS
  <2>1. main = <<>> /\ tags = {} /\ today \in 1..MaxDay /\ runs = <<>>
    BY TrunkAssumption DEF Init
  <2>2. Commits = {} /\ runs \in [Commits -> Runs]
    BY <2>1 DEF Commits
  <2> QED BY <2>1, <2>2 DEF ReleaseInv, TypeOK, ReleaseTags, Runs, Carried
<1> QED BY <1>1, NextReleaseInv, PTL DEF Spec

\* The state keeps its type.
THEOREM TypeCorrect == Spec => []TypeOK
<1>1. ReleaseInv => TypeOK
  BY DEF ReleaseInv
<1> QED BY <1>1, ReleasesAreOwn, PTL

\* A version is released once: its tags can differ in build metadata alone, and
\* what the ceremony tags has none, so they are one tag.
THEOREM ReleasedOnce == Spec => []OneTagPerVersion
<1>1. ReleaseInv => OneTagPerVersion
  <2> SUFFICES ASSUME ReleaseInv, NEW t \in ReleaseTags, NEW u \in ReleaseTags,
                      Compare(ParseTag(t.name), ParseTag(u.name)) = 0
               PROVE  t = u
    BY DEF OneTagPerVersion
  <2> DEFINE v == Newest(t.commit)
             w == Newest(u.commit)
  <2>1. /\ TypeOK /\ t.commit \in Commits /\ u.commit \in Commits
        /\ Releasable(t.commit) /\ Releasable(u.commit)
        /\ t.name = TagOf(v) /\ u.name = TagOf(w)
    BY DEF ReleaseInv, TypeOK, ReleaseTags
  <2>2. /\ v \in Versions /\ v.pre = <<>> /\ v.build = <<>> /\ ParseTag(TagOf(v)) = v
        /\ w \in Versions /\ w.pre = <<>> /\ w.build = <<>> /\ ParseTag(TagOf(w)) = w
    BY <2>1, ReleasableNames, TagSpellings
  <2> HIDE DEF v, w
  <2>3. Compare(v, w) = 0
    BY <2>1, <2>2
  <2>4. v.major = w.major /\ v.minor = w.minor /\ v.patch = w.patch
    <3>1. /\ v.major \in Int /\ v.minor \in Int /\ v.patch \in Int
          /\ w.major \in Int /\ w.minor \in Int /\ w.patch \in Int
      BY <2>2, MaxComponentAssumption DEF Versions
    <3>2. \A a, b \in Int : a # b => Cmp(a, b) # 0
      BY DEF Cmp
    <3> QED BY <2>3, <3>1, <3>2 DEF Compare
  <2>5. TagOf(v) = TagOf(w)
    BY <2>2, <2>4 DEF TagOf
  <2> QED BY <2>1, <2>5 DEF ReleaseInv
<1> QED BY <1>1, ReleasesAreOwn, PTL

\* A release tag, once pushed, stays on its commit for good, although the major
\* tag beside it is forced.
THEOREM ReleasesStay == Spec => TagsNeverMove
<1>1. ReleaseInv /\ [Next]_vars => [ReleaseTags \subseteq ReleaseTags']_vars
  <2> SUFFICES ASSUME ReleaseInv, Next PROVE ReleaseTags \subseteq ReleaseTags'
    OBVIOUS
  <2>1. CASE Merge \/ Tick
    BY <2>1 DEF Merge, Tick, ReleaseTags
  <2>2. ASSUME NEW c \in Commits, Step(c) PROVE ReleaseTags \subseteq ReleaseTags'
    <3>1. CASE MoveMajor(c)
      BY <3>1, MoveMajorLeavesReleases
    <3>2. CASE Cut(c)
      <4>1. tags \subseteq tags'
        BY <3>2, Zenon DEF Cut
      <4> QED BY <4>1 DEF ReleaseTags
    <3>3. CASE Read(c) \/ StepFails(c) \/ Publish(c) \/ Smoke(c) \/ Rerun(c)
      BY <3>3 DEF Read, StepFails, Publish, Smoke, Rerun, ReleaseTags
    <3> QED BY <2>2, <3>1, <3>2, <3>3 DEF Step
  <2> QED BY <2>1, <2>2 DEF Next
<1> QED BY <1>1, ReleasesAreOwn, PTL DEF Spec, TagsNeverMove

-----------------------------------------------------------------------------
(* What the trunk keeps when each of its runs ends before the next push:   *)
(* the major tag follows the releases, releases rise, what they published  *)
(* stands, and the document they leave behind reads green.                 *)

\* The tag a run at commit c cuts.
Own(c) == [name |-> TagOf(Newest(c)), commit |-> c]

\* Only the run of the last commit is under way.
LastRunsAlone == \A c \in Commits : Active(c) => c = Len(main)

\* A tag is a release tag, or the major tag of the release that stands on its commit.
TagsOfReleases ==
  \A t \in tags : /\ Releasable(t.commit) /\ Own(t.commit) \in tags
                  /\ t \in ReleaseTags \/ t.name = MajorTag(Newest(t.commit))

\* A run past its cut has its tag on the remote.
CutIsTagged ==
  \A c \in Commits : runs[c].phase \in {"cut", "published", "smoked"} => Own(c) \in tags

NamesAreUnique == \A t, u \in tags : t.name = u.name => t = u

OrderInv ==
  /\ ReleaseInv
  /\ IsFiniteSet(tags)
  /\ LastRunsAlone
  /\ TagsOfReleases
  /\ CutIsTagged
  /\ NamesAreUnique
  /\ MajorTagsKeepUp

-----------------------------------------------------------------------------
(* The major tag                                                           *)

\* The release tag of a commit that may be released is one of three components, that
\* reads back as the version it was cut for.
LEMMA OwnIsRelease ==
  ASSUME TypeOK, NEW c \in Commits, Releasable(c)
  PROVE  /\ Own(c) \in Carried /\ NamesVersion(Own(c).name) /\ Len(Own(c).name.core) = 3
         /\ ParseTag(Own(c).name) = Newest(c)
         /\ MajorTag(Newest(c)) \in TagForms /\ Len(MajorTag(Newest(c)).core) = 1
         /\ NamesVersion(MajorTag(Newest(c)))
<1>1. Newest(c) \in Versions /\ NamesVersion(TagOf(Newest(c)))
  BY ReleasableNames
<1>2. QED
  BY <1>1, TagSpellings DEF Own, Carried

\* Where runs are in order, a step is one of the last commit's run.
LEMMA ActsLast ==
  ASSUME Ordered, OrderInv, NEW c \in Commits, Step(c)
  PROVE  c = Len(main)
<1>1. CASE Rerun(c)
  BY <1>1 DEF Rerun
<1>2. CASE ~Rerun(c)
  <2>1. Active(c)
    BY <1>2 DEF Step, Read, StepFails, Cut, Publish, Smoke, MoveMajor, Active
  <2>2. QED
    BY <2>1 DEF OrderInv, LastRunsAlone
<1>3. QED
  BY <1>1, <1>2

\* The run of the last commit moves on and leaves the tags: the invariant is kept,
\* if it neither gets past the cut without its tag nor ends as done.
LEMMA QuietKeepsOrder ==
  ASSUME OrderInv, ReleaseInv', NEW c \in Commits, c = Len(main),
         UNCHANGED <<main, tags>>,
         \A d \in Commits \ {c} : runs'[d] = runs[d],
         runs'[c].phase # "done",
         runs'[c].phase \in {"cut", "published", "smoked"} => Own(c) \in tags
  PROVE  OrderInv'
<1>1. /\ Commits' = Commits /\ ReleaseTags' = ReleaseTags
      /\ \A d : Releasable(d)' = Releasable(d) /\ Newest(d)' = Newest(d) /\ Own(d)' = Own(d)
  BY DEF Commits, ReleaseTags, Releasable, Newest, Own
<1>2. LastRunsAlone'
  BY <1>1 DEF OrderInv, LastRunsAlone, Active
<1>3. TagsOfReleases'
  BY <1>1 DEF OrderInv, TagsOfReleases
<1>4. CutIsTagged'
  BY <1>1 DEF OrderInv, CutIsTagged
<1>5. MajorTagsKeepUp'
  <2>1. \A t \in ReleaseTags : t.commit \in Commits
    BY DEF OrderInv, ReleaseInv, TypeOK, ReleaseTags
  <2>2. QED
    BY <1>1, <2>1 DEF OrderInv, MajorTagsKeepUp
<1>6. QED
  BY <1>1, <1>2, <1>3, <1>4, <1>5 DEF OrderInv, NamesAreUnique

LEMMA MergeKeepsOrder ==
  ASSUME Ordered, OrderInv, Merge
  PROVE  OrderInv'
<1>1. TypeOK /\ ReleaseInv'
  BY MergeKeepsReleaseInv DEF OrderInv, ReleaseInv
<1>2. /\ Len(main) \in Nat /\ Commits = 1..Len(main)
      /\ Len(main') = Len(main) + 1 /\ Commits' = 1..(Len(main) + 1)
      /\ \A c \in Commits : main'[c] = main[c] /\ runs'[c] = runs[c]
      /\ runs'[Len(main) + 1].phase = "queued" /\ UNCHANGED tags
  BY <1>1, MergeGrows
<1>3. \A c \in Commits : /\ Releasable(c)' = Releasable(c) /\ Newest(c)' = Newest(c)
                         /\ Own(c)' = Own(c)
  BY <1>2 DEF Releasable, Newest, Own
<1>4. ReleaseTags' = ReleaseTags /\ \A t \in tags : t.commit \in Commits
  BY <1>1, <1>2 DEF ReleaseTags, TypeOK
<1>5. LastRunsAlone'
  <2>1. \A c \in Commits : ~Active(c)
    BY DEF Merge
  <2>2. QED
    BY <1>2, <2>1 DEF LastRunsAlone, Active
<1>6. TagsOfReleases'
  BY <1>2, <1>3, <1>4 DEF OrderInv, TagsOfReleases
<1>7. CutIsTagged'
  BY <1>2, <1>3, <1>4 DEF OrderInv, CutIsTagged
<1>8. MajorTagsKeepUp'
  BY <1>2, <1>4 DEF OrderInv, MajorTagsKeepUp, ReleaseTags
<1>9. QED
  BY <1>1, <1>2, <1>5, <1>6, <1>7, <1>8 DEF OrderInv, NamesAreUnique

LEMMA CutKeepsOrder ==
  ASSUME OrderInv, NEW c \in Commits, c = Len(main), Cut(c)
  PROVE  OrderInv'
<1>1. ReleaseInv' /\ TypeOK /\ Releasable(c)
  BY CutKeepsReleaseInv DEF OrderInv, ReleaseInv, Cut
<1>2. CASE Held(Own(c).name, c)
  <2>1. Phase(c, "failed") /\ UNCHANGED <<main, tags, today>>
    BY <1>2 DEF Cut, Own
  <2>2. runs'[c].phase = "failed" /\ \A d \in Commits \ {c} : runs'[d] = runs[d]
    BY <1>1, <2>1, PhaseMoves DEF Phases
  <2>3. QED
    BY <1>1, <2>1, <2>2, QuietKeepsOrder
<1>3. CASE ~Held(Own(c).name, c)
  <2>1. Phase(c, "cut") /\ tags' = tags \cup {Own(c)} /\ UNCHANGED <<main, today>>
    BY <1>3 DEF Cut, Own
  <2>2. runs'[c].phase = "cut" /\ \A d \in Commits \ {c} : runs'[d] = runs[d]
    BY <1>1, <2>1, PhaseMoves DEF Phases
  <2>3. /\ Commits' = Commits
        /\ \A d : Releasable(d)' = Releasable(d) /\ Newest(d)' = Newest(d) /\ Own(d)' = Own(d)
    BY <2>1 DEF Commits, Releasable, Newest, Own
  <2>4. Own(c).commit = c /\ Len(Own(c).name.core) = 3
    BY <1>1, OwnIsRelease DEF Own
  <2>5. ReleaseTags' = ReleaseTags \cup {Own(c)}
    BY <2>1, <2>4 DEF ReleaseTags
  <2>6. LastRunsAlone'
    BY <2>1, <2>2, <2>3 DEF OrderInv, LastRunsAlone, Active
  <2>7. TagsOfReleases'
    BY <1>1, <2>1, <2>3, <2>4, <2>5 DEF OrderInv, TagsOfReleases
  <2>8. CutIsTagged'
    BY <2>1, <2>2, <2>3 DEF OrderInv, CutIsTagged
  <2>9. NamesAreUnique'
    <3>1. ASSUME NEW t \in tags, t.name = Own(c).name PROVE t = Own(c)
      <4>1. t.commit = c /\ t \in Carried
        BY <1>1, <1>3, <3>1 DEF Held, TypeOK, Carried
      <4>2. QED
        BY <3>1, <4>1 DEF Carried, Own
    <3>2. QED
      BY <2>1, <3>1 DEF OrderInv, NamesAreUnique
  <2>10. MajorTagsKeepUp'
    <3>1. SUFFICES ASSUME NEW t \in ReleaseTags', runs'[t.commit].phase = "done"
          PROVE  \E m \in tags' : m.name = MajorTag(ParseTag(t.name)) /\ m.commit >= t.commit
      BY DEF MajorTagsKeepUp
    <3>2. t \in ReleaseTags /\ t.commit \in Commits \ {c}
      BY <1>1, <2>2, <2>4, <2>5, <3>1 DEF TypeOK, ReleaseTags
    <3>3. QED
      BY <2>1, <2>2, <3>1, <3>2 DEF OrderInv, MajorTagsKeepUp
  <2>11. IsFiniteSet(tags')
    BY <2>1, FS_AddElement DEF OrderInv
  <2>12. QED
    BY <1>1, <2>6, <2>7, <2>8, <2>9, <2>10, <2>11 DEF OrderInv
<1>4. QED
  BY <1>2, <1>3

\* The major tag moves to the last commit, which no tag is ahead of.
LEMMA MoveMajorKeepsOrder ==
  ASSUME OrderInv, NEW c \in Commits, c = Len(main), MoveMajor(c)
  PROVE  OrderInv'
<1> DEFINE major == MajorTag(Newest(c))
           moved == [name |-> major, commit |-> c]
<1>1. /\ ReleaseInv /\ ReleaseInv' /\ TypeOK /\ Releasable(c) /\ Own(c) \in tags
      /\ ReleaseTags' = ReleaseTags
  BY MoveMajorKeepsReleaseInv, MoveMajorLeavesReleases
     DEF OrderInv, ReleaseInv, CutIsTagged, MoveMajor
<1>2. /\ tags' = {t \in tags : t.name # major} \cup {moved}
      /\ Phase(c, "done") /\ UNCHANGED <<main, today>>
  BY DEF MoveMajor
<1>3. runs'[c].phase = "done" /\ \A d \in Commits \ {c} : runs'[d] = runs[d]
  BY <1>1, <1>2, PhaseMoves DEF Phases
<1>4. /\ Commits' = Commits
      /\ \A d : Releasable(d)' = Releasable(d) /\ Newest(d)' = Newest(d) /\ Own(d)' = Own(d)
  BY <1>2 DEF Commits, Releasable, Newest, Own
<1>5. moved.name = major /\ moved.commit = c /\ Len(major.core) = 1
  BY <1>1, OwnIsRelease
<1> HIDE DEF moved, major
<1>6. \A t \in ReleaseTags : t.commit \in Commits /\ t.name # major /\ t \in tags'
  <2>1. \A t \in ReleaseTags : t \in tags /\ Len(t.name.core) = 3
    BY DEF ReleaseTags
  <2>2. \A t \in tags : t.commit \in Commits
    BY <1>1 DEF TypeOK
  <2>3. ASSUME NEW t \in ReleaseTags PROVE t.name # major
    BY <1>5, <2>1
  <2>4. QED
    BY <1>2, <2>1, <2>2, <2>3
<1>7. \A t \in tags : t.commit \in Commits /\ Own(t.commit) \in ReleaseTags
  BY <1>1, OwnIsRelease DEF OrderInv, TagsOfReleases, TypeOK, ReleaseTags
<1>8. Own(c) \in ReleaseTags
  BY <1>1, <1>7 DEF Own
<1>9. LastRunsAlone'
  BY <1>2, <1>3, <1>4 DEF OrderInv, LastRunsAlone, Active
<1>10. TagsOfReleases'
  <2>1. SUFFICES ASSUME NEW t \in tags'
        PROVE  /\ Releasable(t.commit) /\ Own(t.commit) \in tags'
               /\ t \in ReleaseTags' \/ t.name = MajorTag(Newest(t.commit))
    BY <1>4 DEF TagsOfReleases
  <2>2. CASE t = moved
    BY <1>1, <1>5, <1>6, <1>8, <2>2 DEF major
  <2>3. CASE t \in tags
    BY <1>1, <1>6, <1>7, <2>3 DEF OrderInv, TagsOfReleases
  <2>4. QED
    BY <1>2, <2>2, <2>3
<1>11. CutIsTagged'
  <2>1. SUFFICES ASSUME NEW d \in Commits, runs'[d].phase \in {"cut", "published", "smoked"}
        PROVE  Own(d) \in tags'
    BY <1>4 DEF CutIsTagged
  <2>2. d # c /\ Own(d) \in tags /\ Own(d).commit = d
    BY <1>3, <2>1 DEF OrderInv, CutIsTagged, Own
  <2>3. QED
    BY <1>6, <1>7, <2>2
<1>12. NamesAreUnique'
  BY <1>2, <1>5 DEF OrderInv, NamesAreUnique
<1>13. MajorTagsKeepUp'
  <2>1. SUFFICES ASSUME NEW t \in ReleaseTags, runs'[t.commit].phase = "done"
        PROVE  \E m \in tags' : m.name = MajorTag(ParseTag(t.name)) /\ m.commit >= t.commit
    BY <1>1 DEF MajorTagsKeepUp
  <2>2. t.commit \in Commits /\ c >= t.commit /\ moved \in tags'
    BY <1>1, <1>2, <1>6 DEF TypeOK, Commits
  <2>3. CASE t.commit = c
    <3>1. ParseTag(t.name) = Newest(c)
      BY <1>1, <2>3, OwnIsRelease DEF ReleaseInv, Own
    <3>2. QED
      BY <1>5, <2>2, <3>1 DEF major
  <2>4. CASE t.commit # c
    <3>1. PICK m \in tags : m.name = MajorTag(ParseTag(t.name)) /\ m.commit >= t.commit
      BY <1>3, <2>1, <2>2, <2>4 DEF OrderInv, MajorTagsKeepUp
    <3>2. QED
      BY <1>2, <1>5, <2>2, <3>1
  <2>5. QED
    BY <2>3, <2>4
<1>14. IsFiniteSet(tags')
  <2>1. IsFiniteSet({t \in tags : t.name # major})
    BY FS_Subset DEF OrderInv
  <2>2. QED
    BY <1>2, <2>1, FS_AddElement
<1>15. QED
  BY <1>1, <1>9, <1>10, <1>11, <1>12, <1>13, <1>14 DEF OrderInv

\* The steps that leave the tags.
LEMMA OthersKeepOrder ==
  ASSUME OrderInv, NEW c \in Commits, c = Len(main), ReleaseInv',
         Read(c) \/ StepFails(c) \/ Publish(c) \/ Smoke(c) \/ Rerun(c)
  PROVE  OrderInv'
<1>1. UNCHANGED <<main, tags, today>> /\ runs \in [Commits -> Runs]
  BY DEF Read, StepFails, Publish, Smoke, Rerun, OrderInv, ReleaseInv, TypeOK, Runs, Carried
<1>2. PICK r :
        /\ runs' = [runs EXCEPT ![c] = r] /\ r.phase # "done"
        /\ r.phase \in {"cut", "published", "smoked"} =>
             runs[c].phase \in {"cut", "published", "smoked"}
  <2>1. CASE Read(c)
    <3>1. PICK p \in {"failed", "idle", "due"} :
            runs' = [runs EXCEPT ![c] = [phase |-> p, saw |-> tags]]
      BY <2>1, Zenon DEF Read
    <3>2. [phase |-> p, saw |-> tags].phase = p
      OBVIOUS
    <3>3. QED
      BY <3>1, <3>2
  <2>2. CASE StepFails(c) \/ Publish(c) \/ Smoke(c) \/ Rerun(c)
    <3>1. PICK p \in Phases :
            /\ Phase(c, p) /\ p # "done"
            /\ p \in {"cut", "published", "smoked"} => runs[c].phase \in {"cut", "published", "smoked"}
      BY <2>2 DEF StepFails, Publish, Smoke, Rerun, Phases
    <3>2. runs' = [runs EXCEPT ![c] = [runs[c] EXCEPT !.phase = p]]
      BY <1>1, <3>1 DEF Phase
    <3>3. [runs[c] EXCEPT !.phase = p].phase = p
      BY <1>1 DEF Runs
    <3>4. QED
      BY <3>1, <3>2, <3>3
  <2>3. QED
    BY <2>1, <2>2
<1>3. runs'[c] = r /\ \A d \in Commits \ {c} : runs'[d] = runs[d]
  BY <1>1, <1>2
<1>4. r.phase \in {"cut", "published", "smoked"} => Own(c) \in tags
  BY <1>2 DEF OrderInv, CutIsTagged
<1>5. QED
  BY <1>1, <1>2, <1>3, <1>4, QuietKeepsOrder

LEMMA NextOrderInv == Ordered /\ OrderInv /\ [Next]_vars => OrderInv'
<1> SUFFICES ASSUME Ordered, OrderInv, [Next]_vars PROVE OrderInv'
  OBVIOUS
<1>0. ReleaseInv'
  BY NextReleaseInv DEF OrderInv
<1>1. CASE Merge
  BY <1>1, MergeKeepsOrder
<1>2. CASE Tick \/ UNCHANGED vars
  <2>1. UNCHANGED <<main, tags, runs>>
    BY <1>2 DEF Tick, vars
  <2>2. QED
    BY <1>0, <2>1 DEF OrderInv, LastRunsAlone, Active, TagsOfReleases, CutIsTagged, NamesAreUnique,
       MajorTagsKeepUp, Commits, Releasable, Newest, Own, ReleaseTags
<1>3. ASSUME NEW c \in Commits, Step(c) PROVE OrderInv'
  <2>1. c = Len(main)
    BY <1>3, ActsLast
  <2>2. QED
    BY <1>0, <1>3, <2>1, CutKeepsOrder, MoveMajorKeepsOrder, OthersKeepOrder DEF Step
<1>4. QED
  BY <1>1, <1>2, <1>3 DEF Next

LEMMA OrderIsInvariant ==
  ASSUME Ordered
  PROVE  Spec => []OrderInv
<1>1. Init => OrderInv
  <2> SUFFICES ASSUME Init PROVE OrderInv
    OBVIOUS
  <2>1. main = <<>> /\ tags = {} /\ today \in 1..MaxDay /\ runs = <<>>
    BY TrunkAssumption DEF Init
  <2>2. Commits = {} /\ runs \in [Commits -> Runs] /\ ReleaseTags = {}
    BY <2>1 DEF Commits, ReleaseTags
  <2>3. ReleaseInv
    BY <2>1, <2>2 DEF ReleaseInv, TypeOK, Runs, Carried
  <2>4. QED
    BY <2>1, <2>2, <2>3, FS_EmptySet
       DEF OrderInv, LastRunsAlone, TagsOfReleases, CutIsTagged, NamesAreUnique, MajorTagsKeepUp
<1>2. OrderInv /\ [Next]_vars => OrderInv'
  BY NextOrderInv
<1>3. QED
  BY <1>1, <1>2, PTL DEF Spec

\* Where each run ends before the next push, the major tag a finished release moved
\* has not gone back behind it, whatever severities the readings ran under.
THEOREM MajorTagsFollow ==
  ASSUME Ordered
  PROVE  Spec => []MajorTagsKeepUp
<1>1. OrderInv => MajorTagsKeepUp
  BY DEF OrderInv
<1>2. QED
  BY <1>1, OrderIsInvariant, PTL

-----------------------------------------------------------------------------
(* The reference tag                                                       *)

\* The list of a finite set holds each of its elements, once.
LEMMA Listed ==
  ASSUME NEW S, IsFiniteSet(S), NEW n, n = Cardinality(S), NEW T, T = SetToSeq(S)
  PROVE  /\ n \in Nat /\ T \in [1..n -> S] /\ T \in Seq(S)
         /\ \A i, j \in 1..n : T[i] = T[j] => i = j
         /\ \A x \in S : \E i \in 1..n : T[i] = x
<1>1. n \in Nat /\ \E f \in [1..n -> S] : IsInjective(f)
  BY FS_CardinalityType DEF ExistsBijection, Bijection, Injection
<1>2. T \in [1..n -> S] /\ IsInjective(T)
  BY <1>1 DEF SetToSeq
<1>3. T \in Injection(1..n, S)
  BY <1>2 DEF Injection
<1>4. IsFiniteSet(1..n) /\ Cardinality(1..n) = n
  BY <1>1, FS_Interval
<1>5. T \in Surjection(1..n, S)
  BY <1>3, <1>4, FS_Injection
<1>6. \A x \in S : \E i \in 1..n : T[i] = x
  BY <1>5 DEF Surjection
<1>7. QED
  BY <1>1, <1>2, <1>6, ListOfLength DEF IsInjective

\* Of finitely many positions in a strict order, R relating the higher to the lower,
\* one is the highest.
LEMMA HighestPosition ==
  ASSUME NEW n \in Nat, n > 0, NEW R,
         \A i, j \in 1..n : i # j => <<i, j>> \in R \/ <<j, i>> \in R,
         \A i, j, k \in 1..n : <<i, j>> \in R /\ <<j, k>> \in R => <<i, k>> \in R
  PROVE  \E m \in 1..n : \A j \in (1..n) \ {m} : <<m, j>> \in R
<1> DEFINE T == {k \in 0..n : k = 0 \/ \E m \in 1..k : \A j \in (1..k) \ {m} : <<m, j>> \in R}
<1>1. 0 \in T
  OBVIOUS
<1>2. ASSUME NEW k \in 1..n, k - 1 \in T PROVE k \in T
  <2>1. CASE k = 1
    BY <2>1
  <2>2. CASE k # 1
    <3>1. k - 1 \in 1..n /\ k \in 0..n
      BY <2>2
    <3>2. PICK m \in 1..(k - 1) : \A j \in (1..(k - 1)) \ {m} : <<m, j>> \in R
      BY <1>2, <2>2
    <3>3. m \in 1..n /\ m \in 1..k /\ m # k /\ k \in 1..k
      BY <3>1
    <3>4. \A j \in 1..k : j = k \/ j \in 1..(k - 1)
      BY <3>1
    <3>5. CASE <<m, k>> \in R
      <4>1. \A j \in (1..k) \ {m} : <<m, j>> \in R
        BY <3>2, <3>4, <3>5
      <4>2. QED
        BY <3>1, <3>3, <4>1
    <3>6. CASE <<k, m>> \in R
      <4>1. \A j \in (1..k) \ {k} : <<k, j>> \in R
        <5>1. SUFFICES ASSUME NEW j \in (1..k) \ {k}, j # m PROVE <<k, j>> \in R
          BY <3>6
        <5>2. j \in 1..n /\ <<m, j>> \in R
          BY <3>1, <3>2, <3>4, <5>1
        <5>3. QED
          BY <3>3, <3>6, <5>2
      <4>2. QED
        BY <3>1, <3>3, <4>1
    <3>7. QED
      BY <3>3, <3>5, <3>6
  <2>3. QED
    BY <2>1, <2>2
<1>3. n \in T
  <2> HIDE DEF T
  <2> QED BY <1>1, <1>2, UpTo
<1>4. n = 0 \/ \E m \in 1..n : \A j \in (1..n) \ {m} : <<m, j>> \in R
  BY <1>3, Zenon
<1>5. n # 0
  OBVIOUS
<1>6. QED
  BY <1>4, <1>5, Zenon

\* A version without a pre-release part is level with, or above, the first of its line.
LEMMA FirstOfLine ==
  ASSUME NEW v \in Versions, v.pre = <<>>,
         NEW w, w = [major |-> v.major, minor |-> 0, patch |-> 0, pre |-> <<>>, build |-> <<>>]
  PROVE  Compare(w, v) <= 0
<1>1. v.minor \in Nat /\ v.patch \in Nat
  BY MaxComponentAssumption DEF Versions
<1>2. w.major = v.major /\ w.minor = 0 /\ w.patch = 0 /\ w.pre = <<>>
  OBVIOUS
<1>3. ComparePre(<<>>, <<>>) = 0
  BY DEF ComparePre
<1>4. CASE v.minor # 0
  <2>1. Compare(w, v) = Cmp(0, v.minor)
    BY <1>2, <1>4 DEF Compare
  <2>2. QED
    BY <1>1, <1>4, <2>1 DEF Cmp
<1>5. CASE v.minor = 0 /\ v.patch # 0
  <2>1. Compare(w, v) = Cmp(0, v.patch)
    BY <1>2, <1>5 DEF Compare
  <2>2. QED
    BY <1>1, <1>5, <2>1 DEF Cmp
<1>6. CASE v.minor = 0 /\ v.patch = 0
  <2>1. Compare(w, v) = ComparePre(w.pre, v.pre)
    BY <1>2, <1>6 DEF Compare
  <2>2. QED
    BY <1>2, <1>3, <2>1
<1>7. QED
  BY <1>4, <1>5, <1>6

\* What a tag names: the version of its commit, in three components, or the first of
\* that version's line, in one.
LEMMA TagVersion ==
  ASSUME OrderInv, NEW t \in tags
  PROVE  /\ t.commit \in Commits /\ t.name \in TagForms /\ NamesVersion(t.name)
         /\ ParseTag(t.name) \in Versions
         /\ ParseTag(t.name).pre = <<>> /\ ParseTag(t.name).build = <<>>
         /\ Newest(t.commit) \in Versions
         /\ Compare(ParseTag(t.name), Newest(t.commit)) <= 0
         /\ t \in ReleaseTags =>
              /\ TagComponents(t.name) = 3 /\ ParseTag(t.name) = Newest(t.commit)
              /\ t.name = TagOf(ParseTag(t.name))
         /\ t \notin ReleaseTags =>
              TagComponents(t.name) = 1 /\ t.name = MajorTag(ParseTag(t.name))
<1> DEFINE c == t.commit
           v == Newest(c)
<1>1. /\ TypeOK /\ c \in Commits /\ t.name \in TagForms /\ NamesVersion(t.name)
      /\ Releasable(c)
  BY DEF OrderInv, ReleaseInv, TypeOK, TagsOfReleases
<1>2. ParseTag(t.name) \in Versions
  BY <1>1, NamedVersion
<1>3. v \in Versions /\ v.pre = <<>> /\ v.build = <<>>
  BY <1>1, ReleasableNames
<1>4. CASE t \in ReleaseTags
  <2>1. t.name = Own(c).name
    BY <1>4 DEF OrderInv, ReleaseInv, Own
  <2>2. ParseTag(t.name) = v /\ Len(t.name.core) = 3
    BY <1>1, <2>1, OwnIsRelease
  <2>3. Compare(v, v) = 0
    BY <1>3, VersionsOrdered
  <2>4. QED
    BY <1>1, <1>2, <1>3, <1>4, <2>1, <2>2, <2>3 DEF TagComponents, Own
<1>5. CASE t \notin ReleaseTags
  <2> DEFINE w == [major |-> v.major, minor |-> 0, patch |-> 0, pre |-> <<>>, build |-> <<>>]
  <2>1. t.name = MajorTag(v)
    BY <1>5 DEF OrderInv, TagsOfReleases
  <2>2. ParseTag(t.name) = w
    BY <2>1, MajorTagReads
  <2>3. Compare(w, v) <= 0
    BY <1>3, FirstOfLine
  <2>4. MajorTag(w) = MajorTag(v) /\ Len(MajorTag(v).core) = 1 /\ w.pre = <<>> /\ w.build = <<>>
    BY DEF MajorTag
  <2>5. QED
    BY <1>1, <1>2, <1>3, <1>5, <2>1, <2>2, <2>3, <2>4 DEF TagComponents
<1>6. QED
  BY <1>4, <1>5

\* Of two tags one outranks the other: they name different versions, or spell one
\* version in three components and in one.
LEMMA TagsOutrank ==
  ASSUME OrderInv, NEW t \in tags, NEW u \in tags, t # u
  PROVE  Outranks(t.name, u.name) \/ Outranks(u.name, t.name)
<1> DEFINE a == ParseTag(t.name)
           b == ParseTag(u.name)
<1>1. a \in Versions /\ b \in Versions /\ a.build = <<>> /\ b.build = <<>>
  BY TagVersion
<1>2. /\ Compare(a, b) \in Comparisons /\ Compare(b, a) = -Compare(a, b)
      /\ Compare(a, b) = 0 <=> Canonical(a) = Canonical(b)
  BY <1>1, VersionsOrdered
<1>3. /\ TagComponents(t.name) = (IF t \in ReleaseTags THEN 3 ELSE 1)
      /\ TagComponents(u.name) = (IF u \in ReleaseTags THEN 3 ELSE 1)
  BY TagVersion
<1>4. CASE Compare(a, b) # 0
  <2>1. Compare(a, b) > 0 \/ Compare(b, a) > 0
    BY <1>2, <1>4 DEF Comparisons
  <2>2. QED
    BY <2>1 DEF Outranks
<1>5. CASE Compare(a, b) = 0
  <2>1. a = b
    <3>1. Canonical(a) = a /\ Canonical(b) = b
      BY <1>1 DEF Canonical, Versions
    <3>2. QED
      BY <1>2, <1>5, <3>1
  <2>2. t.name # u.name
    BY DEF OrderInv, NamesAreUnique
  <2>3. ~(t \in ReleaseTags <=> u \in ReleaseTags)
    <3>1. CASE t \in ReleaseTags /\ u \in ReleaseTags
      <4>1. t.name = TagOf(a) /\ u.name = TagOf(b)
        BY <3>1, TagVersion
      <4>2. QED
        BY <2>1, <2>2, <4>1
    <3>2. CASE t \notin ReleaseTags /\ u \notin ReleaseTags
      <4>1. t.name = MajorTag(a) /\ u.name = MajorTag(b)
        BY <3>2, TagVersion
      <4>2. QED
        BY <2>1, <2>2, <4>1
    <3>3. QED
      BY <3>1, <3>2
  <2>4. TagComponents(t.name) > TagComponents(u.name) \/ TagComponents(u.name) > TagComponents(t.name)
    BY <1>3, <2>3
  <2>5. Compare(b, a) = 0
    BY <1>1, <1>5, <2>1, VersionsOrdered
  <2>6. QED
    BY <1>5, <2>4, <2>5 DEF Outranks
<1>6. QED
  BY <1>4, <1>5

\* Outranking chains.
LEMMA OutranksChains ==
  ASSUME NEW x, NEW y, NEW z,
         ParseTag(x) \in Versions, ParseTag(y) \in Versions, ParseTag(z) \in Versions,
         TagComponents(x) \in Int, TagComponents(y) \in Int, TagComponents(z) \in Int,
         Outranks(x, y), Outranks(y, z)
  PROVE  Outranks(x, z)
<1> DEFINE p == Compare(ParseTag(z), ParseTag(y))
           q == Compare(ParseTag(y), ParseTag(x))
           r == Compare(ParseTag(z), ParseTag(x))
<1>1. /\ p \in Comparisons /\ Compare(ParseTag(y), ParseTag(z)) = -p
      /\ q \in Comparisons /\ Compare(ParseTag(x), ParseTag(y)) = -q
      /\ r \in Comparisons /\ Compare(ParseTag(x), ParseTag(z)) = -r
  BY VersionsOrdered
<1>2. p <= 0 /\ q <= 0 => r <= 0 /\ (r = 0 <=> p = 0 /\ q = 0)
  BY VersionsChain DEF Chained
<1>3. /\ -q > 0 \/ (-q = 0 /\ TagComponents(x) > TagComponents(y))
      /\ -p > 0 \/ (-p = 0 /\ TagComponents(y) > TagComponents(z))
  BY <1>1 DEF Outranks
<1> HIDE DEF p, q, r
<1>4. p \in Int /\ q \in Int /\ r \in Int
  BY <1>1 DEF Comparisons
<1>5. -r > 0 \/ (-r = 0 /\ TagComponents(x) > TagComponents(z))
  BY <1>2, <1>3, <1>4
<1>6. QED
  BY <1>1, <1>5 DEF Outranks

\* What the run of the last commit reads: every tag of the remote, and, as reference,
\* the release tag that outranks the others, with the document it was cut at.
LEMMA ReadsHighest ==
  ASSUME OrderInv, NEW c \in Commits, c = Len(main), NEW g, g = State(c, tags)
  PROVE  /\ g.kind = "read" /\ g.tags \in Seq(TagForms)
         /\ \A t \in tags : \E k \in DOMAIN g.tags : g.tags[k] = t.name
         /\ tags = {} => g.ref = 0 /\ g.was = <<>>
         /\ tags # {} =>
              /\ g.ref # 0
              /\ \E r \in ReleaseTags :
                   /\ g.tags[g.ref] = r.name /\ g.was = main[r.commit].doc
                   /\ \A t \in tags : t # r => Outranks(r.name, t.name)
<1> DEFINE T == SetToSeq(tags)
           n == Cardinality(tags)
           B == {i \in DOMAIN T : T[i] \in Baselines(c, tags)}
           Highest(i) == \A j \in B \ {i} : Outranks(T[i].name, T[j].name)
           ref == IF B = {} THEN 0 ELSE CHOOSE i \in B : Highest(i)
<1>1. /\ g.kind = "read" /\ g.ref = ref
      /\ g.tags = [i \in DOMAIN T |-> T[i].name]
      /\ g.was = IF ref = 0 THEN <<>> ELSE main[T[ref].commit].doc
  BY DEF State
<1>2. /\ n \in Nat /\ T \in [1..n -> tags] /\ \A i, j \in 1..n : T[i] = T[j] => i = j
      /\ \A t \in tags : \E i \in 1..n : T[i] = t
  BY Listed DEF OrderInv
<1>3. B = 1..n
  <2>1. Baselines(c, tags) = tags
    <3>1. \A t \in tags : t.commit <= c /\ NamesVersion(t.name) /\ ~Prerelease(ParseTag(t.name))
      <4>1. SUFFICES ASSUME NEW t \in tags
            PROVE  t.commit <= c /\ NamesVersion(t.name) /\ ~Prerelease(ParseTag(t.name))
        OBVIOUS
      <4>2. t.commit \in Commits /\ NamesVersion(t.name) /\ ParseTag(t.name).pre = <<>>
        BY TagVersion
      <4>3. Commits = 1..Len(main) /\ Len(main) \in Nat
        BY DEF OrderInv, ReleaseInv, TypeOK, Commits
      <4>4. QED
        BY <4>2, <4>3 DEF Prerelease
    <3>2. QED
      BY <3>1 DEF Baselines
  <2>2. QED
    BY <1>2, <2>1
<1>4. /\ g.tags \in Seq(TagForms) /\ DOMAIN g.tags = 1..n
      /\ \A i \in 1..n : g.tags[i] = T[i].name
  <2>1. DOMAIN T = 1..n /\ \A i \in 1..n : T[i] \in tags
    BY <1>2
  <2>2. \A t \in tags : t.name \in TagForms
    BY TagVersion
  <2>3. g.tags = [i \in 1..n |-> T[i].name]
    BY <1>1, <2>1
  <2> HIDE DEF T, n
  <2>4. g.tags \in [1..n -> TagForms]
    BY <2>1, <2>2, <2>3
  <2>5. QED
    BY <1>2, <2>3, <2>4, ListOfLength
<1>5. \A t \in tags : \E k \in DOMAIN g.tags : g.tags[k] = t.name
  <2> HIDE DEF T, n
  <2> QED BY <1>2, <1>4
<1>6. CASE tags = {}
  <2>1. B = {}
    <3>1. \A i \in 1..n : T[i] \in tags
      BY <1>2
    <3>2. QED
      BY <1>3, <1>6, <3>1
  <2>2. ref = 0
    BY <2>1
  <2>3. QED
    BY <1>1, <1>4, <1>5, <1>6, <2>2
<1>7. CASE tags # {}
  <2>1. n > 0
    BY <1>2, <1>7
  <2>2. \E i \in B : Highest(i)
    <3> DEFINE R == {p \in (1..n) \X (1..n) : Outranks(T[p[1]].name, T[p[2]].name)}
    <3>1. \A i \in 1..n : /\ T[i] \in tags /\ ParseTag(T[i].name) \in Versions
                          /\ TagComponents(T[i].name) \in Int
      <4>1. SUFFICES ASSUME NEW i \in 1..n
            PROVE  /\ T[i] \in tags /\ ParseTag(T[i].name) \in Versions
                   /\ TagComponents(T[i].name) \in Int
        OBVIOUS
      <4>2. T[i] \in tags
        BY <1>2
      <4> HIDE DEF T, n
      <4>3. QED
        BY <4>2, TagVersion
    <3>2. \A i, j \in 1..n : <<i, j>> \in R <=> Outranks(T[i].name, T[j].name)
      OBVIOUS
    <3>3. \A i, j \in 1..n : i # j => <<i, j>> \in R \/ <<j, i>> \in R
      <4> HIDE DEF T, n, R
      <4> QED BY <1>2, <3>1, <3>2, TagsOutrank
    <3>4. \A i, j, k \in 1..n : <<i, j>> \in R /\ <<j, k>> \in R => <<i, k>> \in R
      <4> HIDE DEF T, n, R
      <4> QED BY <3>1, <3>2, OutranksChains
    <3>5. \E m \in 1..n : \A j \in (1..n) \ {m} : <<m, j>> \in R
      <4> HIDE DEF T, n, R
      <4> QED BY <1>2, <2>1, <3>3, <3>4, HighestPosition
    <3>6. PICK m \in 1..n : \A j \in (1..n) \ {m} : <<m, j>> \in R
      BY <3>5
    <3>7. m \in B /\ \A j \in B \ {m} : <<m, j>> \in R
      BY <1>3, <3>6
    <3>8. Highest(m)
      BY <1>3, <3>2, <3>7
    <3>9. QED
      BY <3>7, <3>8
  <2>3. B # {}
    BY <2>2
  <2>4. ref \in B /\ Highest(ref)
    <3>1. ref = CHOOSE i \in B : Highest(i)
      BY <2>3
    <3> HIDE DEF B, Highest, ref
    <3>2. QED
      BY <2>2, <3>1
  <2>5. ref \in 1..n /\ ref # 0
    <3> HIDE DEF B, ref, n, T, Highest
    <3> QED BY <1>2, <1>3, <2>4
  <2> DEFINE r == T[ref]
  <2>6. r \in tags /\ g.tags[g.ref] = r.name /\ g.was = main[r.commit].doc
    BY <1>1, <1>2, <1>4, <2>5
  <2>7. ASSUME NEW t \in tags, t # r PROVE Outranks(r.name, t.name)
    <3>1. PICK j \in 1..n : T[j] = t
      BY <1>2
    <3>2. j \in B \ {ref}
      BY <1>3, <2>7, <3>1
    <3>3. QED
      BY <2>4, <3>1, <3>2
  <2>8. r \in ReleaseTags
    <3>1. SUFFICES ASSUME r \notin ReleaseTags PROVE FALSE
      OBVIOUS
    <3> DEFINE own == Own(r.commit)
    <3>2. /\ own \in tags /\ own \in ReleaseTags /\ own.commit = r.commit
      <4>1. own \in tags /\ Releasable(r.commit) /\ r.commit \in Commits
        BY <2>6, TagVersion DEF OrderInv, TagsOfReleases
      <4>2. TypeOK
        BY DEF OrderInv, ReleaseInv
      <4>3. Len(own.name.core) = 3
        BY <4>1, <4>2, OwnIsRelease
      <4>4. QED
        BY <4>1, <4>3 DEF ReleaseTags, Own
    <3> HIDE DEF own, r, T, ref, n, B
    <3>3. Outranks(r.name, own.name)
      BY <2>7, <3>1, <3>2
    <3>4. /\ Compare(ParseTag(r.name), Newest(r.commit)) <= 0 /\ TagComponents(r.name) = 1
          /\ Compare(ParseTag(r.name), Newest(r.commit)) \in Comparisons
      BY <2>6, <3>1, TagVersion, VersionsOrdered
    <3>5. ParseTag(own.name) = Newest(r.commit) /\ TagComponents(own.name) = 3
      BY <3>2, TagVersion
    <3>6. QED
      BY <3>3, <3>4, <3>5 DEF Outranks, Comparisons
  <2> HIDE DEF r, T, ref, n, B
  <2>9. QED
    BY <1>1, <1>4, <1>5, <1>7, <2>5, <2>6, <2>7, <2>8
<1>8. QED
  BY <1>6, <1>7

-----------------------------------------------------------------------------
(* What a release stands on                                                *)

\* The readings run under the register: each check raises errors but for the two a
\* repository is told to choose, whether pre-releases may stand in the changelog
\* and whether a tag must be of its entry's day.
Enforced == \A k \in Checks \ {"date-mismatch", "prerelease-entry"} : Severities[k] = "error"

\* What a reading asks of a document whatever the tags are.
StandsAlone(doc, day) ==
  /\ UnreadableVersion(doc) = {} /\ DateFormat(doc) = {} /\ VersionOrder(doc) = {}
  /\ EmptyEntry(doc) = {} /\ UnknownSection(doc) = {} /\ DateOrder(doc) = {}
  /\ DateFuture(doc, day) = {} /\ PartialLinkRefs(doc) = {} /\ OCIIncompatible(doc) = {}
  /\ Undated(doc) = {}
  /\ \A i \in DOMAIN doc : doc[i].kind # "version" =>
       ~\E s, t \in DOMAIN doc[i].sections : s < t /\ doc[i].sections[s] = doc[i].sections[t]
  /\ Severities["prerelease-entry"] = "error" => PrereleaseEntry(doc) = {}

\* What a run must have found when it decides that a release is due: its version is
\* above every tag's, and its document keeps what each release published.
Clear(c) ==
  /\ StandsAlone(main[c].doc, today)
  /\ \A t \in tags : Compare(ParseTag(t.name), Newest(c)) < 0
  /\ \A t \in ReleaseTags :
       Record(main[c].doc, ParseTag(t.name)) = Record(main[t.commit].doc, ParseTag(t.name))

RisingInv ==
  /\ OrderInv
  /\ \A c \in Commits : runs[c].phase = "due" => Clear(c)
  /\ \A t \in ReleaseTags : StandsAlone(main[t.commit].doc, today)
  /\ ReleasesRise
  /\ ReleasedEntriesKept

LEMMA DocOf ==
  ASSUME TypeOK, NEW c \in Commits
  PROVE  /\ main[c].doc \in Docs /\ IsDocument(main[c].doc)
         /\ \A i \in DOMAIN main[c].doc : main[c].doc[i].date \in Int
<1>1. main[c] \in [doc : Docs, day : 1..MaxDay]
  BY ElementsOf DEF TypeOK, Commits
<1>2. main[c].doc \in Docs
  BY <1>1
<1>3. QED
  BY <1>2, TrunkAssumption DEF IsDocument

\* The entry a version is read from names it.
LEMMA NowNames ==
  ASSUME NEW d, IsDocument(d), NEW v
  PROVE  /\ Now(d, v) # 0 => Now(d, v) \in Released(d) /\ d[Now(d, v)].ver = v
         /\ (\E i \in Released(d) : d[i].ver = v) => Now(d, v) # 0
<1> DEFINE N == {i \in Released(d) : d[i].ver = v}
<1>1. N \in SUBSET (1..Len(d)) /\ Len(d) \in Nat
  BY DEF IsDocument, Released
<1>2. Now(d, v) = IF N = {} THEN 0 ELSE Greatest(N)
  BY DEF Now
<1>3. CASE N = {}
  BY <1>2, <1>3
<1>4. CASE N # {}
  <2>1. Greatest(N) \in N
    <3> HIDE DEF N
    <3> QED BY <1>1, <1>4, GreatestPosition
  <2>2. Greatest(N) # 0
    BY <1>1, <2>1
  <2>3. QED
    BY <1>2, <1>4, <2>1, <2>2
<1>5. QED
  BY <1>3, <1>4

\* A valid reading finds the document in order by itself.
LEMMA ValidStandsAlone ==
  ASSUME Enforced, NEW doc, NEW g, NEW day, Valid(Lint(doc, g, day, Severities))
  PROVE  /\ StandsAlone(doc, day)
         /\ VersionBehindTag(doc, g) = {} /\ ModifiedEntries(doc, g, FALSE) = {}
<1>1. \A k \in Checks : Severities[k] = "error" => Fires(k, doc, g, day) = {}
  BY ValidIsSilent
<1>2. \A k \in Checks \ {"date-mismatch", "prerelease-entry"} : Fires(k, doc, g, day) = {}
  BY <1>1 DEF Enforced
<1>3. UnreadableVersion(doc) = {} /\ DateFormat(doc) = {}
  BY <1>2 DEF Fires, Checks
<1>4. VersionOrder(doc) = {} /\ DateOrder(doc) = {}
  BY <1>2 DEF Fires, Checks
<1>5. EmptyEntry(doc) = {} /\ UnknownSection(doc) = {}
  BY <1>2 DEF Fires, Checks
<1>6. DateFuture(doc, day) = {} /\ PartialLinkRefs(doc) = {}
  BY <1>2 DEF Fires, Checks
<1>7. OCIIncompatible(doc) = {} /\ VersionBehindTag(doc, g) = {}
  BY <1>2 DEF Fires, Checks
<1>8. HeadingForm(doc) = {} /\ UndatedEntry(doc, g) = {}
  BY <1>2 DEF Fires, Checks
<1>9. UndatedRelease(doc, g) = {} /\ DuplicateSection(doc, g) = {}
  BY <1>2 DEF Fires, Checks
<1>10. ModifiedEntries(doc, g, FALSE) = {}
  BY <1>2 DEF Fires, Checks
<1>11. Undated(doc) = {}
  BY <1>8, <1>9 DEF HeadingForm, UndatedEntry
<1>12. Severities["prerelease-entry"] = "error" => PrereleaseEntry(doc) = {}
  BY <1>1 DEF Fires, Checks
<1>13. \A i \in DOMAIN doc : doc[i].kind # "version" =>
         ~\E s, t \in DOMAIN doc[i].sections : s < t /\ doc[i].sections[s] = doc[i].sections[t]
  BY <1>9 DEF DuplicateSection
<1>14. QED
  BY <1>3, <1>4, <1>5, <1>6, <1>7, <1>10, <1>11, <1>12, <1>13 DEF StandsAlone

\* A version found due is above the one every tag names: the reference tag, the
\* highest of them, is not above it, and no tag is level with it.
LEMMA DueIsAboveTags ==
  ASSUME OrderInv, NEW c \in Commits, c = Len(main), NEW g, g = State(c, tags),
         Latest(main[c].doc) # 0, VersionBehindTag(main[c].doc, g) = {}, ~Tagged(g, Newest(c))
  PROVE  \A t \in tags : Compare(ParseTag(t.name), Newest(c)) < 0
<1> DEFINE doc == main[c].doc
           v == Newest(c)
<1>1. SUFFICES ASSUME NEW t \in tags PROVE Compare(ParseTag(t.name), v) < 0
  OBVIOUS
<1>2. /\ g.kind = "read" /\ g.tags \in Seq(TagForms) /\ g.ref # 0
      /\ \E k \in DOMAIN g.tags : g.tags[k] = t.name
  BY ReadsHighest
<1>3. PICK r \in ReleaseTags :
        /\ g.tags[g.ref] = r.name
        /\ \A u \in tags : u # r => Outranks(r.name, u.name)
  BY ReadsHighest
<1>4. /\ ParseTag(t.name) \in Versions /\ NamesVersion(t.name)
      /\ r \in tags /\ ParseTag(r.name) \in Versions
  BY TagVersion DEF ReleaseTags
<1>5. v \in Versions
  <2>1. doc \in Docs
    BY DocOf DEF OrderInv, ReleaseInv
  <2>2. Latest(doc) \in Released(doc)
    BY <2>1, LatestIsReleased
  <2>3. QED
    BY <2>1, <2>2, TrunkAssumption DEF Newest
<1>6. Compare(ParseTag(t.name), v) # 0
  <2>1. Naming(g, v) = {}
    BY <1>2, <1>5, TaggedIsNamed
  <2>2. QED
    BY <1>2, <1>4, <2>1 DEF Naming
<1>7. ~(Compare(v, ParseTag(r.name)) < 0)
  <2>1. Compared(g)
    BY <1>2 DEF Compared
  <2>2. QED
    BY <1>3, <2>1 DEF VersionBehindTag, Newest
<1>8. t = r \/ ~(Compare(ParseTag(r.name), ParseTag(t.name)) < 0)
  <2>1. Compare(ParseTag(r.name), ParseTag(t.name)) \in Comparisons
    BY <1>4, VersionsOrdered
  <2>2. QED
    BY <1>3, <2>1 DEF Outranks, Comparisons
<1> DEFINE a == ParseTag(t.name)
           b == ParseTag(r.name)
<1>9. /\ Compare(v, b) \in Comparisons /\ Compare(b, v) = -Compare(v, b)
      /\ Compare(b, a) \in Comparisons /\ Compare(a, b) = -Compare(b, a)
      /\ Compare(a, v) \in Comparisons
  BY <1>4, <1>5, VersionsOrdered
<1>10. Compare(a, b) <= 0 /\ Compare(b, v) <= 0 => Compare(a, v) <= 0
  BY <1>4, <1>5, VersionsChain DEF Chained
<1>11. Compare(b, v) <= 0
  BY <1>7, <1>9 DEF Comparisons
<1>12. CASE t = r
  BY <1>6, <1>9, <1>11, <1>12 DEF Comparisons
<1>13. CASE t # r
  <2>1. Compare(a, b) <= 0
    BY <1>8, <1>9, <1>13 DEF Comparisons
  <2>2. QED
    BY <1>6, <1>9, <1>10, <1>11, <2>1 DEF Comparisons
<1>14. QED
  BY <1>12, <1>13

\* A document found due keeps what every release published: the reference tag's
\* document kept what the releases before it had, and no entry of it is modified.
LEMMA DueKeepsRecords ==
  ASSUME OrderInv, ReleasesRise, ReleasedEntriesKept,
         NEW c \in Commits, c = Len(main), NEW g, g = State(c, tags),
         ModifiedEntries(main[c].doc, g, FALSE) = {}
  PROVE  \A t \in ReleaseTags :
           Record(main[c].doc, ParseTag(t.name)) = Record(main[t.commit].doc, ParseTag(t.name))
<1> DEFINE doc == main[c].doc
<1>1. SUFFICES ASSUME NEW t \in ReleaseTags, NEW v, v = ParseTag(t.name)
      PROVE  Record(doc, v) = Record(main[t.commit].doc, v)
  OBVIOUS
<1>2. t \in tags /\ TypeOK
  BY DEF ReleaseTags, OrderInv, ReleaseInv
<1>3. g.kind = "read" /\ g.ref # 0
  BY <1>2, ReadsHighest
<1>4. PICK r \in ReleaseTags :
        /\ g.was = main[r.commit].doc
        /\ \A u \in tags : u # r => Outranks(r.name, u.name)
  BY <1>2, ReadsHighest
<1>5. r \in tags /\ r.commit \in Commits /\ t.commit \in Commits
  BY <1>2, TagVersion DEF ReleaseTags
<1>6. IsDocument(doc) /\ IsDocument(g.was) /\ IsDocument(main[t.commit].doc)
  BY <1>2, <1>4, <1>5, DocOf
<1>7. Record(g.was, v) = Record(main[t.commit].doc, v)
  <2>1. t.commit \in Int /\ r.commit \in Int
    BY <1>2, <1>5 DEF TypeOK, Commits
  <2>2. CASE t.commit < r.commit
    BY <1>1, <1>4, <2>2 DEF ReleasedEntriesKept
  <2>3. CASE t.commit = r.commit
    BY <1>4, <2>3
  <2>4. CASE r.commit < t.commit
    <3>1. Compare(ParseTag(r.name), ParseTag(t.name)) < 0
      BY <2>4 DEF ReleasesRise
    <3>2. Outranks(r.name, t.name)
      BY <1>2, <1>4, <2>1, <2>4
    <3>3. Compare(ParseTag(r.name), ParseTag(t.name)) \in Comparisons
      BY <1>2, <1>5, TagVersion, VersionsOrdered
    <3>4. QED
      BY <3>1, <3>2, <3>3 DEF Outranks, Comparisons
  <2>5. QED
    BY <2>1, <2>2, <2>3, <2>4
<1>8. v = Newest(t.commit) /\ v.pre = <<>>
  BY <1>1, <1>2, TagVersion
<1>9. Record(main[t.commit].doc, v) # <<>>
  <2> DEFINE d == main[t.commit].doc
  <2>1. Releasable(t.commit)
    BY <1>2 DEF OrderInv, TagsOfReleases
  <2>2. Latest(d) \in Released(d) /\ d[Latest(d)].ver = v
    BY <1>6, <1>8, <2>1, LatestIsTop DEF Releasable, Newest
  <2>3. Now(d, v) # 0
    BY <1>6, <2>2, NowNames
  <2>4. QED
    BY <2>3 DEF Record
<1>10. Now(g.was, v) # 0
  BY <1>7, <1>9 DEF Record
<1> DEFINE w == Now(g.was, v)
<1>11. w \in Released(g.was) /\ g.was[w].ver = v
  BY <1>6, <1>10, NowNames
<1>12. ~Modified(doc, g.was[w])
  <2>1. Prerelease(v) = FALSE
    BY <1>8 DEF Prerelease
  <2>2. SUFFICES ASSUME Modified(doc, g.was[w]) PROVE FALSE
    OBVIOUS
  <2>3. Now(doc, g.was[w].ver) \in ModifiedEntries(doc, g, FALSE)
    BY <1>3, <1>11, <2>1, <2>2 DEF ModifiedEntries, Compared
  <2>4. QED
    BY <2>3
<1>13. /\ Now(doc, v) # 0
       /\ doc[Now(doc, v)].date = g.was[w].date /\ doc[Now(doc, v)].body = g.was[w].body
  BY <1>11, <1>12 DEF Modified
<1>14. Record(doc, v) = Record(g.was, v)
  BY <1>10, <1>13 DEF Record
<1>15. QED
  BY <1>7, <1>14

-----------------------------------------------------------------------------
(* Releases rise                                                           *)

\* A later day finds nothing more against a document than an earlier one did.
LEMMA StandsOnLaterDays ==
  ASSUME NEW d, \A i \in DOMAIN d : d[i].date \in Int, NEW m \in Int, NEW n \in Int, m <= n,
         StandsAlone(d, m)
  PROVE  StandsAlone(d, n)
<1>1. DateFuture(d, n) = {}
  <2>1. SUFFICES ASSUME NEW i \in DateFuture(d, n) PROVE FALSE
    OBVIOUS
  <2>2. i \in Released(d) /\ IsDate(d[i].date) /\ d[i].date > n /\ d[i].date \in Int
    BY <2>1 DEF DateFuture, Released
  <2>3. i \in DateFuture(d, m)
    BY <2>2 DEF DateFuture
  <2>4. QED
    BY <2>3 DEF StandsAlone
<1>2. QED
  BY <1>1 DEF StandsAlone

\* Where the release tags stay, the invariant is kept if what becomes due is clear.
LEMMA SameReleasesKeepRising ==
  ASSUME RisingInv, OrderInv', ReleaseTags' = ReleaseTags, today' >= today,
         \A c \in Commits : main'[c] = main[c],
         \A c \in Commits' : runs'[c].phase = "due" => Clear(c)'
  PROVE  RisingInv'
<1>1. \A t \in ReleaseTags : t.commit \in Commits /\ main'[t.commit].doc = main[t.commit].doc
  BY DEF RisingInv, OrderInv, ReleaseInv, TypeOK, ReleaseTags
<1>2. today \in Int /\ today' \in Int
  BY DEF RisingInv, OrderInv, ReleaseInv, TypeOK
<1>3. ReleasesRise'
  BY DEF RisingInv, ReleasesRise
<1>4. ReleasedEntriesKept'
  BY <1>1 DEF RisingInv, ReleasedEntriesKept
<1>5. \A t \in ReleaseTags : StandsAlone(main[t.commit].doc, today')
  <2>1. SUFFICES ASSUME NEW t \in ReleaseTags PROVE StandsAlone(main[t.commit].doc, today')
    OBVIOUS
  <2>2. \A i \in DOMAIN main[t.commit].doc : main[t.commit].doc[i].date \in Int
    BY <1>1, DocOf DEF RisingInv, OrderInv, ReleaseInv
  <2>3. StandsAlone(main[t.commit].doc, today)
    BY DEF RisingInv
  <2>4. QED
    BY <1>2, <2>2, <2>3, StandsOnLaterDays
<1>6. (\A t \in ReleaseTags : StandsAlone(main[t.commit].doc, today))'
  BY <1>1, <1>5
<1>7. QED
  BY <1>3, <1>4, <1>6 DEF RisingInv

\* A day passes, or nothing does: what is due stays so.
LEMMA TimeKeepsRising ==
  ASSUME RisingInv, OrderInv', UNCHANGED <<main, tags, runs>>, today' >= today
  PROVE  RisingInv'
<1>1. /\ ReleaseTags' = ReleaseTags /\ Commits' = Commits
      /\ \A c : Newest(c)' = Newest(c)
  BY DEF ReleaseTags, Commits, Newest
<1>2. ASSUME NEW c \in Commits', runs'[c].phase = "due" PROVE Clear(c)'
  <2>1. c \in Commits /\ Clear(c)
    BY <1>1, <1>2 DEF RisingInv
  <2>2. \A i \in DOMAIN main[c].doc : main[c].doc[i].date \in Int
    BY <2>1, DocOf DEF RisingInv, OrderInv, ReleaseInv
  <2>3. today \in Int /\ today' \in Int
    BY DEF RisingInv, OrderInv, ReleaseInv, TypeOK
  <2>4. StandsAlone(main[c].doc, today')
    BY <2>1, <2>2, <2>3, StandsOnLaterDays DEF Clear
  <2>5. QED
    BY <1>1, <2>1, <2>4 DEF Clear
<1>3. QED
  BY <1>1, <1>2, SameReleasesKeepRising

LEMMA MergeKeepsRising ==
  ASSUME Ordered, RisingInv, OrderInv', Merge
  PROVE  RisingInv'
<1>1. TypeOK
  BY DEF RisingInv, OrderInv, ReleaseInv
<1>2. /\ Len(main) \in Nat /\ Commits = 1..Len(main) /\ Commits' = 1..(Len(main) + 1)
      /\ \A c \in Commits : main'[c] = main[c] /\ runs'[c] = runs[c]
      /\ runs'[Len(main) + 1].phase = "queued" /\ UNCHANGED <<tags, today>>
  BY <1>1, MergeGrows
<1>3. ReleaseTags' = ReleaseTags /\ today' >= today
  BY <1>1, <1>2 DEF ReleaseTags, TypeOK
<1>4. ASSUME NEW c \in Commits', runs'[c].phase = "due" PROVE FALSE
  <2>1. c \in Commits /\ runs[c].phase = "due"
    BY <1>2, <1>4
  <2>2. QED
    BY <2>1 DEF Merge, Active
<1>5. QED
  BY <1>2, <1>3, <1>4, SameReleasesKeepRising

\* The run of the last commit decides: what it finds due is clear.
LEMMA ReadKeepsRising ==
  ASSUME Enforced, RisingInv, OrderInv', NEW c \in Commits, c = Len(main), Read(c)
  PROVE  RisingInv'
<1> DEFINE doc == main[c].doc
           g == State(c, tags)
           findings == Reading(doc, c, tags)
<1>1. /\ TypeOK /\ OrderInv /\ ReleasesRise /\ ReleasedEntriesKept
      /\ runs \in [Commits -> Runs] /\ UNCHANGED <<main, tags, today>>
  BY DEF RisingInv, OrderInv, ReleaseInv, TypeOK, Runs, Carried, Read
<1>2. PICK p \in {"failed", "idle", "due"} :
        /\ runs' = [runs EXCEPT ![c] = [phase |-> p, saw |-> tags]]
        /\ p = "due" => Valid(findings) /\ Latest(doc) # 0 /\ ~Tagged(g, Newest(c))
  BY Zenon DEF Read
<1>3. runs'[c].phase = p
  BY <1>1, <1>2
<1>4. p = "due" => Clear(c)
  <2>1. SUFFICES ASSUME p = "due" PROVE Clear(c)
    OBVIOUS
  <2>2. Valid(Lint(doc, g, today, Severities))
    BY <1>2, <2>1 DEF Reading
  <2> HIDE DEF doc, g, findings
  <2>3. /\ StandsAlone(doc, today) /\ VersionBehindTag(doc, g) = {}
        /\ ModifiedEntries(doc, g, FALSE) = {}
    BY <2>2, ValidStandsAlone
  <2>4. \A t \in tags : Compare(ParseTag(t.name), Newest(c)) < 0
    BY <1>1, <1>2, <2>1, <2>3, DueIsAboveTags DEF doc, g
  <2>5. \A t \in ReleaseTags :
          Record(main[c].doc, ParseTag(t.name)) = Record(main[t.commit].doc, ParseTag(t.name))
    BY <1>1, <2>3, DueKeepsRecords DEF doc, g
  <2>6. QED
    BY <2>3, <2>4, <2>5 DEF Clear, doc
<1>5. /\ ReleaseTags' = ReleaseTags /\ Commits' = Commits /\ today' >= today
      /\ Clear(c) => Clear(c)'
  BY <1>1 DEF ReleaseTags, Commits, Clear, Newest, TypeOK
<1>6. ASSUME NEW d \in Commits', runs'[d].phase = "due" PROVE Clear(d)'
  <2>1. d = Len(main')
    BY <1>6 DEF OrderInv, LastRunsAlone, Active
  <2>2. d = c
    BY <1>1, <2>1
  <2>3. QED
    BY <1>3, <1>4, <1>5, <1>6, <2>2
<1>7. QED
  BY <1>1, <1>5, <1>6, SameReleasesKeepRising

\* No other step of a run makes a release due.
LEMMA NothingElseIsDue ==
  ASSUME OrderInv, OrderInv', NEW c \in Commits, c = Len(main),
         StepFails(c) \/ Cut(c) \/ Publish(c) \/ Smoke(c) \/ MoveMajor(c) \/ Rerun(c)
  PROVE  \A d \in Commits' : runs'[d].phase # "due"
<1>1. TypeOK /\ main' = main
  BY DEF OrderInv, ReleaseInv, StepFails, Cut, Publish, Smoke, MoveMajor, Rerun
<1>2. PICK p \in Phases : Phase(c, p) /\ p # "due"
  BY DEF Phases, StepFails, Cut, Publish, Smoke, MoveMajor, Rerun
<1>3. runs'[c].phase = p
  BY <1>1, <1>2, PhaseMoves
<1>4. SUFFICES ASSUME NEW d \in Commits', runs'[d].phase = "due" PROVE FALSE
  OBVIOUS
<1>5. d = Len(main')
  BY <1>4 DEF OrderInv, LastRunsAlone, Active
<1>6. QED
  BY <1>1, <1>2, <1>3, <1>4, <1>5

\* A cut adds a release that is clear, on the last commit.
LEMMA CutKeepsRising ==
  ASSUME RisingInv, OrderInv', NEW c \in Commits, c = Len(main), Cut(c)
  PROVE  RisingInv'
<1>1. /\ OrderInv /\ TypeOK /\ Releasable(c) /\ Clear(c)
      /\ UNCHANGED <<main, today>> /\ today' >= today
  BY DEF RisingInv, OrderInv, ReleaseInv, TypeOK, Cut
<1>2. \A d \in Commits' : runs'[d].phase # "due"
  BY <1>1, NothingElseIsDue
<1>3. CASE Held(Own(c).name, c)
  <2>1. ReleaseTags' = ReleaseTags
    BY <1>3 DEF Cut, Own, ReleaseTags
  <2>2. QED
    BY <1>1, <1>2, <2>1, SameReleasesKeepRising
<1>4. CASE ~Held(Own(c).name, c)
  <2>1. /\ Len(Own(c).name.core) = 3 /\ ParseTag(Own(c).name) = Newest(c)
        /\ Own(c).commit = c
    BY <1>1, OwnIsRelease DEF Own
  <2>2. ReleaseTags' = ReleaseTags \cup {Own(c)}
    <3>1. tags' = tags \cup {Own(c)}
      BY <1>4 DEF Cut, Own
    <3>2. QED
      BY <2>1, <3>1 DEF ReleaseTags
  <2>3. \A t \in ReleaseTags : t \in tags /\ t.commit \in Int /\ t.commit <= c
    BY <1>1 DEF TypeOK, ReleaseTags, Commits
  <2>4. c \in Int
    BY <1>1 DEF TypeOK, Commits
  <2>5. ReleasesRise'
    <3>1. SUFFICES ASSUME NEW t \in ReleaseTags', NEW u \in ReleaseTags', t.commit < u.commit
          PROVE  Compare(ParseTag(t.name), ParseTag(u.name)) < 0
      BY DEF ReleasesRise
    <3>2. CASE u \in ReleaseTags
      <4>1. u.commit \in Int /\ u.commit <= c
        BY <2>3, <3>2
      <4>2. t.commit # c
        BY <2>4, <3>1, <4>1
      <4>3. t \in ReleaseTags
        BY <2>1, <2>2, <4>2
      <4>4. QED
        BY <3>1, <3>2, <4>3 DEF RisingInv, ReleasesRise
    <3>3. CASE u \notin ReleaseTags
      <4>1. u = Own(c) /\ t \in ReleaseTags
        BY <2>1, <2>2, <2>4, <3>1, <3>3
      <4>2. QED
        BY <1>1, <2>1, <2>3, <4>1 DEF Clear
    <3>4. QED
      BY <3>2, <3>3
  <2>6. ReleasedEntriesKept'
    <3>1. SUFFICES ASSUME NEW t \in ReleaseTags', NEW u \in ReleaseTags', t.commit < u.commit
          PROVE  Record(main[u.commit].doc, ParseTag(t.name))
                   = Record(main[t.commit].doc, ParseTag(t.name))
      BY <1>1 DEF ReleasedEntriesKept
    <3>2. CASE u \in ReleaseTags
      <4>1. u.commit \in Int /\ u.commit <= c
        BY <2>3, <3>2
      <4>2. t.commit # c
        BY <2>4, <3>1, <4>1
      <4>3. t \in ReleaseTags
        BY <2>1, <2>2, <4>2
      <4>4. QED
        BY <3>1, <3>2, <4>3 DEF RisingInv, ReleasedEntriesKept
    <3>3. CASE u \notin ReleaseTags
      <4>1. u = Own(c) /\ t \in ReleaseTags
        BY <2>1, <2>2, <2>4, <3>1, <3>3
      <4>2. QED
        BY <1>1, <2>1, <4>1 DEF Clear
    <3>4. QED
      BY <3>2, <3>3
  <2>7. (\A t \in ReleaseTags : StandsAlone(main[t.commit].doc, today))'
    BY <1>1, <2>1, <2>2 DEF RisingInv, Clear
  <2>8. QED
    BY <1>2, <2>5, <2>6, <2>7 DEF RisingInv
<1>5. QED
  BY <1>3, <1>4

LEMMA NextRisingInv == Ordered /\ Enforced /\ RisingInv /\ [Next]_vars => RisingInv'
<1> SUFFICES ASSUME Ordered, Enforced, RisingInv, [Next]_vars PROVE RisingInv'
  OBVIOUS
<1>0. OrderInv /\ OrderInv' /\ ReleaseInv /\ today \in Int
  BY NextOrderInv DEF RisingInv, OrderInv, ReleaseInv, TypeOK
<1>1. CASE Merge
  BY <1>0, <1>1, MergeKeepsRising
<1>2. CASE Tick \/ UNCHANGED vars
  BY <1>0, <1>2, TimeKeepsRising DEF Tick, vars
<1>3. ASSUME NEW c \in Commits, Step(c) PROVE RisingInv'
  <2>1. c = Len(main)
    BY <1>0, <1>3, ActsLast
  <2>2. CASE Read(c)
    BY <1>0, <2>1, <2>2, ReadKeepsRising
  <2>3. CASE Cut(c)
    BY <1>0, <2>1, <2>3, CutKeepsRising
  <2>4. CASE StepFails(c) \/ Publish(c) \/ Smoke(c) \/ MoveMajor(c) \/ Rerun(c)
    <3>1. \A d \in Commits' : runs'[d].phase # "due"
      BY <1>0, <2>1, <2>4, NothingElseIsDue
    <3>2. UNCHANGED <<main, today>>
      BY <2>4 DEF StepFails, Publish, Smoke, MoveMajor, Rerun
    <3>3. ReleaseTags' = ReleaseTags
      <4>1. CASE MoveMajor(c)
        BY <1>0, <4>1, MoveMajorLeavesReleases
      <4>2. CASE ~MoveMajor(c)
        BY <2>4, <4>2 DEF StepFails, Publish, Smoke, Rerun, ReleaseTags
      <4>3. QED
        BY <4>1, <4>2
    <3>4. QED
      BY <1>0, <3>1, <3>2, <3>3, SameReleasesKeepRising
  <2>5. QED
    BY <1>3, <2>2, <2>3, <2>4 DEF Step
<1>4. QED
  BY <1>1, <1>2, <1>3 DEF Next

LEMMA RisingIsInvariant ==
  ASSUME Ordered, Enforced
  PROVE  Spec => []RisingInv
<1>1. Init /\ OrderInv => RisingInv
  <2>1. SUFFICES ASSUME Init, OrderInv PROVE RisingInv
    OBVIOUS
  <2>2. Commits = {} /\ ReleaseTags = {}
    BY <2>1 DEF Init, Commits, ReleaseTags
  <2>3. QED
    BY <2>1, <2>2 DEF RisingInv, ReleasesRise, ReleasedEntriesKept
<1>2. RisingInv /\ [Next]_vars => RisingInv'
  BY NextRisingInv
<1>3. Spec => []OrderInv
  BY OrderIsInvariant
<1>4. QED
  BY <1>1, <1>2, <1>3, PTL DEF Spec

\* Where each run ends before the next push, and the readings run under the register,
\* a later release on main is a higher version.
THEOREM ReleasesClimb ==
  ASSUME Ordered, Enforced
  PROVE  Spec => []ReleasesRise
<1>1. RisingInv => ReleasesRise
  BY DEF RisingInv
<1>2. QED
  BY <1>1, RisingIsInvariant, PTL

\* There, too, every release keeps the date and the notes each earlier one published.
THEOREM ReleasesKeepEntries ==
  ASSUME Ordered, Enforced
  PROVE  Spec => []ReleasedEntriesKept
<1>1. RisingInv => ReleasedEntriesKept
  BY DEF RisingInv
<1>2. QED
  BY <1>1, RisingIsInvariant, PTL

-----------------------------------------------------------------------------
(* The document a release leaves behind                                    *)

\* The document of the reference tag, unchanged, is read valid under its own tags.
LEMMA ReferenceReadsGreen ==
  ASSUME Enforced, Severities["date-mismatch"] # "error", RisingInv,
         NEW t \in ReleaseTags, NEW g, g = State(Len(main), tags), g.was = main[t.commit].doc
  PROVE  Valid(Lint(g.was, g, today, Severities))
<1> DEFINE doc == g.was
           c == Len(main)
<1>1. OrderInv /\ TypeOK /\ t \in tags /\ t.commit \in Commits
  BY DEF RisingInv, OrderInv, ReleaseInv, TypeOK, ReleaseTags
<1>2. c \in Commits
  BY <1>1 DEF TypeOK, Commits
<1>3. g.kind = "read" /\ g.ref # 0
  BY <1>1, <1>2, ReadsHighest
<1>4. PICK r \in ReleaseTags : g.tags[g.ref] = r.name /\ doc = main[r.commit].doc
  BY <1>1, <1>2, ReadsHighest
<1>5. StandsAlone(doc, today)
  BY <1>4 DEF RisingInv
<1>6. IsDocument(doc)
  BY <1>1, DocOf
<1>7. VersionBehindTag(doc, g) = {}
  <2>1. r \in tags
    BY DEF ReleaseTags
  <2>2. Newest(r.commit) \in Versions /\ ParseTag(r.name) = Newest(r.commit)
    BY <1>1, <2>1, TagVersion
  <2>3. Compare(Newest(r.commit), Newest(r.commit)) = 0
    BY <2>2, VersionsOrdered
  <2>4. doc[Latest(doc)].ver = Newest(r.commit)
    BY <1>4 DEF Newest
  <2> HIDE DEF doc
  <2>5. QED
    BY <1>4, <2>2, <2>3, <2>4 DEF VersionBehindTag
<1>8. \A w \in Released(doc) : ~Modified(doc, doc[w])
  <2>1. SUFFICES ASSUME NEW w \in Released(doc) PROVE ~Modified(doc, doc[w])
    OBVIOUS
  <2>2. Now(doc, doc[w].ver) = w
    BY <1>5, <1>6, NowIsOnly DEF StandsAlone
  <2>3. w # 0
    BY <1>6 DEF IsDocument, Released
  <2>4. QED
    BY <2>2, <2>3 DEF Modified
<1>9. ModifiedEntries(doc, g, TRUE) = {} /\ ModifiedEntries(doc, g, FALSE) = {}
  BY <1>8 DEF ModifiedEntries
<1>10. DuplicateSection(doc, g) = {}
  <2>1. \A i \in DOMAIN doc : doc[i].kind = "version" => doc[i].ver \in Frozen(g)
    BY <1>3 DEF Frozen, Released
  <2>2. QED
    BY <1>5, <2>1 DEF DuplicateSection, StandsAlone
<1>11. NoGitTags(g) = {}
  BY <1>3 DEF NoGitTags
<1>12. HeadingForm(doc) = {} /\ UndatedEntry(doc, g) = {} /\ UndatedRelease(doc, g) = {}
  BY <1>5 DEF StandsAlone, HeadingForm, UndatedEntry, UndatedRelease
<1>13. ASSUME NEW k \in Checks, Severities[k] = "error" PROVE Fires(k, doc, g, today) = {}
  <2> HIDE DEF doc
  <2>1. k # "date-mismatch"
    BY <1>13
  <2>2. CASE k \in {"unreadable-version", "date-format", "version-order", "empty-entry",
                   "unknown-section", "date-order", "date-future", "partial-link-refs",
                   "oci-incompatible-version"}
    BY <1>5, <2>2 DEF Fires, StandsAlone
  <2>3. CASE k = "prerelease-entry"
    BY <1>5, <1>13, <2>3 DEF Fires, StandsAlone
  <2>4. CASE k \in {"heading-form", "undated-entry", "undated-release"}
    BY <1>12, <2>4 DEF Fires
  <2>5. CASE k \in {"duplicate-section", "no-git-tags", "version-behind-tag"}
    BY <1>7, <1>10, <1>11, <2>5 DEF Fires
  <2>6. CASE k \in {"release-entry-modified", "prerelease-entry-modified"}
    BY <1>9, <2>6 DEF Fires
  <2>7. QED
    BY <2>1, <2>2, <2>3, <2>4, <2>5, <2>6 DEF Checks
<1>14. QED
  <2>1. SUFFICES ASSUME NEW f \in Lint(doc, g, today, Severities), f[2] = "error" PROVE FALSE
    BY DEF Valid
  <2> HIDE DEF doc
  <2>2. PICK k \in Checks : \E i \in Fires(k, doc, g, today) : f = <<k, Severities[k], i>>
    BY <2>1 DEF Lint
  <2>3. Severities[k] = "error"
    BY <2>1, <2>2
  <2>4. QED
    BY <1>13, <2>2, <2>3

\* There, where a tag need not be of its entry's day, the document of the newest release
\* reads green for good: only what a pull request writes into it can turn main red.
THEOREM ReleasesStayGreen ==
  ASSUME Ordered, Enforced, Severities["date-mismatch"] # "error"
  PROVE  Spec => []ReleaseStaysGreen
<1>1. RisingInv => ReleaseStaysGreen
  BY ReferenceReadsGreen DEF ReleaseStaysGreen, Reading
<1>2. QED
  BY <1>1, RisingIsInvariant, PTL
=============================================================================
