----------------------------- MODULE Candidates -----------------------------
(***************************************************************************)
(* The release-branch strategy of examples/release-branch/workflows: pull  *)
(* requests into the stabilization branches of one version, a numbered     *)
(* candidate cut per revision by release-candidate.yaml, the final tag cut *)
(* from the trunk by release.yaml, and publish.yaml run on each tag.       *)
(*                                                                         *)
(* Runs of one pull request form a concurrency group: one is in progress,  *)
(* one waits, and a newer one takes the place of the one that waits.  Two  *)
(* pull requests are two groups, and the trunk is a third.                 *)
(***************************************************************************)
EXTENDS Integers, Sequences, FiniteSets

CONSTANTS
  PRs,           \* the pull requests
  Stages,        \* the stages: what a branch release/v<version>-<stage> ends in
  Branch,        \* the stage of the branch each pull request is into
  Proposed,      \* the entries their changelogs may open with
  MaxRevisions,  \* bound: revisions pushed to pull requests and merges into the trunk
  MaxTags        \* bound: no run is run again once there are so many tags

Trunk == "trunk"
Final == "final"

\* The newest entry of a revision's changelog: the branch's version, with or without
\* a date; another version, not tagged yet; or none.
Entries == {"dated", "open", "other", "none"}

ASSUME CandidatesAssumption ==
  /\ Branch \in [PRs -> Stages] /\ MaxRevisions \in Nat /\ MaxTags \in Nat
  /\ Trunk \notin PRs /\ Final \notin Stages
  /\ Proposed \subseteq Entries

VARIABLES
  revs,   \* the revisions, in the order pushed: [of, entry]
  runs,   \* the run of each: [phase, version, tagged, ordinal]
  tags,   \* the tags of the remote, in the order pushed: [stage, ordinal, rev]
  built   \* what became of each tag's publish run: "queued", "built", "filed", "failed"

vars == <<revs, runs, tags, built>>

Phases == {"pending", "suite", "listed", "done", "skipped", "failed", "dropped"}
InProgress == {"suite", "listed"}
Ended == {"done", "skipped", "failed", "dropped"}

Revisions == DOMAIN revs

\* The release is tagged: release.yaml's own tag, without a stage.
FinalTagged == \E t \in DOMAIN tags : tags[t].stage = Final

StageOf(k) == IF revs[k].of = Trunk THEN Final ELSE Branch[revs[k].of]

\* What is found on reading the changelog of revision k: undated-release always, and
\* undated-entry where the workflow leaves it on, on the trunk.
Red(k, trunk) == revs[k].entry = "open" /\ (FinalTagged \/ trunk)

\* The one that waits in the group of a pull request gives way to a newer one.
Displaced(of) == [k \in Revisions |->
  IF revs[k].of = of /\ runs[k].phase = "pending" THEN [runs[k] EXCEPT !.phase = "dropped"]
  ELSE runs[k]]

Fresh == [phase |-> "pending", version |-> "unread", tagged |-> FALSE, ordinal |-> 0]

-----------------------------------------------------------------------------
Init == revs = <<>> /\ runs = <<>> /\ tags = <<>> /\ built = <<>>

\* A revision is pushed to a pull request, or merged into the trunk.
Push(of) ==
  /\ Len(revs) < MaxRevisions
  /\ \E entry \in Proposed : revs' = Append(revs, [of |-> of, entry |-> entry])
  /\ runs' = Append(Displaced(of), Fresh)
  /\ UNCHANGED <<tags, built>>

\* Mutant: a run waits for every older run of its group to be done.
TurnInOrder(k) ==
  /\ runs[k].phase = "pending"
  /\ \A j \in Revisions : revs[j].of = revs[k].of /\ j < k => runs[j].phase = "done"

\* It is the run's turn: no run of its group is in progress.
Turn(k) ==
  /\ runs[k].phase = "pending"
  /\ \A j \in Revisions : revs[j].of = revs[k].of => runs[j].phase \notin InProgress

\* The changelog job: version and already-tagged are outputs from here on.
Read(k) ==
  /\ Turn(k) /\ runs[k].version = "unread"
  /\ runs' = [runs EXCEPT ![k] =
       IF Red(k, revs[k].of = Trunk) THEN [@ EXCEPT !.phase = "failed"]
       ELSE [phase |-> "suite", version |-> revs[k].entry, tagged |-> FinalTagged, ordinal |-> 0]]
  /\ UNCHANGED <<revs, tags, built>>

\* The tag job alone is run again, on the outputs there are.
Resume(k) ==
  /\ Turn(k) /\ runs[k].version # "unread"
  /\ runs' = [runs EXCEPT ![k].phase = "suite"]
  /\ UNCHANGED <<revs, tags, built>>

\* Mutant: the ordinal is the number of the revision, as a run number would be.
NextOrdinalOfRun(stage) == Len(revs)

\* The highest ordinal cut for a stage, plus one.
NextOrdinal(stage) ==
  LET cut == {0} \cup {tags[t].ordinal : t \in {t \in DOMAIN tags : tags[t].stage = stage}}
  IN  1 + CHOOSE n \in cut : \A m \in cut : m <= n

\* The suite has passed, and the tag job checks out with every tag: nothing to cut, a
\* branch that names no stage of the version, or the tag it will push.  (The trunk
\* tags another version as well: no tag of this one.)
List(k) ==
  /\ runs[k].phase = "suite"
  /\ runs' = [runs EXCEPT ![k].phase =
         CASE runs[k].version = "none" -> "skipped"
           [] runs[k].version = "other" -> IF revs[k].of = Trunk THEN "skipped" ELSE "failed"
           [] OTHER -> IF runs[k].tagged THEN "skipped" ELSE "listed",
       ![k].ordinal = IF revs[k].of = Trunk THEN 0 ELSE NextOrdinal(StageOf(k))]
  /\ UNCHANGED <<revs, tags, built>>

\* Mutant: the tag is pushed by force.
HeldNever(stage, ordinal) == FALSE

\* The remote refuses a name it holds at another commit.
Held(stage, ordinal) ==
  \E t \in DOMAIN tags : tags[t].stage = stage /\ tags[t].ordinal = ordinal

\* The tag is pushed, and starts a publish run; the run itself may still fail.
PushTag(k) ==
  /\ runs[k].phase = "listed"
  /\ IF Held(StageOf(k), runs[k].ordinal)
     THEN /\ runs' = [runs EXCEPT ![k].phase = "failed"]
          /\ UNCHANGED <<tags, built>>
     ELSE /\ \E phase \in {"done", "failed"} : runs' = [runs EXCEPT ![k].phase = phase]
          /\ tags' = Append(tags, [stage |-> StageOf(k), ordinal |-> runs[k].ordinal, rev |-> k])
          /\ built' = Append(built, "queued")
  /\ UNCHANGED revs

\* A step fails: the checkout, the suite, the push.
StepFails(k) ==
  /\ runs[k].phase \in InProgress
  /\ runs' = [runs EXCEPT ![k].phase = "failed"]
  /\ UNCHANGED <<revs, tags, built>>

\* A failed run is run again: whole, or its tag job alone, with the outputs of the
\* changelog job as they were.  It takes its place in the group like a new one.
Rerun(k) ==
  /\ runs[k].phase = "failed" /\ Len(tags) < MaxTags
  /\ \E again \in {Fresh, [runs[k] EXCEPT !.phase = "pending"]} :
       runs' = [Displaced(revs[k].of) EXCEPT ![k] = again]
  /\ UNCHANGED <<revs, tags, built>>

\* Mutant: undated-release is switched off along with undated-entry.
PublishUnchecked(t) ==
  /\ built[t] = "queued"
  /\ built' = [built EXCEPT ![t] =
       IF tags[t].stage = Final /\ revs[tags[t].rev].entry \in {"dated", "open"} THEN "filed"
       ELSE "built"]
  /\ UNCHANGED <<revs, runs, tags>>

\* publish.yaml on a tag: it reads the changelog of the tagged commit, builds from the
\* tag, and files a release where the newest entry names this very tag.
Publish(t) ==
  /\ built[t] = "queued"
  /\ built' = [built EXCEPT ![t] =
       IF Red(tags[t].rev, FALSE) THEN "failed"
       ELSE IF tags[t].stage = Final /\ revs[tags[t].rev].entry \in {"dated", "open"} THEN "filed"
       ELSE "built"]
  /\ UNCHANGED <<revs, runs, tags>>

Works(k) == Read(k) \/ Resume(k) \/ List(k) \/ PushTag(k)

Next ==
  \/ \E of \in PRs \cup {Trunk} : Push(of)
  \/ \E k \in Revisions : Works(k) \/ StepFails(k) \/ Rerun(k)
  \/ \E t \in DOMAIN tags : Publish(t)

Spec == Init /\ [][Next]_vars

\* A runner starts the run whose turn it is, and goes on with it.
FairSpec == Spec /\ \A k \in 1..MaxRevisions : WF_vars(k \in Revisions /\ Works(k))

-----------------------------------------------------------------------------
(* Properties                                                              *)

RunType == [phase : Phases, version : Entries \cup {"unread"}, tagged : BOOLEAN, ordinal : Nat]

TypeOK ==
  /\ revs \in Seq([of : PRs \cup {Trunk}, entry : Entries])
  /\ runs \in [Revisions -> RunType]
  /\ tags \in Seq([stage : Stages \cup {Final}, ordinal : Nat, rev : Revisions])
  /\ built \in [DOMAIN tags -> {"queued", "built", "filed", "failed"}]

\* The candidates of a stage up to place n of the remote's tags.
CutBy(stage, n) == {t \in 1..n : tags[t].stage = stage}

\* release-candidate.yaml:9, 85-87: the ordinals of a stage count its candidates: they
\* advance by one in the order the tags are pushed, with no gap and none used twice, in
\* whatever order the runs of several pull requests listed the tags, failed or were run
\* again.
OrdinalsCount ==
  \A t \in DOMAIN tags :
    tags[t].stage # Final => tags[t].ordinal = Cardinality(CutBy(tags[t].stage, t))

\* The ordinals cut for a stage run from one without a gap.
Dense == \A stage \in Stages :
           {tags[t].ordinal : t \in CutBy(stage, Len(tags))} = 1..Cardinality(CutBy(stage, Len(tags)))

\* What a run has listed is held by a tag, or is the next ordinal: never beyond it.
ListedWithin == \A k \in Revisions :
                  runs[k].phase = "listed" /\ revs[k].of # Trunk =>
                    runs[k].ordinal \in 1..(Cardinality(CutBy(StageOf(k), Len(tags))) + 1)

\* What OrdinalsCount rests on: although the ordinal is read before it is pushed, one
\* that is refused by the remote or pushed is never one that leaves a gap.
OrdinalInv == TypeOK /\ OrdinalsCount /\ Dense /\ ListedWithin

\* The version is released from the trunk alone and once, from an entry that names it
\* and carries its date.
ReleasedFromTrunk ==
  \A t \in DOMAIN tags : built[t] = "filed" =>
    /\ revs[tags[t].rev].of = Trunk /\ revs[tags[t].rev].entry = "dated"
    /\ \A u \in DOMAIN tags : built[u] = "filed" => u = t

\* publish.yaml:35-36: a candidate cut after its release is tagged, from an entry still
\* open, is not built: the tag is there, but publishing refuses it.
LateCandidatesAreNotBuilt ==
  \A t, u \in DOMAIN tags :
    t < u /\ tags[t].stage = Final /\ revs[tags[u].rev].entry = "open" => built[u] \notin {"built", "filed"}

\* A revision's run gets its turn: it ends, or gives its place to a newer one.
RunsEnd == \A k \in 1..MaxRevisions :
             (k \in Revisions /\ runs[k].phase = "pending") ~> (k \in Revisions /\ runs[k].phase \in Ended)
=============================================================================
