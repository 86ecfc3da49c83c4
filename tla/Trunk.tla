-------------------------------- MODULE Trunk --------------------------------
(***************************************************************************)
(* The release-trunk ceremony of .forgejo/workflows/release.yaml: pull     *)
(* requests merge documents into main, each push starts a run that reads   *)
(* the changelog at its commit and, when a release is due, cuts its tag,   *)
(* publishes it, reads the release back, and moves the major tag.          *)
(*                                                                         *)
(* Runs are jobs of a forge: nothing in the workflow keeps two of them     *)
(* from overlapping, a step may fail, and a failed run may be run again at *)
(* the same commit.  Ordered confines them to the orderly case.            *)
(***************************************************************************)
EXTENDS Changelog, SequencesExt

CONSTANTS
  Docs,        \* the documents a pull request may leave on main
  Severities,  \* the severities the workflow's readings run under
  Ordered,     \* each run ends before the next push, and only the last is run again
  MaxCommits,  \* bound: pushes to main
  MaxDay       \* bound: days that pass

ASSUME TrunkAssumption ==
  /\ Ordered \in BOOLEAN
  /\ MaxCommits \in Nat /\ MaxDay \in Nat \ {0}
  /\ \A doc \in Docs :
       /\ Len(doc) \in Nat /\ DOMAIN doc = 1..Len(doc)
       /\ \A i \in DOMAIN doc : doc[i].kind \in Kinds /\ doc[i].date \in Int
       /\ \A i \in Released(doc) :
            doc[i].ver \in Versions /\ NamesVersion(TagOf(doc[i].ver))

\* The workflow reads with the register's severities, and what it may switch off
\* is not the check that keeps a version spellable as an OCI tag.
ASSUME SeveritiesAssumption ==
  /\ Severities \in [Checks -> {"error", "warning", "off"}]
  /\ Severities["oci-incompatible-version"] = "error"

VARIABLES
  main,   \* the commits of main, oldest first: [doc, day]
  tags,   \* the tags of the remote: [name, commit], all lightweight
  today,
  runs    \* the run of each commit: its phase, and the tags its checkout carries

vars == <<main, tags, today, runs>>

Phases == {"queued", "due", "cut", "published", "smoked", "done", "idle", "failed"}

Active(c) == runs[c].phase \notin {"done", "idle", "failed"}

Commits == DOMAIN main

-----------------------------------------------------------------------------
(* What a run reads: a full clone of commit c holding the tags in saw       *)

\* Mutant: a checkout one commit deep reaches the tags on that commit alone.
BaselinesShallow(c, saw) ==
  {t \in saw : /\ t.commit = c
               /\ NamesVersion(t.name) /\ ~Prerelease(ParseTag(t.name))}

\* A final version tag on c or on a commit below it.
Baselines(c, saw) ==
  {t \in saw : /\ t.commit <= c
               /\ NamesVersion(t.name) /\ ~Prerelease(ParseTag(t.name))}

\* state: the tags, their days, the reference tag and the document it carries.
State(c, saw) ==
  LET T == SetToSeq(saw)
      B == {n \in DOMAIN T : T[n] \in Baselines(c, saw)}
      ref == IF B = {} THEN 0
             ELSE CHOOSE n \in B : \A m \in B \ {n} : Outranks(T[n].name, T[m].name)
  IN  [kind |-> "read",
       tags |-> [n \in DOMAIN T |-> T[n].name],
       days |-> [n \in DOMAIN T |-> main[T[n].commit].day],
       ref  |-> ref,
       was  |-> IF ref = 0 THEN <<>> ELSE main[T[ref].commit].doc]

Reading(doc, c, saw) == Lint(doc, State(c, saw), today, Severities)

Newest(c) == main[c].doc[Latest(main[c].doc)].ver

Phase(c, p) == runs' = [runs EXCEPT ![c].phase = p]

-----------------------------------------------------------------------------
Init == main = <<>> /\ tags = {} /\ today = 1 /\ runs = <<>>

\* A pull request lands: main gains a commit, and a run is queued for the push.
Merge ==
  /\ Len(main) < MaxCommits
  /\ Ordered => \A c \in Commits : ~Active(c)
  /\ \E doc \in Docs : main' = Append(main, [doc |-> doc, day |-> today])
  /\ runs' = Append(runs, [phase |-> "queued", saw |-> {}])
  /\ UNCHANGED <<tags, today>>

Tick == today < MaxDay /\ today' = today + 1 /\ UNCHANGED <<main, tags, runs>>

\* Mutant: the refusal of a pre-release on main is left to a check that is off.
ReadUngated(c) ==
  /\ runs[c].phase = "queued"
  /\ LET doc == main[c].doc
         g == State(c, tags)
         findings == Reading(doc, c, tags)
         phase == IF Red(findings, "error") THEN "failed"
                  ELSE IF Latest(doc) = 0 THEN "idle"
                  ELSE IF ~Valid(findings) \/ Tagged(g, Newest(c)) THEN "idle"
                  ELSE "due"
     IN  runs' = [runs EXCEPT ![c] = [phase |-> phase, saw |-> tags]]
  /\ UNCHANGED <<main, tags, today>>

\* The run checks out its commit with every tag, lints, and decides: a finding at
\* error, or a pre-release on top, fails it; no version, or a tag naming it, ends it.
Read(c) ==
  /\ runs[c].phase = "queued"
  /\ LET doc == main[c].doc
         g == State(c, tags)
         findings == Reading(doc, c, tags)
         phase == IF Red(findings, "error") THEN "failed"
                  ELSE IF Latest(doc) = 0 THEN "idle"
                  ELSE IF Prerelease(Newest(c)) THEN "failed"
                  ELSE IF ~Valid(findings) \/ Tagged(g, Newest(c)) THEN "idle"
                  ELSE "due"
     IN  runs' = [runs EXCEPT ![c] = [phase |-> phase, saw |-> tags]]
  /\ UNCHANGED <<main, tags, today>>

\* A step fails: the checkout, the version the code pins, a build, a request to the
\* forge, the smoke test of the writers, a push.
StepFails(c) ==
  /\ Active(c)
  /\ Phase(c, "failed")
  /\ UNCHANGED <<main, tags, today>>

Held(name, c) == \E t \in tags : t.name = name /\ t.commit # c

\* Mutant: the tag is pushed by force, wherever the remote holds its name.
CutForced(c) ==
  /\ runs[c].phase = "due"
  /\ LET name == TagOf(Newest(c))
     IN  tags' = {t \in tags : t.name # name} \cup {[name |-> name, commit |-> c]}
  /\ Phase(c, "cut")
  /\ UNCHANGED <<main, today>>

\* The tag is pushed; the remote refuses a name it holds at another commit.
Cut(c) ==
  /\ runs[c].phase = "due"
  /\ LET name == TagOf(Newest(c))
     IN  IF Held(name, c) THEN Phase(c, "failed") /\ UNCHANGED tags
         ELSE Phase(c, "cut") /\ tags' = tags \cup {[name |-> name, commit |-> c]}
  /\ UNCHANGED <<main, today>>

\* The release page and its assets are up.
Publish(c) ==
  /\ runs[c].phase = "cut"
  /\ Phase(c, "published")
  /\ UNCHANGED <<main, tags, today>>

\* The tags of the run's own clone: those it fetched, and the one it cut.
Local(c) == runs[c].saw \cup {[name |-> TagOf(Newest(c)), commit |-> c]}

\* The published action reads the same checkout again, with its defaults.
Smoke(c) ==
  /\ runs[c].phase = "published"
  /\ Phase(c, IF Red(Reading(main[c].doc, c, Local(c)), "error") THEN "failed" ELSE "smoked")
  /\ UNCHANGED <<main, tags, today>>

\* Mutant: the major tag is created once, and left where it is from then on.
MoveMajorOnce(c) ==
  /\ runs[c].phase = "smoked"
  /\ LET name == MajorTag(Newest(c))
     IN  tags' = IF \E t \in tags : t.name = name THEN tags
                 ELSE tags \cup {[name |-> name, commit |-> c]}
  /\ Phase(c, "done")
  /\ UNCHANGED <<main, today>>

\* The major tag is forced to this commit, wherever it was.
MoveMajor(c) ==
  /\ runs[c].phase = "smoked"
  /\ LET name == MajorTag(Newest(c))
     IN  tags' = {t \in tags : t.name # name} \cup {[name |-> name, commit |-> c]}
  /\ Phase(c, "done")
  /\ UNCHANGED <<main, today>>

\* A failed run is run again at its commit.
Rerun(c) ==
  /\ runs[c].phase = "failed"
  /\ Ordered => c = Len(main)
  /\ Phase(c, "queued")
  /\ UNCHANGED <<main, tags, today>>

Step(c) == Read(c) \/ StepFails(c) \/ Cut(c) \/ Publish(c) \/ Smoke(c) \/ MoveMajor(c) \/ Rerun(c)

Next == Merge \/ Tick \/ \E c \in Commits : Step(c)

Spec == Init /\ [][Next]_vars

-----------------------------------------------------------------------------
TypeOK ==
  /\ main \in Seq([doc : Docs, day : 1..MaxDay])
  /\ tags \subseteq [name : TagForms, commit : Commits]
  /\ \A t \in tags : NamesVersion(t.name)
  /\ today \in 1..MaxDay
  /\ runs \in [Commits -> [phase : Phases, saw : SUBSET [name : TagForms, commit : Commits]]]

\* The tags releases were cut at, the moving ones left aside.
ReleaseTags == {t \in tags : Len(t.name.core) = 3}

\* The newest entry of commit c is one the ceremony may tag: a final version that
\* the registry's tag grammar takes.
Releasable(c) == /\ Latest(main[c].doc) # 0
                 /\ ~Prerelease(Newest(c))
                 /\ Newest(c).build = <<>>

\* Whatever order runs interleave in, a run past its decision stands on a commit
\* that may be released; each release tag spells the newest version of its own
\* commit; and no name is on two commits.
ReleaseInv ==
  /\ TypeOK
  /\ \A c \in Commits :
       runs[c].phase \in {"due", "cut", "published", "smoked"} => Releasable(c)
  /\ \A t \in ReleaseTags : Releasable(t.commit) /\ t.name = TagOf(Newest(t.commit))
  /\ \A t, u \in ReleaseTags : t.name = u.name => t = u

\* A version is released once: no two release tags name it.
OneTagPerVersion ==
  \A t, u \in ReleaseTags : Compare(ParseTag(t.name), ParseTag(u.name)) = 0 => t = u

\* A release tag, once pushed, stays on its commit for good.
TagsNeverMove == [][ReleaseTags \subseteq ReleaseTags']_vars

\* Releases rise along main: a later release is a higher version.
ReleasesRise ==
  \A t, u \in ReleaseTags :
    t.commit < u.commit => Compare(ParseTag(t.name), ParseTag(u.name)) < 0

\* The entry of a document naming a version, and what a release froze of it.
Record(doc, v) == LET i == Now(doc, v)
                  IN  IF i = 0 THEN <<>> ELSE <<doc[i].date, doc[i].body>>

\* What a release published stands in every later release as it was released.
\* (GLOSSARY.md:55-56: a released entry "no longer changes".)
ReleasedEntriesKept ==
  \A t, u \in ReleaseTags :
    t.commit < u.commit =>
      LET v == ParseTag(t.name)
      IN  Record(main[u.commit].doc, v) = Record(main[t.commit].doc, v)

\* A release whose run is done is where the major tag of its line points, or has
\* been left behind by a later one: the tag consumers follow never goes back.
MajorTagsKeepUp ==
  \A t \in ReleaseTags :
    runs[t.commit].phase = "done" =>
      \E m \in tags : /\ m.name = MajorTag(ParseTag(t.name))
                      /\ m.commit >= t.commit

\* The document of the newest release on main, kept as it was released, reads green
\* on every later day: no release leaves behind a document that lint then refuses.
ReleaseStaysGreen ==
  \A t \in tags : t \in ReleaseTags /\ State(Len(main), tags).was = main[t.commit].doc
    => Valid(Reading(main[t.commit].doc, Len(main), tags))

\* No document on main names a day ahead of the one it landed on: what lint asks
\* of a pull request, which may then land later than the day it names.
NoneAhead == \A c \in Commits : DateFuture(main[c].doc, main[c].day) = {}

\* git.go:83-88: a check never asks for an edit that another forbids, so "the
\* repository has a move that turns the run green".  Stated where every document
\* landed on the day it names or later (the pull request open across midnight of
\* CHANGELOG.md:140): some document would then lint clean on top of main.
SomeMoveIsGreen ==
  main # <<>> /\ NoneAhead => \E doc \in Docs : Valid(Reading(doc, Len(main), tags))
=============================================================================
