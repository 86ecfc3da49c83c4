---------------------------- MODULE Publication ----------------------------
(***************************************************************************)
(* From a tag to a binary on a runner: the publishing half of              *)
(* .forgejo/workflows/release.yaml in its single requests, the mirror's    *)
(* .github/workflows/mirror-release.yaml, and install.sh as a consumer of  *)
(* the major tag runs it.  Which commit is released is decided in Trunk;   *)
(* here a release is its number along main, and its run starts when the    *)
(* commit lands.                                                           *)
(*                                                                         *)
(* Two forges hold releases.  The first records a release of its own for   *)
(* every tag it is pushed, some time after the push, and the request that  *)
(* creates the release may come before, during or after.  The second is    *)
(* pushed the tag some time later.                                         *)
(***************************************************************************)
EXTENDS Integers, Sequences, FiniteSets

CONSTANTS
  Releases,    \* the releases along main, by number
  Assets,      \* the names of a release's assets, in the order of their upload
  Sums,        \* the one among them that lists the others' checksums
  Posts,       \* how often the creation of a release is requested
  Polls,       \* how often the mirror looks for the release
  MirrorRuns   \* bound: how often the mirror's workflow is run for one tag

ASSUME PublicationAssumption ==
  /\ Releases \subseteq Nat \ {0}
  /\ Assets \in Seq(STRING)
  /\ Assets # <<>> /\ Sums = Assets[Len(Assets)]
  /\ Posts \in Nat \ {0} /\ Polls \in Nat \ {0} /\ MirrorRuns \in Nat \ {0}

VARIABLES
  tagged,    \* the releases whose tag the first forge holds
  page,      \* what the first forge has for each: nothing, its own record, the release
  uploaded,  \* the assets of each on the first forge
  run,       \* the run of each: [phase, tries]
  major,     \* the release the major tag points at: none or one
  mirror,    \* the mirror's run for each tag: [phase, tries, runs, left]
  shown,     \* the releases the second forge shows
  copied,    \* the assets of each on the second forge
  user       \* a consumer of the major tag: [phase, ver, asks, cut]

vars == <<tagged, page, uploaded, run, major, mirror, shown, copied, user>>
first == <<tagged, page, uploaded, run, major>>
second == <<mirror, shown, copied>>

AllAssets == {Assets[i] : i \in DOMAIN Assets}

Ended == {"done", "idle", "failed"}
Running(r) == run[r].phase \notin Ended \cup {"none"}

\* What a download of asset a of release r finds on a forge.
OnFirst(r, a) == page[r] = "release" /\ a \in uploaded[r]
OnSecond(r, a) == r \in shown /\ a \in copied[r]

-----------------------------------------------------------------------------
Init ==
  /\ tagged = {} /\ major = {} /\ shown = {}
  /\ page = [r \in Releases |-> "none"]
  /\ uploaded = [r \in Releases |-> {}] /\ copied = [r \in Releases |-> {}]
  /\ run = [r \in Releases |-> [phase |-> "none", tries |-> 0]]
  /\ mirror = [r \in Releases |-> [phase |-> "none", tries |-> 0, runs |-> 0, left |-> {}]]
  /\ user = [phase |-> "idle", ver |-> {}, asks |-> <<>>, cut |-> FALSE]

RunPhase(r, p) == run' = [run EXCEPT ![r] = [phase |-> p, tries |-> 0]]

-----------------------------------------------------------------------------
(* The run of a release                                                    *)

\* The commit naming release r lands, after those before it: its run is queued.
Land(r) ==
  /\ run[r].phase = "none"
  /\ \A s \in Releases : s < r => run[s].phase # "none"
  /\ RunPhase(r, "queued")
  /\ UNCHANGED <<tagged, page, uploaded, major, second, user>>

\* The changelog is read: a version that is tagged already leaves nothing to do.
Decide(r) ==
  /\ run[r].phase = "queued"
  /\ RunPhase(r, IF r \in tagged THEN "idle" ELSE "due")
  /\ UNCHANGED <<tagged, page, uploaded, major, second, user>>

Cut(r) ==
  /\ run[r].phase = "due"
  /\ RunPhase(r, "cut")
  /\ tagged' = tagged \cup {r}
  /\ UNCHANGED <<page, uploaded, major, second, user>>

\* The first forge gets round to recording a release of its own for the tag.
Record(r) ==
  /\ r \in tagged /\ page[r] = "none"
  /\ page' = [page EXCEPT ![r] = "record"]
  /\ UNCHANGED <<tagged, uploaded, run, major, second, user>>

\* The request creates the release, or turns the forge's record into it.
Post(r) ==
  /\ run[r].phase = "cut" /\ page[r] # "release"
  /\ page' = [page EXCEPT ![r] = "release"]
  /\ RunPhase(r, "created")
  /\ UNCHANGED <<tagged, uploaded, major, second, user>>

\* It fails: on the record being made at that moment, on a release that is there
\* already, or on the way there, or on the way back, when the release is made
\* although the run does not hear of it.  The last failure ends the run.
PostFails(r) ==
  /\ run[r].phase = "cut"
  /\ IF run[r].tries + 1 = Posts THEN RunPhase(r, "failed")
     ELSE run' = [run EXCEPT ![r].tries = @ + 1]
  /\ page' \in {page, [page EXCEPT ![r] = "release"]}
  /\ UNCHANGED <<tagged, uploaded, major, second, user>>

\* Mutant: the release counts as published with its first asset.
UploadFirst(r) ==
  /\ run[r].phase = "created"
  /\ LET asset == Assets[Cardinality(uploaded[r]) + 1]
     IN  uploaded' = [uploaded EXCEPT ![r] = @ \cup {asset}]
  /\ RunPhase(r, "published")
  /\ UNCHANGED <<tagged, page, major, second, user>>

\* The assets go up one by one, in the order of the shell's glob.
Upload(r) ==
  /\ run[r].phase = "created"
  /\ \E n \in DOMAIN Assets :
       /\ \A m \in DOMAIN Assets : m < n <=> Assets[m] \in uploaded[r]
       /\ uploaded' = [uploaded EXCEPT ![r] = @ \cup {Assets[n]}]
       /\ RunPhase(r, IF n = Len(Assets) THEN "published" ELSE "created")
  /\ UNCHANGED <<tagged, page, major, second, user>>

\* The published actions are run: install.sh finds the binary on either forge.
Smoke(r) ==
  /\ run[r].phase = "published"
  /\ \E a \in AllAssets \ {Sums} : \/ OnFirst(r, a) /\ OnFirst(r, Sums)
                                   \/ OnSecond(r, a) /\ OnSecond(r, Sums)
  /\ RunPhase(r, "smoked")
  /\ UNCHANGED <<tagged, page, uploaded, major, second, user>>

MoveMajor(r) ==
  /\ run[r].phase = "smoked"
  /\ major' = {r}
  /\ RunPhase(r, "done")
  /\ UNCHANGED <<tagged, page, uploaded, second, user>>

\* Any step of the run may fail, and ends it.
StepFails(r) ==
  /\ Running(r)
  /\ RunPhase(r, "failed")
  /\ UNCHANGED <<tagged, page, uploaded, major, second, user>>

\* A failed run is run again, from its start.
Rerun(r) ==
  /\ run[r].phase = "failed"
  /\ RunPhase(r, "queued")
  /\ UNCHANGED <<tagged, page, uploaded, major, second, user>>

-----------------------------------------------------------------------------
(* The mirror                                                              *)

\* The mirror's run for r is in phase p, its wait over, with assets left to replace.
MirrorAt(r, p, left) ==
  [mirror EXCEPT ![r] = [phase |-> p, tries |-> 0, runs |-> @.runs, left |-> left]]

\* The tag reaches the second forge, and starts the mirror's workflow there.
Arrive(r) ==
  /\ r \in tagged /\ mirror[r].phase = "none"
  /\ mirror' = [mirror EXCEPT ![r].phase = "waiting", ![r].runs = 1]
  /\ UNCHANGED <<first, shown, copied, user>>

\* Mutant: any release page will do, however many assets it has.
PollPage(r) ==
  /\ mirror[r].phase = "waiting"
  /\ mirror' =
       IF page[r] = "release" THEN MirrorAt(r, "complete", {})
       ELSE IF mirror[r].tries + 1 = Polls THEN MirrorAt(r, "failed", {})
       ELSE [mirror EXCEPT ![r].tries = @ + 1]
  /\ UNCHANGED <<first, shown, copied, user>>

\* Mutant: it asks without end.
PollForever(r) ==
  /\ mirror[r].phase = "waiting"
  /\ page[r] = "release" /\ uploaded[r] = AllAssets
  /\ mirror' = MirrorAt(r, "complete", {})
  /\ UNCHANGED <<first, shown, copied, user>>

\* It asks the first forge for the release until that has exactly the assets
\* expected, and gives up after so many times.
Poll(r) ==
  /\ mirror[r].phase = "waiting"
  /\ mirror' =
       IF page[r] = "release" /\ uploaded[r] = AllAssets THEN MirrorAt(r, "complete", {})
       ELSE IF mirror[r].tries + 1 = Polls THEN MirrorAt(r, "failed", {})
       ELSE [mirror EXCEPT ![r].tries = @ + 1]
  /\ UNCHANGED <<first, shown, copied, user>>

\* The assets are downloaded, and hold against the checksums among them.
Download(r) ==
  /\ mirror[r].phase = "complete"
  /\ mirror' = [mirror EXCEPT ![r].phase = "fetched"]
  /\ UNCHANGED <<first, shown, copied, user>>

\* No release of the tag yet: one is created with every asset, and shown once it has them.
Create(r) ==
  /\ mirror[r].phase = "fetched" /\ r \notin shown
  /\ mirror' = [mirror EXCEPT ![r].phase = "done"]
  /\ shown' = shown \cup {r}
  /\ copied' = [copied EXCEPT ![r] = AllAssets]
  /\ UNCHANGED <<first, user>>

\* There is one: its assets are replaced, each taken down before it is put up again.
Edit(r) ==
  /\ mirror[r].phase = "fetched" /\ r \in shown
  /\ mirror' = MirrorAt(r, "replacing", AllAssets)
  /\ UNCHANGED <<first, shown, copied, user>>

TakeDown(r) ==
  /\ mirror[r].phase = "replacing"
  /\ \E a \in mirror[r].left \cap copied[r] : copied' = [copied EXCEPT ![r] = @ \ {a}]
  /\ UNCHANGED <<first, mirror, shown, user>>

PutUp(r) ==
  /\ mirror[r].phase = "replacing"
  /\ \E a \in mirror[r].left \ copied[r] :
       /\ copied' = [copied EXCEPT ![r] = @ \cup {a}]
       /\ mirror' = [mirror EXCEPT ![r].left = @ \ {a},
                                   ![r].phase = IF mirror[r].left = {a} THEN "done" ELSE @]
  /\ UNCHANGED <<first, shown, user>>

MirrorFails(r) ==
  /\ mirror[r].phase \notin {"none", "done", "failed"}
  /\ mirror' = MirrorAt(r, "failed", {})
  /\ UNCHANGED <<first, shown, copied, user>>

\* Somebody runs the mirror's workflow for the tag again.
MirrorAgain(r) ==
  /\ mirror[r].phase \in {"done", "failed"} /\ mirror[r].runs < MirrorRuns
  /\ mirror' = [mirror EXCEPT ![r] =
       [phase |-> "waiting", tries |-> 0, runs |-> @.runs + 1, left |-> {}]]
  /\ UNCHANGED <<first, shown, copied, user>>

-----------------------------------------------------------------------------
(* A consumer that follows the major tag                                   *)

\* The two downloads asked of each forge, its own forge first.
Asks(own, a) ==
  LET both(forge) == <<[forge |-> forge, asset |-> a], [forge |-> forge, asset |-> Sums]>>
  IN  IF own = "first" THEN both("first") \o both("second") ELSE both("second") \o both("first")

\* The action runs at the commit the major tag points at, whose release it names.
Begin ==
  /\ user.phase # "asking" /\ major # {}
  /\ \E own \in {"first", "second"}, a \in AllAssets \ {Sums} :
       user' = [phase |-> "asking", ver |-> major, asks |-> Asks(own, a), cut |-> FALSE]
  /\ UNCHANGED <<first, second>>

There(ask) == \E r \in user.ver : IF ask.forge = "first" THEN OnFirst(r, ask.asset)
                                  ELSE OnSecond(r, ask.asset)

\* Mutant: one forge alone is asked.
NextForgeNone(asks) == <<>>

\* What is left to ask once a forge has failed one of its two downloads.
NextForge(asks) ==
  LET others == {n \in DOMAIN asks : asks[n].forge # asks[1].forge}
  IN  IF others = {} THEN <<>>
      ELSE SubSeq(asks, CHOOSE n \in others : \A m \in others : n <= m, Len(asks))

\* A download succeeds; the second from one forge is the binary's checksum, and ends it.
Fetch ==
  /\ user.phase = "asking" /\ user.asks # <<>> /\ There(user.asks[1])
  /\ user' = IF user.asks[1].asset = Sums THEN [phase |-> "installed", ver |-> {}, asks |-> <<>>, cut |-> FALSE]
             ELSE [user EXCEPT !.asks = Tail(@)]
  /\ UNCHANGED <<first, second>>

\* A download fails, the asset missing or the forge out of reach: the next is asked.
Miss ==
  /\ user.phase = "asking" /\ user.asks # <<>>
  /\ \E cut \in {user.cut, TRUE} :
       /\ cut \/ ~There(user.asks[1])
       /\ user' = [user EXCEPT !.asks = NextForge(@), !.cut = cut,
                               !.phase = IF NextForge(user.asks) = <<>> THEN "failed" ELSE @]
  /\ UNCHANGED <<first, second>>

-----------------------------------------------------------------------------
Works(r) == Decide(r) \/ Cut(r) \/ Post(r) \/ PostFails(r) \/ Upload(r) \/ Smoke(r) \/ MoveMajor(r)
Mirrors(r) == Poll(r) \/ Download(r) \/ Create(r) \/ Edit(r) \/ TakeDown(r) \/ PutUp(r)

Next ==
  \/ \E r \in Releases :
       \/ Land(r) \/ Record(r) \/ Works(r) \/ StepFails(r) \/ Rerun(r)
       \/ Arrive(r) \/ Mirrors(r) \/ MirrorFails(r) \/ MirrorAgain(r)
  \/ Begin \/ Fetch \/ Miss

Spec == Init /\ [][Next]_vars

\* A runner goes on with the run it has started, and the forges get round to what a
\* tag sets off.  Nothing is assumed of steps that fail, or of people.
Fairness ==
  /\ \A r \in Releases : WF_vars(Works(r)) /\ WF_vars(Mirrors(r))
                         /\ WF_vars(Record(r)) /\ WF_vars(Arrive(r))
  /\ WF_vars(Fetch \/ Miss)

FairSpec == Spec /\ Fairness

\* Somebody runs every failed run again, too.
TirelessSpec == FairSpec /\ \A r \in Releases : WF_vars(Rerun(r)) /\ WF_vars(MirrorAgain(r))

-----------------------------------------------------------------------------
(* Properties                                                              *)

Complete == {r \in Releases : page[r] = "release" /\ uploaded[r] = AllAssets}

RunPhases == {"none", "queued", "due", "cut", "created", "published", "smoked"} \cup Ended
MirrorPhases == {"none", "waiting", "complete", "fetched", "replacing", "done", "failed"}

TypeOK ==
  /\ tagged \subseteq Releases /\ major \subseteq Releases /\ shown \subseteq Releases
  /\ page \in [Releases -> {"none", "record", "release"}]
  /\ uploaded \in [Releases -> SUBSET AllAssets] /\ copied \in [Releases -> SUBSET AllAssets]
  /\ run \in [Releases -> [phase : RunPhases, tries : Nat]]
  /\ mirror \in [Releases -> [phase : MirrorPhases, tries : Nat, runs : Nat, left : SUBSET AllAssets]]
  /\ user.phase \in {"idle", "asking", "installed", "failed"}

\* release.yaml:138-141, 191-193: the major tag points only at releases that are there
\* in full, "so a broken release never reaches the consumers that follow it", and the
\* mirror shows none that is not; what is complete stays complete.
Promise == INSTANCE Delivery WITH complete <- Complete, mirrored <- shown,
                                  followed <- major, Releases <- Releases
Delivers == Promise!Spec

\* What each run stands on: past its uploads, and in the mirror's downloads, a release
\* that is complete; before them, one that has no assets, and before its tag no page.
Backed == \A r \in Releases :
            /\ run[r].phase \in {"published", "smoked"} => r \in Complete
            /\ run[r].phase = "created" => page[r] = "release"
            /\ run[r].phase = "due" => r \notin tagged
            /\ run[r].phase = "cut" => r \in tagged /\ uploaded[r] = {}
            /\ r \notin tagged => page[r] = "none" /\ uploaded[r] = {}
            /\ mirror[r].phase \in {"complete", "fetched", "replacing"} => r \in Complete

\* The invariant behind it: the runs stand on what they should, and the major tag and
\* the second forge on complete releases.
DeliveryInv == TypeOK /\ Backed /\ major \subseteq Complete /\ shown \subseteq Complete

\* install.sh:20-21: following the major tag, an install fails only where a forge was out
\* of reach: whatever is being uploaded, mirrored or replaced meanwhile, one of the two
\* always has the binary with its checksum.
InstallNeedsOneForge == user.phase = "failed" => user.cut

\* A run that has landed ends, whether it is served or not: its retries are bounded,
\* and so is the mirror's wait.
RunsEnd ==
  \A r \in Releases : /\ run[r].phase = "queued" ~> run[r].phase \in Ended
                      /\ mirror[r].phase = "waiting" ~> mirror[r].phase \in {"done", "failed"}

\* install.sh:20: "Both forges carry every release": a release that is tagged comes to
\* be complete on the first, without which the second cannot have it.
ForgeCarriesIt == \A r \in Releases : r \in tagged ~> r \in Complete
=============================================================================
