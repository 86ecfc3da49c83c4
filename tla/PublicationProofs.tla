-------------------------- MODULE PublicationProofs --------------------------
(***************************************************************************)
(* Theorems about Publication, for any number of releases, assets,         *)
(* requests and runs: what the major tag and the mirror name is complete,  *)
(* and publishing keeps what Delivery promises.                            *)
(***************************************************************************)
EXTENDS Publication, SequenceTheorems, TLAPS

\* A release lacking its last asset alone is complete with it (Upload).
LEMMA LastAsset ==
  ASSUME NEW have \in SUBSET AllAssets,
         \A m \in DOMAIN Assets : m < Len(Assets) <=> Assets[m] \in have
  PROVE  have \cup {Assets[Len(Assets)]} = AllAssets
<1>1. \A a \in AllAssets : a \in have \/ a = Assets[Len(Assets)]
  <2>1. TAKE a \in AllAssets
  <2>2. PICK m \in DOMAIN Assets : a = Assets[m]
    BY <2>1 DEF AllAssets
  <2>3. DOMAIN Assets = 1..Len(Assets) /\ Len(Assets) \in Nat
    BY PublicationAssumption
  <2>4. m < Len(Assets) \/ m = Len(Assets)
    BY <2>2, <2>3
  <2>5. QED
    BY <2>2, <2>4
<1>2. Assets[Len(Assets)] \in AllAssets
  <2>1. Len(Assets) \in DOMAIN Assets
    BY PublicationAssumption
  <2>2. QED
    BY <2>1 DEF AllAssets
<1>3. QED
  BY <1>1, <1>2

-----------------------------------------------------------------------------
(* The type of the state                                                   *)

LEMMA InitTyped == Init => TypeOK
  BY DEF Init, TypeOK, RunPhases, MirrorPhases, Ended

\* The steps of a release's run keep the types (Land to Rerun).
LEMMA RunTyped ==
  ASSUME TypeOK, NEW r \in Releases,
         Land(r) \/ Record(r) \/ Works(r) \/ StepFails(r) \/ Rerun(r)
  PROVE  TypeOK'
<1> USE DEF TypeOK, RunPhases, MirrorPhases, Ended, RunPhase, second
<1>1. CASE Land(r) BY <1>1 DEF Land
<1>2. CASE Record(r) BY <1>2 DEF Record
<1>3. CASE Decide(r) BY <1>3 DEF Decide
<1>4. CASE Cut(r) BY <1>4 DEF Cut
<1>5. CASE Post(r) BY <1>5 DEF Post
<1>6. CASE PostFails(r)
  <2>1. CASE RunPhase(r, "failed") BY <1>6, <2>1 DEF PostFails
  <2>2. CASE run' = [run EXCEPT ![r].tries = @ + 1] BY <1>6, <2>2 DEF PostFails
  <2>3. QED
    BY <1>6, <2>1, <2>2 DEF PostFails
<1>7. CASE Upload(r) 
  <2>1. PICK n \in DOMAIN Assets :
          /\ uploaded' = [uploaded EXCEPT ![r] = @ \cup {Assets[n]}]
          /\ RunPhase(r, IF n = Len(Assets) THEN "published" ELSE "created")
    BY <1>7 DEF Upload
  <2>2. Assets[n] \in AllAssets
    BY DEF AllAssets
  <2>3. uploaded' \in [Releases -> SUBSET AllAssets]
    BY <2>1, <2>2
  <2>4. PICK p \in {"published", "created"} : run' = [run EXCEPT ![r] = [phase |-> p, tries |-> 0]]
    BY <2>1
  <2>5. run' \in [Releases -> [phase : RunPhases, tries : Nat]]
    BY <2>4
  <2>6. QED
    BY <1>7, <2>3, <2>5 DEF Upload
<1>8. CASE Smoke(r) BY <1>8 DEF Smoke
<1>9. CASE MoveMajor(r) BY <1>9 DEF MoveMajor
<1>10. CASE StepFails(r) BY <1>10 DEF StepFails
<1>11. CASE Rerun(r) BY <1>11 DEF Rerun
<1>12. QED
  BY <1>1, <1>2, <1>3, <1>4, <1>5, <1>6, <1>7, <1>8, <1>9, <1>10, <1>11 DEF Works

\* The steps of the mirror keep the types (Arrive to MirrorAgain).
LEMMA MirrorTyped ==
  ASSUME TypeOK, NEW r \in Releases,
         Arrive(r) \/ Mirrors(r) \/ MirrorFails(r) \/ MirrorAgain(r)
  PROVE  TypeOK'
<1> USE DEF TypeOK, MirrorPhases, MirrorAt, first
<1>1. CASE Arrive(r) BY <1>1 DEF Arrive
<1>2. CASE Poll(r)
  <2>1. CASE mirror' = MirrorAt(r, "complete", {})
    BY <1>2, <2>1 DEF Poll
  <2>2. CASE mirror' = MirrorAt(r, "failed", {})
    BY <1>2, <2>2 DEF Poll
  <2>3. CASE mirror' = [mirror EXCEPT ![r].tries = @ + 1]
    BY <1>2, <2>3 DEF Poll
  <2>4. QED
    BY <1>2, <2>1, <2>2, <2>3 DEF Poll
<1>3. CASE Download(r) BY <1>3 DEF Download
<1>4. CASE Create(r) BY <1>4 DEF Create
<1>5. CASE Edit(r) BY <1>5 DEF Edit
<1>6. CASE TakeDown(r) BY <1>6 DEF TakeDown
<1>7. CASE PutUp(r)
  <2>1. PICK a \in mirror[r].left \ copied[r] :
          /\ copied' = [copied EXCEPT ![r] = @ \cup {a}]
          /\ mirror' = [mirror EXCEPT ![r].left = @ \ {a},
                                      ![r].phase = IF mirror[r].left = {a} THEN "done" ELSE @]
    BY <1>7 DEF PutUp
  <2>2. a \in AllAssets /\ copied' \in [Releases -> SUBSET AllAssets]
    BY <2>1
  <2>3. PICK p \in {"done", "replacing"} :
          mirror' = [mirror EXCEPT ![r].left = @ \ {a}, ![r].phase = p]
    BY <1>7, <2>1 DEF PutUp
  <2>4. mirror' \in [Releases -> [phase : MirrorPhases, tries : Nat, runs : Nat, left : SUBSET AllAssets]]
    BY <2>3
  <2>5. QED
    BY <1>7, <2>2, <2>4 DEF PutUp
<1>8. CASE MirrorFails(r) BY <1>8 DEF MirrorFails
<1>9. CASE MirrorAgain(r) BY <1>9 DEF MirrorAgain
<1>10. QED
  BY <1>1, <1>2, <1>3, <1>4, <1>5, <1>6, <1>7, <1>8, <1>9 DEF Mirrors

\* The steps of a consumer keep the types, and touch neither forge.
LEMMA UserTyped ==
  ASSUME TypeOK, Begin \/ Fetch \/ Miss
  PROVE  TypeOK' /\ UNCHANGED <<first, second>>
<1> USE DEF TypeOK, first, second
<1>1. CASE Begin BY <1>1 DEF Begin
<1>2. CASE Fetch BY <1>2 DEF Fetch
<1>3. CASE Miss BY <1>3 DEF Miss
<1>4. QED
  BY <1>1, <1>2, <1>3

-----------------------------------------------------------------------------
(* What a step does to the releases that are complete                      *)

\* A step that concerns one release, and takes nothing from it once it is complete,
\* leaves what is complete as it was, or adds that release.
LEMMA CompleteGrows ==
  ASSUME NEW r \in Releases,
         \A s \in Releases \ {r} : page'[s] = page[s] /\ uploaded'[s] = uploaded[s],
         r \in Complete => r \in Complete'
  PROVE  Complete' = Complete \/ Complete' = Complete \cup {r}
<1>1. \A s \in Releases \ {r} : s \in Complete' <=> s \in Complete
  BY DEF Complete
<1>2. Complete \subseteq Releases /\ Complete' \subseteq Releases
  BY DEF Complete
<1>3. QED
  BY <1>1, <1>2

\* A step of the publishing run (Upload): the assets that go up before it were not all.
LEMMA UploadStep ==
  ASSUME TypeOK, Backed, NEW r \in Releases, Upload(r)
  PROVE  /\ Backed' /\ UNCHANGED <<shown, major>>
         /\ Complete' = Complete \/ Complete' = Complete \cup {r}
<1>1. PICK n \in DOMAIN Assets :
        /\ \A m \in DOMAIN Assets : m < n <=> Assets[m] \in uploaded[r]
        /\ uploaded' = [uploaded EXCEPT ![r] = @ \cup {Assets[n]}]
        /\ RunPhase(r, IF n = Len(Assets) THEN "published" ELSE "created")
  BY DEF Upload
<1>2. /\ run[r].phase = "created" /\ page[r] = "release" /\ r \in tagged
      /\ UNCHANGED <<tagged, page, major, mirror, shown, copied, user>>
  BY DEF Upload, second, Backed
<1>3. r \notin Complete
  <2>1. Assets[n] \notin uploaded[r] /\ Assets[n] \in AllAssets
    BY <1>1, PublicationAssumption DEF AllAssets
  <2>2. QED
    BY <2>1 DEF Complete
<1>4. uploaded'[r] = uploaded[r] \cup {Assets[n]}
      /\ \A s \in Releases \ {r} : uploaded'[s] = uploaded[s]
  BY <1>1 DEF TypeOK
<1>5. Complete' = Complete \/ Complete' = Complete \cup {r}
  BY <1>2, <1>3, <1>4, CompleteGrows
<1>6. n = Len(Assets) => r \in Complete'
  <2>1. SUFFICES ASSUME n = Len(Assets) PROVE uploaded'[r] = AllAssets
    BY <1>2 DEF Complete
  <2>2. uploaded[r] \in SUBSET AllAssets
    BY DEF TypeOK
  <2>3. QED
    BY <1>1, <1>4, <2>1, <2>2, LastAsset
<1>7. Complete \subseteq Complete'
  BY <1>5
<1>8. /\ run'[r].phase = IF n = Len(Assets) THEN "published" ELSE "created"
      /\ \A s \in Releases \ {r} : run'[s] = run[s]
  BY <1>1 DEF TypeOK, RunPhase
<1>9. Backed'
  BY <1>2, <1>4, <1>6, <1>7, <1>8 DEF Backed
<1>10. QED
  BY <1>2, <1>5, <1>9

\* A run goes to another phase, which what is on the first forge allows.
LEMMA PhaseStep ==
  ASSUME Backed, NEW r \in Releases,
         UNCHANGED <<page, uploaded, mirror>>,
         tagged' = tagged \/ tagged' = tagged \cup {r},
         \A s \in Releases \ {r} : run'[s] = run[s],
         run'[r].phase # "created",
         run'[r].phase \in {"published", "smoked"} => r \in Complete,
         run'[r].phase = "due" => r \notin tagged',
         run'[r].phase = "cut" => r \in tagged' /\ uploaded[r] = {}
  PROVE  Backed' /\ Complete' = Complete
<1>1. Complete' = Complete
  BY DEF Complete
<1>2. QED
  BY <1>1 DEF Backed

\* One of the run's other steps: it leaves what is complete, or moves the major tag to a
\* release that is.
LEMMA RunStep ==
  ASSUME TypeOK, Backed, NEW r \in Releases,
         Land(r) \/ Record(r) \/ Decide(r) \/ Cut(r) \/ Smoke(r) \/ MoveMajor(r)
         \/ StepFails(r) \/ Rerun(r)
  PROVE  /\ Backed' /\ UNCHANGED shown
         /\ Complete' = Complete
         /\ major' = major \/ (r \in Complete /\ major' = {r})
<1> DEFINE Kept == UNCHANGED <<page, uploaded, mirror, shown>>
           To(p) == run'[r].phase = p /\ \A s \in Releases \ {r} : run'[s] = run[s]
<1>1. CASE Land(r)
  <2>1. Kept /\ UNCHANGED <<tagged, major>> /\ To("queued")
    BY <1>1 DEF Land, RunPhase, second, TypeOK
  <2>2. QED
    BY <2>1, PhaseStep
<1>2. CASE Record(r)
  <2>1. /\ UNCHANGED <<tagged, uploaded, run, mirror, shown, major>>
        /\ r \in tagged /\ page[r] = "none" /\ page'[r] = "record"
        /\ \A s \in Releases \ {r} : page'[s] = page[s]
    BY <1>2 DEF Record, second, TypeOK
  <2>2. Complete' = Complete
    BY <2>1 DEF Complete
  <2>3. Backed'
    BY <2>1, <2>2 DEF Backed
  <2>4. QED
    BY <2>1, <2>2, <2>3
<1>3. CASE Decide(r)
  <2>1. Kept /\ UNCHANGED <<tagged, major>> /\ To(IF r \in tagged THEN "idle" ELSE "due")
    BY <1>3 DEF Decide, RunPhase, second, TypeOK
  <2>2. QED
    BY <2>1, PhaseStep
<1>4. CASE Cut(r)
  <2>1. Kept /\ UNCHANGED major /\ To("cut") /\ tagged' = tagged \cup {r}
    BY <1>4 DEF Cut, RunPhase, second, TypeOK
  <2>2. uploaded[r] = {}
    BY <1>4 DEF Cut, Backed
  <2>3. QED
    BY <2>1, <2>2, PhaseStep
<1>5. CASE Smoke(r)
  <2>1. Kept /\ UNCHANGED <<tagged, major>> /\ To("smoked")
    BY <1>5 DEF Smoke, RunPhase, second, TypeOK
  <2>2. r \in Complete
    BY <1>5 DEF Smoke, Backed
  <2>3. QED
    BY <2>1, <2>2, PhaseStep
<1>6. CASE MoveMajor(r)
  <2>1. Kept /\ UNCHANGED tagged /\ major' = {r} /\ To("done")
    BY <1>6 DEF MoveMajor, RunPhase, second, TypeOK
  <2>2. r \in Complete
    BY <1>6 DEF MoveMajor, Backed
  <2>3. QED
    BY <2>1, <2>2, PhaseStep
<1>7. CASE StepFails(r)
  <2>1. Kept /\ UNCHANGED <<tagged, major>> /\ To("failed")
    BY <1>7 DEF StepFails, RunPhase, second, TypeOK
  <2>2. QED
    BY <2>1, PhaseStep
<1>8. CASE Rerun(r)
  <2>1. Kept /\ UNCHANGED <<tagged, major>> /\ To("queued")
    BY <1>8 DEF Rerun, RunPhase, second, TypeOK
  <2>2. QED
    BY <2>1, PhaseStep
<1>9. QED
  BY <1>1, <1>2, <1>3, <1>4, <1>5, <1>6, <1>7, <1>8

\* The request for the release, answered or not (Post, PostFails): it takes no page and
\* no asset away.
LEMMA PostStep ==
  ASSUME TypeOK, Backed, NEW r \in Releases, Post(r) \/ PostFails(r)
  PROVE  /\ Backed' /\ UNCHANGED <<shown, major>>
         /\ Complete' = Complete \/ Complete' = Complete \cup {r}
<1>1. /\ run[r].phase = "cut" /\ uploaded[r] = {} /\ r \in tagged
      /\ UNCHANGED <<tagged, uploaded, major, mirror, shown, copied, user>>
      /\ page' = page \/ page' = [page EXCEPT ![r] = "release"]
  <2>1. run[r].phase = "cut" /\ UNCHANGED <<tagged, uploaded, major, second, user>>
        /\ page' \in {page, [page EXCEPT ![r] = "release"]}
    BY DEF Post, PostFails
  <2>2. uploaded[r] = {} /\ r \in tagged
    BY <2>1 DEF Backed
  <2>3. page' = page \/ page' = [page EXCEPT ![r] = "release"]
    BY <2>1
  <2>4. QED
    BY <2>1, <2>2, <2>3 DEF second
<1>2. /\ run'[r].phase \in {"cut", "failed"} \/ (run'[r].phase = "created" /\ page'[r] = "release")
      /\ \A s \in Releases \ {r} : run'[s] = run[s]
  <2>1. CASE Post(r)
    BY <2>1 DEF Post, RunPhase, TypeOK
  <2>2. CASE PostFails(r)
    <3>1. CASE RunPhase(r, "failed")
      BY <3>1 DEF RunPhase, TypeOK
    <3>2. CASE run' = [run EXCEPT ![r].tries = @ + 1]
      BY <2>2, <3>2 DEF PostFails, TypeOK
    <3>3. QED
      BY <2>2, <3>1, <3>2 DEF PostFails
  <2>3. QED
    BY <2>1, <2>2
<1>3. /\ \A s \in Releases \ {r} : page'[s] = page[s] /\ uploaded'[s] = uploaded[s]
      /\ r \in Complete => r \in Complete'
  BY <1>1 DEF Complete, TypeOK
<1>4. Complete' = Complete \/ Complete' = Complete \cup {r}
  BY <1>3, CompleteGrows
<1>5. Complete \subseteq Complete'
  BY <1>4
<1>6. Backed'
  BY <1>1, <1>2, <1>3, <1>5 DEF Backed
<1>7. QED
  BY <1>1, <1>4, <1>6

\* A mirror's run goes to another phase, in which its release is complete if it must be.
LEMMA MirrorPhaseStep ==
  ASSUME Backed, NEW r \in Releases, UNCHANGED <<tagged, page, uploaded, run>>,
         \A s \in Releases \ {r} : mirror'[s] = mirror[s],
         mirror'[r].phase \in {"complete", "fetched", "replacing"} => r \in Complete
  PROVE  Backed' /\ Complete' = Complete
<1>1. Complete' = Complete
  BY DEF Complete
<1>2. QED
  BY <1>1 DEF Backed

\* The mirror's steps leave the first forge and its runs alone, and show a release only
\* where it was found complete.
LEMMA MirrorStep ==
  ASSUME TypeOK, Backed, NEW r \in Releases,
         Arrive(r) \/ Mirrors(r) \/ MirrorFails(r) \/ MirrorAgain(r)
  PROVE  /\ Backed' /\ UNCHANGED major
         /\ Complete' = Complete
         /\ shown' = shown \/ (r \in Complete /\ shown' = shown \cup {r})
<1> DEFINE To(P) == mirror'[r].phase \in P /\ \A s \in Releases \ {r} : mirror'[s] = mirror[s]
           Known == mirror[r].phase \in {"complete", "fetched", "replacing"}
<1>1. UNCHANGED <<tagged, page, uploaded, run, major>>
  BY DEF Arrive, Mirrors, Poll, Download, Create, Edit, TakeDown, PutUp, MirrorFails, MirrorAgain, first
<1>2. Known => r \in Complete
  BY DEF Backed
<1>3. CASE Arrive(r) \/ MirrorFails(r) \/ MirrorAgain(r)
  <2>1. To({"waiting", "failed"}) /\ UNCHANGED shown
    BY <1>3 DEF Arrive, MirrorFails, MirrorAgain, MirrorAt, TypeOK
  <2>2. QED
    BY <1>1, <2>1, MirrorPhaseStep
<1>4. CASE Poll(r)
  <2>1. CASE r \in Complete
    <3>1. To({"complete"}) /\ UNCHANGED shown
      BY <1>4, <2>1 DEF Poll, MirrorAt, Complete, TypeOK
    <3>2. QED
      BY <1>1, <2>1, <3>1, MirrorPhaseStep
  <2>2. CASE r \notin Complete
    <3>1. mirror' = MirrorAt(r, "failed", {}) \/ mirror' = [mirror EXCEPT ![r].tries = @ + 1]
      BY <1>4, <2>2 DEF Poll, Complete
    <3>2. To({"failed", "waiting"}) /\ UNCHANGED shown
      BY <1>4, <3>1 DEF Poll, MirrorAt, TypeOK
    <3>3. QED
      BY <1>1, <3>2, MirrorPhaseStep
  <2>3. QED
    BY <2>1, <2>2
<1>5. CASE Download(r) \/ Edit(r) \/ Create(r)
  <2>1. /\ Known /\ To({"fetched", "replacing", "done"})
        /\ shown' = shown \/ shown' = shown \cup {r}
    BY <1>5 DEF Download, Edit, Create, MirrorAt, TypeOK
  <2>2. QED
    BY <1>1, <1>2, <2>1, MirrorPhaseStep
<1>6. CASE TakeDown(r)
  BY <1>1, <1>2, <1>6, MirrorPhaseStep DEF TakeDown
<1>7. CASE PutUp(r)
  <2>1. PICK a : mirror' = [mirror EXCEPT ![r].left = @ \ {a},
                                         ![r].phase = IF mirror[r].left = {a} THEN "done" ELSE @]
    BY <1>7 DEF PutUp
  <2>2. mirror[r].phase = "replacing" /\ UNCHANGED shown
    BY <1>7 DEF PutUp
  <2>3. To({"done", "replacing"})
    <3>1. CASE mirror[r].left = {a}
      BY <2>1, <3>1 DEF TypeOK
    <3>2. CASE mirror[r].left # {a}
      BY <2>1, <2>2, <3>2 DEF TypeOK
    <3>3. QED
      BY <3>1, <3>2
  <2>4. QED
    BY <1>1, <1>2, <2>2, <2>3, MirrorPhaseStep
<1>8. QED
  BY <1>3, <1>4, <1>5, <1>6, <1>7 DEF Mirrors

-----------------------------------------------------------------------------
(* Theorems                                                                *)

\* Every step keeps the invariant, and is one of the steps Delivery allows or none.
LEMMA EveryStep ==
  ASSUME DeliveryInv, [Next]_vars
  PROVE  DeliveryInv' /\ [Promise!Next]_(Promise!delivery)
<1> USE DEF DeliveryInv, Promise!Next, Promise!Complete, Promise!Mirror, Promise!Follow,
            Promise!delivery
<1>0. Complete \subseteq Releases
  BY DEF Complete
<1>1. ASSUME NEW r \in Releases, Works(r) \/ Land(r) \/ Record(r) \/ StepFails(r) \/ Rerun(r)
      PROVE  DeliveryInv' /\ [Promise!Next]_(Promise!delivery)
  <2>1. TypeOK'
    BY <1>1, RunTyped
  <2>2. CASE Upload(r) \/ Post(r) \/ PostFails(r)
    BY <2>1, <2>2, UploadStep, PostStep
  <2>3. CASE Land(r) \/ Record(r) \/ Decide(r) \/ Cut(r) \/ Smoke(r) \/ MoveMajor(r)
             \/ StepFails(r) \/ Rerun(r)
    BY <2>1, <2>3, RunStep
  <2>4. QED
    BY <1>1, <2>2, <2>3 DEF Works
<1>2. ASSUME NEW r \in Releases, Arrive(r) \/ Mirrors(r) \/ MirrorFails(r) \/ MirrorAgain(r)
      PROVE  DeliveryInv' /\ [Promise!Next]_(Promise!delivery)
  <2>1. TypeOK'
    BY <1>2, MirrorTyped
  <2>2. QED
    BY <1>2, <2>1, MirrorStep
<1>3. CASE Begin \/ Fetch \/ Miss
  <2>1. TypeOK' /\ UNCHANGED <<first, second>>
    BY <1>3, UserTyped
  <2>2. QED
    BY <2>1 DEF first, second, Backed, Complete
<1>4. CASE UNCHANGED vars
  BY <1>4 DEF vars, TypeOK, Backed, Complete
<1>5. QED
  BY <1>1, <1>2, <1>3, <1>4 DEF Next

\* release.yaml:138-193, mirror-release.yaml:26-75: whatever fails, is run again or races,
\* what the major tag names and what the mirror shows is complete on the first forge.
THEOREM DeliveryIsInvariant == Spec => []DeliveryInv
<1>1. Init => DeliveryInv
  <2>1. SUFFICES ASSUME Init PROVE DeliveryInv
    OBVIOUS
  <2>2. TypeOK
    BY <2>1, InitTyped
  <2>3. Backed /\ major \subseteq Complete /\ shown \subseteq Complete
    BY <2>1 DEF Init, Backed
  <2>4. QED
    BY <2>2, <2>3 DEF DeliveryInv
<1>2. DeliveryInv /\ [Next]_vars => DeliveryInv'
  BY EveryStep
<1>3. QED
  BY <1>1, <1>2, PTL DEF Spec

\* Publishing implements Delivery: a release is complete at one step and stays so, the
\* mirror follows the first forge, and the major tag moves only to a complete release.
THEOREM PublishingDelivers == Spec => Delivers
<1>1. Init => Promise!Init
  <2>1. SUFFICES ASSUME Init PROVE Complete = {} /\ shown = {} /\ major = {}
    BY DEF Promise!Init
  <2>2. QED
    BY <2>1 DEF Init, Complete
<1>2. DeliveryInv /\ [Next]_vars => [Promise!Next]_(Promise!delivery)
  BY EveryStep
<1>3. QED
  BY <1>1, <1>2, DeliveryIsInvariant, PTL DEF Spec, Delivers, Promise!Spec

-----------------------------------------------------------------------------
(* The consumer                                                            *)

\* A sequence of two, however it was come by.
LEMMA PairIs ==
  ASSUME NEW S, NEW s \in Seq(S), Len(s) = 2
  PROVE  s = <<s[1], s[2]>>
  OBVIOUS

\* And one of four.
LEMMA FourIs ==
  ASSUME NEW S, NEW s \in Seq(S), Len(s) = 4
  PROVE  s = <<s[1], s[2], s[3], s[4]>>
  OBVIOUS

\* Two questions, and two more.
LEMMA JoinedPairs ==
  ASSUME NEW p, NEW q, NEW r, NEW s
  PROVE  <<p, q>> \o <<r, s>> = <<p, q, r, s>>
<1> DEFINE S == {p, q, r, s}
           t == <<p, q>> \o <<r, s>>
<1>1. <<p, q>> \in Seq(S) /\ <<r, s>> \in Seq(S) /\ Len(<<p, q>>) = 2 /\ Len(<<r, s>>) = 2
  OBVIOUS
<1>2. /\ t \in Seq(S) /\ Len(t) = 2 + 2
      /\ \A i \in 1..(2 + 2) : t[i] = IF i <= 2 THEN <<p, q>>[i] ELSE <<r, s>>[i - 2]
  BY <1>1, ConcatProperties
<1>3. t[1] = p /\ t[2] = q /\ t[3] = r /\ t[4] = s
  <2> HIDE DEF t
  <2> QED BY <1>2
<1> HIDE DEF t
<1>4. t = <<t[1], t[2], t[3], t[4]>>
  BY <1>2, FourIs
<1>5. t = <<p, q, r, s>>
  BY <1>3, <1>4
<1>6. QED
  BY <1>5 DEF t

\* What is left of a few questions, from the second or the third on.
LEMMA ShortSequences ==
  ASSUME NEW p, NEW q, NEW r, NEW s
  PROVE  /\ Tail(<<p, q, r, s>>) = <<q, r, s>>
         /\ Tail(<<p, q>>) = <<q>>
         /\ SubSeq(<<p, q, r, s>>, 3, 4) = <<r, s>>
         /\ SubSeq(<<q, r, s>>, 2, 3) = <<r, s>>
<1> DEFINE S == {p, q, r, s}
<1>1. Tail(<<p, q, r, s>>) = <<q, r, s>>
  OBVIOUS
<1>2. Tail(<<p, q>>) = <<q>>
  OBVIOUS
<1>3. SubSeq(<<p, q, r, s>>, 3, 4) = <<r, s>>
  <2> DEFINE all == <<p, q, r, s>>
             t == SubSeq(all, 3, 4)
  <2>1. \A i \in 3..4 : all[i] \in S
    OBVIOUS
  <2>2. t \in Seq(S) /\ Len(t) = 4 - 3 + 1 /\ \A i \in 1..(4 - 3 + 1) : t[i] = all[3 + i - 1]
    <3> HIDE DEF all, S
    <3> QED BY <2>1, SubSeqProperties
  <2>3. t[1] = r /\ t[2] = s
    <3> HIDE DEF t
    <3> QED BY <2>2
  <2> HIDE DEF t
  <2>4. t = <<t[1], t[2]>>
    BY <2>2, PairIs
  <2>5. t = <<r, s>>
    BY <2>3, <2>4
  <2>6. QED
    BY <2>5 DEF t
<1>4. SubSeq(<<q, r, s>>, 2, 3) = <<r, s>>
  <2> DEFINE all == <<q, r, s>>
             t == SubSeq(all, 2, 3)
  <2>1. \A i \in 2..3 : all[i] \in S
    OBVIOUS
  <2>2. t \in Seq(S) /\ Len(t) = 3 - 2 + 1 /\ \A i \in 1..(3 - 2 + 1) : t[i] = all[2 + i - 1]
    <3> HIDE DEF all, S
    <3> QED BY <2>1, SubSeqProperties
  <2>3. t[1] = r /\ t[2] = s
    <3> HIDE DEF t
    <3> QED BY <2>2
  <2> HIDE DEF t
  <2>4. t = <<t[1], t[2]>>
    BY <2>2, PairIs
  <2>5. t = <<r, s>>
    BY <2>3, <2>4
  <2>6. QED
    BY <2>5 DEF t
<1>5. QED
  BY <1>1, <1>2, <1>3, <1>4

\* The two forges, and what is asked of one.
Forges == {"first", "second"}
Ask(forge, a) == [forge |-> forge, asset |-> a]
Other(forge) == IF forge = "first" THEN "second" ELSE "first"

\* What is left to ask: of both forges, the consumer's own first, or of one alone.
OfBoth(own, a) == {<<Ask(own, a), Ask(own, Sums), Ask(Other(own), a), Ask(Other(own), Sums)>>,
                   <<Ask(own, Sums), Ask(Other(own), a), Ask(Other(own), Sums)>>}
OfOne(forge, a) == {<<Ask(forge, a), Ask(forge, Sums)>>, <<Ask(forge, Sums)>>}

Consumers == [phase : {"idle", "asking", "installed", "failed"}, ver : SUBSET Releases,
              asks : Seq([forge : Forges, asset : AllAssets]), cut : BOOLEAN]

\* A consumer at work is after a release that is complete, and still has the first forge to
\* ask, unless a forge was out of its reach.
Asking ==
  /\ user.ver # {} /\ user.ver \subseteq Complete
  /\ \E forge \in Forges, a \in AllAssets \ {Sums} :
       \/ user.asks \in OfBoth(forge, a)
       \/ user.asks \in OfOne(forge, a) /\ (forge = "second" => user.cut)

\* The invariant behind InstallNeedsOneForge.
ConsumerInv ==
  /\ user \in Consumers
  /\ user.phase = "asking" => Asking
  /\ InstallNeedsOneForge

\* What is asked at first, and what is left once a forge has failed (install.sh, the loop
\* over its sources).
LEMMA AsksLeft ==
  ASSUME NEW own \in Forges, NEW a
  PROVE  /\ Asks(own, a) = <<Ask(own, a), Ask(own, Sums), Ask(Other(own), a), Ask(Other(own), Sums)>>
         /\ \A asks \in OfBoth(own, a) :
              /\ NextForge(asks) = <<Ask(Other(own), a), Ask(Other(own), Sums)>>
              /\ asks[1].forge = own /\ asks[1].asset \in {a, Sums}
         /\ \A asks \in OfOne(own, a) :
              /\ NextForge(asks) = <<>>
              /\ asks[1].forge = own /\ asks[1].asset \in {a, Sums}
<1> DEFINE p == Ask(own, a)
           q == Ask(own, Sums)
           r == Ask(Other(own), a)
           s == Ask(Other(own), Sums)
<1>1. /\ own # Other(own)
      /\ p.forge = own /\ q.forge = own /\ r.forge = Other(own) /\ s.forge = Other(own)
      /\ p.asset = a /\ q.asset = Sums
  BY DEF Forges, Ask, Other
<1>2. Asks(own, a) = <<p, q>> \o <<r, s>>
  BY DEF Asks, Ask, Forges, Other
<1>3. Asks(own, a) = <<p, q, r, s>>
  <2> HIDE DEF p, q, r, s
  <2>1. <<p, q>> \o <<r, s>> = <<p, q, r, s>>
    BY JoinedPairs
  <2>2. QED
    BY <1>2, <2>1
<1> HIDE DEF p, q, r, s
<1>4. NextForge(<<p, q, r, s>>) = <<r, s>>
  <2> DEFINE all == <<p, q, r, s>>
             others == {n \in DOMAIN all : all[n].forge # all[1].forge}
  <2>1. DOMAIN all = 1..4 /\ Len(all) = 4
    OBVIOUS
  <2>2. all[1].forge = own /\ all[2].forge = own /\ all[3].forge = Other(own) /\ all[4].forge = Other(own)
    BY <1>1
  <2>3. others = {3, 4}
    <3> HIDE DEF all
    <3> QED BY <1>1, <2>1, <2>2
  <2>4. (CHOOSE n \in others : \A m \in others : n <= m) = 3
    <3> HIDE DEF others
    <3> QED BY <2>3
  <2>5. NextForge(all) = SubSeq(all, 3, 4)
    <3>1. NextForge(all) = IF others = {} THEN <<>>
                           ELSE SubSeq(all, CHOOSE n \in others : \A m \in others : n <= m, Len(all))
      <4> HIDE DEF all
      <4> QED BY DEF NextForge
    <3> HIDE DEF all, others
    <3> QED BY <2>1, <2>3, <2>4, <3>1
  <2>6. QED
    BY <2>5, ShortSequences
<1>5. NextForge(<<q, r, s>>) = <<r, s>>
  <2> DEFINE all == <<q, r, s>>
             others == {n \in DOMAIN all : all[n].forge # all[1].forge}
  <2>1. DOMAIN all = 1..3 /\ Len(all) = 3
    OBVIOUS
  <2>2. all[1].forge = own /\ all[2].forge = Other(own) /\ all[3].forge = Other(own)
    BY <1>1
  <2>3. others = {2, 3}
    <3> HIDE DEF all
    <3> QED BY <1>1, <2>1, <2>2
  <2>4. (CHOOSE n \in others : \A m \in others : n <= m) = 2
    <3> HIDE DEF others
    <3> QED BY <2>3
  <2>5. NextForge(all) = SubSeq(all, 2, 3)
    <3>1. NextForge(all) = IF others = {} THEN <<>>
                           ELSE SubSeq(all, CHOOSE n \in others : \A m \in others : n <= m, Len(all))
      <4> HIDE DEF all
      <4> QED BY DEF NextForge
    <3> HIDE DEF all, others
    <3> QED BY <2>1, <2>3, <2>4, <3>1
  <2>6. QED
    BY <2>5, ShortSequences
<1>6. NextForge(<<p, q>>) = <<>> /\ NextForge(<<q>>) = <<>>
  <2>1. {n \in DOMAIN <<p, q>> : <<p, q>>[n].forge # <<p, q>>[1].forge} = {}
    BY <1>1
  <2>2. {n \in DOMAIN <<q>> : <<q>>[n].forge # <<q>>[1].forge} = {}
    BY <1>1
  <2>3. QED
    BY <2>1, <2>2, Zenon DEF NextForge
<1>7. OfBoth(own, a) = {<<p, q, r, s>>, <<q, r, s>>} /\ OfOne(own, a) = {<<p, q>>, <<q>>}
  BY DEF OfBoth, OfOne, p, q, r, s
<1>8. QED
  BY <1>1, <1>3, <1>4, <1>5, <1>6, <1>7 DEF p, q, r, s

\* A complete release has each of its assets on the first forge.
LEMMA FirstHasIt ==
  ASSUME NEW ask, ask.forge = "first", ask.asset \in AllAssets,
         user.ver # {}, user.ver \subseteq Complete
  PROVE  There(ask)
<1>1. PICK r \in user.ver : r \in Complete
  OBVIOUS
<1>2. OnFirst(r, ask.asset)
  BY <1>1 DEF Complete, OnFirst
<1>3. QED
  BY <1>1, <1>2 DEF There

\* The consumer begins: both forges are to be asked.
LEMMA BeginStep ==
  ASSUME DeliveryInv, ConsumerInv, Begin
  PROVE  ConsumerInv'
<1>1. PICK own \in Forges, a \in AllAssets \ {Sums} :
        user' = [phase |-> "asking", ver |-> major, asks |-> Asks(own, a), cut |-> FALSE]
  BY DEF Begin, Forges
<1>2. Complete' = Complete
  BY DEF Begin, first, Complete
<1>3. major # {} /\ major \subseteq Complete /\ major \subseteq Releases
  BY DEF Begin, DeliveryInv, TypeOK
<1>4. Asks(own, a) \in OfBoth(own, a)
  BY AsksLeft DEF OfBoth
<1>5. Asks(own, a) \in Seq([forge : Forges, asset : AllAssets])
  <2>1. Sums \in AllAssets
    BY PublicationAssumption DEF AllAssets
  <2>2. /\ Ask(own, a) \in [forge : Forges, asset : AllAssets]
        /\ Ask(own, Sums) \in [forge : Forges, asset : AllAssets]
        /\ Ask(Other(own), a) \in [forge : Forges, asset : AllAssets]
        /\ Ask(Other(own), Sums) \in [forge : Forges, asset : AllAssets]
    BY <2>1 DEF Ask, Other, Forges
  <2>3. Asks(own, a) = <<Ask(own, a), Ask(own, Sums), Ask(Other(own), a), Ask(Other(own), Sums)>>
    BY AsksLeft
  <2> DEFINE S == [forge : Forges, asset : AllAssets]
             p == Ask(own, a)
             q == Ask(own, Sums)
             r == Ask(Other(own), a)
             s == Ask(Other(own), Sums)
  <2> HIDE DEF S, p, q, r, s
  <2>4. <<p, q, r, s>> \in Seq(S)
    BY <2>2 DEF S, p, q, r, s
  <2>5. QED
    BY <2>3, <2>4 DEF S, p, q, r, s
<1>6. user' \in Consumers
  BY <1>1, <1>3, <1>5 DEF Consumers
<1>7. /\ user'.ver = major /\ user'.asks = Asks(own, a) /\ user'.phase = "asking"
  BY <1>1
<1>8. Asking'
  BY <1>2, <1>3, <1>4, <1>7 DEF Asking
<1>9. QED
  BY <1>6, <1>7, <1>8 DEF ConsumerInv, InstallNeedsOneForge

\* A download succeeds: the same forge is left to ask, or the install is done.
LEMMA FetchStep ==
  ASSUME ConsumerInv, Fetch
  PROVE  ConsumerInv'
<1>1. /\ user \in Consumers /\ Asking /\ user.asks # <<>> /\ Complete' = Complete
      /\ user.phase = "asking"
  BY DEF ConsumerInv, Fetch, first, Complete
<1>2. CASE user.asks[1].asset = Sums
  <2>1. user' = [phase |-> "installed", ver |-> {}, asks |-> <<>>, cut |-> FALSE]
    BY <1>2 DEF Fetch
  <2>2. QED
    BY <2>1 DEF ConsumerInv, Consumers, InstallNeedsOneForge
<1>3. CASE user.asks[1].asset # Sums
  <2>1. user' = [user EXCEPT !.asks = Tail(@)]
    BY <1>3 DEF Fetch
  <2>2. /\ user'.phase = "asking" /\ user'.ver = user.ver /\ user'.cut = user.cut
        /\ user'.asks = Tail(user.asks)
    BY <1>1, <2>1 DEF Consumers
  <2>3. user' \in Consumers
    <3>1. Tail(user.asks) \in Seq([forge : Forges, asset : AllAssets])
      BY <1>1 DEF Consumers
    <3>2. QED
      BY <1>1, <2>1, <3>1 DEF Consumers
  <2>4. Asking'
    <3>1. PICK forge \in Forges, a \in AllAssets \ {Sums} :
            \/ user.asks \in OfBoth(forge, a)
            \/ user.asks \in OfOne(forge, a) /\ (forge = "second" => user.cut)
      BY <1>1 DEF Asking
    <3>2. CASE user.asks \in OfBoth(forge, a)
      <4>1. user.asks = <<Ask(forge, a), Ask(forge, Sums), Ask(Other(forge), a), Ask(Other(forge), Sums)>>
        BY <1>3, <3>2 DEF OfBoth, Ask
      <4>2. Tail(user.asks) = <<Ask(forge, Sums), Ask(Other(forge), a), Ask(Other(forge), Sums)>>
        BY <4>1, ShortSequences
      <4>3. user'.asks \in OfBoth(forge, a)
        BY <2>2, <4>2 DEF OfBoth
      <4>4. QED
        BY <1>1, <2>2, <4>3 DEF Asking
    <3>3. CASE user.asks \in OfOne(forge, a) /\ (forge = "second" => user.cut)
      <4>1. user.asks = <<Ask(forge, a), Ask(forge, Sums)>>
        BY <1>3, <3>3 DEF OfOne, Ask
      <4>2. Tail(user.asks) = <<Ask(forge, Sums)>>
        BY <4>1, ShortSequences
      <4>3. user'.asks \in OfOne(forge, a)
        BY <2>2, <4>2 DEF OfOne
      <4>4. QED
        BY <1>1, <2>2, <3>3, <4>3 DEF Asking
    <3>4. QED
      BY <3>1, <3>2, <3>3
  <2>5. QED
    BY <2>2, <2>3, <2>4 DEF ConsumerInv, InstallNeedsOneForge
<1>4. QED
  BY <1>2, <1>3

\* A download fails: the first forge had what was asked of it, so it was out of reach.
LEMMA MissStep ==
  ASSUME ConsumerInv, Miss
  PROVE  ConsumerInv'
<1>1. /\ user \in Consumers /\ Asking /\ Complete' = Complete /\ user.phase = "asking"
  BY DEF ConsumerInv, Miss, first, Complete
<1>2. PICK cut \in {user.cut, TRUE} :
        /\ cut \/ ~There(user.asks[1])
        /\ user' = [user EXCEPT !.asks = NextForge(@), !.cut = cut,
                                !.phase = IF NextForge(user.asks) = <<>> THEN "failed" ELSE @]
  BY DEF Miss
<1>3. cut \in BOOLEAN /\ (user.cut => cut)
  BY <1>1, <1>2 DEF Consumers
<1>4. PICK forge \in Forges, a \in AllAssets \ {Sums} :
        \/ user.asks \in OfBoth(forge, a)
        \/ user.asks \in OfOne(forge, a) /\ (forge = "second" => user.cut)
  BY <1>1 DEF Asking
<1>5. Sums \in AllAssets
  BY PublicationAssumption DEF AllAssets
<1>6. user.asks[1].forge = forge /\ user.asks[1].asset \in AllAssets
  BY <1>4, <1>5, AsksLeft
<1>7. forge = "first" => cut
  BY <1>1, <1>2, <1>6, FirstHasIt DEF Asking
<1>8. /\ user'.asks = NextForge(user.asks) /\ user'.cut = cut /\ user'.ver = user.ver
      /\ user'.phase = IF NextForge(user.asks) = <<>> THEN "failed" ELSE "asking"
  BY <1>1, <1>2 DEF Consumers
<1>9. CASE user.asks \in OfBoth(forge, a)
  <2>1. NextForge(user.asks) = <<Ask(Other(forge), a), Ask(Other(forge), Sums)>>
    BY <1>9, AsksLeft
  <2>2. user'.phase = "asking" /\ user'.asks \in OfOne(Other(forge), a)
    BY <1>8, <2>1 DEF OfOne
  <2>3. Other(forge) \in Forges /\ (Other(forge) = "second" => cut)
    BY <1>7 DEF Other, Forges
  <2>4. Asking'
    BY <1>1, <1>8, <2>2, <2>3 DEF Asking
  <2>5. user' \in Consumers
    <3>1. /\ Ask(Other(forge), a) \in [forge : Forges, asset : AllAssets]
          /\ Ask(Other(forge), Sums) \in [forge : Forges, asset : AllAssets]
      BY <1>5 DEF Ask, Other, Forges
    <3>2. NextForge(user.asks) \in Seq([forge : Forges, asset : AllAssets])
      BY <2>1, <3>1
    <3>3. QED
      BY <1>1, <1>2, <1>3, <3>2 DEF Consumers
  <2>6. QED
    BY <2>2, <2>4, <2>5 DEF ConsumerInv, InstallNeedsOneForge
<1>10. CASE user.asks \in OfOne(forge, a) /\ (forge = "second" => user.cut)
  <2>1. NextForge(user.asks) = <<>>
    BY <1>10, AsksLeft
  <2>2. user'.phase = "failed" /\ user'.cut = cut
    BY <1>8, <2>1
  <2>3. cut
    BY <1>3, <1>7, <1>10 DEF Forges
  <2>4. user' \in Consumers
    <3>1. user' = [user EXCEPT !.asks = <<>>, !.cut = cut, !.phase = "failed"]
      BY <1>2, <2>1
    <3>2. <<>> \in Seq([forge : Forges, asset : AllAssets])
      OBVIOUS
    <3>3. QED
      BY <1>1, <1>3, <3>1, <3>2 DEF Consumers
  <2>5. QED
    BY <2>2, <2>3, <2>4 DEF ConsumerInv, InstallNeedsOneForge
<1>11. QED
  BY <1>4, <1>9, <1>10

\* Meanwhile the forges gain releases, and what is complete stays so.
LEMMA ForgesStep ==
  ASSUME DeliveryInv, ConsumerInv, [Next]_vars, UNCHANGED user
  PROVE  ConsumerInv'
<1>1. Complete \subseteq Complete'
  BY EveryStep DEF Promise!Next, Promise!Complete, Promise!Mirror, Promise!Follow, Promise!delivery
<1>2. QED
  BY <1>1 DEF ConsumerInv, Asking, InstallNeedsOneForge

\* install.sh:20-37: whatever is uploaded, mirrored or replaced meanwhile, an install
\* fails only where a forge was out of reach.
THEOREM OneForgeIsEnough == Spec => []InstallNeedsOneForge
<1>1. Init => ConsumerInv
  BY DEF Init, ConsumerInv, Consumers, InstallNeedsOneForge
<1>2. DeliveryInv /\ ConsumerInv /\ [Next]_vars => ConsumerInv'
  <2> SUFFICES ASSUME DeliveryInv, ConsumerInv, [Next]_vars PROVE ConsumerInv'
    OBVIOUS
  <2>1. CASE Begin \/ Fetch \/ Miss
    BY <2>1, BeginStep, FetchStep, MissStep
  <2>2. ASSUME NEW r \in Releases,
               Land(r) \/ Record(r) \/ Works(r) \/ StepFails(r) \/ Rerun(r)
        PROVE  UNCHANGED user
    BY <2>2 DEF Land, Record, Works, StepFails, Rerun, Decide, Cut, Post, PostFails, Upload, Smoke,
                MoveMajor
  <2>3. ASSUME NEW r \in Releases, Arrive(r) \/ Mirrors(r) \/ MirrorFails(r) \/ MirrorAgain(r)
        PROVE  UNCHANGED user
    BY <2>3 DEF Arrive, Mirrors, MirrorFails, MirrorAgain, Poll, Download, Create, Edit, TakeDown, PutUp
  <2>4. CASE UNCHANGED vars
    BY <2>4, ForgesStep DEF vars
  <2>5. QED
    BY <2>1, <2>2, <2>3, <2>4, ForgesStep DEF Next
<1>3. ConsumerInv => InstallNeedsOneForge
  BY DEF ConsumerInv
<1>4. QED
  BY <1>1, <1>2, <1>3, DeliveryIsInvariant, PTL DEF Spec
=============================================================================
