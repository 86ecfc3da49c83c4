# action-changelog in TLA+

A verification project for `action-changelog`: the program that reads a Keep a
Changelog document and the repository it lives in, the workflow that cuts a release from what
was read and publishes it, its mirror, and the workflows it offers as an example. The modules are translated from the source; `map` in
`PROJECT.json` names the lines each definition stands for.

## The system

| Component | State | Operations | Interacts through |
|---|---|---|---|
| `pkg/semver` | none | `Parse`, `ParseTag`, `Compare`, `TagComponents`, `MajorTag` | called by everything below |
| `pkg/git` | a read-only handle on a repository | `Open`, `Tags`, `Reference`, `TagDay`, `FileAt`, `Shallow` | called by `cmd/changelog` |
| `pkg/changelog`, reading | none; a parsed document | `Parse`, `Latest`, `Released`, `Lint` with nineteen checks | reads tags, days and the tagged document from a `Git` |
| `pkg/changelog`, writing | the document's bytes | `Append`, `Release`, `Next` | called by `cmd/changelog` |
| `cmd/changelog` | the file on disk | `inspect`, `append`, `release` | step outputs and exit status |
| `.forgejo/workflows/release.yaml` | the remote's tags, the release page, runs in flight | read, decide, build, cut, publish, smoke-test, move the major tag | step outputs; `git push` |
| mirror, `install.sh`, `action.yaml` | releases on two forges | wait, download, verify, publish | tags pushed by the ceremony |
| `examples/release-branch` | candidate tags | cut a numbered candidate, release, publish | tags trigger workflows |
| `internal/output`, `internal/readme`, CI | none | write outputs, regenerate a table | files |

What is hard about it. The program itself is sequential; its difficulty is in
answers that must agree although they are computed in different ways (a tag names
a version by precedence in one place and by canonical spelling in another; order is
checked between neighbours and relied upon end to end), and in the walk of the
commit graph, which stops early on graphs with merges, missing history and tags
out of reach. The release ceremony is concurrent: pushes start runs that nothing
keeps apart, each decides from a reading and acts on it minutes later, steps fail,
and runs are run again. Publishing spans two forges that learn of a tag at different
times. The writers edit by position a document they have parsed twice, in a file that
nothing locks.

What makes each component correct:

- *semver*: precedence is a total order up to build metadata; numerals of any width
  order by value; a moving `v1` never displaces the `v1.0.0` it points at.
- *reference tag*: whatever the history, the highest eligible tag reachable from
  HEAD, or nothing, or an error where HEAD cannot be read; and it returns.
- *one reading*: a green document runs newest first; the checks, `due` and
  `already-tagged` are consistent; nothing is released from below a heading that
  cannot be read; a kept entry is never called modified.
- *ceremony*: a version is tagged once, at a commit that names it, for good;
  releases rise along main and carry the earlier ones unchanged; the major tag
  never falls behind; a release does not leave main red.
- *the reading of a repository*: a clone of any depth reads what the whole history
  has or is refused; an honest date is not called a mismatch, whatever the zone.
- *writers*: no note is lost or doubled, a release takes all of them under a version
  above every other, and what was released is not touched; links chain; what is
  written lints clean.
- *publishing*: what consumers follow is there in full; an install needs one forge of
  two; every run ends.
- *release branch*: candidates are numbered without a gap, the version is released
  once and from the trunk.
- *outputs*: the runner reads exactly what was reported, also from a run that is red.

## Modules

| Module | Models | State and actions |
|---|---|---|
| `Semver` | `pkg/semver/semver.go`, the order of `git.Versions` | operators only |
| `Checkout` | what `Repo.Reference` reads, and what it promises of it | operators only |
| `Baseline` | the promise of `Reference`, abstractly | `Answer`: the right answer in one step |
| `Reference` | `Repo.Reference`, `Versions`, `final` | `pc` and the locals `candidates`, `rank`, `seen`, `queue`, `best`; one action per early return and per kind of pass through the loop |
| `Changelog` | entries, the nineteen checks, `Lint`, `valid`, `red`, `tagged`, `notDue` | operators only |
| `Library` | nothing of its own: versions that arrive and a document that grows, for `Semver` and `Changelog` to answer about | `x`, `y`, `z`, `doc`, `repo`; `Arrive`, `Write` |
| `Reading` | `state` in `main.go` over `TagDay`, `FileAt`, `Shallow` of `pkg/git`; composes `Checkout` and `Changelog` | `history`, `cuts` (the tags), `now`; `Commit`, `Cut`, `Tick` |
| `Document` | `Parse` and `Find` of `changelog.go`, all of `edit.go` | operators only |
| `Ledger` | what the writers promise, abstractly | `Add`, `Cut`, `Lose` |
| `Editor` | `write.go`: commands on one file, over `Document` | `file`, `jobs`, `today`; `Read`, `Refuse`, `Open`, `Write`, `Return`, `End` |
| `Outputs` | flags, `emit`, `summarize` and exit of `main.go`, and `internal/output` | `at`, `stdout`, `file`, `summary`, `exit`; one action per call that may fail |
| `Delivery` | what publishing promises, abstractly | `Complete`, `Mirror`, `Follow` |
| `Publication` | the publishing half of `release.yaml`, `mirror-release.yaml`, `install.sh` | the pages and assets of two forges, a run and a mirror's run per release, one install; one action per request |
| `Candidates` | `release-candidate.yaml`, `release.yaml`, `publish.yaml` of the example | `revs`, `runs`, `tags`, `built`; `Push`, one action per job, `Rerun` |
| `Trunk` | `release.yaml`, with `Changelog` as what each run reads | `main`, `tags`, `today`, `runs`; one action per step that changes the repository or ends a run |
| `ChangelogProofs` | lemmas about the operators of `Semver` and `Changelog` | |
| `LibraryProofs`, `ReferenceProofs`, `TrunkProofs`, `EditorProofs`, `OutputsProofs`, `PublicationProofs`, `CandidatesProofs` | theorems about the module each is named after, `ReferenceProofs` about `Reading` too | |
| `MCLibrary`, `MCReference`, `MCTrunk`, `MCReading`, `MCEditor`, `MCOutputs`, `MCPublication`, `MCCandidates` | instances for TLC | |

`Reference` and `Trunk` both rest on `Semver`; `Trunk` extends `Changelog` and takes
from `Reference` only its proved answer: `Baselines` are the final version tags on
the commit read or below it, and `State` takes the one that outranks the rest.

How state maps to code. An identifier is the sequence of its characters, digits
below letters, so that byte order is integer order; a tag name is a prefix, the
dotted components of its core and its identifiers, so that `v1`, `v1.0` and `v1.0.0`
are three names of one version. A document is the sequence of its entries, and an
entry the fields `Lint` looks at: what kind of heading, version, date, body, section
names, whether a link reference is defined. A date is a day number, or one of two
marks for none and malformed. A body is opaque: two bodies are equal or not. What a
reading knows of the repository (`state` in `main.go`) is a record of tag names,
their days, the reference tag and the document it carried. In `Trunk` a commit is
its position on main, a tag is a name and a commit, and a run is its phase and the
tags its clone carries: the tags are fetched once, in `Read`, and the smoke test
reads that same clone.

`Document` sees the same document as its lines, without the blank ones, and `Parse`
makes of them the entries that `Changelog` lints. The byte offsets of `edit.go` are
positions of lines: what an offset into an edited document does to the document shows
there as well. An edit is the set of documents it may return, empty where it returns
an error. In `Editor` a command decides its date, reads, edits, opens the file (which
empties it) and writes it; the write is one call and is all there or not. Two history
variables say what commands did to each other: `apart` while each ended before the
next began, `torn` once one wrote over the start of another's longer file. In
`Publication` a release is its number, and its run is the half of `Trunk`'s run that
follows the decision, request by request; the two meet in that decision alone. In
`Candidates` a revision's changelog is what its newest entry is to the branch's
version. In `Reading` time runs in half days, so that a moment has a day in each zone,
and a tag comes with the commit it names, as `git clone --depth` brings them. In
`Outputs` a line is what a reader of the file takes it for.

Operators whose comment begins "Mutant" are the way a plausible slip in the code
would change the definition below them. No specification uses them: each shows that
the property it is paired with in `PROJECT.json` can be broken.

## Runs

| Run | Question | Bounds | Size |
|---|---|---|---|
| `library` | precedence and spelling, against independent definitions; one reading of any short document | every triple of 42 versions: three cores, twelve pre-release parts of up to two identifiers (one and two digits, text, mixtures, a hyphen), two of them with and without build metadata; three entries of 18 kinds, 61 states of the repository | 982k states |
| `reference` | the walk, on every history | three commits, every parent list that has no repetition, every set of them present, every HEAD, four tag names on any commit or none, or only the two of them that are no final version, both `-reference-tags` | 126k states |
| `trunk_ordered` | the ceremony, run after run | three pushes, two days, 18 documents, `date-mismatch` off | 832k states |
| `trunk_overlap` | the ceremony, runs in any order | three pushes, one day, seven documents, the register's severities | 679k states |
| `trunk_stuck` | can main always be made green, if no entry lands before the day it names? | one push, two days, the documents of `trunk_ordered`, the register's severities | violated |
| `reading` | dates in zones, clones of every depth | three commits in line, two tags of either kind, three half days, zones a half day behind and ahead, dates by author or in UTC | 207k states |
| `editor` | commands on one file | two writers, four documents, seven requests of one and two of the other, begun on up to 11 lines, two days | 1.6M states |
| `editor_refs` | do notes come under their version? | one writer, one document | violated |
| `outputs` | what the runner reads | seven bodies, 38 sets of flags, two delimiters, two draws | 241k states |
| `publication` | publishing, mirroring and installing | two releases, one binary with its checksums, two requests, two polls, two runs of the mirror | 301k states |
| `publication_lost` | is what is tagged published? | one release, two binaries with their checksums, three requests, three polls | violated |
| `candidates` | numbering, filing, and that runs end | two pull requests into one branch, three revisions, entries dated, open and of another version; re-runs until the first tag | 896k states |

Why the bounds are enough. Three commits give a merge whose parents are related,
where a commit is queued twice and a nearer tag is lower than a farther one; three
versions make every case of transitivity; three entries let one that cannot be read
or repeats a version stand between two others; three pushes are an earlier release,
the one in flight and a later one, and two days are the day an entry names and
another. Three commits in line give a clone that is cut above, at and below either of
its tags; two releases give a mirror and an install of one beside the
run of the other; three revisions give a run in progress, one that waits and one that
takes its place, or two pull requests and the trunk. Two delimiters and two draws are a
delimiter that is drawn again, and none that is absent. `MaxComponent` stands for
2^64-1: a component above it does not parse, and a bump of it wraps, as `uint64` does.

The bounds in guards are `MaxEntries` (`Library`), `MaxCommits` and `MaxDay` (`Trunk`),
`MaxMoment` and the set `Commits` (`Reading`), `MaxLines` and `MaxDay` (`Editor`: no
command starts on a longer file, nor on one that is torn), `MirrorRuns`
(`Publication`), `MaxRevisions` and `MaxTags` (`Candidates`). `Posts`, `Polls` and
`Draws` are not bounds: they are the code's six, thirty and eight, made smaller.

Deadlock is not checked where the modelled thing ends: a function returns, a
document is written up to its bound, main gets no further push.

`Ordered` in `Trunk` is an assumption about people and not something the workflow
enforces: each run ends before the next push, and only the last is run again.
`trunk_ordered` and `trunk_stuck` make it; `trunk_overlap` does not. `apart` is the
like premise of `KeepsTheLedger` and `ReportsItsRelease`: two commands that overlap
overwrite each other's edits, which no line of `write.go` prevents, and the other
properties of `editor` hold of them too. `Rising`, the premise of
`ShallowIsWholeOrRefused`, is what `ReleasesRise` shows of the trunk.

### What the violated runs show

- `trunk_stuck`: in TLC's trace an entry dated day 1 lands on main on day 2, the pull
  request open across midnight of `CHANGELOG.md`, and is cut green, since no tag names
  it yet. `NoneAhead`, the premise of the property, leaves out an entry that lands
  before the day it names, so that the trace is the late case; it does not say
  the early one is safe. Once the tag is there, `date-mismatch` refuses it as it is and
  `release-entry-modified` refuses it repaired: the situation `frozen` was written to
  exclude. `CHANGELOG.md` says a trunk switches the check off; `release.yaml` does
  not. `trunk_ordered` shows that with the switch a released document stays green.
- `editor_refs`: `Release` edits the links first and writes the heading at an offset
  located before. A definition above the heading moves it, and the heading is written
  over another line.
- `publication_lost`: a run that fails between its tag push and its release finds the
  version tagged when it is run again, so nobody publishes it. Weak fairness of every
  run and re-run does not help.

### Outside what the runs assume

The properties above have premises, and each was put there because the code does
something else without it. What was found there, for whoever lifts one:

- The reference tag is the highest version reachable, and the comment on `Reference`
  calls it the tag `git describe --tags` names, which is the nearest. They differ where
  a commit is tagged with a lower version than one of its ancestors carries.
- The ceremony has no concurrency group. A push that rewords the newest entry and adds
  one above it, read before the earlier run pushes its tag, is compared with nothing;
  both releases are cut, and give two accounts of the lower version.
- Of two `[Unreleased]` entries, `Release` checks the notes of the last and replaces the
  heading of the first.
- `Release` takes the brackets of the new heading from `[Unreleased]`, and adds a link
  wherever the file has one. In a file with headings of both styles (an `Unreleased` without
  brackets over linked releases, or a linked `[Unreleased]` over releases without) lint has
  nothing to say before and fires `partial-link-refs` after, where `edit_test.go` expects a
  document "Lint has nothing new to say about". The files of `editor` have
  one style where they have links.
- `has` takes the first lines of a longer item for the item, so that `Append` may write
  nothing and report no error.
- In the release-branch example `already-tagged` is read in one job and used in a later
  one; a candidate may be cut after its release. `LateCandidatesAreNotBuilt` says that
  `publish.yaml` does not build it while its entry is open.
- The command `release` dates in UTC, and `date-mismatch` reads a tag in its own zone.
- A checkout is asked whether it is shallow only where it reaches no tag at all; on a
  history with merges, one that reaches a lower tag than the reference is read.

## Fairness

`Reference` has weak fairness of its one process: a function that can take a step
takes it. `Returns` needs nothing else. `Outputs` has it of `Works`, everything but a
write that fails. `Trunk`, `Editor` and `Reading` state none: every property of them
is a safety property, and a forge promises nothing about when a run starts or whether
one that failed is run again.

`Publication` states two. `FairSpec` has weak fairness of each release's run and of
its mirror's, of the forges that get round to a tag, and of an install: a runner goes
on with what it started. `RunsEnd` holds under it, whatever fails. `TirelessSpec` adds
that every failed run is run again; it is there to show that `ForgeCarriesIt` fails
even so. `Candidates` has weak fairness of `Works(k)` for each run: a runner takes up
the run whose turn it is and goes on with it. No fairness is assumed of a step that
fails, of a push or of a person's re-run.

## Proofs

Checked by TLAPS, for every value of the constants that meets the module's assumptions.
An `ASSUME` of a theorem says what it needs beyond them.

### Versions and one reading

`ChangelogProofs` is about operators, and all but publishing and the release branch cite it.
What takes the place of an induction over sequences is well-ordering, `LeastNatural`:
two sequences of identifiers that differ do so at a first place, and a property kept by
neighbours that fails of two entries has a nearest pair of which it fails.

`LibraryProofs`, from `LibraryAssumption` (a version is what `Parse` returns, an entry has
a known kind and a date no lower than the marks, the reference tag spells a version). Each
theorem holds of a reading because of the operators, whatever came before it; of `Spec` it
needs the types (`LibraryTyped`). The runs show them on three entries and two identifiers,
the theorems for any number:

- `PrecedenceIsTotal`, `PrereleasesLieBetween`, `SpellingsReadBack`: what the sorts and
  the neighbour checks rest on, and what keeps a moving `v1` below `v1.0.0`.
- `NumeralsSort`: numerals compared by length and then by bytes compare by the numbers
  they stand for. `Value` is a recursive function, so that its bounds (at least
  ten to the width less one, under ten to the width) are proved with `UpTo`, which stands in
  for induction on the width.
- `GreenIsOrdered`: `version-order` and `date-order` look at neighbours among released
  entries; the nearest unordered pair would be neighbours.
- `CheckAndOutputAgree`: by precedence and by spelling are the same where versions have no
  build metadata, which OCI compatibility asks of a tag that is compared.
- `DueIsAhead`, `UnreadableStops`, `KeptStaysSilent`.

### The reference tag

`ReferenceProofs`, from `CheckoutAssumption` (a tag that peels to nothing is not at
a commit; names have their type) and `CheckoutsAssumption`:

- `WalkIsInvariant`: `IInv` holds. The answer alone is not inductive; what the loop
  keeps is that HEAD and every parent of an expanded commit have been met, that
  nothing unreachable has, and that `best` is the first candidate on the commits
  expanded. When the queue is empty the commits seen are a closed set, so they
  cover what is reachable; when the walk stops early, nothing ranks before `best`.
- `AnswersAreRight` and `KeepsItsPromise`: each step of the walk is a stutter of
  `Baseline` or its one step.
- `QueueStaysBounded`: a visit takes one commit from the queue, marks it, and adds one for
  each of its edges, which are apart from those of the commits marked before (`CountInv`).

The second half of `ReferenceProofs` is about `Reading`, whose initial states, steps and
specification have names of their own (`HistoryInit`, `HistoryNext`, `HistorySpec`) so that
one module can extend it and `Reference`, which both build on `Checkout`. These proofs are
from `CheckoutAssumption` and `ReadingAssumption` (zones are within a day of UTC, names are
of versions); those above cite nothing of the latter.

- `HistoryIsALine`: `HistoryInv` holds: each commit names the one before it as its parent, and
  each tag that was cut is on one of them. That a history is one line is what `Reading` models
  (a trunk whose branches are rebased or squashed), and what the two theorems below are of.
- `HonestDates`, where no two names are of one version (`AtMostOneEach`): the tag that
  `date-mismatch` compares an entry with is then the one it was dated with, and `TagDay` reads
  its day in its own zone whichever kind it is (`HonestAgrees`; it holds in a clone of any
  depth, which has the tag or no tag of that version). Without the premise it does not hold: of
  `v1.0` and `v1.0.0` the fuller spelling is compared with, and it may have been cut on another
  day. That two half days on the date is past is arithmetic on `Day` (`DayIs`).
- `ShallowReads`: what a clone of some depth carries is a window of the newest commits
  (`CarriedIs`: the recursive function in `Carried` is told from its closed form by the least
  place where they would differ), all of it reached from its head (`WindowReached`). Of its tags
  one is before all others (`OneIsBest`, from `TagsOrdered`, by counting those ahead of each).
  Where releases rise a tag outside the window is below every one in it, so that the highest of
  the window is the highest of all (`WindowHasTheHighest`). A clone that answers with no tag and
  is not shallow is the whole (`DeepIsWhole`).

### The ceremony

`TrunkProofs`, from `TrunkAssumption` (documents are sequences of entries whose dates are
integers and whose versions are spelled as tags that read back) and `SeveritiesAssumption`
(`oci-incompatible-version` is an error):

- `ReleasesAreOwn`: `ReleaseInv` holds of every interleaving, with or without
  `Ordered`. It is inductive as it stands, because a step past the decision needs
  only what the decision established about its own commit, and the remote refuses a
  name held elsewhere.
- `TypeCorrect`: the type invariant, a conjunct of it.
- `ReleasedOnce`: two versions that tie in precedence differ in build metadata alone,
  what a run decides to release has none, so their tags have one name.
- `ReleasesStay`: a cut only adds, and the major tag is spelled with one component
  where a release is spelled with three.

The second half of `TrunkProofs` is about what `Ordered` buys, in two layers. Both invariants were run
through TLC on the instance of `trunk_ordered` before they were proved; that instance meets
every hypothesis below.

- `MajorTagsFollow` (`Ordered`): by `OrderInv`. That the major tag keeps up is not
  inductive: the tag is forced, and would go back if an earlier run moved it late. So
  `OrderInv` adds that only the run of the last commit is under way, that every tag is a
  release tag or the major tag of the release on its commit, that a run past its cut has its
  tag on the remote, and that no name is on two commits. It holds under any severities.
- `ReleasesClimb`, `ReleasesKeepEntries` (`Ordered`, and `Enforced`: every check but
  `date-mismatch` and `prerelease-entry` is an error): by `RisingInv`. A run decides from the
  tags of its clone and pushes later; under `Ordered` no other release comes between, so
  that what was read still holds at the cut. `RisingInv` keeps what a decision established
  (`Clear`: nothing red, above the reference tag, the released entries as they were) while a
  run is due, and of the document of every release that it is green by itself
  (`StandsAlone`). Two facts make the step: the reference tag of the last commit is the
  highest release and also the latest one, so that a version above it is above all; and an
  entry kept by the latest release, which kept those before it, is kept from the first.
- `ReleasesStayGreen` (also `Severities["date-mismatch"] # "error"`): once its own release is
  the reference tag, a document differs in nothing from what is compared with it, no entry of
  it is pending, and the days that pass can only make a future date a past one. `date-mismatch`
  is what is left, and `trunk_stuck` shows what it does. That `date-mismatch` is off and the
  rest are errors is the switch `CHANGELOG.md` describes, and the severities of
  `trunk_ordered`.

### The writers

`EditorProofs`, from `EditorAssumption` (documents and notes are sequences). What an edit
makes of a document is told by position: the lines before the place of the edit, what was
put there, and the lines after it (`Spliced`, `Replaced`, `Put`). The places are the least
or greatest of a set of positions, and `Ascending` lists a set by rank (`AscendingIs`), so
that nothing here is defined by recursion.

- `RerunsAddNothing`: what append wrote is `Settled`: the item stands, with no heading
  between, below the first section of its name in the first [Unreleased]. Each of the three
  ways to write one (into a section, with a new section, with a new entry) leads there. The
  invariant `LinesInv` says that what a command is about to write is the edit of what it read.
- `SectionsStayInOrder`, for files whose sections are in order at first and that have no
  section without an entry: `OrderInv`. A heading put between the lines of an entry parts its
  sections and so keeps their order (`RenamedIsWell`), also where a link above it moved the
  place; a new section goes where it ranks (`PlaceIs`). Where two commands tear the file
  nothing is promised.
- `WritersKeepTheLedger`: `Editor` implements `Ledger`, for a first file that is `Regular`:
  link references at its foot and no title below an entry, one [Unreleased] at most, and
  under every section some text. The editor needs each of the three. A definition above the
  heading is what `editor_refs` shows; the two [Unreleased] are told of above; and a section
  with nothing under it is a body that `Release` takes for notes. The versions are all of
  three components and what is asked for (`AllNumbers`). `Reads` tells a line of an entry by
  the section over it; what is above an edit keeps its lines (`LinesKept`), what is below
  carries them along (`LinesShifted`), and the edit adds its own (`LinesGrown`). Each edit of
  a regular document is regular and one entry in the ledger (`AppendJoins`, `ReleaseCuts`).
  `LedgerInv` adds what keeps the file the command read the file it replaces: that nobody
  else is at work. Opening the file is the step that enters the edit, for from there on the
  ledger is what the command is about to write; killed in between, it loses all (`Lose`).
- `ReleasesAreReported` (also `AskedOnce`: no request names two versions): release reads its
  version from the document it was given and its notes from the file it left. `ReportInv`
  says that until a command has spoken the file is what it made (`Filed`), and what it said
  once it has. The body of an entry goes where its lines go, although it ends at the last
  line that is no link and the edit moves links as well (`BodyCarried`); and the new heading
  is the only one that names the version, as it is above all others (`FindIs`).
- `LinksStayAChain`, for a first file that is `Regular` and `InChain`: every link compares with
  the topmost heading below the version it is for, the link of [Unreleased] is one and compares
  with the topmost of all, and no link is for a version above all headings (it would come to
  point past the next release). `BoundInv` says so of lines and positions, of the file, of what
  commands read and of what they are about to write; `HighestIs` takes it to the entries the parser makes. A
  release moves the links before the heading is there, so that the step goes through a document
  in which they are no chain (`MovedIsChained`): its links point right for the versions below
  the new one (`PointsUnder`), and the new heading is topmost since no version stands above the
  notes that are released (`NoneAbove`).
- `BreakingNeverPatches`, for a first file that is `Regular` and `Legible`: no heading above
  that of [Unreleased] is unreadable, which would leave the document without a newest entry.
  The bump is taken from the entries of the document that was read, and what it says is about
  those of the document that was written. `BoundInv` keeps the first so; `CutIs` says that the
  new heading is the topmost that names a version, with the body and the sections that waited
  (`Kept`), so that both entries break or neither does (`BreaksAlike`); the topmost final
  version below it is the one bumped (`HighestWas`, back through both edits). Were it a patch
  of that, its numbers would be no higher, and release refuses it (`BumpBreaks`): this covers
  a component that wraps around.
- `WritesStayClean`, for a first file that is `Regular` and whose sections are in order, by
  `BoundInv` again. `CleanIs` and `ClearIs` say what is left of a clean document where lint has
  no repository to compare with: eleven checks that find nothing, and `ClearIsFree` and
  `FreeIsClear` say them of lines (`FaultFree`), where the edits are known. An edit adds nothing
  that a check speaks of (`EditedIsFree`, one lemma each for append, the links and the new
  heading). The rest of its premises name what the code does not look after. `Styled`: where
  the file has links, headings are bracketed and every version has one, since release takes the
  brackets from [Unreleased] and writes a link wherever the file has any. `Timely`: no date of
  the first file is ahead of its day; a release that took its date today, over an
  entry dated tomorrow, is out of order tomorrow, when what it was made from lints clean.
  `Modest`: what is asked for has nothing that lint objects to: an accepted section, the date of
  the day, a version without build metadata and short enough for an OCI tag. All of them hold
  of the instance of `editor`.

### The outputs

`OutputsProofs`, from `OutputsAssumption` (values and files are sequences of lines) and
`BeforesAssumption` (what the step wrote before the run are whole outputs):

- `RunsAreReported`: `RunInv` holds. The runner reads by a recursive function of the lines
  (`ReadBack`); `Reader` is its graph, found line by line (`ReaderSteps`), and what it reads of
  a file it reads of any that begins with it (`ReaderGoesOn`). `OutputIsRead` is the step: a
  value of one line is one pair, and within a block no line of the value ends it, since the
  delimiter is none of them, so that the line after the value is the first that does. `Drawn`
  keeps what was found of a delimiter when it was drawn until the output is written.
- `OutputsReadBack`: from `RunInv`, wherever the run has got to or failed.
- `VerdictsAreReported`: the run judges only what it has written in full (`Reported`,
  `Summarized`).

### Publishing

`PublicationProofs`, from `PublicationAssumption` (the checksums are the last asset in
the order of upload; at least one request, poll and run):

- `DeliveryIsInvariant`: `DeliveryInv` holds. That the major tag names complete
  releases only is not inductive: `Backed` adds what each phase of a run and of a
  mirror's run stands on. The step that needs most is `Upload`, which ends a run's
  uploads only with the last of the assets, all before it being there; and the re-run,
  which starts from its decision and so finds its tag before it could touch anything.
- `PublishingDelivers`: each action maps to one of `Delivery`'s, or leaves what
  `Delivery` sees as it was; completeness only grows, because no step removes a page or
  an asset of the first forge.
- `OneForgeIsEnough`: an install asks one forge for an asset after the other, and begins
  again at the second forge where the first fails. `ConsumerInv` says what is left to ask at
  each point (`Asking`): of both forges, or of one, and of the second alone only where the
  first was out of reach; and that what is asked for is complete, which later steps of the
  forges cannot undo. So an answer that the first forge does not have it is never given.

### The release branch

`CandidatesProofs`, from `CandidatesAssumption`:

- `OrdinalsStayDense`: `OrdinalInv` holds. An ordinal is read from the tags and pushed
  after others may have been; what a run has listed stays at most one above the
  count of its stage (`ListedWithin`), and the remote refuses one that is held, so that
  what is pushed is the next. The lemmas count: a stage's candidates are a finite set,
  and a tag of it adds one.
- `CandidatesAreCounted`: the conjunct of it that a reader wants.
- `ReleasedOnceFromTrunk`, `LateCandidatesAreRefused`: by `ReleaseInv`, which adds what each
  run read of its revision (`RunsAsRead`), that a tag is of its revision's stage and a final
  one of a dated entry (`TagsAsCut`), that there is one final tag, and that only it is filed.

### Only model-checked

- Liveness: `Returns`, both `RunsEnd`, `RunEnds`, and with them the violated `ForgeCarriesIt`.
  TLAPS proves no `ENABLED` and so no fairness.

Every invariant and action property of a passing run is stated by a theorem, under the
premises given above with each; the instances of the runs meet them.

## Not modelled

- The text of things: what goldmark makes of Markdown, headings and dates as
  characters, blank lines and indentation, messages, annotations. A line has its kind.
- Histories with merges in `Reading` (`Reference` has every history of three commits).
- Finding a repository: the search for `.git`, worktrees and `commondir`. A store that
  cannot be read is one of the readings `Changelog` takes, and no more.
- A write of the changelog that is cut short within the one call that makes it, and
  the bytes of two commands that write one file at once: `torn` says that it happened.
- The refusal of an output name (every name is a constant), `-list-checks`, and a
  write to a stream that goes through in part.
- Retries within one download (`curl --retry`), and a store or a forge that loses what
  it held.
- The table of checks in the README (text replaced between two marks) and the
  pull-request run of CI, which changes nothing.

## Plan

1. `Trunk` with `Publication` in the place of its one-step publishing, and with the
   zones of `Reading`, so that the finding of `trunk_stuck` is seen on the author's
   clock.
2. `Reading` on histories with merges, as `Reference` has them, with a premise weaker
   than one line under which a shallow clone is right or refused.
