------------------------------ MODULE Changelog ------------------------------
(***************************************************************************)
(* A parsed changelog, the checks Lint runs on it, and what one reading of *)
(* a changelog reports.  Translated from pkg/changelog (changelog.go,      *)
(* lint.go, git.go, check.go, oci.go) and cmd/changelog/main.go.           *)
(*                                                                         *)
(* A document is the sequence of its entries, newest first.  An entry is a *)
(* record [kind, ver, date, body, sections, link]; kind tells [Unreleased] *)
(* and an unreadable heading from one naming a version.  A date is a day,  *)
(* or NoDate, or BadDate for one that is not YYYY-MM-DD.  A body is        *)
(* Empty or an opaque text.  An entry's position stands for its line;      *)
(* position 0 is a finding about the document as a whole.                  *)
(*                                                                         *)
(* What the repository says is a record [kind, tags, days, ref, was]:      *)
(* absent, unreadable or read; the tag names, the day of each (0 when it   *)
(* cannot be read), the position of the reference tag among them (0 when   *)
(* there is none), and the document as it stood there (<<>> when none).    *)
(***************************************************************************)
EXTENDS Semver, FiniteSets

CONSTANTS
  Empty,            \* the body of an entry with nothing under it
  AllowedSections,  \* the level-3 headings accepted
  Overlong          \* the versions whose spelling is too long for an OCI tag

Kinds == {"unreleased", "unreadable", "version"}

NoDate == 0
BadDate == -1
IsDate(d) == d > 0

Least(S) == CHOOSE i \in S : \A j \in S : i <= j
Greatest(S) == CHOOSE i \in S : \A j \in S : i >= j

\* The elements of a finite set of positions, in their order.
Ascending(S) == [n \in 1..Cardinality(S) |-> CHOOSE k \in S : Cardinality({j \in S : j <= k}) = n]

-----------------------------------------------------------------------------
(* Reading a document                                                      *)

Released(doc) == {i \in DOMAIN doc : doc[i].kind = "version"}

\* Mutant: the newest entry that names a version, passing over an unreadable one.
LatestReadable(doc) == IF Released(doc) = {} THEN 0 ELSE Least(Released(doc))

\* The newest entry below [Unreleased]; none where it cannot be read.
Latest(doc) ==
  LET named == {i \in DOMAIN doc : doc[i].kind # "unreleased"}
  IN  IF named = {} \/ doc[Least(named)].kind = "unreadable" THEN 0 ELSE Least(named)

\* The entry naming a version above entry i, 0 where there is none.
Above(doc, i) == LET above == {j \in Released(doc) : j < i}
                 IN  IF above = {} THEN 0 ELSE Greatest(above)

-----------------------------------------------------------------------------
(* What the repository answers about an entry                              *)

\* The tags naming version v, however they spell it.
Naming(g, v) == {n \in DOMAIN g.tags : /\ NamesVersion(g.tags[n])
                                       /\ Compare(ParseTag(g.tags[n]), v) = 0}

\* The fullest spelling wins, the first read on a tie; 0 where no tag names v.
TagNaming(g, v) ==
  IF g.kind # "read" \/ Naming(g, v) = {} THEN 0
  ELSE CHOOSE n \in Naming(g, v) : \A m \in Naming(g, v) :
         \/ TagComponents(g.tags[n]) > TagComponents(g.tags[m])
         \/ TagComponents(g.tags[n]) = TagComponents(g.tags[m]) /\ n <= m

DayOf(g, n) == IF n = 0 THEN 0 ELSE g.days[n]

\* The versions the reference tag's changelog already carried.
Frozen(g) == IF g.kind # "read" THEN {} ELSE {g.was[i].ver : i \in Released(g.was)}

-----------------------------------------------------------------------------
(* The checks: the entries of doc each fires on, on a given day            *)

UnreadableVersion(doc) == {i \in DOMAIN doc : doc[i].kind = "unreadable"}

Undated(doc) == {i \in Released(doc) : doc[i].date = NoDate}

HeadingForm(doc) == {i \in Undated(doc) : i # Latest(doc)}

UndatedRelease(doc, g) ==
  {i \in Undated(doc) : /\ i = Latest(doc)
                        /\ TagNaming(g, doc[i].ver) # 0
                        /\ ~Prerelease(doc[i].ver)}

UndatedEntry(doc, g) == {i \in Undated(doc) : i = Latest(doc)} \ UndatedRelease(doc, g)

DateFormat(doc) == {i \in Released(doc) : doc[i].date = BadDate}

\* Mutant: an entry repeating the version above it passes for one below it.
VersionOrderLax(doc) ==
  {i \in Released(doc) : Above(doc, i) # 0 /\ Compare(doc[i].ver, doc[Above(doc, i)].ver) > 0}

VersionOrder(doc) ==
  {i \in Released(doc) : Above(doc, i) # 0 /\ Compare(doc[i].ver, doc[Above(doc, i)].ver) >= 0}

DateOrder(doc) ==
  {i \in Released(doc) : /\ Above(doc, i) # 0
                         /\ IsDate(doc[i].date) /\ IsDate(doc[Above(doc, i)].date)
                         /\ doc[i].date > doc[Above(doc, i)].date}

DateFuture(doc, today) == {i \in Released(doc) : IsDate(doc[i].date) /\ doc[i].date > today}

DateMismatch(doc, g) ==
  {i \in Released(doc) : /\ IsDate(doc[i].date)
                         /\ DayOf(g, TagNaming(g, doc[i].ver)) \notin {0, doc[i].date}}

EmptyEntry(doc) == {i \in Released(doc) : doc[i].body = Empty}

PartialLinkRefs(doc) ==
  IF \E i \in Released(doc) : doc[i].link THEN {i \in Released(doc) : ~doc[i].link} ELSE {}

PrereleaseEntry(doc) == {i \in Released(doc) : Prerelease(doc[i].ver)}

\* Mutant: only the length of a tag is looked at.
OverlongOnly(doc) == {i \in Released(doc) : doc[i].ver \in Overlong}

\* A "+" is what a spelled version may hold and an OCI tag may not.
OCIIncompatible(doc) ==
  {i \in Released(doc) : doc[i].ver.build # <<>> \/ doc[i].ver \in Overlong}

UnknownSection(doc) ==
  {i \in DOMAIN doc : \E s \in DOMAIN doc[i].sections : doc[i].sections[s] \notin AllowedSections}

\* Silent on a frozen entry, which no edit may repair.
DuplicateSection(doc, g) ==
  {i \in DOMAIN doc : /\ doc[i].kind # "version" \/ doc[i].ver \notin Frozen(g)
                      /\ \E s, t \in DOMAIN doc[i].sections :
                           s < t /\ doc[i].sections[s] = doc[i].sections[t]}

NoGitTags(g) == IF g.kind = "unreadable" THEN {0} ELSE {}

Compared(g) == g.kind = "read" /\ g.ref # 0

\* Mutant: an entry level with the reference tag is taken to be behind it.
VersionBehindOrLevel(doc, g) ==
  {i \in {Latest(doc)} \ {0} : /\ Compared(g)
                               /\ Compare(doc[i].ver, ParseTag(g.tags[g.ref])) <= 0}

VersionBehindTag(doc, g) ==
  {i \in {Latest(doc)} \ {0} : /\ Compared(g)
                               /\ Compare(doc[i].ver, ParseTag(g.tags[g.ref])) < 0}

\* The entry a version is read from now: the last one naming it.
Now(doc, v) == LET naming == {i \in Released(doc) : doc[i].ver = v}
               IN  IF naming = {} THEN 0 ELSE Greatest(naming)

\* Mutant: the date alone tells a modified entry.
ModifiedDate(doc, was) ==
  Now(doc, was.ver) = 0 \/ doc[Now(doc, was.ver)].date # was.date

\* Mutant: any difference in the entry counts, its link reference included.
ModifiedWhole(doc, was) == Now(doc, was.ver) = 0 \/ doc[Now(doc, was.ver)] # was

\* The entry of the tagged document no longer stands as it was released.
Modified(doc, was) ==
  LET n == Now(doc, was.ver)
  IN  n = 0 \/ doc[n].date # was.date \/ doc[n].body # was.body

\* Released entries, of one kind of version, that changed since the reference tag.
ModifiedEntries(doc, g, pre) ==
  IF ~Compared(g) THEN {}
  ELSE {Now(doc, g.was[w].ver) : w \in {w \in Released(g.was) :
          Prerelease(g.was[w].ver) = pre /\ Modified(doc, g.was[w])}}

Checks == {"unreadable-version", "heading-form", "date-format", "version-order",
           "empty-entry", "unknown-section", "duplicate-section", "date-order",
           "date-future", "date-mismatch", "partial-link-refs", "prerelease-entry",
           "oci-incompatible-version", "undated-entry", "undated-release", "no-git-tags",
           "version-behind-tag", "release-entry-modified", "prerelease-entry-modified"}

\* The register: every check raises errors, but for prerelease-entry.
DefaultSeverities == [c \in Checks |-> IF c = "prerelease-entry" THEN "off" ELSE "error"]

\* The entries check c fires on.
Fires(c, doc, g, today) ==
  CASE c = "unreadable-version" -> UnreadableVersion(doc)
    [] c = "heading-form" -> HeadingForm(doc)
    [] c = "date-format" -> DateFormat(doc)
    [] c = "version-order" -> VersionOrder(doc)
    [] c = "empty-entry" -> EmptyEntry(doc)
    [] c = "unknown-section" -> UnknownSection(doc)
    [] c = "duplicate-section" -> DuplicateSection(doc, g)
    [] c = "date-order" -> DateOrder(doc)
    [] c = "date-future" -> DateFuture(doc, today)
    [] c = "date-mismatch" -> DateMismatch(doc, g)
    [] c = "partial-link-refs" -> PartialLinkRefs(doc)
    [] c = "prerelease-entry" -> PrereleaseEntry(doc)
    [] c = "oci-incompatible-version" -> OCIIncompatible(doc)
    [] c = "undated-entry" -> UndatedEntry(doc, g)
    [] c = "undated-release" -> UndatedRelease(doc, g)
    [] c = "no-git-tags" -> NoGitTags(g)
    [] c = "version-behind-tag" -> VersionBehindTag(doc, g)
    [] c = "release-entry-modified" -> ModifiedEntries(doc, g, FALSE)
    [] c = "prerelease-entry-modified" -> ModifiedEntries(doc, g, TRUE)

\* Every finding, at the severity in force; a check switched off raises none.
Lint(doc, g, today, severities) ==
  UNION {{<<c, severities[c], i>> : i \in Fires(c, doc, g, today)} :
           c \in {c \in Checks : severities[c] # "off"}}

-----------------------------------------------------------------------------
(* What one reading reports                                                *)

\* The verdict: nothing found at error severity, whatever -fail-on says.
Valid(findings) == \A f \in findings : f[2] # "error"

\* Whether the run exits non-zero at a -fail-on threshold.
Red(findings, failOn) ==
  CASE failOn = "error"   -> \E f \in findings : f[2] = "error"
    [] failOn = "warning" -> findings # {}
    [] failOn = "never"   -> FALSE

\* Mutant: a tag names a version only by the spelling v.Tag() would give it.
TaggedAsSpelled(g, v) ==
  g.kind = "read" /\ \E n \in DOMAIN g.tags : g.tags[n] = TagOf(Canonical(v))

\* Whether any tag the checkout carries names the version: already-tagged.
Tagged(g, v) ==
  g.kind = "read" /\ \E n \in DOMAIN g.tags :
    NamesVersion(g.tags[n]) /\ Canonical(ParseTag(g.tags[n])) = Canonical(v)

\* Why the newest entry is not a release to cut, "" where it is one.
NotDue(doc, g, duePrerelease) ==
  LET i == Latest(doc)
  IN  IF i = 0 THEN "the changelog names no version"
      ELSE IF Prerelease(doc[i].ver) /\ ~duePrerelease THEN "is a pre-release"
      ELSE IF g.kind = "unreadable" THEN "the repository's tags cannot be read"
      ELSE IF Tagged(g, doc[i].ver) THEN "is already tagged"
      ELSE ""

Due(doc, g, duePrerelease) == NotDue(doc, g, duePrerelease) = ""
=============================================================================
