------------------------------- MODULE Library -------------------------------
(***************************************************************************)
(* The two pure packages, asked about whatever they are given.  Versions   *)
(* arrive in a stream, and every three in a row are compared and spelled   *)
(* as tags, against definitions independent of the code's; or a document   *)
(* is written one entry at a time and read against a repository chosen at  *)
(* the start, and what one reading says must be consistent.                *)
(***************************************************************************)
EXTENDS Changelog, SequencesExt

CONSTANTS
  Stream,      \* the versions that may arrive
  Origin,      \* the one the stream rests at while a document is written
  Entries,     \* the entries a document may have
  Repos,       \* what the repository may say
  MaxEntries   \* bound: the entries of a document

\* What Parse returns, and what a document and a repository are made of.
ASSUME LibraryAssumption ==
  /\ Stream \subseteq Versions /\ Origin \in Stream
  /\ \A v \in Stream : /\ \A i \in DOMAIN v.pre : WellFormedPre(v.pre[i])
                      /\ \A i \in DOMAIN v.build : v.build[i] # <<>>
  /\ \A e \in Entries : e.kind \in Kinds /\ e.ver \in Versions /\ e.date \in Int /\ e.date >= BadDate
  /\ \A g \in Repos :
       /\ g.kind \in {"absent", "unreadable", "read"}
       /\ g.tags \in Seq(TagForms) /\ g.ref \in {0} \cup DOMAIN g.tags
       /\ g.ref # 0 => NamesVersion(g.tags[g.ref])
       /\ Len(g.was) \in Nat /\ DOMAIN g.was = 1..Len(g.was)
       /\ \A i \in DOMAIN g.was : g.was[i].kind \in Kinds /\ g.was[i].ver \in Versions
  /\ MaxEntries \in Nat

VARIABLES
  x, y, z,     \* the last three versions of the stream, the newest first
  doc, repo    \* the document, and the repository it is read against

vars == <<x, y, z, doc, repo>>

-----------------------------------------------------------------------------
Init == /\ x \in Stream /\ y = x /\ z = x
        /\ doc = <<>> /\ repo \in Repos
        /\ x = Origin \/ repo.kind = "absent"

\* The next version of the stream arrives.
Arrive == /\ doc = <<>> /\ repo.kind = "absent"
          /\ \E v \in Stream : x' = v /\ y' = x /\ z' = y
          /\ UNCHANGED <<doc, repo>>

\* The document gains an entry at its foot.
Write == /\ {x, y, z} = {Origin} /\ Len(doc) < MaxEntries
         /\ \E e \in Entries : doc' = Append(doc, e)
         /\ UNCHANGED <<x, y, z, repo>>

Next == Arrive \/ Write

Spec == Init /\ [][Next]_vars

-----------------------------------------------------------------------------
(* Versions                                                                *)

\* The number a numeral stands for.
Value(id) ==
  LET v[i \in 0..Len(id)] == IF i = 0 THEN 0 ELSE 10 * v[i - 1] + id[i]
  IN  v[Len(id)]

Final(v) == [v EXCEPT !.pre = <<>>]

\* Every tag that could spell version v: in full, or with a zero tail omitted.
Spellings(v) ==
  {t \in {[prefix |-> p, core |-> SubSeq(<<v.major, v.minor, v.patch>>, 1, n),
           pre |-> v.pre, build |-> v.build] : p \in BOOLEAN, n \in 1..3} :
     ExpandCore(t.core) = <<v.major, v.minor, v.patch>>}

\* Precedence is a total order on versions up to build metadata: reversing the
\* operands reverses the answer, it is transitive, and two versions tie exactly
\* when they differ in build metadata alone (Compare; the sort of git.Versions
\* and the version-order check both rest on it).
TotalOrder ==
  /\ Compare(x, y) = -Compare(y, x)
  /\ Compare(x, y) <= 0 /\ Compare(y, z) <= 0 => Compare(x, z) <= 0
  /\ Compare(x, y) = 0 <=> Canonical(x) = Canonical(y)

\* compareIdent never converts a numeral to a number, yet orders numerals by
\* the numbers they stand for, whatever their width.
NumeralsByValue ==
  \A i \in DOMAIN x.pre, j \in DOMAIN y.pre :
    AllDigits(x.pre[i]) /\ AllDigits(y.pre[j]) =>
      CompareIdent(x.pre[i], y.pre[j]) = Cmp(Value(x.pre[i]), Value(y.pre[j]))

\* A pre-release lies strictly between the final version it leads to and every
\* final version below that one (sections 9 and 11 as Compare applies them).
PrereleaseBetweenFinals ==
  Prerelease(x) =>
    /\ Compare(x, Final(x)) < 0
    /\ ~Prerelease(y) /\ Compare(y, Final(x)) < 0 => Compare(y, x) < 0

\* Every spelling of a version in a tag reads back as that version, and the
\* spelling cut by a release outranks each shorthand (ParseTag, TagComponents):
\* a moving v1 never displaces the v1.0.0 it points at.
FullSpellingWins ==
  \A t \in Spellings(x) :
    /\ NamesVersion(t) /\ ParseTag(t) = x
    /\ Len(t.core) < 3 => Outranks(TagOf(x), t) /\ ~Outranks(t, TagOf(x))

-----------------------------------------------------------------------------
(* Documents                                                               *)

Today == 1
Findings == Lint(doc, repo, Today, DefaultSeverities)

\* A changelog found valid runs newest first from end to end: every entry is
\* above all those below it, in version and in date, although Lint only compares
\* neighbours; and its newest entry is the highest version it names.
GreenRunsNewestFirst ==
  Valid(Findings) =>
    \A i, j \in Released(doc) : i < j =>
      /\ Compare(doc[i].ver, doc[j].ver) > 0
      /\ IsDate(doc[i].date) /\ IsDate(doc[j].date) /\ doc[i].date >= doc[j].date

\* README.md:89-92: undated-release and the already-tagged output cannot disagree
\* about which case a run is in, although one compares by precedence and the
\* other by canonical spelling.
CheckAgreesWithOutput ==
  LET i == Latest(doc)
  IN  i # 0 /\ doc[i].date = NoDate /\ ~Prerelease(doc[i].ver) =>
        (UndatedRelease(doc, repo) # {} <=> Tagged(repo, doc[i].ver))

\* A release that is due, from a changelog found valid, is above the reference
\* tag, whichever way that tag spells its version.
DueIsAboveReference ==
  Valid(Findings) /\ Due(doc, repo, FALSE) /\ Compared(repo) =>
    Compare(doc[Latest(doc)].ver, ParseTag(repo.tags[repo.ref])) > 0

\* Whatever the newest entry says in place of a version, nothing is released from
\* an entry below it: an unreadable heading on top is never passed over.
NothingBelowUnreadable ==
  Due(doc, repo, TRUE) =>
    \A i \in DOMAIN doc : i < Latest(doc) => doc[i].kind = "unreleased"

\* Released entries kept word for word below new ones are never called modified,
\* whatever happens to the link references at the foot of the document.
KeptIsSilent ==
  LET kept(i, e) == /\ e.kind = doc[i].kind /\ e.ver = doc[i].ver
                    /\ e.date = doc[i].date /\ e.body = doc[i].body
      gap == Len(doc) - Len(repo.was)
  IN  /\ gap >= 0
      /\ VersionOrder(doc) = {}
      /\ \A w \in DOMAIN repo.was : kept(w + gap, repo.was[w])
      => \A f \in Findings : f[1] \notin {"release-entry-modified", "prerelease-entry-modified"}
=============================================================================
