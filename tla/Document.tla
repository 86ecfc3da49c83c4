------------------------------ MODULE Document ------------------------------
(***************************************************************************)
(* A changelog as the writers see it: lines and their positions.           *)
(* Translated from pkg/changelog (Parse of changelog.go, and edit.go).     *)
(*                                                                         *)
(* A document is the sequence of its lines, blank ones left out:           *)
(*   [kind |-> "title"]                      a level-1 heading             *)
(*   [kind \in Kinds, ver, date, bracketed]  a level-2 heading             *)
(*   [kind |-> "section", name]              a level-3 heading             *)
(*   [kind |-> "text", item, text]           content; item: a list marker  *)
(*   [kind |-> "ref", label, v, prev, next]  a link reference definition   *)
(* The byte offsets of the code are positions of lines here.  In a ref,    *)
(* label, prev and next are sets of at most one version: {} is the label   *)
(* of [Unreleased], a URL that is no compare URL, and HEAD; v tells        *)
(* whether its tags are spelled with a "v".                                *)
(*                                                                         *)
(* An edit is the set of the documents it may return: one, or none where   *)
(* it is refused.                                                          *)
(***************************************************************************)
EXTENDS Changelog, SequencesExt

CONSTANTS
  Fold,       \* the section names, each to its form without regard to case
  Breaking    \* the texts that carry strong emphasis opening with "Breaking"

Title == [kind |-> "title"]
Heading(kind, ver, date, bracketed) ==
  [kind |-> kind, ver |-> ver, date |-> date, bracketed |-> bracketed]
SectionLine(name) == [kind |-> "section", name |-> name]
Text(item, text) == [kind |-> "text", item |-> item, text |-> text]
Ref(label, v, prev, next) ==
  [kind |-> "ref", label |-> label, v |-> v, prev |-> prev, next |-> next]

\* The heading of [Unreleased] states no version; this one stands in its field.
NoVersion == [major |-> 0, minor |-> 0, patch |-> 0, pre |-> <<>>, build |-> <<>>]

At(d, kinds) == {k \in DOMAIN d : d[k].kind \in kinds}

\* The first position of S after k, or the one past the end of d.
After(S, k, d) == LET later == {j \in S : j > k}
                  IN  IF later = {} THEN Len(d) + 1 ELSE Least(later)

-----------------------------------------------------------------------------
(* Parse: the entries of a document                                        *)

\* From the first line that is no link reference definition to the last: one
\* between them is part of the body.
Body(d, h) ==
  LET content == {k \in h + 1 .. After(At(d, Kinds), h, d) - 1 : d[k].kind # "ref"}
  IN  IF content = {} THEN Empty ELSE SubSeq(d, Least(content), Greatest(content))

SectionNames(d, h) ==
  LET own == Ascending({k \in h + 1 .. After(At(d, Kinds), h, d) - 1 : d[k].kind = "section"})
  IN  [n \in DOMAIN own |-> d[own[n]].name]

\* A bracketed heading is a live link where its label is defined anywhere.
Linked(d, h) ==
  /\ d[h].bracketed /\ d[h].kind # "unreadable"
  /\ \E k \in At(d, {"ref"}) :
       d[k].label = IF d[h].kind = "version" THEN {d[h].ver} ELSE {}

Parse(d) ==
  LET heads == Ascending(At(d, Kinds))
  IN  [n \in DOMAIN heads |->
        LET h == heads[n]
        IN  [kind |-> d[h].kind, ver |-> d[h].ver, date |-> d[h].date, body |-> Body(d, h),
             sections |-> SectionNames(d, h), link |-> Linked(d, h)]]

\* Find: the first entry naming v by precedence, 0 where there is none.
Find(doc, v) == LET naming == {i \in Released(doc) : Compare(doc[i].ver, v) = 0}
                IN  IF naming = {} THEN 0 ELSE Least(naming)

-----------------------------------------------------------------------------
(* locate: where the parts of a document sit                               *)

\* Where the entry at h stops for an edit: a level-1 heading ends it too.
Stop(d, h) == After(At(d, Kinds \cup {"title"}), h, d)

\* The last content line of the entry, or its heading: definitions are not content.
EntryEnd(d, h) ==
  Greatest({h} \cup {k \in h + 1 .. Stop(d, h) - 1 : d[k].kind \in {"section", "text"}})

SectionsOf(d, h) == {k \in h + 1 .. Stop(d, h) - 1 : d[k].kind = "section"}

SectionEnd(d, h, s) ==
  LET stop == After(SectionsOf(d, h) \cup {Stop(d, h)}, s, d)
  IN  Greatest({s} \cup {k \in s + 1 .. stop - 1 : d[k].kind = "text"})

\* layout.unreleased: the first such heading, 0 where there is none.
Unreleased(d) == LET heads == At(d, {"unreleased"})
                 IN  IF heads = {} THEN 0 ELSE Least(heads)

\* lines put after position k.
Splice(d, k, lines) == SubSeq(d, 1, k) \o lines \o SubSeq(d, k + 1, Len(d))

\* lines put in the place of position k.
Replace(d, k, lines) == SubSeq(d, 1, k - 1) \o lines \o SubSeq(d, k + 1, Len(d))

-----------------------------------------------------------------------------
(* Append: one note added under a section of [Unreleased]                  *)

DefaultSections == <<"Added", "Changed", "Deprecated", "Removed", "Fixed", "Security">>

\* The Keep a Changelog order; every other name comes after all six.
SectionRank(name) ==
  LET same == {i \in DOMAIN DefaultSections : DefaultSections[i] = Fold[name]}
  IN  IF same = {} THEN Len(DefaultSections) + 1 ELSE Least(same)

\* A note is the sequence of its lines; the first carries the list marker.
Item(note) == [i \in DOMAIN note |-> Text(i = 1, note[i])]

\* Whether the lines of item stand together between lines s and last.
Has(d, s, last, item) ==
  \E k \in s + 1 .. last - Len(item) + 1 : SubSeq(d, k, k + Len(item) - 1) = item

\* The section of the entry at h that a note for name goes to, 0 for none.
SectionNamed(d, h, name) ==
  LET same == {s \in SectionsOf(d, h) : Fold[d[s].name] = Fold[name]}
  IN  IF same = {} THEN 0 ELSE Least(same)

\* No [Unreleased]: one is created above the newest entry, or, in a document of
\* no entries, before its first definition or at its foot.
OpenUnreleased(d, block) ==
  LET heads == At(d, Kinds)
      refs == At(d, {"ref"})
      at == CASE heads # {} -> Least(heads)
              [] heads = {} /\ refs # {} -> Least(refs)
              [] OTHER -> Len(d) + 1
  IN  Splice(d, at - 1, <<Heading("unreleased", NoVersion, NoDate, TRUE)>> \o block)

\* Mutant: the item is written whether or not the section carries it.
AddItemAlways(d, s, last, item) == Splice(d, last, item)

\* The section is there: the item goes to its end, unless it is there already.
AddItem(d, s, last, item) == IF Has(d, s, last, item) THEN d ELSE Splice(d, last, item)

\* Mutant: a new section goes to the end of the entry.
AddSectionLast(d, u, name, block) == Splice(d, EntryEnd(d, u), block)

\* No such section: it is created above the first that ranks after it.
AddSection(d, u, name, block) ==
  LET after == {s \in SectionsOf(d, u) : SectionRank(d[s].name) > SectionRank(name)}
  IN  Splice(d, IF after = {} THEN EntryEnd(d, u) ELSE Least(after) - 1, block)

AppendNote(d, name, note) ==
  LET u == Unreleased(d)
      s == SectionNamed(d, u, name)
      block == <<SectionLine(name)>> \o Item(note)
  IN  CASE name \notin DOMAIN Fold \/ note = <<>> -> {}     \* no heading, or empty
        [] name \in DOMAIN Fold /\ note # <<>> ->
             {IF u = 0 THEN OpenUnreleased(d, block)
              ELSE IF s # 0 THEN AddItem(d, s, SectionEnd(d, u, s), Item(note))
              ELSE AddSection(d, u, name, block)}

-----------------------------------------------------------------------------
(* Release: [Unreleased] becomes an entry naming a version                 *)

\* The [Unreleased] entries above the newest that names a version.
Offered(doc) ==
  LET stop == IF Released(doc) = {} THEN Len(doc) + 1 ELSE Least(Released(doc))
  IN  {i \in DOMAIN doc : doc[i].kind = "unreleased" /\ i < stop}

\* Mutant: the compare link of the release starts at the release itself.
ReleaseRefsFromNew(d, v) ==
  LET refs == At(d, {"ref"})
      own == {k \in refs : d[k].label = {}}
      r == Least(own)
  IN  CASE refs = {} -> {d}
        [] refs # {} /\ (own = {} \/ d[r].prev = {}) -> {}
        [] refs # {} /\ own # {} /\ d[r].prev # {} ->
             {Replace(d, r, <<Ref({}, d[r].v, {v}, {}), Ref({v}, d[r].v, {v}, {v})>>)}

\* The [Unreleased] compare link is moved to start at the new tag, spelled as the
\* previous one was, and the link of the release is put below it.
ReleaseRefs(d, v) ==
  LET refs == At(d, {"ref"})
      own == {k \in refs : d[k].label = {}}
      r == Least(own)
  IN  CASE refs = {} -> {d}
        [] refs # {} /\ (own = {} \/ d[r].prev = {}) -> {}   \* none, or no compare URL
        [] refs # {} /\ own # {} /\ d[r].prev # {} ->
             {Replace(d, r, <<Ref({}, d[r].v, {v}, {}), Ref({v}, d[r].v, d[r].prev, {v})>>)}

\* Mutant: the newest version may be named again.
RefusedLax(doc, v, date) ==
  LET named == Released(doc)
  IN  \/ date = BadDate
      \/ named # {} /\ doc[Least(named)].date = NoDate
      \/ Offered(doc) = {}
      \/ doc[Greatest(Offered(doc))].body = Empty
      \/ \E i \in named : Compare(v, doc[i].ver) < 0

\* Mutant: an entry is released with nothing under it.
RefusedUnlessEmpty(doc, v, date) ==
  LET named == Released(doc)
  IN  \/ date = BadDate
      \/ named # {} /\ doc[Least(named)].date = NoDate
      \/ Offered(doc) = {}
      \/ \E i \in named : Compare(v, doc[i].ver) <= 0

\* Why Release returns an error before it edits anything.
Refused(doc, v, date) ==
  LET named == Released(doc)
  IN  \/ date = BadDate
      \/ named # {} /\ doc[Least(named)].date = NoDate       \* the newest is open
      \/ Offered(doc) = {}
      \/ doc[Greatest(Offered(doc))].body = Empty
      \/ \E i \in named : Compare(v, doc[i].ver) <= 0

\* The heading is replaced at the position located before the links were edited.
Release(d, v, date) ==
  LET u == Unreleased(d)
      headings == <<Heading("unreleased", NoVersion, NoDate, d[u].bracketed),
                    Heading("version", v, date, d[u].bracketed)>>
  IN  IF Refused(Parse(d), v, date) THEN {}
      ELSE {Replace(linked, u, headings) : linked \in ReleaseRefs(d, v)}

-----------------------------------------------------------------------------
(* Next: the version the notes call for                                    *)

\* Component arithmetic is that of a uint64.
Inc(n) == (n + 1) % (MaxComponent + 1)

IsBreaking(e) ==
  \/ \E n \in DOMAIN e.sections : Fold[e.sections[n]] = "Breaking"
  \/ \E k \in DOMAIN e.body : e.body[k].kind = "text" /\ e.body[k].text \in Breaking

\* A section, empty or not, that is more than a repair.
Adds(e) == \E n \in DOMAIN e.sections : Fold[e.sections[n]] \notin {"Fixed", "Security"}

\* Mutant: only a "Breaking" section marks a note breaking.
BumpUnmarked(base, e) ==
  CASE (\E n \in DOMAIN e.sections : Fold[e.sections[n]] = "Breaking") /\ base.major > 0 ->
         [NoVersion EXCEPT !.major = Inc(base.major)]
    [] Adds(e) -> [NoVersion EXCEPT !.major = base.major, !.minor = Inc(base.minor)]
    [] OTHER -> [NoVersion EXCEPT !.major = base.major, !.minor = base.minor,
                                  !.patch = Inc(base.patch)]

Bump(base, e) ==
  CASE IsBreaking(e) /\ base.major > 0 -> [NoVersion EXCEPT !.major = Inc(base.major)]
    [] ~(IsBreaking(e) /\ base.major > 0) /\ (IsBreaking(e) \/ Adds(e)) ->
         [NoVersion EXCEPT !.major = base.major, !.minor = Inc(base.minor)]
    [] ~IsBreaking(e) /\ ~Adds(e) ->
         [NoVersion EXCEPT !.major = base.major, !.minor = base.minor, !.patch = Inc(base.patch)]

\* Bumped from the newest final version, for the notes of the first [Unreleased].
NextVersion(doc) ==
  LET notes == {i \in DOMAIN doc : doc[i].kind = "unreleased"}
      finals == {i \in Released(doc) : ~Prerelease(doc[i].ver)}
  IN  IF notes = {} \/ finals = {} \/ doc[Least(notes)].body = Empty THEN {}
      ELSE {Bump(doc[Least(finals)].ver, doc[Least(notes)])}
=============================================================================
