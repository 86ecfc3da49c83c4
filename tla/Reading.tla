------------------------------- MODULE Reading -------------------------------
(***************************************************************************)
(* What a run reads from the repository it is in: the function state of    *)
(* cmd/changelog/main.go over the handle of pkg/git, composed of Checkout, *)
(* which answers for the reference tag, and Changelog, which lints against *)
(* what is read.                                                           *)
(*                                                                         *)
(* A history grows by commits, each with its changelog, and by tags; it is *)
(* read from a clone of it, whole or cut at a depth.  Time runs in half    *)
(* days, so that a zone may be a day behind or ahead of UTC: a moment has  *)
(* a day in each zone.                                                     *)
(***************************************************************************)
EXTENDS Changelog, Checkout, SequencesExt

CONSTANTS
  Zones,      \* by how many half days a zone is ahead of UTC
  Dating,     \* how entries are dated: "utc" by the command release, "local" by hand
  MaxMoment   \* bound: half days that pass

ASSUME ReadingAssumption ==
  /\ Zones \subseteq {-1, 0, 1} /\ Dating \subseteq {"utc", "local"}
  /\ MaxMoment \in Nat
  /\ \A i \in Tags : NamesVersion(Names[i])

VARIABLES
  history,  \* the commits, oldest first: [parents, doc, moment, zone]
  cuts,     \* each tag name: [kind, commit, moment, zone]
  now

historyVars == <<history, cuts, now>>

Uncut == [kind |-> "none", commit |-> NoCommit, moment |-> 0, zone |-> 0]

\* The calendar day of a moment in a zone, and in UTC.
Day(moment, zone) == ((moment + zone) \div 2) + 2
UtcDay(moment) == Day(moment, 0)

-----------------------------------------------------------------------------
(* The clone that is read                                                  *)

\* The commits a clone of some depth carries.
Carried(head, depth) ==
  LET near[n \in Nat] == IF n <= 1 THEN {head}
                         ELSE UNION {{c} \cup ToSet(history[c].parents) : c \in near[n - 1]}
  IN  near[depth]

\* Shallow: there is a commit whose parents were left out.
Shallow(r) == \E c \in r.carried : \E p \in DOMAIN r.parents[c] : r.parents[c][p] \notin r.carried

\* The checkout of commit head in a clone of a depth: a tag comes with the commit it names.
Clone(head, depth) ==
  LET carried == Carried(head, depth)
  IN  [parents |-> [c \in Commits |-> IF c \in DOMAIN history THEN history[c].parents ELSE <<>>],
       carried |-> carried,
       head    |-> head,
       tags    |-> {i \in Tags : cuts[i].commit \in carried},
       target  |-> [i \in Tags |-> cuts[i].commit],
       admit   |-> "final"]

\* Mutant: the day of a tag is read in UTC.
TagDayUtc(i) ==
  LET at == IF cuts[i].kind = "annotated" THEN cuts[i] ELSE history[cuts[i].commit]
  IN  UtcDay(at.moment)

\* The day a tag was cut, in the zone it was cut in: an annotated tag carries its own
\* moment, a lightweight one has that of its commit.
TagDay(i) ==
  LET at == IF cuts[i].kind = "annotated" THEN cuts[i] ELSE history[cuts[i].commit]
  IN  Day(at.moment, at.zone)

\* The changelog as it stood at a tag.
FileAt(i) == history[cuts[i].commit].doc

Unread == [kind |-> "unreadable", tags |-> <<>>, days |-> <<>>, ref |-> 0, was |-> <<>>]

\* Mutant: a clone that reaches no tag is read as a repository without releases.
StateOfAny(r) ==
  LET o == CHOOSE o \in Outcomes : Answers(r, o)
      tags == Ascending(r.tags)
      ref == IF o.kind = "found" THEN o.tag ELSE 0
  IN  [kind |-> "read",
       tags |-> [k \in DOMAIN tags |-> Names[tags[k]]],
       days |-> [k \in DOMAIN tags |-> TagDay(tags[k])],
       ref  |-> IF ref = 0 THEN 0 ELSE CHOOSE k \in DOMAIN tags : tags[k] = ref,
       was  |-> IF ref = 0 THEN <<>> ELSE FileAt(ref)]

\* state: everything the checks compare against.  A clone cut short that reaches no
\* version tag cannot be told from one before its first release, and is not read.
State(r) ==
  LET o == CHOOSE o \in Outcomes : Answers(r, o)
      tags == Ascending(r.tags)
      ref == IF o.kind = "found" THEN o.tag ELSE 0
  IN  IF o = Failed \/ (o = None /\ Shallow(r)) THEN Unread
      ELSE [kind |-> "read",
            tags |-> [k \in DOMAIN tags |-> Names[tags[k]]],
            days |-> [k \in DOMAIN tags |-> TagDay(tags[k])],
            ref  |-> IF ref = 0 THEN 0 ELSE CHOOSE k \in DOMAIN tags : tags[k] = ref,
            was  |-> IF ref = 0 THEN <<>> ELSE FileAt(ref)]

-----------------------------------------------------------------------------
(* The history that grows                                                  *)

Entry(i, date) ==
  [kind |-> "version", ver |-> ParseTag(Names[i]), date |-> date, body |-> "a",
   sections |-> <<"Added">>, link |-> FALSE]

\* A history is one line, as that of a trunk whose branches are rebased or squashed.
Tip == IF history = <<>> THEN <<>> ELSE <<Len(history)>>

HistoryInit == history = <<>> /\ cuts = [i \in Tags |-> Uncut] /\ now = 0

\* The changelog the next commit starts from: that of the newest.
Standing == IF history = <<>> THEN <<>> ELSE history[Len(history)].doc

\* The changelog of a commit: the one before it, or that with an entry on top for a
\* version above, dated by the command release or by its author, or without the newest.
Docs(zone) ==
  {Standing} \cup {Tail(doc) : doc \in {Standing} \ {<<>>}}
    \cup {<<Entry(i, IF by = "utc" THEN UtcDay(now) ELSE Day(now, zone))>> \o Standing :
            i \in {i \in Tags : \/ Standing = <<>>
                               \/ Compare(ParseTag(Names[i]), Standing[1].ver) > 0},
            by \in Dating}

Commit ==
  /\ Len(history) + 1 \in Commits
  /\ \E zone \in Zones : \E doc \in Docs(zone) :
       history' = Append(history, [parents |-> Tip, doc |-> doc, moment |-> now, zone |-> zone])
  /\ UNCHANGED <<cuts, now>>

\* A tag is cut for the version the newest entry of a commit names.
Cut ==
  /\ \E i \in Tags, c \in DOMAIN history, kind \in {"annotated", "light"}, zone \in Zones :
       /\ cuts[i] = Uncut
       /\ history[c].doc # <<>> /\ history[c].doc[1].ver = ParseTag(Names[i])
       /\ cuts' = [cuts EXCEPT ![i] = [kind |-> kind, commit |-> c, moment |-> now, zone |-> zone]]
  /\ UNCHANGED <<history, now>>

Tick == now < MaxMoment /\ now' = now + 1 /\ UNCHANGED <<history, cuts>>

HistoryNext == Commit \/ Cut \/ Tick

HistorySpec == HistoryInit /\ [][HistoryNext]_historyVars

-----------------------------------------------------------------------------
(* Properties                                                              *)

\* The newest commit, if any: a checkout of an older one is one of a shorter history.
Newest == {c \in DOMAIN history : c = Len(history)}

Whole(head) == Clone(head, Len(history))
Findings(head, g) == Lint(history[head].doc, g, UtcDay(now), DefaultSeverities)

\* The releases rise along the history, as Trunk's do.
Rising == \A s, t \in Tags :
            Uncut \notin {cuts[s], cuts[t]} /\ cuts[s].commit < cuts[t].commit
              => Compare(ParseTag(Names[s]), ParseTag(Names[t])) < 0

\* main.go:198-208: on a history that is one line along which releases rise, a clone of
\* any depth reads the reference tag of the whole history, with its changelog, or is
\* not read.
ShallowIsWholeOrRefused ==
  Rising => \A head \in Newest : \A depth \in 1..Len(history) :
    LET part == State(Clone(head, depth))
        whole == State(Whole(head))
    IN  part.kind = "read" =>
          /\ part.was = whole.was
          /\ part.ref # 0 => whole.ref # 0 /\ part.tags[part.ref] = whole.tags[whole.ref]
          /\ part.ref = 0 => whole.ref = 0

\* What the dates of the newest document were taken from: its author's day, with the
\* tag, where it has one, cut in that moment.
Honest(head, i) ==
  LET e == history[head].doc[i]
  IN  \E c \in DOMAIN history : \E t \in Tags :
        /\ ParseTag(Names[t]) = e.ver /\ cuts[t].commit = c
        /\ e.date = Day(history[c].moment, history[c].zone)
        /\ cuts[t].moment = history[c].moment /\ cuts[t].zone = history[c].zone

\* CHANGELOG.md:127-134: an entry dated by the day its author cut the release, in the
\* author's zone and by either kind of tag, is never found to disagree with its tag, and
\* a day later it is not in the future either, whatever zone that was.
HonestDatesSettle ==
  \A head \in Newest :
    LET doc == history[head].doc
        g == State(Whole(head))
    IN  \A i \in DOMAIN doc : Honest(head, i) =>
          /\ i \notin DateMismatch(doc, g)
          /\ \A c \in DOMAIN history :
               doc[i].date = Day(history[c].moment, history[c].zone) /\ now >= history[c].moment + 2
                 => i \notin DateFuture(doc, UtcDay(now))
=============================================================================
