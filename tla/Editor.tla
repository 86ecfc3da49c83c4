------------------------------- MODULE Editor -------------------------------
(***************************************************************************)
(* The commands append and release of cmd/changelog/write.go: processes    *)
(* that read the file, edit what they read, and write the result over it.  *)
(* The write opens the file empty and then fills it, nothing keeps two     *)
(* commands apart, and a command may be killed anywhere.                   *)
(***************************************************************************)
EXTENDS Document

CONSTANTS
  Commands,   \* the processes
  Requests,   \* what each command may be asked for
  StartDocs,  \* the documents a file may hold at first
  MaxLines,   \* bound: no command starts on a longer file, nor on a torn one
  MaxDay,     \* bound: days that pass
  Numbers     \* the versions, for the ledger the writers keep

\* Documents and notes are sequences of lines.
ASSUME EditorAssumption ==
  /\ \A d \in StartDocs : d \in Seq(Range(d))
  /\ \A c \in Commands : \A req \in Requests[c] :
       req.op = "append" => req.note \in Seq(Range(req.note))

VARIABLES
  file,    \* the document on disk
  today,
  jobs,    \* each command: [phase, req, day, src, out, said]
  apart,   \* whether every command so far has ended before the next began
  torn     \* whether one command was written over the start of another

vars == <<file, today, jobs, apart, torn>>

Phases == {"idle", "read", "opened", "written", "returned"}

\* What a command reports: nothing, or the version released and its notes.
Nothing == <<>>

AppendRequest(section, note) == [op |-> "append", section |-> section, note |-> note]

\* given: the version asked for, or none; date: the day asked for, or NoDate for
\* today; open: no date at all.
ReleaseRequest(given, date, open) ==
  [op |-> "release", given |-> given, date |-> date, open |-> open]

\* The date release writes, decided before the file is read.
DayFor(req) == CASE req.op = "append" -> NoDate
                 [] req.op = "release" /\ req.open -> NoDate
                 [] req.op = "release" /\ ~req.open ->
                      IF req.date = NoDate THEN today ELSE req.date

\* Mutant: a version is computed even where one is given.
NumberComputed(doc, given) == NextVersion(doc)

\* releaseVersion: the version given, or the one the notes call for.
Number(doc, given) == IF given = {} THEN NextVersion(doc) ELSE given

\* The edit a command makes of the document it read.
Edited(req, day, src) ==
  IF req.op = "append" THEN AppendNote(src, req.section, req.note)
  ELSE UNION {Release(src, v, day) : v \in Number(Parse(src), req.given)}

-----------------------------------------------------------------------------
Idle == [phase |-> "idle", req |-> Nothing, day |-> NoDate, src |-> <<>>, out |-> <<>>,
         said |-> Nothing]

Init == /\ file \in StartDocs
        /\ today = 1
        /\ jobs = [c \in Commands |-> Idle]
        /\ apart = TRUE
        /\ torn = FALSE

Tick == today < MaxDay /\ today' = today + 1 /\ UNCHANGED <<file, jobs, apart, torn>>

\* A command starts and reads the file. -open with -date is refused at once.
Read(c) ==
  /\ jobs[c].phase = "idle" /\ Len(file) <= MaxLines /\ ~torn
  /\ \E req \in Requests[c] :
       /\ req.op = "release" => ~(req.open /\ req.date # NoDate)
       /\ jobs' = [jobs EXCEPT ![c] =
            [phase |-> "read", req |-> req, day |-> DayFor(req), src |-> file, out |-> <<>>,
             said |-> Nothing]]
  /\ apart' = (apart /\ \A d \in Commands : jobs[d].phase = "idle")
  /\ UNCHANGED <<file, today, torn>>

\* The edit is refused: the command fails, and the file is not opened.
Refuse(c) ==
  /\ jobs[c].phase = "read"
  /\ Edited(jobs[c].req, jobs[c].day, jobs[c].src) = {}
  /\ jobs' = [jobs EXCEPT ![c] = Idle]
  /\ UNCHANGED <<file, today, apart, torn>>

\* The edit is made, and the file opened to be written: from here it is empty.
Open(c) ==
  /\ jobs[c].phase = "read"
  /\ \E out \in Edited(jobs[c].req, jobs[c].day, jobs[c].src) :
       jobs' = [jobs EXCEPT ![c].phase = "opened", ![c].out = out]
  /\ file' = <<>>
  /\ UNCHANGED <<today, apart, torn>>

\* The result is written from the start of the file, in one call.  What another command
\* wrote since the file was opened stays where it is longer.
Write(c) ==
  /\ jobs[c].phase = "opened"
  /\ file' = jobs[c].out \o SubSeq(file, Len(jobs[c].out) + 1, Len(file))
  /\ torn' = (torn \/ Len(file) > Len(jobs[c].out))
  /\ jobs' = [jobs EXCEPT ![c].phase = "written"]
  /\ UNCHANGED <<today, apart>>

\* The version released, and the notes of the entry that the file, read again, has
\* for it; empty where it has none.
Report(c) ==
  IF jobs[c].req.op = "append" THEN Nothing
  ELSE LET v == CHOOSE v \in Number(Parse(jobs[c].src), jobs[c].req.given) : TRUE
           doc == Parse(file)
           i == Find(doc, v)
       IN  <<v, IF i = 0 THEN Empty ELSE doc[i].body>>

\* append returns; release reads the file again and reports.
Return(c) ==
  /\ jobs[c].phase = "written"
  /\ jobs' = [jobs EXCEPT ![c].phase = "returned", ![c].said = Report(c)]
  /\ UNCHANGED <<file, today, apart, torn>>

\* The command ends: it has returned, or is killed, and the file stays as it is.
End(c) ==
  /\ jobs[c].phase # "idle"
  /\ jobs' = [jobs EXCEPT ![c] = Idle]
  /\ UNCHANGED <<file, today, apart, torn>>

Next == Tick \/ \E c \in Commands :
                  Read(c) \/ Refuse(c) \/ Open(c) \/ Write(c) \/ Return(c) \/ End(c)

Spec == Init /\ [][Next]_vars

-----------------------------------------------------------------------------
(* Properties                                                              *)

\* The ledger a document is: the lines under a heading, each with its section.
LinesUnder(d, h) ==
  LET section(k) == LET above == {s \in SectionsOf(d, h) : s < k}
                    IN  IF above = {} THEN "" ELSE Fold[d[Greatest(above)].name]
  IN  {<<section(k), d[k].text>> : k \in {k \in h + 1 .. Stop(d, h) - 1 : d[k].kind = "text"}}

Pending(d) == IF Unreleased(d) = 0 THEN {} ELSE LinesUnder(d, Unreleased(d))

Releases(d) == {[ver |-> d[h].ver, lines |-> LinesUnder(d, h)] : h \in At(d, {"version"})}

\* What the file holds, or is about to: a command that has opened it fills it next.
Held == IF \E c \in Commands : jobs[c].phase = "opened"
        THEN jobs[CHOOSE c \in Commands : jobs[c].phase = "opened"].out
        ELSE file

Brought == {{<<Fold[req.section], req.note[i]>> : i \in DOMAIN req.note} :
              req \in {r \in UNION {Requests[c] : c \in Commands} :
                         r.op = "append" /\ r.section \in DOMAIN Fold}}

\* Once two commands have overlapped, nothing is promised any more.
Book == INSTANCE Ledger WITH pending  <- IF apart THEN Pending(Held) ELSE {},
                             releases <- IF apart THEN Releases(Held) ELSE {},
                             Notes <- Brought, Numbers <- Numbers

\* Commands that run one after another keep the ledger: append loses no note and doubles none,
\* release moves all of them under a version above every other and never touches a
\* release made before, and a command that fails or is killed leaves everything as
\* it was, unless it is killed within the write itself.
KeepsTheLedger == Book!Spec

\* Nothing for lint to say of a document, but for the entry that -open leaves undated.
CleanDoc(d) ==
  \A f \in Lint(Parse(d), [kind |-> "absent", tags |-> <<>>, days |-> <<>>, ref |-> 0, was |-> <<>>],
                today, DefaultSeverities) : f[1] = "undated-entry"

\* edit_test.go:178-179: what the writers make of a document that lints clean lints clean,
\* be it the empty one that a command killed, or about to write, leaves to the next.
WritesLintClean ==
  \A c \in Commands :
    jobs[c].phase = "written" /\ CleanDoc(jobs[c].src) => CleanDoc(jobs[c].out)

\* The link of each release compares it with the release below it, and the link of
\* [Unreleased] with the newest one: the chain a reader follows has no gap.
LinksChain ==
  LET doc == Parse(file)
      below(v) == {i \in Released(doc) : Compare(doc[i].ver, v) < 0}
  IN  ~torn => \A k \in At(file, {"ref"}) : \A v \in file[k].label :
        /\ below(v) # {} => file[k].prev = {doc[Least(below(v))].ver}
        /\ \A j \in At(file, {"ref"}) : file[j].label = {} /\ Released(doc) # {} =>
             file[j].prev = {doc[Least(Released(doc))].ver}

\* The sections of each entry follow Keep a Changelog, and no two have one name.
InOrder(d) ==
  \A h \in At(d, Kinds) : \A s, t \in SectionsOf(d, h) :
    s < t => /\ SectionRank(d[s].name) <= SectionRank(d[t].name)
             /\ Fold[d[s].name] # Fold[d[t].name]

\* README.md:377-378: sections stay in the order of Keep a Changelog, and no entry has
\* two sections of one name, whatever case the document writes them in.
SectionsInOrder == ~torn => InOrder(file)

\* README.md:379-380: "a rerun adds nothing": what append wrote, append leaves alone,
\* be the section there before or created by the first call.
RerunAddsNothing ==
  \A c \in Commands :
    jobs[c].phase = "written" /\ jobs[c].req.op = "append" =>
      AppendNote(jobs[c].out, jobs[c].req.section, jobs[c].req.note) = {jobs[c].out}

\* What release reports is the release it made: the notes that were waiting, under
\* the version asked for, or else one no lower than any bump from the newest final.
ReportsItsRelease ==
  \A c \in Commands : apart /\ jobs[c].said # Nothing =>
    LET was == Parse(jobs[c].src)
        v == jobs[c].said[1]
    IN  /\ jobs[c].said[2] = was[Least({i \in DOMAIN was : was[i].kind = "unreleased"})].body
        /\ jobs[c].req.given # {} => jobs[c].req.given = {v}
        /\ \A i \in Released(was) : Compare(v, was[i].ver) > 0

\* Breaking notes never go out as a patch: in what release writes under a version it
\* computed, a breaking entry differs from the final version below it in more than
\* the patch number.
BreakingIsNoPatch ==
  \A c \in Commands :
    jobs[c].phase = "written" /\ jobs[c].req.op = "release" =>
      LET doc == Parse(jobs[c].out)
          i == Latest(doc)
          finals == {j \in Released(doc) : j > i /\ ~Prerelease(doc[j].ver)}
          base == doc[Least(finals)].ver
      IN  jobs[c].req.given = {} /\ IsBreaking(doc[i]) =>
            <<doc[i].ver.major, doc[i].ver.minor>> # <<base.major, base.minor>>

\* edit.go:218: release "turns the [Unreleased] entry into one naming version": the
\* notes that waited stand under it, and none waits any more.
NotesMove ==
  \A c \in Commands :
    jobs[c].phase = "written" /\ jobs[c].req.op = "release" =>
      /\ Pending(jobs[c].out) = {}
      /\ \E r \in Releases(jobs[c].out) : r.lines = Pending(jobs[c].src)
=============================================================================
