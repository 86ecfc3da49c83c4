------------------------------- MODULE Outputs -------------------------------
(***************************************************************************)
(* What a run reports and how it ends: the flags of cmd/changelog/main.go, *)
(* its emit and summarize, and the format of internal/output in which a    *)
(* value of one line or of several is written to the file that the runner  *)
(* reads after the step.  The command release reports by the same emit.    *)
(*                                                                         *)
(* A value is a sequence of lines.  Of a line it matters whether a reader  *)
(* takes it for "name=value", for the opening "name<<delimiter", for a     *)
(* delimiter alone, or for neither, with a delimiter in it or not.         *)
(***************************************************************************)
EXTENDS Changelog

CONSTANTS
  Delims,   \* the delimiters that may be drawn
  Draws,    \* how often one is drawn
  Bodies,   \* the values of the output notes
  Fired,    \* which checks may fire
  Flags,    \* the flags a run may have: [error, warning, off, failOn]
  Befores   \* what the file may hold before

Plain(text) == [kind |-> "plain", text |-> text]
Pair(name, line) == [kind |-> "pair", name |-> name, line |-> line]
Opening(name, d) == [kind |-> "opening", name |-> name, delim |-> d]
Delim(d) == [kind |-> "delim", delim |-> d]
Near(d) == [kind |-> "near", delim |-> d]

ASSUME OutputsAssumption ==
  /\ Draws \in Nat \ {0}
  /\ \A f \in Flags : f.failOn \in {"error", "warning", "never", "unknown"}
  /\ \A s \in Bodies \cup Befores : s \in Seq({s[k] : k \in DOMAIN s})

VARIABLES
  given,    \* what the run is about: [command, flags, fired, notes, reason, named, before]
  at,       \* where it is: [step, n, tries, delim]
  stdout,
  file,     \* what the runner reads
  summary,  \* what the step summary gained
  exit,     \* the exit code, 2 while there is none
  broken    \* whether a write failed, or no delimiter was found

vars == <<given, at, stdout, file, summary, exit, broken>>

-----------------------------------------------------------------------------
(* Flags                                                                   *)

Known(flags) == flags.error \cup flags.warning \cup flags.off \subseteq Checks
                /\ flags.failOn # "unknown"

\* The register's severities with the flags error, warn and off applied in that order.
Severities(flags) ==
  [c \in Checks |-> CASE c \in flags.off -> "off"
                      [] c \in flags.warning \ flags.off -> "warning"
                      [] c \in flags.error \ (flags.off \cup flags.warning) -> "error"
                      [] OTHER -> DefaultSeverities[c]]

\* The findings that are kept: of the checks that fire, those not switched off.
Findings == {<<c, Severities(given.flags)[c], 1>> :
               c \in {c \in given.fired : Severities(given.flags)[c] # "off"}}

\* What is reported, of the outputs those that differ in kind: the verdict, the notes,
\* which alone may have several lines, and why no release is due.
Report ==
  IF given.command = "release" THEN <<[name |-> "notes", value |-> given.notes]>>
  ELSE <<[name |-> "valid", value |-> <<Plain(IF Valid(Findings) THEN "true" ELSE "false")>>],
         [name |-> "notes", value |-> given.notes],
         [name |-> "due-reason", value |-> <<Plain(given.reason)>>]>>

-----------------------------------------------------------------------------
(* The format                                                              *)

\* Mutant: a delimiter is absent where the first line is not it.
AbsentAtFirst(d, value) == value[1] # Delim(d)

\* Whether a delimiter occurs nowhere in a value.
Absent(d, value) == \A k \in DOMAIN value :
                      value[k].kind \in {"plain", "pair"} \/ value[k].delim # d

OneLine(value) == Len(value) = 1

Written(o, d) == IF OneLine(o.value) THEN <<Pair(o.name, o.value[1])>>
                 ELSE <<Opening(o.name, d)>> \o o.value \o <<Delim(d)>>

\* One more line for the runner: within a block until its delimiter stands alone, and
\* otherwise an output or the opening of a block.
ReadLine(so_far, line) ==
  CASE so_far.delim # {} /\ line = Delim(CHOOSE d \in so_far.delim : TRUE) ->
         [so_far EXCEPT !.delim = {}, !.outs = Append(@, [name |-> so_far.name, value |-> so_far.body])]
    [] so_far.delim # {} /\ line # Delim(CHOOSE d \in so_far.delim : TRUE) ->
         [so_far EXCEPT !.body = Append(@, line)]
    [] so_far.delim = {} /\ line.kind = "pair" ->
         [so_far EXCEPT !.outs = Append(@, [name |-> line.name, value |-> <<line.line>>])]
    [] so_far.delim = {} /\ line.kind = "opening" ->
         [so_far EXCEPT !.name = line.name, !.delim = {line.delim}, !.body = <<>>]
    [] OTHER -> [so_far EXCEPT !.sound = FALSE]

Fresh == [outs |-> <<>>, name |-> "", delim |-> {}, body |-> <<>>, sound |-> TRUE]

\* What the runner reads of a file, line by line.
ReadBack(lines) ==
  LET so_far[n \in 0..Len(lines)] == IF n = 0 THEN Fresh ELSE ReadLine(so_far[n - 1], lines[n])
  IN  so_far[Len(lines)]

\* What the step wrote before the run are whole outputs.
ASSUME BeforesAssumption == \A s \in Befores : ReadBack(s).sound /\ ReadBack(s).delim = {}

-----------------------------------------------------------------------------
(* The run                                                                 *)

Step(s) == [step |-> s, n |-> 0, tries |-> 0, delim |-> {}]

Init ==
  /\ given \in [command : {"inspect", "release"}, flags : Flags, fired : Fired, notes : Bodies,
                reason : {"", "is already tagged"}, named : BOOLEAN, before : Befores]
  /\ given.command = "release" => given.fired = {} /\ given.reason = "" /\ Known(given.flags)
  /\ at = Step("start")
  /\ file = given.before /\ stdout = <<>> /\ summary = <<>>
  /\ exit = 2 /\ broken = FALSE

Fail == exit' = 1 /\ at' = Step("ended")

\* Mutant: a run that is red ends before it reports.
StartJudged ==
  /\ at.step = "start"
  /\ IF Known(given.flags) /\ ~Red(Findings, given.flags.failOn)
     THEN at' = Step("stdout") /\ UNCHANGED exit
     ELSE Fail
  /\ UNCHANGED <<given, stdout, file, summary, broken>>

\* The flags are read: a check nobody registered, or another threshold, ends the run.
Start ==
  /\ at.step = "start"
  /\ IF Known(given.flags) THEN at' = Step("stdout") /\ UNCHANGED exit ELSE Fail
  /\ UNCHANGED <<given, stdout, file, summary, broken>>

Writing == at.step \in {"stdout", "file"} /\ at.n < Len(Report)

\* Mutant: delimiters are drawn until one is absent.
DrawForever ==
  /\ Writing /\ at.delim = {} /\ ~OneLine(Report[at.n + 1].value)
  /\ \E d \in Delims :
       IF Absent(d, Report[at.n + 1].value)
       THEN at' = [at EXCEPT !.delim = {d}] /\ UNCHANGED <<exit, broken>>
       ELSE UNCHANGED <<at, exit, broken>>
  /\ UNCHANGED <<given, stdout, file, summary>>

\* A delimiter is drawn for a value of several lines; one that occurs in it is drawn
\* again, so many times, and then the run fails.
Draw ==
  /\ Writing /\ at.delim = {} /\ ~OneLine(Report[at.n + 1].value)
  /\ \E d \in Delims :
       IF Absent(d, Report[at.n + 1].value)
       THEN at' = [at EXCEPT !.delim = {d}] /\ UNCHANGED <<exit, broken>>
       ELSE IF at.tries + 1 < Draws
       THEN at' = [at EXCEPT !.tries = @ + 1] /\ UNCHANGED <<exit, broken>>
       ELSE Fail /\ broken' = TRUE
  /\ UNCHANGED <<given, stdout, file, summary>>

\* The next output is written, and is all in the stream or not at all.
Put ==
  /\ Writing /\ (OneLine(Report[at.n + 1].value) \/ at.delim # {})
  /\ LET lines == Written(Report[at.n + 1], CHOOSE d \in at.delim \cup Delims : at.delim \subseteq {d})
     IN  IF at.step = "stdout" THEN stdout' = stdout \o lines /\ UNCHANGED file
                               ELSE file' = file \o lines /\ UNCHANGED stdout
  /\ at' = [at EXCEPT !.n = @ + 1, !.tries = 0, !.delim = {}]
  /\ UNCHANGED <<given, summary, exit, broken>>

\* A write fails, or the file or the summary cannot be opened or closed.
WriteFails ==
  /\ at.step \in {"stdout", "file", "summary"}
  /\ Fail /\ broken' = TRUE
  /\ UNCHANGED <<given, stdout, file, summary>>

\* All is on stdout: next the file the runner named, where it did; then the summary,
\* which the command release has none of.
NextStream ==
  /\ at.step \in {"stdout", "file"} /\ at.n = Len(Report)
  /\ at' = Step(IF at.step = "stdout" /\ given.named THEN "file"
                ELSE IF given.command = "release" THEN "judge" ELSE "summary")
  /\ UNCHANGED <<given, stdout, file, summary, exit, broken>>

\* Why no release is due, where there is a reason.
Summarize ==
  /\ at.step = "summary"
  /\ summary' = IF given.named /\ given.reason # "" THEN Append(summary, given.reason) ELSE summary
  /\ at' = Step("judge")
  /\ UNCHANGED <<given, stdout, file, exit, broken>>

Judge ==
  /\ at.step = "judge"
  /\ exit' = IF given.command = "inspect" /\ Red(Findings, given.flags.failOn) THEN 1 ELSE 0
  /\ at' = Step("ended")
  /\ UNCHANGED <<given, stdout, file, summary, broken>>

Works == Start \/ Draw \/ Put \/ NextStream \/ Summarize \/ Judge

Next == Works \/ WriteFails

\* A process goes on with what it does.
Spec == Init /\ [][Next]_vars /\ WF_vars(Works)

-----------------------------------------------------------------------------
(* Properties                                                              *)

\* How much of the report the file has.
InFile(k) == ReadBack(file).outs = ReadBack(given.before).outs \o SubSeq(Report, 1, k)

\* output.go:20-28, output_test.go:10-11: wherever a run has got to or failed, the runner
\* reads what was in the file before and then the first outputs of the report, each with
\* its value, whatever lines that has; no other output, and no line it cannot read.
ReadsBack ==
  /\ ReadBack(file).sound /\ ReadBack(file).delim = {}
  /\ \E k \in 0..Len(Report) : InFile(k)

\* A run that ends by its own verdict has reported everything, also where it is red, and
\* left the reason in the summary; and where it gates on errors, its exit agrees with the
\* verdict the runner reads.
RedRunsReport ==
  exit # 2 /\ ~broken /\ Known(given.flags) /\ given.named =>
    /\ InFile(Len(Report))
    /\ given.command = "inspect" =>
         /\ (summary # <<>>) <=> (given.reason # "")
         /\ given.flags.failOn = "error" => (exit = 0 <=> Report[1].value = <<Plain("true")>>)

\* A run ends, also where no delimiter is to be had.
RunEnds == <>(exit # 2)
=============================================================================
