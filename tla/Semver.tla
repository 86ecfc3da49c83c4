------------------------------- MODULE Semver -------------------------------
(***************************************************************************)
(* Versions, their precedence, and the laxer reading of tag names.         *)
(* Translated from pkg/semver/semver.go.                                   *)
(*                                                                         *)
(* A version is a record [major, minor, patch, pre, build]; pre and build  *)
(* are sequences of identifiers, and an identifier is the sequence of its  *)
(* characters: 0..9 for the digits, Hyphen for "-", 10 and up for the      *)
(* letters, so that integer order on characters is the order of their      *)
(* bytes.                                                                  *)
(*                                                                         *)
(* A tag name is a record [prefix, core, pre, build]: whether it carries   *)
(* the "v", the dotted components of its core, its identifiers.  A         *)
(* component that is not a numeral (empty, a leading zero, letters) is     *)
(* NotNumeral; one above MaxComponent does not fit the uint64 of the code. *)
(***************************************************************************)
EXTENDS Integers, Sequences

CONSTANT MaxComponent   \* 2^64 - 1 in the code

ASSUME MaxComponentAssumption == MaxComponent \in Nat

Hyphen == -1
NotNumeral == -1

Identifiers == Seq({Hyphen} \cup Nat)
Versions == [major: 0..MaxComponent, minor: 0..MaxComponent, patch: 0..MaxComponent,
             pre: Seq(Identifiers), build: Seq(Identifiers)]
TagForms == [prefix: BOOLEAN, core: Seq(Int), pre: Seq(Identifiers), build: Seq(Identifiers)]

-----------------------------------------------------------------------------
(* Precedence                                                              *)

Cmp(a, b) == IF a < b THEN -1 ELSE IF a > b THEN 1 ELSE 0

\* The positions two sequences share.
Shared(s, t) == DOMAIN s \cap DOMAIN t

\* Mutant: sequences that agree as far as both go are taken for equal.
DecidePrefix(cmps, m, n) ==
  LET D == {i \in DOMAIN cmps : cmps[i] # 0}
  IN  IF D = {} THEN 0 ELSE cmps[CHOOSE i \in D : \A j \in D : i <= j]

\* Two sequences of lengths m and n, compared place by place: the first difference
\* decides; without one, the longer sequence is the larger.
Decide(cmps, m, n) ==
  LET D == {i \in DOMAIN cmps : cmps[i] # 0}
  IN  IF D = {} THEN Cmp(m, n) ELSE cmps[CHOOSE i \in D : \A j \in D : i <= j]

\* strings.Compare
CompareText(a, b) == Decide([i \in Shared(a, b) |-> Cmp(a[i], b[i])], Len(a), Len(b))

AllDigits(id) == id # <<>> /\ \A i \in DOMAIN id : id[i] \in 0..9

\* Mutant: numerals compared as text alone, so that 10 sorts below 9.
CompareIdentAsText(a, b) ==
  CASE AllDigits(a) /\ ~AllDigits(b) -> -1
    [] ~AllDigits(a) /\ AllDigits(b) -> 1
    [] OTHER -> CompareText(a, b)

\* Numerals compare by their text at any width: the longer is the larger.
CompareIdent(a, b) ==
  CASE AllDigits(a) /\ AllDigits(b) ->
         IF Len(a) # Len(b) THEN Cmp(Len(a), Len(b)) ELSE CompareText(a, b)
    [] AllDigits(a) /\ ~AllDigits(b) -> -1
    [] ~AllDigits(a) /\ AllDigits(b) -> 1
    [] OTHER -> CompareText(a, b)

\* Mutant: a missing pre-release part taken for the smallest one.
ComparePreEmptyFirst(a, b) ==
  Decide([i \in Shared(a, b) |-> CompareIdent(a[i], b[i])], Len(a), Len(b))

\* A version without a pre-release part outranks one that has any.
ComparePre(a, b) ==
  CASE a = <<>> /\ b = <<>> -> 0
    [] a = <<>> /\ b # <<>> -> 1
    [] a # <<>> /\ b = <<>> -> -1
    [] OTHER ->
         Decide([i \in Shared(a, b) |-> CompareIdent(a[i], b[i])], Len(a), Len(b))

\* Build metadata takes no part in precedence.
Compare(v, w) ==
  CASE v.major # w.major -> Cmp(v.major, w.major)
    [] v.major = w.major /\ v.minor # w.minor -> Cmp(v.minor, w.minor)
    [] v.major = w.major /\ v.minor = w.minor /\ v.patch # w.patch -> Cmp(v.patch, w.patch)
    [] OTHER -> ComparePre(v.pre, w.pre)

Prerelease(v) == v.pre # <<>>

\* The version without its build metadata: what tags and entries are matched by.
Canonical(v) == [v EXCEPT !.build = <<>>]

-----------------------------------------------------------------------------
(* Reading a version, and a tag name                                       *)

\* A pre-release identifier of digits carries no leading zero; a build one may.
WellFormedPre(id) == id # <<>> /\ (AllDigits(id) => Len(id) = 1 \/ id[1] # 0)

\* What Parse accepts of text already split at its first "+" and "-".
Readable(t) ==
  /\ Len(t.core) = 3
  /\ \A i \in 1..3 : t.core[i] \in 0..MaxComponent
  /\ \A i \in DOMAIN t.pre : WellFormedPre(t.pre[i])
  /\ \A i \in DOMAIN t.build : t.build[i] # <<>>

\* A component the tag omits is zero; a fourth one is left for Parse to refuse.
ExpandCore(core) ==
  CASE Len(core) = 1 -> <<core[1], 0, 0>>
    [] Len(core) = 2 -> <<core[1], core[2], 0>>
    [] OTHER -> core

Expanded(t) == [t EXCEPT !.core = ExpandCore(@)]

NamesVersion(t) == Readable(Expanded(t))

ParseTag(t) ==
  LET e == Expanded(t)
  IN  [major |-> e.core[1], minor |-> e.core[2], patch |-> e.core[3],
       pre |-> e.pre, build |-> e.build]

\* v.Tag(): every component spelled, behind a "v".
TagOf(v) == [prefix |-> TRUE, core |-> <<v.major, v.minor, v.patch>>,
             pre |-> v.pre, build |-> v.build]

\* v.MajorTag(): the pointer a release workflow moves, as in "v1".
MajorTag(v) == [prefix |-> TRUE, core |-> <<v.major>>, pre |-> <<>>, build |-> <<>>]

\* Mutant: every spelling taken for a full one.
AllComponents(t) == 3

TagComponents(t) == Len(t.core)

\* tag names a and b, both naming versions: the order of git.Versions.
Outranks(a, b) ==
  LET c == Compare(ParseTag(a), ParseTag(b))
  IN  c > 0 \/ (c = 0 /\ TagComponents(a) > TagComponents(b))
=============================================================================
