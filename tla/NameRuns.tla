------------------------------ MODULE NameRuns ------------------------------
(***************************************************************************)
(* The second pass's scan for names (_name_runs of boundary/redact/        *)
(* policy.py), word by word: runs of name-shaped words the vocabulary does *)
(* not excuse, with the initials and the particles that belong to them.    *)
(*                                                                         *)
(* A word is a name, a title, a particle, a capital by itself, or "word":  *)
(* one in the vocabulary, not name-shaped, part of a code or already       *)
(* masked.  After it comes a gap: spaces, a full stop, a full stop and     *)
(* spaces, or anything else.                                               *)
(***************************************************************************)
EXTENDS Naturals, Sequences, Places

CONSTANTS
  Letters,      \* capitals
  Initialisms,  \* _COMMON_INITIALISMS, as sequences of capitals
  MaxWords      \* bound: the text

NameRunsAssumption == MaxWords \in Nat /\ Letters \cap {"name", "title", "particle", "word"} = {}

Words == Letters \cup {"name", "title", "particle", "word"}
Gaps  == {" ", ".", ". ", "other"}

VARIABLES
  text,        \* the words so far, each with the gap after it
  run,         \* the run being read: the place and kind of each of its words
  afterTitle,  \* run_after_title
  lastKind,
  runs         \* the spans masked

vars == <<text, run, afterTitle, lastKind, runs>>

Init == text = <<>> /\ run = <<>> /\ afterTitle = FALSE /\ lastKind = "" /\ runs = {}

-----------------------------------------------------------------------------
\* flush: particles come off the end of a run, and it is masked if it has a name in it, came
\* after a title, or is of two letters or more that are no common initialism.
Trimmed(r) == LET kept == {i \in DOMAIN r : r[i].kind # "particle"}
              IN  IF kept = {} THEN <<>> ELSE SubSeq(r, 1, CHOOSE i \in kept : \A j \in kept : j <= i)
InitialsOf(r) == {r[i].at : i \in {j \in DOMAIN r : r[j].kind = "initial"}}
WordsAt(S) == [n \in DOMAIN InOrder(S) |-> text[InOrder(S)[n]].word]
Keep(r) ==
  \/ \E i \in DOMAIN r : r[i].kind = "name"
  \/ afterTitle
  \/ LET letters == WordsAt(InitialsOf(r))
     IN  Len(letters) >= 2 /\ letters \notin Initialisms
FlushUntrimmed == IF run # <<>> /\ Keep(run) THEN runs \cup {<<run[1].at, run[Len(run)].at>>} ELSE runs
Flush ==
  LET r == Trimmed(run)
  IN  IF r # <<>> /\ Keep(r) THEN runs \cup {<<r[1].at, r[Len(r)].at>>} ELSE runs

\* Whether the gap before the next word lets it join the run, or follow a title.
Contiguous ==
  /\ text # <<>>
  /\ \/ text[Len(text)].after = " "
     \/ lastKind = "initial" /\ text[Len(text)].after \in {".", ". "}
Titled == text # <<>> /\ text[Len(text)].word = "title" /\ text[Len(text)].after \in {" ", ". "}

KindOf(word, after) ==
  CASE word \in Letters /\ (after \in {".", ". "} \/ Titled) -> "initial"
    [] word = "name" -> "name"
    [] word = "particle" /\ run # <<>> /\ Contiguous -> "particle"
    [] OTHER -> ""

Read(word, after) ==
  LET kind == KindOf(word, after)
      here == [at |-> Len(text) + 1, kind |-> kind]
  IN  /\ Len(text) < MaxWords
      /\ text' = Append(text, [word |-> word, after |-> after])
      /\ IF kind # "" /\ run # <<>> /\ Contiguous
         THEN run' = Append(run, here) /\ UNCHANGED <<runs, afterTitle>>
         ELSE /\ runs' = Flush
              /\ IF kind \in {"name", "initial"}
                 THEN run' = <<here>> /\ afterTitle' = Titled
                 ELSE run' = <<>> /\ UNCHANGED afterTitle
      /\ lastKind' = kind

Next == \E word \in Words, after \in Gaps : Read(word, after)

Spec == Init /\ [][Next]_vars

-----------------------------------------------------------------------------
(* The text by itself, without the scan.                                   *)

Titles(i) == i > 1 /\ text[i - 1].word = "title" /\ text[i - 1].after \in {" ", ". "}
Initial(i) == text[i].word \in Letters /\ (text[i].after \in {".", ". "} \/ Titles(i))
Part(i) == text[i].word = "name" \/ Initial(i)
\* Nothing but spaces, or an initial's full stop, between a word and the next.
Touch(i) == text[i].after = " " \/ (Initial(i) /\ text[i].after \in {".", ". "})
\* The parts at i and j with nothing but particles between them.
Bound(i, j) ==
  /\ i < j /\ Part(i) /\ Part(j)
  /\ \A k \in i .. j - 1 : Touch(k) /\ (k > i => text[k].word = "particle")
Together(i, j) ==
  i <= j /\ \A k \in i .. j : Part(k) \/ \E a \in i .. k, b \in k .. j : Bound(a, b)
SpanOf(i, j) ==
  /\ Part(i) /\ Part(j) /\ Together(i, j)
  /\ \A k \in i .. j - 1 : Touch(k)
  /\ ~(\E k \in DOMAIN text : Bound(k, i) \/ Bound(j, k))
IsName(i, j) ==
  LET letters == WordsAt({k \in i .. j : text[k].word \in Letters})
  IN  \/ \E k \in i .. j : text[k].word = "name"
      \/ Titles(i)
      \/ Len(letters) >= 2 /\ letters \notin Initialisms

\* Masked are the whole names and nothing else: every name-shaped word, with the initials
\* before and after it under one placeholder, and the particles between two parts of it and
\* none at its ends; initials alone only after a title, or if they are two and no common
\* initialism.  No span overlaps another (_name_runs).
NamesAreMasked ==
  Flush = {s \in (DOMAIN text) \X (DOMAIN text) : SpanOf(s[1], s[2]) /\ IsName(s[1], s[2])}
=============================================================================
