----------------------------- MODULE Rehydrator -----------------------------
(***************************************************************************)
(* StreamRehydrator (redact/request.py): values are put back for           *)
(* placeholders in a text that arrives in pieces cut anywhere.             *)
(*                                                                         *)
(* A text is a sequence of characters, of which six tell the rules apart:  *)
(* "T" is an entity's name with the underscore after it, "1" a digit.      *)
(***************************************************************************)
EXTENDS Naturals, Sequences, FiniteSetsExt

CONSTANTS
  Hold,       \* how far back an unclosed "<" holds the stream
  MaxText,    \* bound: characters of the whole text
  MaxPiece    \* bound: characters of a piece

RehydratorAssumption == Hold \in Nat /\ MaxText \in Nat /\ MaxPiece \in Nat

VARIABLES
  text,    \* what has arrived
  held,    \* what of it waits
  out,     \* what was let out
  over     \* the stream has ended, and flush let out what waited

vars == <<text, held, out, over>>

Chars  == {"<", ">", "T", "1", ".", " "}
InName == {"T", "1"}                 \* what may not touch a bare placeholder
InTail == InName \cup {"."}          \* what a bare placeholder is made of

-----------------------------------------------------------------------------
(* PLACEHOLDER and rehydrate.                                              *)

Only(chars, s) == \A i \in DOMAIN s : s[i] \in chars

\* \d+(\.\d+)?
Number(s) ==
  /\ Only({"1", "."}, s) /\ s # <<>>
  /\ s[1] = "1" /\ s[Len(s)] = "1"
  /\ \A i, j \in DOMAIN s : s[i] = "." /\ s[j] = "." => i = j

\* Where a number begins in a placeholder's text, after a name and before the blanks.
Parts(s) == {p \in (DOMAIN s) \X (DOMAIN s) :
  /\ p[1] > 1 /\ Number(SubSeq(s, p[1], p[2]))
  /\ Only({" "}, SubSeq(s, p[2] + 1, Len(s)))}

Inside(s)  == \E p \in Parts(s) :
                LET name == SubSeq(s, 1, p[1] - 1)
                IN  Only({"T", " "}, name) /\ \E i \in DOMAIN name : name[i] = "T"
IsBare(s)  == \E p \in Parts(s) : p[2] = Len(s) /\ Only({"T"}, SubSeq(s, 1, p[1] - 1))

\* The ends of the placeholders that begin at i, in brackets or bare.
Ends(s, i) ==
  {e \in i + 1 .. Len(s) :
     \/ s[i] = "<" /\ s[e] = ">" /\ Inside(SubSeq(s, i + 1, e - 1))
     \/ /\ IsBare(SubSeq(s, i, e))
        /\ i > 1 => s[i - 1] \notin InName
        /\ e < Len(s) => s[e + 1] \notin InName}

\* The values of T_1 and of its part T_1.1; another type or number is left as it is.
Value(match) ==
  LET meant == SelectSeq(match, LAMBDA c : c \notin {"<", ">", " "})
  IN  CASE meant = <<"T", "1">>           -> <<"value">>
        [] meant = <<"T", "1", ".", "1">> -> <<"part">>
        [] OTHER                          -> match

Rehydrate(s) ==
  LET from[i \in 1 .. Len(s) + 1] ==
        IF i > Len(s) THEN <<>>
        ELSE IF Ends(s, i) = {} THEN <<s[i]>> \o from[i + 1]
        ELSE Value(SubSeq(s, i, Max(Ends(s, i)))) \o from[Max(Ends(s, i)) + 1]
  IN  from[1]

-----------------------------------------------------------------------------
(* The stream.                                                             *)

\* How many of the first n characters come before the run a bare placeholder may go on in.
BeforeTail(s, n) == Max({0} \cup {i \in 1 .. n : s[i] \notin InTail})

\* Mutant: the run at the end is let out.
CutAtBracket(s) ==
  LET open == Max({0} \cup {i \in DOMAIN s : s[i] = "<"})
      held_ == open > 0 /\ ~(\E i \in open .. Len(s) : s[i] = ">") /\ Len(s) - open < Hold
  IN  IF held_ THEN open - 1 ELSE Len(s)

\* _cut: how much of s is let out.
Cut(s) ==
  LET open   == Max({0} \cup {i \in DOMAIN s : s[i] = "<"})
      closed == \E i \in open .. Len(s) : s[i] = ">"
      waits  == open > 0 /\ ~closed /\ Len(s) - open < Hold
  IN  BeforeTail(s, IF waits THEN open - 1 ELSE Len(s))

Init == text = <<>> /\ held = <<>> /\ out = <<>> /\ over = FALSE

Feed(piece) ==
  /\ ~over /\ Len(text) + Len(piece) <= MaxText
  /\ text' = text \o piece
  /\ LET s == held \o piece
     IN  /\ held' = SubSeq(s, Cut(s) + 1, Len(s))
         /\ out' = out \o Rehydrate(SubSeq(s, 1, Cut(s)))
  /\ UNCHANGED over

Flush ==
  /\ ~over /\ over' = TRUE
  /\ out' = out \o Rehydrate(held)
  /\ held' = <<>>
  /\ UNCHANGED text

Next == Flush \/ \E n \in 1 .. MaxPiece : \E piece \in [1 .. n -> Chars] : Feed(piece)

Spec == Init /\ [][Next]_vars

-----------------------------------------------------------------------------
\* "everything released, joined, is exactly policy.rehydrate of the whole" (request.py:109),
\* whatever the cuts, unless a placeholder is longer than the stream may be held for.
TextIsWhole ==
  over /\ (\A i \in DOMAIN text : text[i] = "<" => \A e \in Ends(text, i) : e - i <= Hold)
    => out = Rehydrate(text)
=============================================================================
