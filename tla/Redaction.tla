------------------------------ MODULE Redaction ------------------------------
(***************************************************************************)
(* Redaction of a document (boundary/redact): resolve_overlaps, the sweep  *)
(* and the Policy, which puts placeholders for values on the way out and   *)
(* values for placeholders on the way back.                                *)
(*                                                                         *)
(* A text is a sequence of tokens: a word <<w>>, or a placeholder          *)
(* <<type, n, part>>, part 0 for a value and not 0 for a part of a name.   *)
(* What the recognisers found is given with each document; how a word is   *)
(* spelled is reduced to Fold, its casefold, and Shape.                    *)
(***************************************************************************)
EXTENDS Naturals, Sequences, FiniteSets, FiniteSetsExt, SequencesExt, TLC

CONSTANTS
  Fold,         \* [words -> casefolded words]
  Shape,        \* [words -> {"plain", "name", "code", "piece"}]: a code is identifier-shaped
                \* by itself, a piece only beside another
  Honorifics,   \* words
  Vocabulary,   \* casefolded words the second pass leaves alone
  Caller,       \* casefolded words the caller's own allow list adds
  Docs,         \* documents: [pages, found]
  MaxBuilds     \* bound: policies built

Types      == {"PERSON", "LOCATION", "EMAIL", "NAME_LIKE", "ID_LIKE"}
Releasable == {"LOCATION"}
Retyped    == {"LOCATION", "NAME_LIKE"}
Words      == DOMAIN Fold

RedactionAssumption ==
  /\ DOMAIN Shape = Words /\ Honorifics \subseteq Words
  /\ \A w \in Words : Shape[w] \in {"plain", "name", "code", "piece"}
  /\ \A d \in Docs : \A s \in d.found : s.type \in Types /\ s.to <= Len(d.pages[s.page])

VARIABLES
  doc,       \* the document the policy was built from
  policy,    \* the Policy
  sent,      \* {[source, wire]}: what outbound returned
  refused,   \* {"clash", "leak"}: why outbound ever refused
  builds     \* policies built

vars == <<doc, policy, sent, refused, builds>>

-----------------------------------------------------------------------------
(* Words and values.                                                       *)

IsWord(t)    == Len(t) = 1
FoldOf(t)    == IF IsWord(t) THEN <<Fold[t[1]]>> ELSE t
Norm(value)  == [i \in DOMAIN value |-> FoldOf(value[i])]
Allowed(t)   == IsWord(t) /\ Fold[t[1]] \in Vocabulary \cup Caller
Is(t, shape) == IsWord(t) /\ Shape[t[1]] = shape
Named(t)     == Is(t, "name")

\* name_parts, and those of them that may be spread over a document.
NameParts(name) == SelectSeq(name, LAMBDA t : t[1] \notin Honorifics)
Spread(name, allowed) ==
  SelectSeq(NameParts(name), LAMBDA t : Fold[t[1]] \notin allowed /\ Named(t))

-----------------------------------------------------------------------------
(* Spans: [page, from, to, type, score].                                   *)

TextOf(pages, s) == SubSeq(pages[s.page], s.from, s.to)
Length(s)        == s.to - s.from + 1
Overlaps(s, k)   == s.page = k.page /\ s.from <= k.to /\ k.from <= s.to
Contains_(o, s)  == /\ o.page = s.page /\ o.from <= s.from /\ s.to <= o.to
                    /\ Length(o) > Length(s)

Earlier(s, k) == s.page < k.page \/ (s.page = k.page /\ s.from < k.from)

Better(s, k) ==
  \/ s.score > k.score
  \/ s.score = k.score /\ Length(s) > Length(k)
  \/ s.score = k.score /\ Length(s) = Length(k) /\ Earlier(s, k)

\* resolve_overlaps: the contained go first, whatever their score, and of two that overlap
\* the worse.
Resolve(spans) ==
  LET whole   == {s \in spans : ~\E o \in spans : Contains_(o, s)}
      ordered == SetToSortSeq(whole, Better)
  IN  FoldLeft(LAMBDA kept, s : IF \E k \in kept : Overlaps(s, k) THEN kept ELSE kept \cup {s},
               {}, ordered)

\* Document order: by page, then start, the longest first.
InOrder(spans) ==
  SetToSortSeq(spans, LAMBDA s, k : \/ Earlier(s, k)
                                    \/ s.page = k.page /\ s.from = k.from /\ Length(s) > Length(k))

\* The longest stretches of a text whose every token is in a set of positions.
Runs(positions) ==
  {r \in positions \X positions :
     /\ r[1] <= r[2] /\ r[1] .. r[2] \subseteq positions
     /\ r[1] - 1 \notin positions /\ r[2] + 1 \notin positions}

\* sweep: a detected person licenses the parts of the name everywhere else, case-sensitively
\* and in whole runs, and a span of an impersonal type that is such a run is a PERSON.  It knows
\* the vocabulary and not the caller's list (redact_request).
Sweep(pages, found) ==
  LET persons   == {s \in found : s.type = "PERSON"}
      of(s)     == Range(Spread(TextOf(pages, s), Vocabulary))
      parts     == UNION {of(s) : s \in persons}
      score(t)  == Max({s.score : s \in {p \in persons : t \in of(p)}})
      runs(p)   == Runs({i \in DOMAIN pages[p] : pages[p][i] \in parts})
      wholly(s) == Range(TextOf(pages, s)) \subseteq parts
      known     == {IF s.type \in Retyped /\ wholly(s) THEN [s EXCEPT !.type = "PERSON"] ELSE s
                      : s \in found}
      added     == UNION {{[page |-> p, from |-> r[1], to |-> r[2], type |-> "PERSON",
                            score |-> Min({score(pages[p][i]) : i \in r[1] .. r[2]})]
                             : r \in runs(p)} : p \in DOMAIN pages}
  IN  Resolve(known \cup {a \in added : ~\E k \in known : Overlaps(a, k)})

-----------------------------------------------------------------------------
(* Building a Policy.                                                      *)

Whole(vault) == {p \in DOMAIN vault : p[3] = 0}

\* _restore
Restore(vault) ==
  LET parts == {p \in DOMAIN vault : p[3] # 0}
  IN  [vault   |-> vault,
       table   |-> [n \in {Norm(vault[p]) : p \in Whole(vault)} |->
                      CHOOSE p \in Whole(vault) : Norm(vault[p]) = n],
       parts   |-> [t \in {vault[p][1] : p \in parts} |->
                      CHOOSE p \in parts : vault[p] = <<t>>],
       counter |-> [type \in Types |->
                      Max({0} \cup {p[2] : p \in {q \in DOMAIN vault : q[1] = type}})],
       whole   |-> {}]

\* _mint
Mint(pol, type, value) ==
  LET p == <<type, pol.counter[type] + 1, 0>>
  IN  IF Norm(value) \in DOMAIN pol.table THEN pol
      ELSE [pol EXCEPT !.counter[type] = @ + 1,
                       !.table = (Norm(value) :> p) @@ @,
                       !.vault = (p :> value) @@ @]

\* _releases: a span of an impersonal type whose every name-shaped word the caller allows.
Releases(type, text) ==
  /\ type \in Releasable
  /\ \E i \in DOMAIN text : Named(text[i])
  /\ \A i \in DOMAIN text : Named(text[i]) => Fold[text[i][1]] \in Caller

\* A first name found by itself that is a part of a longer name found elsewhere is left to
\* the parts.
LeftToParts(kept, s) ==
  /\ s.type = "PERSON" /\ Len(s.text) = 1
  /\ \E k \in Range(kept) : /\ k.type = "PERSON" /\ Len(k.text) > 1
                            /\ \E t \in Range(NameParts(k.text)) : Norm(<<t>>) = Norm(s.text)

\* One part of a name nobody else has: a placeholder tied to its person.
AddPart(pol, owner, t) ==
  LET n == 1 + Cardinality({p \in DOMAIN pol.vault : p[3] # 0 /\ p[1] = owner[1] /\ p[2] = owner[2]})
      p == <<owner[1], owner[2], n>>
  IN  [pol EXCEPT !.parts = (t :> p) @@ @, !.vault = (p :> <<t>>) @@ @]

\* _build: the values, and then the parts of the persons' names, each claimed by the persons
\* it belongs to.  One that two persons share gets a placeholder of its own.
Build(restored, kept) ==
  LET minted  == FoldLeft(LAMBDA pol, s : IF LeftToParts(kept, s) THEN pol
                                          ELSE Mint(pol, s.type, s.text), restored, kept)
      persons == SelectSeq(kept, LAMBDA s : s.type = "PERSON" /\ ~LeftToParts(kept, s))
      claimed(s) == LET owner == minted.table[Norm(s.text)]
                        news  == SelectSeq(Spread(s.text, Vocabulary \cup Caller), LAMBDA t :
                                   Norm(<<t>>) \notin DOMAIN minted.table /\ t \notin DOMAIN minted.parts)
                    IN  [i \in DOMAIN news |-> [owner |-> owner, part |-> news[i]]]
      claims  == FlattenSeq([i \in DOMAIN persons |-> claimed(persons[i])])
      key(c)  == Norm(<<c.part>>)
      owners(c) == {d.owner : d \in {e \in Range(claims) : key(e) = key(c)}}
      first(i)  == ~\E j \in 1 .. i - 1 : key(claims[j]) = key(claims[i])
      heads   == SelectSeq([i \in DOMAIN claims |-> i], first)
  IN  FoldLeft(LAMBDA pol, i :
                 LET c == claims[i]
                 IN  IF Cardinality(owners(c)) = 1 THEN AddPart(pol, c.owner, c.part)
                     ELSE Mint(pol, "PERSON", <<c.part>>),
               minted, heads)

\* Policy(sweep(...), vault = ...), as redact_request builds it: what is kept is built, and
\* the values known by now are compiled.
Policy(pages, found, vault) ==
  LET spans == InOrder(Sweep(pages, found))
      texts == [i \in DOMAIN spans |-> [type |-> spans[i].type, text |-> TextOf(pages, spans[i])]]
      kept  == SelectSeq(texts, LAMBDA s : ~Releases(s.type, s.text))
      built == Build(Restore(vault), kept)
  IN  [built EXCEPT !.whole = {built.vault[p] : p \in Whole(built.vault)}]

-----------------------------------------------------------------------------
(* Outbound.                                                               *)

\* The text with each match replaced, leftmost first: length(i) tokens from i by token(i).
Replaced(text, length(_), token(_)) ==
  LET from[i \in 1 .. Len(text) + 1] ==
        IF i > Len(text) THEN <<>>
        ELSE IF length(i) = 0 THEN <<text[i]>> \o from[i + 1]
        ELSE <<token(i)>> \o from[i + length(i)]
  IN  from[1]

\* The compiled values found at a place of a text, without regard to case.
ValuesAt(pol, text, i) ==
  {v \in pol.whole : /\ i + Len(v) - 1 <= Len(text)
                     /\ Norm(SubSeq(text, i, i + Len(v) - 1)) = Norm(v)}

\* The first pass: whole values, the longest first.
WholePass(pol, text) ==
  LET length(i) == Max({0} \cup {Len(v) : v \in ValuesAt(pol, text, i)})
      token(i)  == pol.table[Norm(SubSeq(text, i, i + length(i) - 1))]
  IN  Replaced(text, length, token)

PartsPass(pol, text) ==
  [i \in DOMAIN text |-> IF text[i] \in DOMAIN pol.parts THEN pol.parts[text[i]] ELSE text[i]]

\* Mutant: whatever is written like a placeholder is left alone.
ShapesAroundForeign(pol, text) ==
  LET codes == {i \in DOMAIN text : Is(text[i], "code") /\ ~Allowed(text[i])}
      names == Runs({i \in DOMAIN text : Named(text[i]) /\ ~Allowed(text[i])})
  IN  {<<i, i, "ID_LIKE">> : i \in codes} \cup {<<r[1], r[2], "NAME_LIKE">> : r \in names}

\* _shapes: what the second pass masks, as <<from, to, type>>: placeholders this policy did
\* not mint, codes written in pieces unless one of them is allowed, single codes, and runs
\* of names.
Shapes(pol, text) ==
  LET foreign == {i \in DOMAIN text : ~IsWord(text[i]) /\ text[i] \notin DOMAIN pol.vault}
      coded   == {i \in DOMAIN text : Is(text[i], "code") \/ Is(text[i], "piece")}
      runs    == {r \in Runs(coded) : r[1] < r[2] /\ \A i \in r[1] .. r[2] : ~Allowed(text[i])}
      inRuns  == UNION {r[1] .. r[2] : r \in runs}
      codes   == {i \in coded \ inRuns : Is(text[i], "code") /\ ~Allowed(text[i])}
      names   == Runs({i \in DOMAIN text : Named(text[i]) /\ ~Allowed(text[i])})
  IN  {<<i, i, "ID_LIKE">> : i \in foreign \cup codes}
        \cup {<<r[1], r[2], "ID_LIKE">> : r \in runs}
        \cup {<<r[1], r[2], "NAME_LIKE">> : r \in names}

\* redact: the three passes.  The second pass mints as it goes.
Redact(pol, text) ==
  LET known  == PartsPass(pol, WholePass(pol, text))
      shapes == SetToSortSeq(Shapes(pol, known), LAMBDA x, y : x[1] < y[1])
      value(x) == SubSeq(known, x[1], x[2])
      after  == FoldLeft(LAMBDA p, x : Mint(p, x[3], value(x)), pol, shapes)
      at(i)  == {x \in Range(shapes) : x[1] = i}
      length(i) == IF at(i) = {} THEN 0 ELSE LET x == CHOOSE x \in at(i) : TRUE IN x[2] - x[1] + 1
      token(i)  == after.table[Norm(SubSeq(known, i, i + length(i) - 1))]
  IN  [policy |-> after, text |-> Replaced(known, length, token)]

\* check: a value in clear, a part in clear, or a shape.
Leaks(pol, text) ==
  \/ \E i \in DOMAIN text : ValuesAt(pol, text, i) # {} \/ text[i] \in DOMAIN pol.parts
  \/ Shapes(pol, text) # {}

MintedIn(pol, text) == \E i \in DOMAIN text : text[i] \in DOMAIN pol.vault

\* rehydrate
Rehydrate(vault, text) ==
  FlattenSeq([i \in DOMAIN text |-> IF text[i] \in DOMAIN vault THEN vault[text[i]] ELSE <<text[i]>>])

-----------------------------------------------------------------------------
Init ==
  /\ doc \in Docs
  /\ policy = Policy(doc.pages, doc.found, <<>>)
  /\ sent = {} /\ refused = {} /\ builds = 1

\* Policy.outbound of one page: refused for a placeholder of this policy's own, before
\* anything is minted, or for what the guard finds afterwards.
Outbound(page) ==
  LET text == doc.pages[page]
      out  == Redact(policy, text)
  IN  \/ /\ MintedIn(policy, text)
         /\ refused' = refused \cup {"clash"}
         /\ UNCHANGED <<policy, sent>>
      \/ /\ ~MintedIn(policy, text)
         /\ policy' = out.policy
         /\ IF Leaks(out.policy, out.text)
            THEN refused' = refused \cup {"leak"} /\ UNCHANGED sent
            ELSE sent' = sent \cup {[source |-> text, wire |-> out.text]} /\ UNCHANGED refused

\* A policy built over another document, or the same one again, carrying the vault on.
Rebuild ==
  /\ builds < MaxBuilds
  /\ doc' \in Docs
  /\ policy' = Policy(doc'.pages, doc'.found, policy.vault)
  /\ builds' = builds + 1
  /\ UNCHANGED <<sent, refused>>

Next ==
  \/ \E page \in DOMAIN doc.pages : Outbound(page) /\ UNCHANGED <<doc, builds>>
  \/ Rebuild

Spec == Init /\ [][Next]_vars

-----------------------------------------------------------------------------
TypeOK ==
  /\ doc \in Docs
  /\ Range(policy.table) \subseteq DOMAIN policy.vault
  /\ Range(policy.parts) \subseteq DOMAIN policy.vault
  /\ \A p \in DOMAIN policy.vault : p[1] \in Types /\ p[2] \in 1 .. policy.counter[p[1]]
  /\ refused \subseteq {"clash", "leak"} /\ builds \in 1 .. MaxBuilds

\* What was sent rehydrates to what was written, but for case, with the policy of today and
\* every later one built from its vault: each placeholder stands for one value for good,
\* and a placeholder the document wrote itself comes back as it was.
RoundTrip ==
  \A e \in sent : Norm(Rehydrate(policy.vault, e.wire)) = Norm(e.source)

\* One value, one placeholder: no two placeholders stand for values equal but for case, nor
\* two parts for one spelling, so that a model sees one person as one.
OnePlaceholderEach ==
  /\ \A p, q \in Whole(policy.vault) : Norm(policy.vault[p]) = Norm(policy.vault[q]) => p = q
  /\ \A p, q \in DOMAIN policy.vault \ Whole(policy.vault) : policy.vault[p] = policy.vault[q] => p = q

PlaceholdersStand == TypeOK /\ RoundTrip /\ OnePlaceholderEach

\* The guard "should never fire" (policy.py:27): whatever outbound redacts it vouches for,
\* unless a document wrote a placeholder, which then is a value like any other.
GuardNeverFires ==
  "leak" \in refused =>
    \E p \in DOMAIN policy.vault : \E i \in DOMAIN policy.vault[p] : ~IsWord(policy.vault[p][i])

Occurs(value, text) ==
  \E i \in DOMAIN text : /\ i + Len(value) - 1 <= Len(text)
                         /\ Norm(SubSeq(text, i, i + Len(value) - 1)) = Norm(value)

\* What a recogniser found on a page is not in what was sent of that page, nor any part of a
\* name next to it, unless the caller's list released it: "the detected span itself is still
\* masked, because the detector said so" (policy.py:412).
DetectedIsMasked ==
  \A e \in sent : \A s \in doc.found :
    /\ doc.pages[s.page] = e.source /\ builds = 1
    /\ ~Releases(s.type, TextOf(doc.pages, s))
    => ~Occurs(TextOf(doc.pages, s), e.wire)

NothingDetectedLeaves == DetectedIsMasked /\ GuardNeverFires
=============================================================================
