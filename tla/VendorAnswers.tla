---------------------------- MODULE VendorAnswers ----------------------------
(***************************************************************************)
(* What a vendor's answer becomes: an adapter's reading of it              *)
(* (boundary/providers/), whole, in a batch's results, as the events of a  *)
(* stream or through raw, its cost (_finish, _complete_batch_row and raw   *)
(* of boundary/gateway.py), and what the proxy tells the caller            *)
(* (boundary/server/wire.py).                                              *)
(*                                                                         *)
(*   arriving -> read | failed -> costed -> told                           *)
(*     ^----/                                                              *)
(*                                                                         *)
(* The vendor is external: it bills five counts, and says them in its own  *)
(* words; what it wrote is visible text, or thinking that is not the       *)
(* answer's.                                                               *)
(***************************************************************************)
EXTENDS Naturals, Sequences, FiniteSets

CONSTANTS
  Unset,
  MaxEvents,  \* bound: events of a stream
  MaxTokens,  \* bound: tokens of a kind that are billed
  Rates       \* rates per count, of the known models: functions on Counts and "batch"

Counts == {"plain", "read", "written", "output"}

VendorAnswersAssumption ==
  /\ MaxEvents \in Nat /\ MaxTokens \in Nat
  /\ \A r \in Rates : DOMAIN r = Counts \cup {"batch"} /\ {r["plain"], r["output"]} \subseteq Nat
  /\ \A r \in Rates : {r[c] : c \in DOMAIN r} \subseteq Nat \cup {Unset}

Kinds == {"anthropic", "openai_compat", "google", "decisions", "azure_docintel"}

VARIABLES
  vendor,  \* what the vendor did: the kind, the path, the shape of its answer, the bill
  stage,
  parser,  \* OpenAIStreamParser
  read,    \* the ParsedResponse
  cost,    \* the row's cost_usd
  told     \* the answer to the caller: its usage, its text, why it ended

vars == <<vendor, stage, parser, read, cost, told>>

Bills ==
  LET some == 0 .. MaxTokens
  IN  [plain : some, read : some, written : some, output : some, thoughts : some]

Billed(kind) ==
  {b \in Bills :
     /\ kind \in {"google", "decisions", "azure_docintel"} => b.written = 0
     /\ kind \in {"decisions", "azure_docintel"} => b.read = 0 /\ b.thoughts = 0
     /\ kind = "azure_docintel" => b.output = 0}

Paths(kind) ==
  CASE kind = "openai_compat" -> {"whole", "batch", "stream", "raw"}
    [] kind = "decisions" -> {"whole", "raw"}
    [] kind = "azure_docintel" -> {"batch"}
    [] OTHER -> {"whole", "batch", "raw"}

\* An answer, one without its counts, a prompt that was blocked, an object of another shape,
\* and no JSON; of a stream, its events say.
Shapes(kind, path) ==
  {"answer", "uncounted", "other", "unreadable"} \cup (IF kind = "google" THEN {"blocked"} ELSE {})

\* The prices known of the model the vendor named, if it named one, and of the one asked for.
Models == [named : BOOLEAN, returned : Rates \cup {Unset}, requested : Rates \cup {Unset}]

NoUsage == [plain |-> 0, read |-> 0, written |-> 0, output |-> 0]
NoAnswer == [usage |-> NoUsage, named |-> FALSE, text |-> Unset, finish |-> Unset]

\* What the vendor wrote: a thought, a text, both; a stream's text is its events'.
Text == [type |-> "text", thought |-> FALSE]
Thought == [type |-> "thinking", thought |-> TRUE]
Written(kind, path) ==
  IF path \in {"whole", "batch"} /\ kind \notin {"decisions", "azure_docintel"}
  THEN {<<>>, <<Text>>, <<Thought, Text>>} ELSE {<<>>}

Init ==
  /\ \E kind \in Kinds : \E path \in Paths(kind) :
       vendor \in [kind : {kind}, path : {path}, bill : Billed(kind), models : Models,
                   shape : IF path = "stream" THEN {"answer"} ELSE Shapes(kind, path),
                   parts : Written(kind, path),
                   ended : IF Written(kind, path) = {<<>>} THEN {"done"} ELSE {"done", "cut", "filtered"}]
  /\ vendor.models.named \/ vendor.models.returned = Unset
  /\ stage = "arriving"
  /\ parser = [text |-> 0, usage |-> NoUsage, seen |-> FALSE, named |-> FALSE, error |-> FALSE,
               events |-> 0, over |-> FALSE]
  /\ read = NoAnswer /\ cost = Unset /\ told = Unset

-----------------------------------------------------------------------------
\* External: each vendor's words for a bill.
Said(kind, b) ==
  CASE kind = "anthropic" ->
         [input_tokens |-> b.plain, cache_read_input_tokens |-> b.read,
          cache_creation_input_tokens |-> b.written, output_tokens |-> b.output + b.thoughts]
    [] kind = "openai_compat" ->
         [prompt_tokens |-> b.plain + b.read + b.written, cached_tokens |-> b.read,
          cache_write_tokens |-> b.written, completion_tokens |-> b.output + b.thoughts]
    [] kind = "google" ->
         [promptTokenCount |-> b.plain + b.read, cachedContentTokenCount |-> b.read,
          candidatesTokenCount |-> b.output, thoughtsTokenCount |-> b.thoughts]
    [] kind = "decisions" -> [input_tokens |-> b.plain, output_tokens |-> b.output]
    [] OTHER -> [pages |-> b.plain]

\* External: and for why an answer ended.
Ending(kind) ==
  CASE kind = "anthropic" -> [done |-> "end_turn", cut |-> "max_tokens", filtered |-> "refusal"]
    [] kind = "google" -> [done |-> "stop", cut |-> "max_tokens", filtered |-> "safety"]
    [] OTHER -> [done |-> "stop", cut |-> "length", filtered |-> "content_filter"]

Less(a, b) == IF a > b THEN a - b ELSE 0

\* parse_usage, of each adapter.  Google counts thoughts apart, and bills them as output.
AnthropicUsage(u) ==
  [plain |-> u.input_tokens, read |-> u.cache_read_input_tokens,
   written |-> u.cache_creation_input_tokens, output |-> u.output_tokens]
OpenAIUsage(u) ==
  [plain |-> Less(u.prompt_tokens, u.cached_tokens + u.cache_write_tokens),
   read |-> u.cached_tokens, written |-> u.cache_write_tokens, output |-> u.completion_tokens]
CandidatesOnly(u) ==
  [plain |-> Less(u.promptTokenCount, u.cachedContentTokenCount),
   read |-> u.cachedContentTokenCount, written |-> 0, output |-> u.candidatesTokenCount]
GoogleUsage(u) ==
  [plain |-> Less(u.promptTokenCount, u.cachedContentTokenCount),
   read |-> u.cachedContentTokenCount, written |-> 0,
   output |-> u.candidatesTokenCount + u.thoughtsTokenCount]
DecisionsUsage(u) ==
  [plain |-> u.input_tokens, read |-> 0, written |-> 0, output |-> u.output_tokens]
DocIntelUsage(u) == [NoUsage EXCEPT !.plain = u.pages]
ParseUsage(kind, u) ==
  CASE kind = "anthropic" -> AnthropicUsage(u)
    [] kind = "openai_compat" -> OpenAIUsage(u)
    [] kind = "google" -> GoogleUsage(u)
    [] kind = "decisions" -> DecisionsUsage(u)
    [] OTHER -> DocIntelUsage(u)

Usage(kind, counted) == IF counted THEN ParseUsage(kind, Said(kind, vendor.bill)) ELSE NoUsage

\* The first of the parts that are visible text, by its place.
FirstText(parts, isText(_)) ==
  LET texts == {i \in DOMAIN parts : isText(parts[i])}
  IN  IF texts = {} THEN Unset ELSE CHOOSE i \in texts : \A j \in texts : i <= j

\* parse_response of each adapter: what is an answer, and its text.  A thought is a block of
\* another type, or at Google a part with text and a mark.
AnthropicRead == [read |-> {"answer", "uncounted"},
                  finish |-> Ending("anthropic")[vendor.ended],
                  text |-> FirstText(vendor.parts, LAMBDA p : p.type = "text")]
OpenAIRead == [read |-> {"answer", "uncounted"},
               finish |-> Ending("openai_compat")[vendor.ended],
               text |-> FirstText(vendor.parts, LAMBDA p : p.type = "text")]
GoogleRead ==
  [read |-> {"answer", "uncounted", "blocked"},
   finish |-> Ending("google")[vendor.ended],
   text |-> IF vendor.shape = "blocked" THEN Unset ELSE FirstText(vendor.parts, LAMBDA p : ~p.thought)]
DecisionsRead == [read |-> {"answer", "uncounted"}, finish |-> "stop", text |-> 0]
DocIntelRead == [read |-> {"answer", "uncounted"}, finish |-> "stop", text |-> 0]
Reading ==
  CASE vendor.kind = "anthropic" -> AnthropicRead
    [] vendor.kind = "openai_compat" -> OpenAIRead
    [] vendor.kind = "google" -> GoogleRead
    [] vendor.kind = "decisions" -> DecisionsRead
    [] OTHER -> DocIntelRead

Counted == vendor.shape \in {"answer", "blocked"}

\* parse_batch_results: a result holds its answer as an object, and any object is taken for
\* one, with the counts it may have.  Only Document Intelligence's is read as a whole answer.
Inline == vendor.path = "batch" /\ vendor.kind # "azure_docintel"

Whole ==
  /\ stage = "arriving" /\ vendor.path \in {"whole", "batch"}
  /\ IF vendor.shape \in Reading.read \/ (Inline /\ vendor.shape = "other")
     THEN /\ stage' = "read"
          /\ read' = [usage |-> Usage(vendor.kind, Counted), named |-> vendor.models.named,
                      text |-> IF vendor.shape = "other" THEN Unset ELSE Reading.text,
                      finish |-> CASE vendor.shape = "blocked" -> "blocked"
                                   [] vendor.shape = "other" -> Unset
                                   [] OTHER -> Reading.finish]
     ELSE stage' = "failed" /\ UNCHANGED read
  /\ UNCHANGED <<vendor, parser, cost, told>>

\* raw hands over whatever came, and reads the counts of it; the model where Google does not
\* name it otherwise.
Raw ==
  /\ stage = "arriving" /\ vendor.path = "raw"
  /\ stage' = "read"
  /\ read' = [NoAnswer EXCEPT !.usage = Usage(vendor.kind, Counted),
                !.named = vendor.models.named /\ vendor.shape # "unreadable" /\ vendor.kind # "google"]
  /\ UNCHANGED <<vendor, parser, cost, told>>

\* feed: a role, text, text with the counts so far, the call's counts, an error, or what cannot
\* be read; the last two end the reading, and the last counts seen are the call's.
Feed(event) ==
  /\ stage = "arriving" /\ vendor.path = "stream"
  /\ ~parser.over /\ parser.events < MaxEvents
  /\ parser' =
       [parser EXCEPT
          !.events = IF event = "unreadable" THEN @ ELSE @ + 1,
          !.over = event \in {"error", "unreadable"},
          !.error = event \in {"error", "unreadable"},
          !.named = @ \/ (vendor.models.named /\ event \notin {"error", "unreadable"}),
          !.text = IF event \in {"text", "sofar"} THEN @ + 1 ELSE @,
          !.seen = @ \/ event \in {"sofar", "counts"},
          !.usage = CASE event = "sofar" -> [Usage("openai_compat", TRUE) EXCEPT !.output = 0]
                      [] event = "counts" -> Usage("openai_compat", TRUE)
                      [] OTHER -> @]
  /\ UNCHANGED <<vendor, stage, read, cost, told>>

\* result.  A host that counts as it goes says the whole count before it ends.
EndStream ==
  /\ stage = "arriving" /\ vendor.path = "stream"
  /\ parser.seen /\ ~parser.error => parser.usage = Usage("openai_compat", TRUE)
  /\ IF parser.error \/ parser.events = 0
     THEN stage' = "failed" /\ UNCHANGED read
     ELSE /\ stage' = "read"
          /\ read' = [usage |-> parser.usage, named |-> parser.named, finish |-> "stop",
                      text |-> IF parser.text = 0 THEN Unset ELSE parser.text]
  /\ UNCHANGED <<vendor, parser, cost, told>>

-----------------------------------------------------------------------------
\* _price_for: by the model that was returned, then by the one that was asked for; raw asked
\* for none.
Entry ==
  IF read.named /\ vendor.models.returned # Unset THEN vendor.models.returned
  ELSE IF vendor.path = "raw" THEN Unset ELSE vendor.models.requested

\* cost_usd: no cost where a rate that is needed is not known.
CostUsd(usage, entry) ==
  IF \/ entry = Unset
     \/ \E c \in {"read", "written"} : usage[c] > 0 /\ entry[c] = Unset
     \/ vendor.path = "batch" /\ entry["batch"] = Unset
  THEN Unset
  ELSE LET times(c) == IF usage[c] = 0 THEN 0 ELSE usage[c] * entry[c]
           total == times("plain") + times("read") + times("written") + times("output")
       IN  IF vendor.path = "batch" THEN total * entry["batch"] ELSE total

\* _finish, _complete_batch_row, raw: text without counts did not cost nothing.
Finish ==
  /\ stage \in {"read", "failed"}
  /\ cost' = IF stage = "failed" \/ (vendor.path = "stream" /\ ~parser.seen) THEN Unset
             ELSE CostUsd(read.usage, Entry)
  /\ stage' = IF stage = "failed" THEN "raised" ELSE "costed"
  /\ UNCHANGED <<vendor, parser, read, told>>

\* usage_body.
Told(u) ==
  LET prompt == u.plain + u.read + u.written
  IN  [prompt_tokens |-> prompt, cached_tokens |-> u.read, cache_write_tokens |-> u.written,
       completion_tokens |-> u.output, total_tokens |-> prompt + u.output]

\* finish_reason: a vendor's own word goes through where none is listed for it.
FinishReason(reason) ==
  CASE reason \in {"stop", "end_turn"} -> "stop"
    [] reason \in {"length", "max_tokens"} -> "length"
    [] reason \in {"content_filter", "safety", "refusal"} -> "content_filter"
    [] OTHER -> reason

\* completion_body, and the last chunks of a stream.
Answer ==
  /\ stage = "costed" /\ vendor.path \in {"whole", "stream"}
  /\ told' = [usage |-> Told(read.usage), text |-> read.text, finish |-> FinishReason(read.finish)]
  /\ stage' = "told"
  /\ UNCHANGED <<vendor, parser, read, cost>>

Next ==
  \/ Whole \/ Raw \/ EndStream \/ Finish \/ Answer
  \/ \E event \in {"role", "text", "sofar", "counts", "error", "unreadable"} : Feed(event)

Spec == Init /\ [][Next]_vars

-----------------------------------------------------------------------------
\* The bill, count by count, at a model's rates.
Charge(entry) ==
  LET b == vendor.bill
      per(c, n) == IF n = 0 THEN 0 ELSE n * entry[c]
      sum == per("plain", b.plain) + per("read", b.read) + per("written", b.written)
               + per("output", b.output + b.thoughts)
  IN  IF vendor.path = "batch" THEN sum * entry["batch"] ELSE sum

HasRates(entry) ==
  /\ vendor.path = "batch" => entry["batch"] # Unset
  /\ vendor.bill.read > 0 => entry["read"] # Unset
  /\ vendor.bill.written > 0 => entry["written"] # Unset

HasCounts == IF vendor.path = "stream" THEN parser.seen ELSE vendor.shape \in {"answer", "blocked"}

\* What the vendor bills is what the row costs and what the caller is told, in whichever words
\* and pieces it came: every token once, at the rate it is billed at, of the model that
\* answered.  What no reader takes for an answer costs nothing known, and one whose counts were
\* not streamed is not free; any other without counts is costed at nothing, and of the whole
\* ones only those with an answer's shape, while a batch's result may be any object
\* (parse_usage, OpenAIStreamParser, parse_batch_results, _finish, usage_body).  The
\* counts a streamed answer's raw says are those it was read with.  No thought is told as the
\* answer, no text of an answer that has one is missing, and why it ended is told in the
\* caller's words.
BilledIsCounted ==
  /\ HasCounts /\ cost # Unset =>
       \E entry \in {vendor.models.returned, vendor.models.requested} \ {Unset} :
         /\ HasRates(entry) /\ cost = Charge(entry)
         /\ vendor.models.returned # Unset => entry = vendor.models.returned
  /\ stage = "raised" \/ (vendor.path = "stream" /\ ~HasCounts) => cost = Unset
  /\ ~HasCounts /\ cost # Unset => cost = 0 /\ (vendor.path = "whole" => vendor.shape = "uncounted")
  /\ stage = "told" /\ HasCounts =>
       /\ told.usage.total_tokens = told.usage.prompt_tokens + told.usage.completion_tokens
       /\ told.usage.completion_tokens = vendor.bill.output + vendor.bill.thoughts
       /\ told.usage.prompt_tokens = vendor.bill.plain + vendor.bill.read + vendor.bill.written
       /\ OpenAIUsage(told.usage) = read.usage
  /\ stage = "told" /\ vendor.path = "whole" =>
       IF vendor.shape = "blocked" THEN told.text = Unset
       ELSE /\ vendor.parts # <<>> => vendor.parts[told.text] = Text
            /\ told.finish = Ending("openai_compat")[vendor.ended]
=============================================================================
