----------------------------- MODULE WireRequest -----------------------------
(***************************************************************************)
(* A caller's request on its way through the proxy: from the OpenAI body   *)
(* it arrives as (boundary/server/wire.py), as the library's ChatRequest   *)
(* (boundary/types.py), to the fields of the vendor's body that an adapter *)
(* builds (boundary/providers/).  A message's text is named by its place.  *)
(*                                                                         *)
(*   arrived -> refused | parsed -> built | unbuilt                        *)
(*                                                                         *)
(* How each vendor reads a body is external.                               *)
(***************************************************************************)
EXTENDS Naturals, Sequences, SequencesExt, Places

CONSTANTS
  Default,  \* max_tokens_default
  MaxTalk   \* bound: messages of a request

WireRequestAssumption == Default \in STRING \ {"null", "none"} /\ MaxTalk \in Nat

Kinds == {"anthropic", "openai_compat", "google", "decisions", "azure_docintel"}

VARIABLES stage, asked, entry, request, body

vars == <<stage, asked, entry, request, body>>

MaxNames == {"max_tokens", "max_completion_tokens"}

Plain == [unknown |-> FALSE, n |-> 1, names |-> {}, max |-> "null", temperature |-> "null",
          stop |-> "null", stream |-> FALSE, options |-> "null",
          messages |-> <<[role |-> "user", content |-> "text"]>>]

\* Any fields with one message, and any MaxTalk messages with the plain fields.
Settings ==
  [unknown : BOOLEAN, n : {1, 2}, names : SUBSET MaxNames, max : {"null", "five", "zero", "true"},
   temperature : {"null", "one", "high", "true"}, stop : {"null", "words", "none", "number"},
   stream : BOOLEAN, options : {"null", "usage", "other"}, messages : {Plain.messages}]
Message ==
  [role : {"system", "developer", "user", "assistant"}, content : {"text", "parts"}]
    \cup [role : {"tool"}, content : {"text"}]
    \cup [role : {"user", "system"}, content : {"image", "field"}]
Talks == {[Plain EXCEPT !.messages = m] : m \in SeqOf(Message, MaxTalk)}

Init ==
  /\ stage = "arrived"
  /\ asked \in Settings \cup Talks
  /\ entry \in [kind : Kinds, maxField : MaxNames, extra : {"none", "thinking"}]
  /\ entry.kind # "openai_compat" => entry.maxField = "max_tokens"
  /\ entry.kind # "google" => entry.extra = "none"
  /\ request = [system |-> <<>>]
  /\ body = <<>>

-----------------------------------------------------------------------------
IsSystem(m) == m.role \in {"system", "developer"}

\* parse_request refuses a field that it would have to drop, and what is of the wrong shape,
BadMessage(m) ==
  \/ ~IsSystem(m) /\ m.role \notin {"user", "assistant"}
  \/ m.content \notin {"text", "parts"}
BadMessages(ms) ==
  \/ \E i \in DOMAIN ms : BadMessage(ms[i])
  \/ \E i, j \in DOMAIN ms : i < j /\ ~IsSystem(ms[i]) /\ IsSystem(ms[j])
  \/ \A i \in DOMAIN ms : IsSystem(ms[i])
BadFields(a) ==
  \/ a.unknown
  \/ a.n # 1
  \/ a.names = MaxNames
  \/ a.names # {} /\ a.max = "true"
  \/ a.temperature = "true"
  \/ a.stop = "number"
  \/ a.options # "null" /\ (~a.stream \/ a.options = "other")

\* and the ChatRequest what is out of range.
OutOfRange(a) == (a.names # {} /\ a.max = "zero") \/ a.temperature = "high"

\* The system messages become one prompt; the rest stay turns of the conversation.
SystemTexts(ms) == InOrder({i \in DOMAIN ms : IsSystem(ms[i])})
TurnTexts(ms) == InOrder({i \in DOMAIN ms : ~IsSystem(ms[i])})
Parsed(a) ==
  [system |-> SystemTexts(a.messages),
   turns |-> [k \in DOMAIN TurnTexts(a.messages) |->
                LET i == TurnTexts(a.messages)[k] IN [role |-> a.messages[i].role, text |-> i]],
   max |-> IF a.names = {} THEN "null" ELSE a.max,
   temperature |-> a.temperature,
   stop |-> a.stop]

Receive ==
  /\ stage = "arrived"
  /\ IF BadFields(asked) \/ BadMessages(asked.messages) \/ OutOfRange(asked)
     THEN stage' = "refused" /\ UNCHANGED request
     ELSE stage' = "parsed" /\ request' = Parsed(asked)
  /\ UNCHANGED <<asked, entry, body>>

-----------------------------------------------------------------------------
\* A dictionary with those of the fields that are set.
Given(fields) == [f \in {g \in DOMAIN fields : fields[g] \notin {"null", "none"}} |-> fields[f]]
Filled(r) == IF r.max = "null" THEN Default ELSE r.max

\* Anthropic's body: the system prompt in a field of its own.
MessageBody(r) ==
  [field |-> r.system, turns |-> r.turns,
   settings |-> Given([max_tokens |-> Filled(r), temperature |-> r.temperature,
                       stop_sequences |-> r.stop])]

\* OpenAI's: the system prompt is the first turn, and the provider says what max_tokens is
\* called.
ChatBody(r) ==
  [field |-> <<>>,
   turns |-> (IF r.system = <<>> THEN <<>> ELSE <<[role |-> "system", text |-> r.system]>>)
               \o r.turns,
   settings |-> Given([f \in {entry.maxField, "temperature", "stop"} |->
                         CASE f = "temperature" -> r.temperature
                           [] f = "stop" -> r.stop
                           [] OTHER -> Filled(r)])]

\* Google's: other roles, and the settings nested in one field that the route's extra may
\* hold too.
GoogleRole(role) == IF role = "assistant" THEN "model" ELSE role
Thinking == [thinkingConfig |-> "low"]
Replaced(gen, more) == IF more = <<>> THEN gen ELSE more
Merged(gen, more) ==
  [f \in DOMAIN gen \cup DOMAIN more |-> IF f \in DOMAIN more THEN more[f] ELSE gen[f]]
GenerateBody(r) ==
  [field |-> r.system,
   turns |-> [k \in DOMAIN r.turns |-> [r.turns[k] EXCEPT !.role = GoogleRole(@)]],
   settings |-> Merged(Given([maxOutputTokens |-> Filled(r), temperature |-> r.temperature,
                              stopSequences |-> r.stop]),
                       IF entry.extra = "thinking" THEN Thinking ELSE <<>>)]

\* A decision's: the content of the one user message and the route's questions, and no
\* settings; what it would have to drop is refused, but for the length.
DecisionBody(r) == [field |-> <<>>, turns |-> r.turns, settings |-> <<>>]
DecisionCarries(r) ==
  /\ r.system = <<>> /\ r.temperature = "null" /\ r.stop \in {"null", "none"}
  /\ Len(r.turns) = 1 /\ r.turns[1].role = "user"

\* _document: a block that holds a document, which the proxy's requests never do.
HoldsDocument(r) == \E k \in DOMAIN r.turns : asked.messages[r.turns[k].text].content = "document"

Carries(r) ==
  /\ entry.kind = "decisions" => DecisionCarries(r)
  /\ entry.kind = "azure_docintel" => HoldsDocument(r)
Built(r) ==
  CASE entry.kind = "anthropic" -> MessageBody(r)
    [] entry.kind = "openai_compat" -> ChatBody(r)
    [] entry.kind = "google" -> GenerateBody(r)
    [] OTHER -> DecisionBody(r)

Build ==
  /\ stage = "parsed"
  /\ IF Carries(request)
     THEN stage' = "built" /\ body' = Built(request)
     ELSE stage' = "unbuilt" /\ UNCHANGED body
  /\ UNCHANGED <<asked, entry, request>>

Next == Receive \/ Build

Spec == Init /\ [][Next]_vars

-----------------------------------------------------------------------------
\* External: what each vendor takes from a body, as its documents say.
Role(t) == IF t.role = "model" THEN "assistant" ELSE t.role
SystemRead ==
  IF entry.kind = "openai_compat"
  THEN IF body.turns # <<>> /\ body.turns[1].role = "system" THEN body.turns[1].text ELSE <<>>
  ELSE body.field
TurnsRead ==
  LET places == InOrder({k \in DOMAIN body.turns : body.turns[k].role # "system"})
  IN  [k \in DOMAIN places |-> body.turns[places[k]]]
SettingRead(names) ==
  LET found == {n \in names : n \in DOMAIN body.settings}
  IN  IF found = {} THEN "null" ELSE body.settings[CHOOSE n \in found : TRUE]

\* What the caller set reaches the vendor as the vendor reads it: the texts all and in order,
\* each under its role, and every setting, or the request is refused.  Only a decision's body
\* has no field for its length (parse_request, the adapters' bodies).
CarriedOrRefused ==
  stage = "built" =>
    /\ SystemRead \o [k \in DOMAIN TurnsRead |-> TurnsRead[k].text]
         = [i \in DOMAIN asked.messages |-> i]
    /\ \A k \in DOMAIN TurnsRead : Role(TurnsRead[k]) = asked.messages[TurnsRead[k].text].role
    /\ ~asked.unknown /\ asked.n = 1
    /\ entry.kind # "decisions" =>
         /\ SettingRead(MaxNames \cup {"maxOutputTokens"})
              = (IF asked.names = {} \/ asked.max = "null" THEN Default ELSE asked.max)
         /\ SettingRead({"temperature"}) = asked.temperature
         /\ (asked.stop = "words") = (SettingRead({"stop", "stop_sequences", "stopSequences"}) = "words")
         /\ SettingRead({"thinkingConfig"}) = (IF entry.extra = "none" THEN "null" ELSE "low")
=============================================================================
