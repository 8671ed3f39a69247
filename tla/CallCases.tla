------------------------------ MODULE CallCases ------------------------------
(* Calls small enough to make every one of: where Bedrock and Vertex would *)
(* send them, and what each would cost at a host that names no place.      *)
EXTENDS Naturals

CONSTANT Unset

Entry(kind, host, region, residency, key, selfHosted, zero) ==
  [kind |-> kind, host |-> host, region |-> region, residency |-> residency,
   project |-> IF kind = "gcp_vertex" /\ key = "pasted" THEN Unset ELSE "p",
   key |-> key, selfHosted |-> selfHosted, zero |-> zero]
Ask(by, mode, stream, maxTokens, tokens, reach, extra, route) ==
  [by |-> by, mode |-> mode, stream |-> stream,
   shape |-> IF tokens = 2 THEN "decision" ELSE "chat",
   maxTokens |-> maxTokens, tokens |-> tokens, reach |-> reach, extra |-> extra, route |-> route]
Route(region, extra) == [region |-> region, extra |-> extra]

Host(class, region) == [class |-> class, region |-> region]
Residencies == {"single-region", "geo", "global"}
Rules == [maxResidency : {Unset, "single-region", "geo"}, regions : {Unset, {"east"}}]
NoRule == [maxResidency |-> Unset, regions |-> Unset]
VendorPrices == [vendor |-> {"this"}, hosted |-> Unset, cacheRate |-> TRUE]

Asked == {Ask("explicit", "standard", FALSE, 1, 1, reach, extra, Route(Unset, {})) :
            reach \in Residencies, extra \in {{}, {"model"}}}
  \cup {Ask("alias", "standard", FALSE, 1, 1, reach, {}, Route(region, extra)) :
          reach \in Residencies, region \in {Unset, "east", "west"}, extra \in {{}, {"model"}}}

BedrockEntries ==
  {Entry("aws_bedrock", host, region, residency, "none", FALSE, FALSE) :
     host \in {Host(c, r) : c \in {"mantle", "runtime"}, r \in {"east", "west"}} \cup {Host("other", "east")},
     region \in {Unset, "east", "west"}, residency \in Residencies \cup {Unset}}
VertexEntries ==
  {Entry("gcp_vertex", Host("regional", r), region, residency, key, FALSE, FALSE) :
     r \in {"east", "west", "global"}, region \in {Unset, "east", "global"},
     residency \in {Unset, "single-region"}, key \in {"minted", "pasted"}}

PlaceCases == [entry : BedrockEntries \cup VertexEntries, rule : Rules, lists : {VendorPrices}, request : Asked]

\* No host of these names a place.
PricedEntries ==
  {e \in {Entry(kind, Host("other", "none"), Unset, Unset, key, selfHosted, zero) :
            kind \in {"openai_compat", "decisions", "azure_docintel"}, key \in {"pasted", "missing"},
            selfHosted \in BOOLEAN, zero \in BOOLEAN} :
     /\ ~(e.selfHosted /\ e.zero)
     /\ e.kind # "openai_compat" => ~e.selfHosted /\ ~e.zero}
PriceLists ==
  [vendor : {{}, {"this"}}, hosted : {Unset, {}, {"this"}, {"another"}}, cacheRate : BOOLEAN]
PricedAsked ==
  {Ask(by, mode, stream, maxTokens, tokens, "single-region", extra, Route(Unset, {"max_tokens"})) :
     by \in {"explicit", "alias"}, mode \in {"standard", "passthrough"}, stream \in BOOLEAN,
     maxTokens \in {Unset, 2}, tokens \in 1 .. 3, extra \in {{}, {"max_tokens"}}}

PriceCases == [entry : PricedEntries, rule : {NoRule}, lists : PriceLists, request : PricedAsked]
=============================================================================
