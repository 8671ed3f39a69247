----------------------------- MODULE CallTarget -----------------------------
(***************************************************************************)
(* One call from a configuration to a host: the price lists checked when a *)
(* gateway is made, the alias or model resolved, the data policy's rule,   *)
(* the request an adapter builds or refuses to build, the reservation and  *)
(* the cost (routes.py, enforce.py, ledger/prices.py, providers/bedrock.py *)
(* and vertex.py, Gateway._prepare and _finish).                           *)
(*                                                                         *)
(* A model is the reach its identifier asks for; Bedrock and Vertex name a *)
(* place in their host, and at any other vendor nothing on the wire does.  *)
(***************************************************************************)
EXTENDS Naturals

CONSTANTS
  Cases,       \* [entry, rule, lists, request]: what a call is made of
  Unset,       \* a field that is not given
  Default,     \* defaults.max_tokens
  Above,       \* long_prompt.above_tokens
  LongRate     \* what a token of a long prompt's call costs, where one of another costs 1

VARIABLES
  case,        \* the member of Cases, which never changes
  stage,       \* where the call is, or how it ended
  ref,         \* [region, reach, extra]: the resolved target
  body,        \* [reach, maxTokens]: what the request built says
  row,         \* [region, residency, estimate, cost, list]: the ledger row
  usage        \* [input, cacheRead, output]: what the vendor counted

vars == <<case, stage, ref, body, row, usage>>

entry   == case.entry     \* [kind, host, region, residency, project, key, selfHosted, zero]
rule    == case.rule      \* [maxResidency, regions]
lists   == case.lists     \* [vendor, hosted, cacheRate]: who each price list prices
request == case.request   \* [by, mode, stream, shape, maxTokens, tokens, reach, extra, route]

CallTargetAssumption ==
  /\ Default \in Nat \ {0} /\ Above \in Nat \ {0} /\ LongRate \in Nat \ {0}
  /\ Unset \notin {"single-region", "geo", "global"}
  /\ \A c \in Cases : /\ c.request.tokens \in Nat /\ c.request.maxTokens \in Nat \cup {Unset}
                      /\ c.request.mode \in {"standard", "passthrough"}
                      /\ c.rule.regions = Unset \/ Unset \notin c.rule.regions

-----------------------------------------------------------------------------
(* Places and reaches.                                                     *)

\* single-region, geo, global, and above them whatever is not declared.
Reach(residency) ==
  CASE residency = "single-region" -> 0 [] residency = "geo" -> 1
    [] residency = "global" -> 2        [] OTHER -> 3

\* A Bedrock host is [class, region], mantle or runtime; any other is no Bedrock endpoint.
IsMantle(host)  == host.class = "mantle"
IsBedrock(host) == host.class \in {"mantle", "runtime"}

-----------------------------------------------------------------------------
(* Prices.                                                                 *)

\* Each price list keeps to its own: no measured rate in the vendors', no vendor's or unknown
\* provider's among the measured.
ListsAgree ==
  /\ entry.selfHosted => "this" \notin lists.vendor
  /\ lists.hosted # Unset => \A p \in lists.hosted : p = "this" /\ entry.selfHosted

PricesFor == IF entry.selfHosted THEN lists.hosted ELSE lists.vendor
Priced    == entry.zero \/ (PricesFor # Unset /\ "this" \in PricesFor)
Cited     == IF ~entry.selfHosted THEN "vendor" ELSE IF lists.hosted # Unset THEN "hosted" ELSE Unset

\* for_prompt: what a token of a call costs whose prompt has so many.
Rate(prompt) == IF entry.zero THEN 0 ELSE IF prompt > Above THEN LongRate ELSE 1

\* The prompt's tokens for the estimate, at half the threshold (LONG_PROMPT_ESTIMATE_SHARE).
Estimate(tokens, maxTokens) == (tokens + maxTokens) * Rate(2 * tokens)

\* cost_usd, or Unset where a rate is missing.
Cost(u) ==
  IF u.cacheRead > 0 /\ ~lists.cacheRate /\ ~entry.zero THEN Unset
  ELSE (u.input + u.cacheRead + u.output) * Rate(u.input + u.cacheRead)

-----------------------------------------------------------------------------
Nothing == [region |-> Unset, reach |-> Unset, extra |-> Unset]

Init ==
  /\ case \in Cases
  /\ stage = "starting"
  /\ ref = Nothing
  /\ body = [reach |-> Unset, maxTokens |-> Unset]
  /\ row = [region |-> Unset, residency |-> Unset, estimate |-> 0, cost |-> Unset, list |-> Unset]
  /\ usage = [input |-> 0, cacheRead |-> 0, output |-> 0]

\* Gateway.__init__: nothing is sent with price lists that disagree.
Construct ==
  /\ stage = "starting"
  /\ stage' = IF ListsAgree THEN "ready" ELSE "no_gateway"
  /\ UNCHANGED <<case, ref, body, row, usage>>

Resolved ==
  [region |-> IF request.by = "alias" /\ request.route.region # Unset
              THEN request.route.region ELSE entry.region,
   reach  |-> request.reach,
   extra  |-> IF request.by = "alias" THEN request.route.extra ELSE {}]

\* resolve, once a stream in pass-through mode was refused; an alias is refused there too.
Resolve ==
  /\ stage = "ready"
  /\ IF request.mode = "passthrough" /\ (request.stream \/ request.by = "alias")
     THEN stage' = "raised" /\ UNCHANGED ref
     ELSE stage' = "resolved" /\ ref' = Resolved
  /\ UNCHANGED <<case, body, row, usage>>

\* _judge: the rule against what the entry declares and the region the call resolved to.
Allowed ==
  /\ rule.maxResidency # Unset => Reach(entry.residency) <= Reach(rule.maxResidency)
  /\ rule.regions # Unset => ref.region \in rule.regions

Judge ==
  /\ stage = "resolved"
  /\ stage' = IF Allowed THEN "judged" ELSE "refused"
  /\ UNCHANGED <<case, ref, body, row, usage>>

\* Mutant: the region is the entry's, whatever the route pins.
CheckEntryOnly ==
  /\ IsBedrock(entry.host)
  /\ IsMantle(entry.host) <=> ref.reach = "single-region"
  /\ entry.region # Unset => entry.region = entry.host.region
  /\ entry.residency # Unset => entry.residency = ref.reach

\* BedrockAdapter.check_residency: host, model and declaration say the same.
CheckResidency ==
  /\ IsBedrock(entry.host)
  /\ IsMantle(entry.host) <=> ref.reach = "single-region"
  /\ ref.region # Unset => ref.region = entry.host.region
  /\ entry.residency # Unset => entry.residency = ref.reach

\* VertexAdapter.build_request: the host is the endpoint of the region the path names.
CheckPlace ==
  /\ entry.project # Unset
  /\ ref.region # Unset /\ entry.host = [class |-> "regional", region |-> ref.region]

Builds ==
  CASE entry.kind = "aws_bedrock"    -> CheckResidency
    [] entry.kind = "gcp_vertex"     -> CheckPlace
    [] entry.kind = "azure_docintel" -> FALSE                        \* async_only
    [] entry.kind = "decisions"      -> request.shape = "decision"   \* decision_body
    [] OTHER                         -> TRUE

\* The caller's own fields, and under them the route's; pass-through adds none.
Extra == request.extra \cup (IF request.mode = "standard" THEN ref.extra ELSE {})

MaxTokens ==
  IF request.maxTokens = Unset /\ request.mode = "standard" THEN Default ELSE request.maxTokens

\* The request is built once there is a key, with the fields of extra over the rest: a model
\* in it replaces the one resolved, except that Vertex takes it out of the body again.
Build ==
  /\ stage = "judged"
  /\ IF /\ request.mode = "passthrough" => request.maxTokens # Unset
        /\ request.stream => entry.kind = "openai_compat"
        /\ entry.key # "missing" /\ Builds
     THEN /\ stage' = "built"
          /\ body' = [reach |-> IF "model" \in Extra /\ entry.kind # "gcp_vertex" THEN "global" ELSE ref.reach,
                      maxTokens |-> IF "max_tokens" \in Extra THEN 2 * Default ELSE MaxTokens]
     ELSE stage' = "raised" /\ UNCHANGED body
  /\ UNCHANGED <<case, ref, row, usage>>

\* The row is written with its reservation, and the request is sent.
Send ==
  /\ stage = "built"
  /\ stage' = "sent"
  /\ row' = [region |-> ref.region, residency |-> entry.residency, cost |-> Unset, list |-> Cited,
             estimate |-> IF Priced THEN Estimate(request.tokens, MaxTokens) ELSE 0]
  /\ UNCHANGED <<case, ref, body, usage>>

\* An answer, whose prompt may be counted at up to twice what was estimated; a stream's may
\* come without counts, and is then not costed.
Answer ==
  /\ stage = "sent"
  /\ stage' = "answered"
  /\ \E input, cacheRead \in 0 .. 2 * request.tokens, output \in 0 .. body.maxTokens :
       /\ input + cacheRead <= 2 * request.tokens
       /\ usage' = [input |-> input, cacheRead |-> cacheRead, output |-> output]
  /\ \E counted \in BOOLEAN :
       /\ ~counted => request.stream
       /\ row' = [row EXCEPT !.cost = IF Priced /\ counted THEN Cost(usage') ELSE Unset]
  /\ UNCHANGED <<case, ref, body>>

Next == Construct \/ Resolve \/ Judge \/ Build \/ Send \/ Answer

Spec == Init /\ [][Next]_vars

-----------------------------------------------------------------------------
TypeOK ==
  /\ case \in Cases
  /\ stage \in {"starting", "no_gateway", "ready", "raised", "resolved", "refused", "judged",
                "built", "sent", "answered"}
  /\ row.estimate \in Nat /\ (row.cost # Unset => row.cost \in Nat)

Sent == stage \in {"sent", "answered"}

\* Where the host puts a call, and as far as the model it names lets it go, is where the row
\* says and where the rule for its data allows, at the two kinds whose host and model say
\* anything (check_residency, VertexAdapter.build_request, _judge); but for a model the
\* caller or the route put into the body past the one that was resolved.
GoesWhereItSays ==
  Sent /\ entry.kind \in {"aws_bedrock", "gcp_vertex"} /\ "model" \notin Extra =>
    /\ row.region \in {Unset, entry.host.region}
    /\ rule.regions # Unset => entry.host.region \in rule.regions
    /\ entry.kind = "aws_bedrock" =>
         /\ row.residency \in {Unset, body.reach}
         /\ rule.maxResidency # Unset => Reach(body.reach) <= Reach(rule.maxResidency)

\* A prompt billed at the long rates was reserved at them, though the vendor counted up to
\* twice the tokens; and one within its estimate costs no more than was reserved (estimate_usd,
\* LONG_PROMPT_ESTIMATE_SHARE), unless extra asks for more tokens than the request.
ReservedEnough ==
  row.cost # Unset =>
    LET prompt == usage.input + usage.cacheRead
    IN  /\ prompt > Above /\ ~entry.zero => row.estimate >= LongRate * request.tokens
        /\ prompt <= request.tokens /\ "max_tokens" \notin Extra => row.cost <= row.estimate

\* Pass-through sends what the caller wrote: nothing of a route, and no default.
NothingFilledIn ==
  Sent /\ request.mode = "passthrough" =>
    /\ "max_tokens" \notin request.extra => body.maxTokens = request.maxTokens
    /\ "model" \notin request.extra => body.reach = request.reach

\* A rate that was measured is never a vendor's, nor the other way round: one list prices a
\* provider, and a row that was costed cites it.
OneListPrices ==
  row.cost # Unset /\ ~entry.zero =>
    /\ row.list = IF entry.selfHosted THEN "hosted" ELSE "vendor"
    /\ {l \in {"vendor", "hosted"} : lists[l] # Unset /\ "this" \in lists[l]} = {row.list}

CallIsAsJudged == GoesWhereItSays /\ ReservedEnough /\ NothingFilledIn /\ OneListPrices
=============================================================================
