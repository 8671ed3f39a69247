------------------------------ MODULE FrontDoor ------------------------------
(***************************************************************************)
(* What a call passes before it is sent: the proxy's key, quota, model     *)
(* list, screen and redaction (boundary/server), and the gateway's data    *)
(* policy (boundary/enforce), with the row each refusal leaves and the     *)
(* residency report that is read from the rows.  A library caller starts   *)
(* at the gateway and states itself whether it redacted.                   *)
(*                                                                         *)
(*   idle -> asking -> through -> calling -> sent -> done                  *)
(*                                                                         *)
(* A refusal is a place of its own, between the two writes of its row.     *)
(***************************************************************************)
EXTENDS Integers, Sequences, FiniteSets, FiniteSetsExt

CONSTANTS
  Requests, Workers, Teams,
  Providers,    \* [names -> [residency, region]], each of them or None
  Explicit,     \* [models named provider/model-id -> the provider]
  Routes,       \* [aliases -> [model, region]]: an explicit model, a region or None
  TeamOf,       \* [key hashes -> teams]
  Limit,        \* [Teams -> requests_per_minute]
  Models,       \* [Teams -> the models it may use], or None
  MaxTokens,    \* [Teams -> the longest answer it may ask for], or 0 for no limit
  Scenarios,    \* [policy, hosted, many, asks, horizon], chosen by Init
  Window,       \* QUOTA_WINDOW_S
  Pieces,       \* what texts are made of, and Break, the line break, among them
  Break,
  None

Shared == "shared"            \* the Redis window of a hosted proxy

(* The classes of data, the residencies and how far they reach.            *)

Classes == {"public", "internal", "personal", "sensitive"}
Known   == {"single-region", "geo", "global"}

\* Mutant: what is not known is the narrowest.
ReachOfUnknownLeast(residency) ==
  CASE residency = "geo" -> 1 [] residency = "global" -> 2 [] OTHER -> 0

\* reach: undeclared, and what a later version declares, is wider than any limit.
Reach(residency) ==
  CASE residency = "single-region" -> 0 [] residency = "geo" -> 1 [] residency = "global" -> 2
    [] OTHER -> 3

\* ClassRule: None is no limit.
RuleOK(rule) ==
  /\ rule.max \in Known \cup {None} /\ rule.cache \in BOOLEAN
  /\ rule.as \in Classes \cup {None} /\ rule.rehydrate \in {"caller", "all"}
  /\ rule.regions # None => None \notin rule.regions

\* DataPolicy and its validator: a redacted_as is listed and has none of its own.
PolicyOK(policy) ==
  /\ DOMAIN policy.rules \subseteq Classes
  /\ policy.undeclared \in Classes /\ policy.injection \in {"off", "flag", "block"}
  /\ \A c \in DOMAIN policy.rules :
       /\ RuleOK(policy.rules[c])
       /\ policy.rules[c].as # None =>
            policy.rules[c].as \in DOMAIN policy.rules /\ policy.rules[policy.rules[c].as].as = None

Refused  == {"injection_blocked", "redaction_refused", "policy_refused"}
OwnFault == {"key", "request", "quota", "model", "limits"}

Regions == {Providers[p].region : p \in DOMAIN Providers} \cup {Routes[a].region : a \in DOMAIN Routes}
Rows    == [state : {"in_flight", "complete"}, provider : DOMAIN Providers, region : Regions,
            class : Classes \cup {None}, redacted : BOOLEAN, error : Refused \cup {None, "http"},
            cached : BOOLEAN]

\* A text is a sequence of pieces, and a value is in it where it stands there piece by piece.
Occurs(value, text) ==
  \E i \in 0 .. (Len(text) - Len(value)) : \A k \in DOMAIN value : text[i + k] = value[k]

\* An ask: its system prompt, its messages, and the spellings the recognisers and the second
\* pass find in them, in the order they are met; norm is a spelling without case and spacing.
\* No spelling crosses a line break.
AskOK(a) ==
  /\ {"via", "key", "wellFormed", "header", "class", "model", "tokens", "fires", "leaky", "claims",
      "marked", "messages", "system", "found"} \subseteq DOMAIN a
  /\ a.via \in {"proxy", "library"} /\ a.claims \in BOOLEAN
  /\ a.system \in Seq(Pieces) /\ a.messages \in Seq(Seq(Pieces)) /\ a.found \in Seq(Range(a.found))
  /\ \A i \in DOMAIN a.found :
       /\ a.found[i].value \in Seq(Pieces \ {Break}) /\ a.found[i].value # <<>>
       /\ \E text \in {a.system} \cup Range(a.messages) : Occurs(a.found[i].value, text)
       /\ \A j \in DOMAIN a.found : a.found[i].value = a.found[j].value =>
                                      a.found[i].norm = a.found[j].norm

ASSUME FrontDoorAssumption ==
  /\ None \notin Classes \cup Known \cup Teams \cup Requests \cup {Shared}
  /\ None \notin {"", "   ", "PUBLIC"} \cup Refused \cup OwnFault \cup Rows
  /\ None \notin [clear : SUBSET Seq(Pieces)]
  /\ \A h \in DOMAIN TeamOf : TeamOf[h] \in Teams
  /\ \A t \in Teams : Limit[t] \in Nat \ {0} /\ MaxTokens[t] \in Nat
  /\ \A a \in DOMAIN Routes : Routes[a].model \in DOMAIN Explicit /\ Explicit[Routes[a].model] \in DOMAIN Providers
  /\ DOMAIN Routes \cap DOMAIN Explicit = {} /\ Break \in Pieces
  /\ Window \in Nat \ {0} /\ IsFiniteSet(Requests) /\ Shared \notin Workers
  /\ \A s \in Scenarios : /\ PolicyOK(s.policy) /\ s.hosted \in BOOLEAN /\ s.horizon \in Nat
                          /\ s.many \in Nat /\ \A a \in s.asks : AskOK(a)

VARIABLES
  scene,    \* the scenario
  now,      \* the clock, up to scene.horizon
  window,   \* [shelf, team, req, time] of the requests a window holds
  passed,   \* history: the same of every request ever let through by a window still kept
  told,     \* history: [shelf, team, at, wait] of what the refused were told
  at,       \* [Requests -> where its handler is]
  ask,      \* [Requests -> what it asks]
  on,       \* [Requests -> its worker]
  target,   \* [Requests -> [model, provider, region] its model resolves to]
  masked,   \* [Requests -> whether the text is redacted]
  row,      \* [Requests -> its ledger row]
  sent,     \* [Requests -> what was put on the wire]
  reply     \* [Requests -> what it was answered: [what, back, left], the values put back
            \*  into the answer and the placeholders left in it]

quotaVars == <<window, passed, told>>
callVars  == <<ask, on, target, masked, row, sent>>
vars == <<scene, now, quotaVars, at, callVars, reply>>

policy  == scene.policy
Rules   == policy.rules
NoReply == [what |-> None, back |-> {}, left |-> {}]

-----------------------------------------------------------------------------
(* The data policy.                                                        *)

\* _judge: one rule against one provider entry and region.
Judge(rule, provider, region) ==
  LET residency == Providers[provider].residency
  IN  /\ rule.max # None => residency \in Known /\ Reach(residency) <= Reach(rule.max)
      /\ rule.regions # None => region # None /\ region \in rule.regions
      /\ rule.providers # None => provider \in rule.providers

\* Mutant: a call is judged as its class would be once redacted, redacted or not.
DecideAsRedacted(declared, provider, region, redacted) ==
  LET class  == IF declared = None THEN policy.undeclared ELSE declared
      listed == class \in DOMAIN Rules
      inner  == IF Rules[class].as # None THEN Rules[Rules[class].as] ELSE Rules[class]
  IN  [allowed |-> listed /\ Judge(inner, provider, region), cache |-> listed /\ inner.cache]

\* decide: whether a call may go, and whether the development cache may hold it.
Decide(declared, provider, region, redacted) ==
  LET class  == IF declared = None THEN policy.undeclared ELSE declared
      listed == class \in DOMAIN Rules
      rule   == Rules[class]
      inner  == IF redacted /\ rule.as # None THEN Rules[rule.as] ELSE rule
  IN  [allowed |-> listed /\ Judge(inner, provider, region),
       cache   |-> listed /\ inner.cache /\ rule.cache]

\* resolve, in standard mode: the explicit form is never rewritten.
Resolves(model) == model \in DOMAIN Routes \/ (model \in DOMAIN Explicit /\ Explicit[model] \in DOMAIN Providers)
Resolve(model) ==
  LET to       == IF model \in DOMAIN Explicit THEN model ELSE Routes[model].model
      provider == Explicit[to]
      routed   == model \in DOMAIN Routes /\ Routes[model].region # None
  IN  [model |-> to, provider |-> provider,
       region |-> IF routed THEN Routes[model].region ELSE Providers[provider].region]

-----------------------------------------------------------------------------
(* Rows.                                                                   *)

\* The row of a refused call, begun at no cost before it says why it was refused.
Refusal(r, to, redacted) ==
  [state |-> "in_flight", provider |-> to.provider, region |-> to.region,
   class |-> ask[r].class, redacted |-> redacted, error |-> None, cached |-> FALSE]

\* Mutant: the row is completed before its error is set.
FinishedEarly(begun, error) == [begun EXCEPT !.state = "complete"]

\* The same row once it is completed.
Finished(begun, error) == [begun EXCEPT !.state = "complete", !.error = error]

\* A row begun for a call about to be sent.
Begun(r) ==
  [state |-> "in_flight", provider |-> target[r].provider, region |-> target[r].region,
   class |-> ask[r].class, redacted |-> masked[r], error |-> None, cached |-> FALSE]

-----------------------------------------------------------------------------
(* The window.                                                             *)

Shelf(r) == IF scene.hosted THEN Shared ELSE on[r]
TeamIs(r) == TeamOf[ask[r].key]

\* Mutant: the window begins anew every minute.
LiveThisMinute(shelf, team, time) ==
  {e \in window : e.shelf = shelf /\ e.team = team /\ e.time \div Window = time \div Window}

\* What is left of a window once the requests sixty seconds old are dropped.
Live(shelf, team, time) ==
  {e \in window : e.shelf = shelf /\ e.team = team /\ e.time + Window > time}

\* Until the oldest of them is dropped.
Wait(live) == Min({e.time : e \in live}) + Window - now

\* RequestQuota.take, and the script Redis runs: both drop, count, and add in one step.
Take(r) ==
  LET shelf == Shelf(r)  team == TeamIs(r)
      live  == Live(shelf, team, now)
      entry == [shelf |-> shelf, team |-> team, req |-> r, time |-> now]
      rest  == {e \in window : e.shelf # shelf \/ e.team # team}
  IN  /\ at[r] = "asking"
      /\ IF Cardinality(live) >= Limit[team]
         THEN /\ window' = rest \cup live
              /\ told' = told \cup {[shelf |-> shelf, team |-> team, at |-> now,
                                     wait |-> Wait(live)]}
              /\ at' = [at EXCEPT ![r] = "done"]
              /\ reply' = [reply EXCEPT ![r].what = "quota"]
              /\ UNCHANGED passed
         ELSE /\ window' = rest \cup live \cup {entry} /\ passed' = passed \cup {entry}
              /\ at' = [at EXCEPT ![r] = "through"]
              /\ UNCHANGED <<told, reply>>
      /\ UNCHANGED <<scene, now, callVars>>

-----------------------------------------------------------------------------
(* The proxy's handler.                                                    *)

Answer(r, what) ==
  /\ at' = [at EXCEPT ![r] = "done"]
  /\ reply' = [reply EXCEPT ![r].what = what]

\* record_refusal and _enforce: the row is begun, or the ledger fails it and nothing is.
Refuse(r, to, error, redacted) ==
  \/ /\ row' = [row EXCEPT ![r] = Refusal(r, to, redacted)]
     /\ at' = [at EXCEPT ![r] = error] /\ UNCHANGED reply
  \/ Answer(r, "failed") /\ UNCHANGED row

\* Then it is completed, or the ledger fails that, and only then the caller is answered.
Refuses(r) ==
  /\ at[r] \in Refused
  /\ \/ row' = [row EXCEPT ![r] = Finished(@, at[r])] /\ Answer(r, at[r])
     \/ Answer(r, "failed") /\ UNCHANGED row
  /\ UNCHANGED <<scene, now, quotaVars, ask, on, target, masked, sent>>

\* Bound: how many calls a scenario makes.
Room == Cardinality({r \in Requests : at[r] # "idle"}) < scene.many

\* A header's words, with the blanks and the case that the proxy forgives.
Plain(header) ==
  CASE header = "   " -> ""
    [] header = "PUBLIC" -> "public"
    [] OTHER -> header

\* _data_class: without the header, or with a blank one, the class is personal, whatever the
\* policy says of the undeclared.
ReadClass(header) == IF header = None \/ Plain(header) = "" THEN "personal" ELSE Plain(header)

\* A request comes to a worker: its key, its body and its class are read.
Arrive(r, w, a) ==
  /\ at[r] = "idle" /\ Room /\ a \in scene.asks /\ a.via = "proxy"
  /\ ask' = [ask EXCEPT ![r] = [a EXCEPT !.class = ReadClass(a.header)]]
  /\ on' = [on EXCEPT ![r] = w]
  /\ IF a.key \notin DOMAIN TeamOf \/ ~a.wellFormed \/ ReadClass(a.header) \notin Classes
     THEN Answer(r, IF a.key \notin DOMAIN TeamOf THEN "key" ELSE "request")
     ELSE at' = [at EXCEPT ![r] = "asking"] /\ UNCHANGED reply
  /\ UNCHANGED <<scene, now, quotaVars, target, masked, row, sent>>

\* _team_limits: the model as it is written or as it resolves, and the answer's length.
WithinLimits(r) ==
  LET team == TeamIs(r)
  IN  /\ Models[team] # None => Models[team] \cap {ask[r].model, Resolve(ask[r].model).model} # {}
      /\ MaxTokens[team] # 0 => ask[r].tokens <= MaxTokens[team]

Blocked(r) == policy.injection = "block" /\ ask[r].fires

\* _redact: the class's own rule says whether the text is to be redacted.
Redacts(r) == ask[r].class \in DOMAIN Rules /\ Rules[ask[r].class].as # None

\* From the quota to the call, in one turn of the event loop: the model, the team's limits,
\* the screen, the redaction and its guard, and the semantic cache's reading of the rule,
\* which a marked request whose class has none does not survive.
Handle(r) ==
  LET model == ask[r].model
      refuse(error) == Refuse(r, Resolve(model), error, FALSE) /\ UNCHANGED masked
  IN  /\ at[r] = "through"
      /\ target' = [target EXCEPT ![r] = IF Resolves(model) THEN Resolve(model) ELSE @]
      /\ \/ /\ ~Resolves(model)
            /\ Answer(r, "model") /\ UNCHANGED <<masked, row>>
         \/ /\ Resolves(model) /\ ~WithinLimits(r)
            /\ Answer(r, "limits") /\ UNCHANGED <<masked, row>>
         \/ /\ Resolves(model) /\ WithinLimits(r) /\ Blocked(r)
            /\ refuse("injection_blocked")
         \/ /\ Resolves(model) /\ WithinLimits(r) /\ ~Blocked(r) /\ Redacts(r) /\ ask[r].leaky
            /\ refuse("redaction_refused")
         \/ /\ Resolves(model) /\ WithinLimits(r) /\ ~Blocked(r) /\ ~(Redacts(r) /\ ask[r].leaky)
            /\ masked' = [masked EXCEPT ![r] = Redacts(r)]
            /\ IF ask[r].marked /\ ask[r].class \notin DOMAIN Rules THEN Answer(r, "failed")
               ELSE at' = [at EXCEPT ![r] = "calling"] /\ UNCHANGED reply
            /\ UNCHANGED row
      /\ UNCHANGED <<scene, now, quotaVars, ask, on, sent>>

-----------------------------------------------------------------------------
(* The gateway.                                                            *)

\* A library caller: the class may be undeclared, and whether the text is redacted is its word.
LibraryCall(r, a) ==
  /\ at[r] = "idle" /\ Room /\ a \in scene.asks /\ a.via = "library"
  /\ a.class \in Classes \cup {None} /\ Resolves(a.model)
  /\ ask' = [ask EXCEPT ![r] = a]
  /\ target' = [target EXCEPT ![r] = Resolve(a.model)]
  /\ masked' = [masked EXCEPT ![r] = a.claims]
  /\ at' = [at EXCEPT ![r] = "calling"]
  /\ UNCHANGED <<scene, now, quotaVars, on, row, sent, reply>>

\* Policy: every spelling found, as it was written, and the vault, which holds for each
\* placeholder the spelling it was minted for, the first that was met.
Values(r) == {ask[r].found[i].value : i \in DOMAIN ask[r].found}
Vault(r) ==
  LET found == ask[r].found
  IN  [p \in {found[i].norm : i \in DOMAIN found} |->
         found[Min({i \in DOMAIN found : found[i].norm = p})].value]

\* Mutant: the messages are joined with nothing between them.
JoinedBare(texts) ==
  LET joined[n \in Nat] == IF n = 0 THEN <<>> ELSE joined[n - 1] \o texts[n]
  IN  joined[Len(texts)]

\* The messages as one text, with a line break between each and the next.
Joined(texts) ==
  LET joined[n \in Nat] ==
        IF n = 0 THEN <<>> ELSE IF n = 1 THEN texts[1] ELSE joined[n - 1] \o <<Break>> \o texts[n]
  IN  joined[Len(texts)]

\* The placeholders an answer's restorer knows: of a request the proxy redacted the whole vault
\* or, with `caller`, what of it stands in the caller's own messages (caller_scoped).
Restorer(r) ==
  {p \in DOMAIN Vault(r) :
     /\ masked[r] /\ ask[r].via = "proxy"
     /\ \/ Rules[ask[r].class].rehydrate = "all"
        \/ Occurs(Vault(r)[p], Joined(ask[r].messages))}

\* An answer that mentions some of the placeholders it was sent.
Mentions(r) == SUBSET (IF masked[r] THEN DOMAIN Vault(r) ELSE {})
Given(r, mentions) ==
  [what |-> "answer", back |-> {Vault(r)[p] : p \in mentions \cap Restorer(r)},
   left |-> mentions \ Restorer(r)]

\* _prepare up to the send: the policy first, and a refusal leaves its row.  Redacted, what goes
\* out holds no value in clear.
Call(r) ==
  LET decision == Decide(ask[r].class, target[r].provider, target[r].region, masked[r])
  IN  /\ at[r] = "calling"
      /\ \/ /\ ~decision.allowed
            /\ Refuse(r, target[r], "policy_refused", masked[r]) /\ UNCHANGED sent
         \/ /\ decision.allowed
            /\ row' = [row EXCEPT ![r] = Begun(r)]
            /\ sent' = [sent EXCEPT ![r] = [clear |-> IF masked[r] THEN {} ELSE Values(r)]]
            /\ at' = [at EXCEPT ![r] = "sent"] /\ UNCHANGED reply
         \/ /\ decision.allowed /\ decision.cache
            /\ row' = [row EXCEPT ![r] = [Begun(r) EXCEPT !.state = "complete", !.cached = TRUE]]
            /\ \E mentions \in Mentions(r) : reply' = [reply EXCEPT ![r] = Given(r, mentions)]
            /\ at' = [at EXCEPT ![r] = "done"] /\ UNCHANGED sent
      /\ UNCHANGED <<scene, now, quotaVars, ask, on, target, masked>>

\* The host answers, or fails; the answer may mention any placeholder that was in the text.
Return(r) ==
  /\ at[r] = "sent"
  /\ at' = [at EXCEPT ![r] = "done"]
  /\ \/ \E mentions \in Mentions(r) :
          /\ row' = [row EXCEPT ![r].state = "complete"]
          /\ reply' = [reply EXCEPT ![r] = Given(r, mentions)]
     \/ /\ row' = [row EXCEPT ![r].state = "complete", ![r].error = "http"]
        /\ reply' = [reply EXCEPT ![r].what = "upstream"]
  /\ UNCHANGED <<scene, now, quotaVars, ask, on, target, masked, sent>>

-----------------------------------------------------------------------------
Tick ==
  /\ now < scene.horizon /\ now' = now + 1
  /\ UNCHANGED <<scene, quotaVars, at, callVars, reply>>

\* A worker is killed and started again: its own windows are empty, Redis's are not.
Restart(w) ==
  /\ \E r \in Requests : on[r] = w /\ at[r] \in {"asking", "through", "calling", "sent"} \cup Refused
  /\ at' = [r \in Requests |-> IF on[r] = w /\ at[r] # "done" THEN "gone" ELSE at[r]]
  /\ window' = {e \in window : e.shelf # w}
  /\ passed' = {e \in passed : e.shelf # w}
  /\ told' = {e \in told : e.shelf # w}
  /\ UNCHANGED <<scene, now, callVars, reply>>

\* A library caller's program is killed.
Quit(r) ==
  /\ at[r] \in {"calling", "sent"} \cup Refused /\ ask[r].via = "library"
  /\ at' = [at EXCEPT ![r] = "gone"]
  /\ UNCHANGED <<scene, now, quotaVars, callVars, reply>>

Init ==
  /\ scene \in Scenarios
  /\ now = 0 /\ window = {} /\ passed = {} /\ told = {}
  /\ at = [r \in Requests |-> "idle"] /\ ask = [r \in Requests |-> None]
  /\ on = [r \in Requests |-> None] /\ target = [r \in Requests |-> None]
  /\ masked = [r \in Requests |-> FALSE] /\ row = [r \in Requests |-> None]
  /\ sent = [r \in Requests |-> None] /\ reply = [r \in Requests |-> NoReply]

Next ==
  \/ \E r \in Requests :
       \/ \E w \in Workers, a \in scene.asks : Arrive(r, w, a)
       \/ \E a \in scene.asks : LibraryCall(r, a)
       \/ Take(r) \/ Handle(r) \/ Call(r) \/ Refuses(r) \/ Return(r) \/ Quit(r)
  \/ \E w \in Workers : Restart(w)
  \/ Tick

Spec == Init /\ [][Next]_vars
-----------------------------------------------------------------------------
(* The residency report.                                                   *)

\* The rows of a class, or with None of no class; and one group for each place they were for.
Matching(wanted) == {r \in Requests : row[r] # None /\ row[r].class = wanted}
GroupOf(r) == <<row[r].provider, row[r].region, Providers[row[r].provider].residency>>
Summarise(wanted) ==
  {LET in == {k \in Matching(wanted) : GroupOf(k) = GroupOf(r)}
   IN  [of |-> GroupOf(r), calls |-> Cardinality(in), cached |-> Cardinality({k \in in : row[k].cached})]
     : r \in Matching(wanted)}

SentOf(group) == group.calls - group.cached
Violations(groups, limit) == {g \in groups : Reach(g.of[3]) > Reach(limit) /\ SentOf(g) > 0}

-----------------------------------------------------------------------------
(* The policy suite (boundary/enforce_eval): each call that its other      *)
(* gates let through is a case, expected to go or not as the policy file,  *)
(* read as plain data, says.                                               *)

Rank(residency) == CASE residency = "single-region" -> 0 [] residency = "geo" -> 1 [] residency = "global" -> 2

Oracle(declared, to) ==
  LET effective == IF declared = None THEN policy.undeclared ELSE declared
      residency == Providers[to.provider].residency
      rule      == Rules[effective]
  IN  /\ declared \in Classes \cup {None} /\ effective \in DOMAIN Rules
      /\ rule.max = None \/ (residency \in Known /\ Rank(residency) <= Rank(rule.max))
      /\ rule.regions = None \/ to.region \in rule.regions
      /\ rule.providers = None \/ to.provider \in rule.providers

\* door: what the proxy's documented rules make of a header.
Door(header) ==
  CASE header \in {None, "", "   "} -> "personal"
    [] header = "PUBLIC" -> "public"
    [] header \in Classes -> header
    [] OTHER -> "<invalid>"

\* run_proxy: a class that is redacted is judged as the class it becomes.
JudgedAs(r) ==
  LET class == Door(ask[r].header)
  IN  IF class \in DOMAIN Rules /\ Rules[class].as # None THEN Rules[class].as ELSE class

\* The suite asks with nothing that another gate stops, and claims no redaction of its own.
InSuite(r) ==
  /\ at[r] = "done" /\ target[r] # None
  /\ ~ask[r].claims /\ ~ask[r].fires /\ ~ask[r].leaky /\ ~ask[r].marked

\* run: what became of a case.
Outcome(r) ==
  [expected |-> IF ask[r].via = "proxy"
                THEN JudgedAs(r) # "<invalid>" /\ Oracle(JudgedAs(r), target[r])
                ELSE Oracle(ask[r].class, target[r]),
   sent     |-> sent[r] # None,
   refused  |-> reply[r].what = "policy_refused",
   audited  |-> row[r] # None /\ row[r].error = "policy_refused"]

\* violations, false_refusals, audited.
SuiteViolation(o)    == ~o.expected /\ o.sent
SuiteFalseRefusal(o) == o.expected /\ o.refused
SuiteUnaudited(o)    == o.refused /\ ~o.audited

-----------------------------------------------------------------------------
TypeOK ==
  /\ scene \in Scenarios /\ now \in 0 .. scene.horizon
  /\ window \subseteq passed
  /\ \A e \in passed : e.team \in Teams /\ e.req \in Requests /\ e.time \in 0 .. now
  /\ \A r \in Requests :
       /\ at[r] \in {"idle", "asking", "through", "calling", "sent", "done", "gone"} \cup Refused
       /\ at[r] \in {"calling", "sent"} => target[r].provider \in DOMAIN Providers
       /\ masked[r] \in BOOLEAN

ClassOf(r) == IF ask[r].class = None THEN policy.undeclared ELSE ask[r].class

\* "The refusal" (enforce.py:6) is the whole of the data policy: text goes out in clear only
\* where the rule of its own class lets it, and redacted only where that rule, or the one it
\* is then judged as, does; a class no rule lists goes nowhere, and the development cache
\* holds nothing of a class whose rule keeps it out.
SentWithinRule ==
  \A r \in Requests :
    /\ sent[r] # None =>
         /\ ClassOf(r) \in DOMAIN Rules
         /\ \/ Oracle(ClassOf(r), target[r])
            \/ /\ masked[r] /\ sent[r].clear = {}
               /\ \E c \in DOMAIN Rules : c = Rules[ClassOf(r)].as /\ Oracle(c, target[r])
    /\ row[r] # None /\ row[r].cached => ClassOf(r) \in DOMAIN Rules /\ Rules[ClassOf(r)].cache

\* The proxy sends no text of a class it is told to redact as it came, whatever its provider.
RedactedBeforeItLeaves ==
  \A r \in Requests :
    /\ sent[r] # None /\ ask[r].via = "proxy"
    /\ \E c \in DOMAIN Rules : c = ask[r].class /\ Rules[c].as \in Classes
    => sent[r].clear = {} /\ row[r].redacted

\* Of the suite's cases none that is forbidden is sent, none that is allowed is refused by the
\* policy, and each of its refusals is on the ledger.
SuiteIsClean ==
  \A r \in Requests : InSuite(r) =>
    ~SuiteViolation(Outcome(r)) /\ ~SuiteFalseRefusal(Outcome(r)) /\ ~SuiteUnaudited(Outcome(r))

DataStaysWithinRule == TypeOK /\ SentWithinRule /\ RedactedBeforeItLeaves /\ SuiteIsClean

\* A refusal that is a decision about data is answered only once its row is completed with
\* it; cut off or failed between the two writes, the row stays in flight.  No row, in any
\* order of writes, faults and restarts, is completed for a call that was not made unless it
\* says why, or says that it was refused when something was sent.  A refusal that is the
\* caller's own fault leaves no row; and what is sent has one.
RefusalsAreOnRecord ==
  \A r \in Requests :
    /\ reply[r].what \in Refused =>
         /\ row[r] # None /\ row[r].state = "complete" /\ row[r].error = reply[r].what
    /\ row[r] # None /\ row[r].state = "complete" /\ sent[r] = None =>
         row[r].cached \/ row[r].error \in Refused
    /\ row[r] # None /\ row[r].error \in Refused =>
         sent[r] = None /\ ~row[r].cached /\ row[r].error = reply[r].what
    /\ reply[r].what \in OwnFault => sent[r] = None /\ row[r] = None
    /\ sent[r] # None => row[r] # None

\* With the class's answers scoped to the caller, each value put back stands whole in one of
\* the caller's own messages, so none of the operator's system prompt is told by two messages
\* that only together spell it (request.py:73); and a placeholder is left only where some
\* spelling of it is in none of them: a value no message holds, or one that the system prompt
\* or an earlier message spells another way.
Said(r, value) == \E i \in DOMAIN ask[r].messages : Occurs(value, ask[r].messages[i])
AnswerIsTheCallers ==
  \A r \in Requests :
    /\ masked[r] /\ ask[r].via = "proxy" /\ Rules[ask[r].class].rehydrate = "caller"
    /\ reply[r].what = "answer"
    => /\ \A value \in reply[r].back : Said(r, value)
       /\ \A p \in reply[r].left : \E i \in DOMAIN ask[r].found :
            ask[r].found[i].norm = p /\ ~Said(r, ask[r].found[i].value)

\* That "a caller cannot put twice the quota through by straddling a minute boundary"
\* (teams.py:185): whatever sixty seconds are looked at, no more than the limit were let
\* through, across restarts of a hosted proxy's workers too.
MinuteIsBounded ==
  \A shelf \in Workers \cup {Shared}, team \in Teams, time \in 0 .. now :
    Cardinality({e \in passed : /\ e.shelf = shelf /\ e.team = team
                                /\ time < e.time + Window /\ e.time <= time}) <= Limit[team]

\* Who is refused is told the shortest wait that would do, if nobody else came meanwhile.
WaitIsRight ==
  \A t \in told :
    LET held(time) == {e \in passed : /\ e.shelf = t.shelf /\ e.team = t.team
                                      /\ e.time <= t.at /\ time < e.time + Window}
    IN  /\ Cardinality(held(t.at + t.wait)) < Limit[t.team]
        /\ t.wait > 0 /\ Cardinality(held(t.at + t.wait - 1)) >= Limit[t.team]

QuotaIsExact == MinuteIsBounded /\ WaitIsRight

\* The residency report misses nothing (residency.py:26): a call sent further than a limit
\* is in a group the limit's check names, the undeclared and the unknown for every limit.
ReportMissesNothing ==
  \A r \in Requests : sent[r] # None => \A limit \in Known :
    LET residency == Providers[target[r].provider].residency
    IN  ~(residency \in Known /\ Reach(residency) <= Reach(limit)) =>
          \E g \in Violations(Summarise(row[r].class), limit) : g.of = GroupOf(r)

\* "Calls that actually put bytes on the wire" (residency.py:136).
SentAreTheSent ==
  \A wanted \in Classes \cup {None} : \A g \in Summarise(wanted) :
    SentOf(g) = Cardinality({r \in Matching(wanted) : GroupOf(r) = g.of /\ sent[r] # None})
=============================================================================
