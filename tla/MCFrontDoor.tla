---------------------------- MODULE MCFrontDoor ----------------------------
EXTENDS FrontDoor, TLC

MCSymmetry == Permutations(Requests) \cup Permutations(Workers)

MCProviders ==
  [local  |-> [residency |-> "single-region", region |-> "localhost"],
   cloud  |-> [residency |-> "global", region |-> None],
   silent |-> [residency |-> None, region |-> "ca"],
   later  |-> [residency |-> "lunar", region |-> "ca"]]
MCExplicit == [local_m |-> "local", cloud_m |-> "cloud", silent_m |-> "silent", later_m |-> "later",
               nobody_m |-> "nobody"]
MCRoutes == [fast |-> [model |-> "cloud_m", region |-> None],
             near |-> [model |-> "cloud_m", region |-> "ca"]]
MCTeamOf == [k1 |-> "t1", k1new |-> "t1", k2 |-> "t2"]
MCLimit  == [t1 |-> 2, t2 |-> 1]
MCModels == [t1 |-> None, t2 |-> {"fast", "local_m"}]
MCMaxTokens == [t1 |-> 0, t2 |-> 5]

Rule(max, regions, providers, cache, as, rehydrate) ==
  [max |-> max, regions |-> regions, providers |-> providers, cache |-> cache, as |-> as,
   rehydrate |-> rehydrate]
Canadian(injection) ==
  [undeclared |-> "personal", injection |-> injection,
   rules |-> [public    |-> Rule(None, None, None, TRUE, None, "caller"),
              internal  |-> Rule("global", None, None, TRUE, None, "caller"),
              personal  |-> Rule("single-region", {"localhost", "ca"}, None, FALSE, "internal", "caller"),
              sensitive |-> Rule("geo", None, {"local", "silent"}, FALSE, None, "caller")]]
Sparse ==
  [undeclared |-> "internal", injection |-> "off",
   rules |-> [public   |-> Rule(None, {"ca"}, None, FALSE, None, "all"),
              personal |-> Rule("geo", None, None, TRUE, "public", "all")]]

Spelt(value, norm) == [value |-> value, norm |-> norm]
Ask(via, key, class, model) ==
  [via |-> via, key |-> key, wellFormed |-> TRUE, header |-> class, class |-> class, model |-> model, tokens |-> 1,
   fires |-> FALSE, leaky |-> FALSE, claims |-> FALSE, marked |-> FALSE,
   messages |-> <<<<"ann">>>>, system |-> <<"ann", "lee">>,
   found |-> <<Spelt(<<"ann">>, "ann"), Spelt(<<"lee">>, "lee")>>]
Named == DOMAIN MCRoutes \cup DOMAIN MCExplicit

ProxyAsks ==
  {Ask("proxy", "k1", header, model) : header \in Classes \cup {None, "   ", "PUBLIC", "pii"}, model \in Named}
    \cup {[Ask("proxy", "k1", class, "near") EXCEPT !.fires = fires, !.leaky = leaky, !.marked = marked]
            : class \in {"public", "personal", "sensitive"}, fires \in BOOLEAN, leaky \in BOOLEAN,
              marked \in BOOLEAN}
    \cup {[Ask("proxy", key, class, model) EXCEPT !.wellFormed = whole, !.tokens = tokens]
            : key \in {"k0", "k2"}, class \in {"secret", "internal"}, model \in {"fast", "near", "local_m"},
              whole \in BOOLEAN, tokens \in {5, 6}}
LibraryAsks ==
  {[Ask("library", "k1", class, model) EXCEPT !.claims = claims]
     : class \in Classes \cup {None}, model \in Named, claims \in BOOLEAN}
Crowd == {Ask("proxy", "k1", None, "near"), Ask("proxy", "k1new", None, "local_m"),
          Ask("proxy", "k2", "public", "fast")}

\* A name in the system prompt and in the messages: whole, over two of them, in another case,
\* or only a part of it, found in either order.
AnnLee == Spelt(<<"ann", "lee">>, "ann lee")
ANNLee == Spelt(<<"ANN", "lee">>, "ann lee")
Told ==
  {m \in {[Ask("proxy", "k1", "personal", "near") EXCEPT
             !.messages = messages, !.system = system, !.found = found]
           : messages \in {<<<<"ann", "lee">>>>, <<<<"hi", "ann">>, <<"lee", "hi">>>>,
                           <<<<"hi">>, <<"ANN", "lee">>>>, <<<<"ann">>, <<"hi", "ann", "lee">>>>,
                           <<<<"lee">>>>, <<>>, <<<<>>, <<"ann">>>>},
             system \in {<<>>, <<"ann", "lee">>, <<"hi", "ANN", "lee", "nl", "lee">>},
             found \in {<<AnnLee>>, <<ANNLee, AnnLee>>, <<AnnLee, ANNLee, Spelt(<<"lee">>, "lee")>>,
                        <<Spelt(<<"ann">>, "ann"), AnnLee, Spelt(<<"lee">>, "lee")>>,
                        <<Spelt(<<"lee">>, "lee"), ANNLee>>}} : AskOK(m)}

Scene(pol, hosted, many, asks, horizon) ==
  [policy |-> pol, hosted |-> hosted, many |-> many, asks |-> asks, horizon |-> horizon]
MCScenarios ==
  {Scene(pol, FALSE, 1, ProxyAsks \cup LibraryAsks, 0)
     : pol \in {Canadian("flag"), Canadian("block"), Sparse}}
    \cup {Scene(Canadian("block"), FALSE, 2, LibraryAsks, 0)}
    \cup {Scene(pol, FALSE, 1, Told, 0) : pol \in {Canadian("off"), Sparse}}
    \cup {Scene(Canadian("off"), hosted, 4, {a}, 4)
            : hosted \in BOOLEAN, a \in {Ask("proxy", "k1", None, "nobody_m")}}
    \cup {Scene(Canadian("off"), hosted, 3, {[a EXCEPT !.model = "nobody_m"] : a \in Crowd}, 3)
            : hosted \in BOOLEAN}
=============================================================================
