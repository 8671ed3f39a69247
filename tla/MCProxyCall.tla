---------------------------- MODULE MCProxyCall ----------------------------
EXTENDS ProxyCall, TLC

CONSTANTS r1, r2, r3

MCTeams == {"red", "blue"}
MCScopes == {"s", "t"}
MCQuestions == {"q", "near", "far"}
MCSimilarity == [p \in MCQuestions \X MCQuestions |->
  IF p[1] = p[2] THEN 100 ELSE IF "far" \in {p[1], p[2]} THEN 40 ELSE 95]

Chat(team, scope, question) ==
  [team |-> team, scope |-> scope, question |-> question, stream |-> "no", bars |-> {}]
Barred(bars)        == [Chat("red", "s", "q") EXCEPT !.bars = bars]
Stream(how, bars)   == [Chat("red", "s", "q") EXCEPT !.stream = how, !.bars = bars]

Two(hosted, a, b, w, x) ==
  [hosted |-> hosted, want |-> (r1 :> a @@ r2 :> b), on |-> (r1 :> w @@ r2 :> x)]
Three(hosted, kind, w) ==
  [hosted |-> hosted, want |-> [r \in Requests |-> kind], on |-> [r \in Requests |-> w]]

Ask == Chat("red", "s", "q")
MCScenarios ==
  { Two(TRUE, Ask, Chat("red", "s", "near"), "w1", "w2"),
    Two(TRUE, Ask, Chat("red", "s", "far"), "w1", "w1"),
    Two(TRUE, Ask, Chat("blue", "s", "q"), "w1", "w2"),
    Two(FALSE, Ask, Chat("red", "t", "q"), "w1", "w1"),
    Two(FALSE, Ask, Ask, "w1", "w2"),
    Two(FALSE, Ask, Chat("red", "s", "near"), "w1", "w1") }
  \cup { Two(FALSE, Ask, Barred({bar}), "w1", "w1") : bar \in Bars }
  \cup { Two(FALSE, Ask, Stream("whole", {}), "w1", "w1"),
         Two(FALSE, Stream("native", {}), Stream("native", {"redacted"}), "w1", "w1") }
  \cup { Three(FALSE, Ask, "w1") }
=============================================================================
