----------------------------- MODULE PartsProofs ----------------------------
(***************************************************************************)
(* Proofs about SendRetry and about the parts of CallParts, which extends  *)
(* it.                                                                     *)
(*                                                                         *)
(* SendRetry.  The theorems are of every number of attempts, every length  *)
(* of a stream and every set of faults.  RetryInv says what a parser       *)
(* nothing has come to looks like, so that an attempt that is repeated     *)
(* leaves nothing behind, and how far the pieces handed on have come in    *)
(* the text.                                                               *)
(*                                                                         *)
(* The parts.  A behaviour is one of one part, so each part has its own    *)
(* invariant, which says nothing of the others.                            *)
(***************************************************************************)
EXTENDS CallParts, SetTheorems, SequenceTheorems, TLAPS

-----------------------------------------------------------------------------
(* One send, retried (SendRetry).                                          *)

Pieces  == Nat \X Nat
Parsers == [text : Seq(Pieces), drained : Nat, received : BOOLEAN, open : Kinds \cup {"none"},
            events : 0 .. MaxEvents, usage : BOOLEAN, bad : BOOLEAN, first : Nat]
Rows    == [state : {"in_flight", "complete"}, retries : 0 .. MaxAttempts - 1,
            cost : {"none", "zero", "priced"}, error : {"none", "transport", "malformed", "http"},
            first : Nat]
Written == {"returned", "raised"}

RetryTypes ==
  /\ call \in Calls /\ Allowed(call)
  /\ at \in {"ready", "waiting", "backoff", "body", "chunk", "finish"} \cup Ended
  /\ attempt \in 1 .. MaxAttempts /\ sent \in Nat
  /\ result \in Statuses \cup {"none"} /\ error \in {"none", "transport"}
  /\ parser \in Parsers /\ handed \in Seq(Pieces) /\ held \in BOOLEAN /\ row \in Rows

\* Requests sent, by attempt.
Counted ==
  /\ call.passthrough \/ call.stored => attempt = 1 /\ at # "backoff"
  /\ call.stored => at \in {"finish"} \cup Ended /\ result = "ok" /\ sent = 0
  /\ ~call.stored => sent = (IF at = "ready" THEN attempt - 1 ELSE attempt)
  /\ at = "backoff" => attempt < MaxAttempts

\* Nothing has come of this attempt.
Empty == /\ parser.text = <<>> /\ parser.drained = 0 /\ parser.open = "none" /\ parser.first = 0
         /\ handed = <<>> /\ ~held

Where ==
  /\ ~parser.received => Empty
  /\ at \in {"ready", "waiting", "backoff"} => ~parser.received
  /\ at = "chunk" => parser.received
  /\ at \in {"body", "chunk"} => Streamed /\ result = "ok"
  /\ at \in {"finish"} \cup Written => (result = "none" => error = "transport")
  /\ parser.open # "none" => parser.events < MaxEvents

\* h is how t begins.
Begins(h, t) == Len(h) <= Len(t) /\ \A i \in 1 .. Len(h) : h[i] = t[i]

\* How far on_text has come.
ToldSoFar ==
  /\ ~call.onText => handed = <<>> /\ ~held
  /\ Begins(handed, parser.text)
  /\ call.onText /\ ~held => Len(handed) = parser.drained
  /\ parser.drained <= Len(parser.text)
  /\ parser.first # 0 => parser.first = attempt /\ parser.text # <<>>
  /\ at \in {"finish"} \cup Written /\ call.onText /\ result = "ok" /\ ~held =>
       parser.drained = Len(parser.text)

Recorded ==
  /\ at \in Written => /\ row.state = "complete" /\ row.retries = attempt - 1
                       /\ RowSaysWhatHappened
  /\ at \notin Written => row = NewRow
  /\ at = "returned" /\ call.onText => result = "ok" /\ ~held

RetryInv == RetryTypes /\ Counted /\ Where /\ ToldSoFar /\ Recorded

-----------------------------------------------------------------------------
(* Sequences of pieces.                                                    *)

LEMMA BeginsIsPrefix ==
  ASSUME NEW h \in Seq(Pieces), NEW t \in Seq(Pieces), Begins(h, t)
  PROVE  IsPrefix(h, t)
<1>1. SubSeq(h, 1, Len(h)) = h
  OBVIOUS
<1>2. SubSeq(t, 1, Len(h)) = h
  BY DEF Begins
<1>. QED
  BY <1>1, <1>2 DEF IsPrefix, Begins

LEMMA BeginsWhole ==
  ASSUME NEW h \in Seq(Pieces), NEW t \in Seq(Pieces), Begins(h, t), Len(h) = Len(t)
  PROVE  h = t
BY DEF Begins

LEMMA BeginsLonger ==
  ASSUME NEW h \in Seq(Pieces), NEW t \in Seq(Pieces), NEW x \in Pieces, Begins(h, t)
  PROVE  Begins(h, Append(t, x))
BY DEF Begins

\* What was handed on, and the piece after it, is the text.
LEMMA NextPiece ==
  ASSUME NEW h \in Seq(Pieces), NEW t \in Seq(Pieces), NEW d \in Nat,
         Begins(h, t), d = Len(h), d <= Len(t)
  PROVE  /\ SubSeq(t, d + 1, Len(t)) \in Seq(Pieces)
         /\ h \o SubSeq(t, d + 1, Len(t)) = t
         /\ SubSeq(t, d + 1, Len(t)) = <<>> => d = Len(t)
<1>. DEFINE piece == SubSeq(t, d + 1, Len(t))
<1>1. piece \in Seq(Pieces) /\ Len(piece) = Len(t) - d
  OBVIOUS
<1>2. \A i \in 1 .. Len(piece) : piece[i] = t[d + i]
  BY <1>1
<1>3. h \o piece \in Seq(Pieces) /\ Len(h \o piece) = Len(t)
  BY <1>1
<1>. HIDE DEF piece
<1>4. \A i \in 1 .. Len(t) : (h \o piece)[i] = t[i]
  BY <1>1, <1>2 DEF Begins
<1>5. h \o piece = t
  BY <1>3, <1>4, SeqEqual
<1>6. piece = <<>> => d = Len(t)
  BY <1>1
<1>. QED
  BY <1>1, <1>5, <1>6 DEF piece

-----------------------------------------------------------------------------
(* What feeding an event and handing its text on do.                       *)

LEMMA FedParser ==
  ASSUME NEW p \in Parsers, NEW kind \in Kinds, p.events < MaxEvents, attempt \in Nat,
         MaxEvents \in Nat
  PROVE  LET q == [Fed(p, kind) EXCEPT !.open = "none"]
         IN  /\ q \in Parsers /\ q.open = "none" /\ q.received = p.received
             /\ q.drained = p.drained
             /\ q.text = p.text \/ \E x \in Pieces : q.text = Append(p.text, x)
             /\ q.first = p.first \/ (q.first = attempt /\ q.text # <<>>)
<1>. DEFINE x    == <<attempt, Len(p.text) + 1>>
            grown == IF kind = "text" THEN Append(p.text, x) ELSE p.text
            first == IF kind = "text" /\ p.first = 0 THEN attempt ELSE p.first
            usage == p.usage \/ kind = "usage"
            broke   == p.bad \/ kind = "bad"
            q     == [Fed(p, kind) EXCEPT !.open = "none"]
<1>1. p.text \in Seq(Pieces) /\ p.first \in Nat /\ p.drained \in Nat /\ p.events \in 0 .. MaxEvents
      /\ p.usage \in BOOLEAN /\ p.bad \in BOOLEAN /\ p.received \in BOOLEAN
  BY DEF Parsers
<1>2. x \in Pieces
  BY <1>1 DEF Pieces
<1>. HIDE DEF x
<1>3. grown \in Seq(Pieces) /\ first \in Nat /\ p.events + 1 \in 0 .. MaxEvents
      /\ (kind = "text" => grown # <<>>)
  <2>1. Append(p.text, x) \in Seq(Pieces) /\ Append(p.text, x) # <<>>
    BY <1>1, <1>2, AppendProperties
  <2>2. p.events + 1 \in 0 .. MaxEvents
    BY <1>1
  <2>. QED
    BY <1>1, <2>1, <2>2
<1>4. usage \in BOOLEAN /\ broke \in BOOLEAN
  OBVIOUS
<1>5. q = [p EXCEPT !.events = p.events + 1, !.text = grown, !.usage = usage, !.bad = broke,
                    !.first = first, !.open = "none"]
  BY DEF Fed, Parsers, x
<1>. HIDE DEF grown, first, usage, broke, q
<1>6. q \in Parsers
  BY <1>1, <1>3, <1>4, <1>5 DEF Parsers
<1>7. /\ q.open = "none" /\ q.received = p.received /\ q.drained = p.drained
      /\ q.text = grown /\ q.first = first
  BY <1>5 DEF Parsers
<1>8. grown = p.text \/ grown = Append(p.text, x)
  BY DEF grown
<1>9. first = p.first \/ (first = attempt /\ grown # <<>>)
  BY <1>3 DEF first
<1>. QED
  BY <1>2, <1>6, <1>7, <1>8, <1>9 DEF q

\* Handing on leaves the grown as it is; afterwards on_text has all of it, or raised.
LEMMA HandOn ==
  ASSUME NEW p \in Parsers, call.onText \in BOOLEAN, held \in BOOLEAN, handed \in Seq(Pieces),
         ~call.onText => handed = <<>> /\ ~held, Begins(handed, p.text),
         call.onText /\ ~held => Len(handed) = p.drained, p.drained <= Len(p.text), Hand(p)
  PROVE  /\ parser' \in Parsers /\ handed' \in Seq(Pieces) /\ held' \in BOOLEAN
         /\ parser'.text = p.text /\ parser'.received = p.received /\ parser'.open = p.open
         /\ parser'.events = p.events /\ parser'.first = p.first
         /\ parser'.drained <= Len(p.text)
         /\ ~call.onText => handed' = <<>> /\ ~held'
         /\ Begins(handed', p.text)
         /\ call.onText /\ ~held' => Len(handed') = parser'.drained /\ parser'.drained = Len(p.text)
         /\ held => held' /\ handed' = handed
<1>. DEFINE piece == SubSeq(p.text, p.drained + 1, Len(p.text))
<1>1. p.text \in Seq(Pieces) /\ p.drained \in Nat /\ Len(p.text) \in Nat
  BY DEF Parsers
<1>2. CASE ~call.onText \/ held
  BY <1>1, <1>2 DEF Hand
<1>3. CASE call.onText /\ ~held
  <2>1. /\ parser' = [p EXCEPT !.drained = Len(p.text)]
        /\ piece = <<>> => handed' = handed /\ held' = held
        /\ piece # <<>> => handed' = handed \o piece /\ held' \in BOOLEAN
    BY <1>3 DEF Hand
  <2>2. parser' \in Parsers /\ parser'.drained = Len(p.text)
    BY <2>1, <1>1 DEF Parsers
  <2>3. /\ parser'.text = p.text /\ parser'.received = p.received /\ parser'.open = p.open
        /\ parser'.events = p.events /\ parser'.first = p.first
    BY <2>1 DEF Parsers
  <2>4. /\ handed \o piece = p.text
        /\ piece = <<>> => p.drained = Len(p.text)
    BY <1>1, <1>3, NextPiece
  <2>5. handed' = p.text
    <3>1. CASE piece = <<>>
      BY <3>1, <2>1, <2>4, <1>1, <1>3, BeginsWhole
    <3>2. CASE piece # <<>>
      BY <3>2, <2>1, <2>4
    <3>. QED
      BY <3>1, <3>2
  <2>6. held' \in BOOLEAN
    BY <2>1
  <2>7. Begins(p.text, p.text)
    BY <1>1 DEF Begins
  <2>. HIDE DEF piece
  <2>. QED
    BY <2>2, <2>3, <2>5, <2>6, <2>7, <1>1, <1>3
<1>. QED
  BY <1>2, <1>3

-----------------------------------------------------------------------------
(* One lemma per action.                                                   *)

LEMMA FreshParser ==
  ASSUME MaxEvents \in Nat
  PROVE  Fresh \in Parsers
<1>1. <<>> \in Seq(Pieces)
  OBVIOUS
<1>. QED
  BY <1>1 DEF Fresh, Parsers, Kinds

LEMMA NewRowTyped ==
  ASSUME MaxAttempts \in Nat \ {0}
  PROVE  NewRow \in Rows
BY DEF NewRow, Rows

LEMMA InitStart ==
  ASSUME Init
  PROVE  RetryInv
<1>1. RetryTypes
  <2>1. Fresh \in Parsers /\ NewRow \in Rows /\ <<>> \in Seq(Pieces)
    BY FreshParser, NewRowTyped, SendAssumption
  <2>2. 1 \in 1 .. MaxAttempts
    BY SendAssumption
  <2>. QED
    BY <2>1, <2>2 DEF Init, RetryTypes, Ended, Statuses
<1>2. Counted
  BY <1>1 DEF Init, Counted, RetryTypes, Allowed, Calls
<1>3. Where
  BY DEF Init, Where, Empty, Fresh, Written
<1>4. ToldSoFar
  <2>1. Begins(handed, parser.text) /\ Len(handed) = 0 /\ Len(parser.text) = 0
    BY DEF Init, Begins, Fresh
  <2>. QED
    BY <2>1 DEF Init, ToldSoFar, Fresh
<1>5. Recorded
  BY DEF Init, Recorded, Written, NewRow
<1>. QED
  BY <1>1, <1>2, <1>3, <1>4, <1>5 DEF RetryInv

LEMMA SendStep ==
  ASSUME RetryInv, Send
  PROVE  RetryInv'
<1>1. RetryTypes'
  BY FreshParser, SendAssumption DEF RetryInv, Send, RetryTypes, Ended
<1>2. Counted'
  BY DEF RetryInv, Send, RetryTypes, Counted, Ended, Written, Allowed
<1>3. Where'
  BY DEF RetryInv, Send, Where, Empty, Fresh, Streamed, Ended, Written
<1>4. ToldSoFar'
  <2>1. handed = <<>> /\ ~held
    BY DEF RetryInv, Send, Where, Empty
  <2>2. parser'.text = <<>> /\ parser'.drained = 0 /\ parser'.first = 0 /\ at' = "waiting"
    BY DEF Send, Fresh
  <2>3. handed' = <<>> /\ ~held' /\ call' = call
    BY <2>1 DEF Send
  <2>4. Begins(handed', parser'.text) /\ Len(handed') = 0 /\ Len(parser'.text) = 0
    BY <2>2, <2>3 DEF Begins
  <2>. QED
    BY <2>2, <2>3, <2>4 DEF ToldSoFar, Written
<1>5. Recorded'
  BY DEF RetryInv, Send, Recorded, Written
<1>. QED
  BY <1>1, <1>2, <1>3, <1>4, <1>5 DEF RetryInv

LEMMA BackOffStep ==
  ASSUME RetryInv, BackOff
  PROVE  RetryInv'
<1>1. RetryTypes'
  BY SendAssumption DEF RetryInv, BackOff, RetryTypes, Ended, Counted
<1>2. Counted'
  BY DEF RetryInv, BackOff, RetryTypes, Counted, Ended
<1>3. Where'
  BY DEF RetryInv, BackOff, Where, Empty, Streamed, Ended, Written
<1>4. ToldSoFar'
  <2>1. parser.first = 0
    BY DEF RetryInv, BackOff, Where, Empty
  <2>. QED
    BY <2>1 DEF RetryInv, BackOff, ToldSoFar, Written, Begins
<1>5. Recorded'
  BY DEF RetryInv, BackOff, Recorded, Written
<1>. QED
  BY <1>1, <1>2, <1>3, <1>4, <1>5 DEF RetryInv

LEMMA RespondStep ==
  ASSUME RetryInv, Respond
  PROVE  RetryInv'
<1>0. ~call.stored /\ ~parser.received /\ at = "waiting"
  BY DEF RetryInv, Respond, Counted, Where, Ended
<1>1. RetryTypes'
  BY DEF RetryInv, Respond, RetryOrFinish, RetryTypes, Ended
<1>2. Counted'
  BY <1>0 DEF RetryInv, Respond, RetryOrFinish, RetryTypes, Counted, Ended, Statuses
<1>3. Where'
  BY <1>0 DEF RetryInv, Respond, RetryOrFinish, Where, Empty, Streamed, Ended, Written, Statuses
<1>4. ToldSoFar'
  <2>1. handed' = <<>> /\ ~held' /\ call' = call /\ parser' = parser /\ attempt' = attempt
    BY <1>0 DEF RetryInv, Respond, Where, Empty
  <2>2. parser.text = <<>> /\ parser.drained = 0
    BY <1>0 DEF RetryInv, Where, Empty
  <2>. QED
    BY <2>1, <2>2 DEF RetryInv, ToldSoFar, Begins, Respond
<1>5. Recorded'
  BY <1>0 DEF RetryInv, Respond, RetryOrFinish, Recorded, Written
<1>. QED
  BY <1>1, <1>2, <1>3, <1>4, <1>5 DEF RetryInv

LEMMA LoseStep ==
  ASSUME RetryInv, Lose
  PROVE  RetryInv'
<1>0. ~call.stored
  BY DEF RetryInv, Lose, Counted, Ended
<1>1. RetryTypes'
  BY DEF RetryInv, Lose, RetryOrFinish, RetryTypes, Ended
<1>2. Counted'
  BY <1>0 DEF RetryInv, Lose, RetryOrFinish, RetryTypes, Counted, Ended
<1>3. Where'
  BY <1>0 DEF RetryInv, Lose, RetryOrFinish, Where, Empty, Streamed, Ended, Written
<1>4. ToldSoFar'
  BY DEF RetryInv, Lose, ToldSoFar, Begins
<1>5. Recorded'
  BY <1>0 DEF RetryInv, Lose, RetryOrFinish, Recorded, Written
<1>. QED
  BY <1>1, <1>2, <1>3, <1>4, <1>5 DEF RetryInv

LEMMA EscapeStep ==
  ASSUME RetryInv, Escape
  PROVE  RetryInv'
<1>0. ~call.stored
  BY DEF RetryInv, Escape, Counted, Ended
<1>1. RetryTypes'
  BY DEF RetryInv, Escape, RetryTypes, Ended
<1>2. Counted'
  BY <1>0 DEF RetryInv, Escape, RetryTypes, Counted, Ended
<1>3. Where'
  BY DEF RetryInv, Escape, Where, Empty, Streamed, Ended, Written
<1>4. ToldSoFar'
  BY DEF RetryInv, Escape, ToldSoFar, Begins, Written
<1>5. Recorded'
  BY DEF RetryInv, Escape, Recorded, Written
<1>. QED
  BY <1>1, <1>2, <1>3, <1>4, <1>5 DEF RetryInv

LEMMA ChunkStep ==
  ASSUME RetryInv, Chunk
  PROVE  RetryInv'
<1>1. /\ parser' \in Parsers /\ parser'.received /\ parser'.text = parser.text
      /\ parser'.drained = parser.drained /\ parser'.first = parser.first
      /\ parser'.open = parser.open /\ parser'.events = parser.events
  BY DEF RetryInv, RetryTypes, Chunk, Parsers
<1>2. at = "body" /\ at' = "chunk"
      /\ UNCHANGED <<call, attempt, sent, result, error, handed, held, row>>
  BY DEF Chunk
<1>3. RetryTypes'
  BY <1>1, <1>2 DEF RetryInv, RetryTypes
<1>4. Counted'
  BY <1>2 DEF RetryInv, Counted, Ended
<1>5. Where'
  BY <1>1, <1>2 DEF RetryInv, Where, Streamed, Written, Ended
<1>6. ToldSoFar'
  BY <1>1, <1>2 DEF RetryInv, ToldSoFar, Written, Begins
<1>7. Recorded'
  BY <1>2 DEF RetryInv, Recorded, Written
<1>. QED
  BY <1>3, <1>4, <1>5, <1>6, <1>7 DEF RetryInv

LEMMA FeedStep ==
  ASSUME RetryInv, Feed
  PROVE  RetryInv'
<1>1. PICK kind \in Kinds : parser' = [Fed(parser, kind) EXCEPT !.open = "none"]
  BY DEF Feed
<1>2. at = "chunk" /\ at' = "chunk" /\ parser.events < MaxEvents
      /\ UNCHANGED <<call, attempt, sent, result, error, handed, held, row>>
  BY DEF Feed
<1>3. parser \in Parsers /\ attempt \in Nat /\ handed \in Seq(Pieces) /\ parser.text \in Seq(Pieces)
  BY SendAssumption DEF RetryInv, RetryTypes, Parsers
<1>4. /\ parser' \in Parsers /\ parser'.open = "none" /\ parser'.received = parser.received
      /\ parser'.drained = parser.drained
      /\ parser'.text = parser.text \/ \E x \in Pieces : parser'.text = Append(parser.text, x)
      /\ parser'.first = parser.first \/ (parser'.first = attempt /\ parser'.text # <<>>)
  BY <1>1, <1>2, <1>3, FedParser, SendAssumption
<1>5. Begins(handed, parser'.text) /\ Len(parser'.text) >= Len(parser.text)
      /\ (parser.text # <<>> => parser'.text # <<>>)
  <2>1. Begins(handed, parser.text)
    BY DEF RetryInv, ToldSoFar
  <2>2. CASE parser'.text = parser.text
    BY <1>3, <2>1, <2>2
  <2>3. ASSUME NEW x \in Pieces, parser'.text = Append(parser.text, x)
        PROVE  /\ Begins(handed, parser'.text) /\ Len(parser'.text) >= Len(parser.text)
               /\ parser'.text # <<>>
    BY <1>3, <2>1, <2>3, BeginsLonger, AppendProperties
  <2>. QED
    BY <1>4, <2>2, <2>3
<1>6. RetryTypes'
  BY <1>2, <1>4 DEF RetryInv, RetryTypes
<1>7. Counted'
  BY <1>2 DEF RetryInv, Counted, Ended
<1>8. Where'
  BY <1>2, <1>4 DEF RetryInv, Where, Streamed, Written, Ended
<1>9. ToldSoFar'
  <2>1. parser'.drained <= Len(parser'.text)
    BY <1>3, <1>4, <1>5 DEF RetryInv, ToldSoFar, Parsers
  <2>2. parser'.first # 0 => parser'.first = attempt' /\ parser'.text # <<>>
    BY <1>2, <1>4, <1>5 DEF RetryInv, ToldSoFar
  <2>. QED
    BY <1>2, <1>4, <1>5, <2>1, <2>2 DEF RetryInv, ToldSoFar, Written
<1>10. Recorded'
  BY <1>2 DEF RetryInv, Recorded, Written
<1>. QED
  BY <1>6, <1>7, <1>8, <1>9, <1>10 DEF RetryInv

LEMMA HandTextStep ==
  ASSUME RetryInv, HandText
  PROVE  RetryInv'
<1>1. PICK open \in Kinds \cup {"none"} :
        /\ open # "none" => parser.events < MaxEvents
        /\ Hand([parser EXCEPT !.open = open])
  BY DEF HandText
<1>2. at = "chunk" /\ at' = "body"
      /\ UNCHANGED <<call, attempt, sent, result, error, row>>
  BY DEF HandText
<1>. DEFINE p == [parser EXCEPT !.open = open]
<1>3. /\ p \in Parsers /\ p.text = parser.text /\ p.received = parser.received /\ p.open = open
      /\ p.events = parser.events /\ p.first = parser.first /\ p.drained = parser.drained
  BY DEF RetryInv, RetryTypes, Parsers
<1>4. call.onText \in BOOLEAN /\ held \in BOOLEAN /\ handed \in Seq(Pieces)
  BY DEF RetryInv, RetryTypes, Calls
<1>5. Hand(p)
  BY <1>1
<1>. HIDE DEF p
<1>6. /\ ~call.onText => handed = <<>> /\ ~held
      /\ Begins(handed, p.text)
      /\ call.onText /\ ~held => Len(handed) = p.drained
      /\ p.drained <= Len(p.text)
  BY <1>3 DEF RetryInv, ToldSoFar
<1>7. /\ parser' \in Parsers /\ handed' \in Seq(Pieces) /\ held' \in BOOLEAN
      /\ parser'.text = p.text /\ parser'.received = p.received /\ parser'.open = p.open
      /\ parser'.events = p.events /\ parser'.first = p.first
      /\ parser'.drained <= Len(p.text)
      /\ ~call.onText => handed' = <<>> /\ ~held'
      /\ Begins(handed', p.text)
      /\ call.onText /\ ~held' => Len(handed') = parser'.drained /\ parser'.drained = Len(p.text)
  BY <1>3, <1>4, <1>5, <1>6, HandOn
<1>8. RetryTypes'
  BY <1>2, <1>7 DEF RetryInv, RetryTypes
<1>9. Counted'
  BY <1>2 DEF RetryInv, Counted, Ended
<1>10. Where'
  BY <1>1, <1>2, <1>3, <1>7 DEF RetryInv, Where, Streamed, Written, Ended
<1>11. ToldSoFar'
  BY <1>2, <1>3, <1>7 DEF RetryInv, ToldSoFar, Written
<1>12. Recorded'
  BY <1>2 DEF RetryInv, Recorded, Written
<1>. QED
  BY <1>8, <1>9, <1>10, <1>11, <1>12 DEF RetryInv

LEMMA EndBodyStep ==
  ASSUME RetryInv, EndBody
  PROVE  RetryInv'
<1>. DEFINE p == IF parser.open = "none" THEN parser
                 ELSE [Fed(parser, parser.open) EXCEPT !.open = "none"]
<1>1. at = "body" /\ at' = "finish" /\ Hand(p)
      /\ UNCHANGED <<call, attempt, sent, result, error, row>>
  BY DEF EndBody
<1>2. parser \in Parsers /\ attempt \in Nat /\ handed \in Seq(Pieces)
      /\ parser.text \in Seq(Pieces) /\ parser.drained \in Nat /\ parser.open \in Kinds \cup {"none"}
      /\ call.onText \in BOOLEAN /\ held \in BOOLEAN
  BY SendAssumption DEF RetryInv, RetryTypes, Parsers, Calls
<1>3. Begins(handed, parser.text) /\ parser.drained <= Len(parser.text)
  BY DEF RetryInv, ToldSoFar
<1>4. /\ p \in Parsers /\ p.received = parser.received /\ p.drained = parser.drained
      /\ p.open = "none"
      /\ p.text = parser.text \/ \E x \in Pieces : p.text = Append(parser.text, x)
      /\ p.first = parser.first \/ (p.first = attempt /\ p.text # <<>>)
      /\ ~parser.received => p = parser
  <2>1. CASE parser.open = "none"
    BY <1>2, <2>1
  <2>2. CASE parser.open # "none"
    <3>1. parser.open \in Kinds /\ parser.events < MaxEvents /\ parser.received
      BY <1>2, <2>2 DEF RetryInv, Where, Empty
    <3>. QED
      BY <1>2, <2>2, <3>1, FedParser, SendAssumption
  <2>. QED
    BY <2>1, <2>2
<1>. HIDE DEF p
<1>5. /\ Begins(handed, p.text) /\ p.drained <= Len(p.text)
      /\ (parser.text # <<>> => p.text # <<>>)
  <2>1. CASE p.text = parser.text
    BY <1>3, <1>4, <2>1
  <2>2. ASSUME NEW x \in Pieces, p.text = Append(parser.text, x)
        PROVE  /\ Begins(handed, p.text) /\ p.drained <= Len(p.text) /\ p.text # <<>>
    <3>1. p.text # <<>> /\ Len(p.text) = Len(parser.text) + 1
      BY <1>2, <2>2, AppendProperties
    <3>2. Begins(handed, p.text)
      BY <1>2, <1>3, <2>2, BeginsLonger
    <3>. QED
      BY <1>2, <1>3, <1>4, <3>1, <3>2
  <2>. QED
    BY <1>4, <2>1, <2>2
<1>6. /\ ~call.onText => handed = <<>> /\ ~held
      /\ call.onText /\ ~held => Len(handed) = p.drained
  BY <1>4 DEF RetryInv, ToldSoFar
<1>7. /\ parser' \in Parsers /\ handed' \in Seq(Pieces) /\ held' \in BOOLEAN
      /\ parser'.text = p.text /\ parser'.received = p.received /\ parser'.open = p.open
      /\ parser'.events = p.events /\ parser'.first = p.first
      /\ parser'.drained <= Len(p.text)
      /\ ~call.onText => handed' = <<>> /\ ~held'
      /\ Begins(handed', p.text)
      /\ call.onText /\ ~held' => Len(handed') = parser'.drained /\ parser'.drained = Len(p.text)
  BY <1>1, <1>2, <1>4, <1>5, <1>6, HandOn
<1>8. RetryTypes'
  BY <1>1, <1>7 DEF RetryInv, RetryTypes
<1>9. Counted'
  BY <1>1 DEF RetryInv, Counted, Ended
<1>10. Where'
  <2>1. ASSUME ~parser'.received
        PROVE  Empty'
    <3>1. /\ p = parser /\ parser.text = <<>> /\ parser.first = 0 /\ parser.drained = 0
          /\ handed = <<>> /\ ~held
      BY <1>4, <1>7, <2>1 DEF RetryInv, Where, Empty
    <3>2. SubSeq(p.text, p.drained + 1, Len(p.text)) = <<>>
      BY <3>1, <1>2
    <3>3. handed' = <<>> /\ ~held' /\ (call.onText => parser'.drained = Len(p.text))
          /\ (~call.onText => parser' = p)
      BY <1>1, <3>1, <3>2, <1>7, <1>2 DEF Hand
    <3>4. parser'.drained = 0
      BY <3>1, <3>3
    <3>. QED
      BY <1>4, <1>7, <3>1, <3>3, <3>4 DEF Empty
  <2>. QED
    BY <1>1, <1>4, <1>7, <2>1 DEF RetryInv, Where, Streamed, Written, Ended
<1>11. ToldSoFar'
  <2>1. parser'.first # 0 => parser'.first = attempt' /\ parser'.text # <<>>
    BY <1>1, <1>4, <1>5, <1>7 DEF RetryInv, ToldSoFar
  <2>. QED
    BY <1>1, <1>7, <2>1 DEF ToldSoFar
<1>12. Recorded'
  BY <1>1 DEF RetryInv, Recorded, Written
<1>. QED
  BY <1>8, <1>9, <1>10, <1>11, <1>12 DEF RetryInv

LEMMA FinishStep ==
  ASSUME RetryInv, Finish
  PROVE  RetryInv'
<1>1. PICK malformed \in BOOLEAN :
        LET readable == result = "ok" /\ Readable(malformed)
            fails    == ErrorType(readable) # "none"
        IN  /\ row' = [state |-> "complete", retries |-> attempt - 1, cost |-> Cost(readable),
                       error |-> ErrorType(readable), first |-> parser.first]
            /\ at' = IF \/ call.api # "raw" /\ readable /\ Cost(readable) = "none" /\ call.strict
                        \/ call.api # "raw" /\ fails /\ ~call.passthrough
                        \/ held
                     THEN "raised" ELSE "returned"
  BY DEF Finish
<1>. DEFINE readable == result = "ok" /\ Readable(malformed)
<1>2. at = "finish" /\ UNCHANGED <<call, attempt, sent, result, error, parser, handed, held>>
  BY DEF Finish
<1>3. at' \in Written
  BY <1>1 DEF Written
<1>4. /\ row'.state = "complete" /\ row'.retries = attempt - 1 /\ row'.cost = Cost(readable)
      /\ row'.error = ErrorType(readable) /\ row'.first = parser.first
  BY <1>1
<1>5. readable => result = "ok"
  OBVIOUS
<1>6. readable \in BOOLEAN
  OBVIOUS
<1>. HIDE DEF readable
<1>7. Cost(readable) \in {"none", "zero", "priced"}
  BY <1>6 DEF Cost
<1>8. ErrorType(readable) \in {"none", "transport", "malformed", "http"}
  BY DEF ErrorType, RetryInv, RetryTypes
<1>9. RetryTypes'
  <2>1. row' \in Rows
    <3>1. attempt - 1 \in 0 .. MaxAttempts - 1
      BY SendAssumption DEF RetryInv, RetryTypes
    <3>2. parser.first \in Nat
      BY DEF RetryInv, RetryTypes, Parsers
    <3>. QED
      BY <1>1, <1>7, <1>8, <3>1, <3>2 DEF Rows, readable
  <2>. QED
    BY <1>2, <1>3, <2>1 DEF RetryInv, RetryTypes, Written, Ended
<1>10. Counted'
  BY <1>2, <1>3 DEF RetryInv, Counted, Written, Ended
<1>11. Where'
  BY <1>2, <1>3 DEF RetryInv, Where, Empty, Streamed, Written
<1>12. ToldSoFar'
  BY <1>2, <1>3 DEF RetryInv, ToldSoFar, Written, Begins
<1>13. RowSaysWhatHappened'
  <2>1. Cost(readable) = "priced" => readable /\ (Streamed => parser.usage)
    BY <1>6 DEF Cost
  <2>2. readable => ErrorType(readable) = "none"
    BY <1>5 DEF ErrorType
  <2>3. ErrorType(readable) = "none" => result = "ok"
    BY <1>2 DEF ErrorType, RetryInv, Where, RetryTypes
  <2>4. Streamed' <=> Streamed
    BY <1>2 DEF Streamed
  <2>. QED
    BY <1>2, <1>4, <1>5, <2>1, <2>2, <2>3, <2>4 DEF RowSaysWhatHappened, RetryInv, ToldSoFar
<1>14. at' = "returned" /\ call'.onText => result' = "ok" /\ ~held'
  <2>1. call.onText => call.api = "stream" /\ ~call.passthrough
    BY DEF RetryInv, RetryTypes, Allowed, Calls
  <2>2. ErrorType(readable) = "none" => result = "ok"
    BY <1>2 DEF ErrorType, RetryInv, Where, RetryTypes
  <2>. QED
    BY <1>1, <1>2, <2>1, <2>2 DEF readable
<1>15. Recorded'
  BY <1>2, <1>3, <1>4, <1>13, <1>14 DEF Recorded
<1>. QED
  BY <1>9, <1>10, <1>11, <1>12, <1>15 DEF RetryInv

LEMMA StutterStep ==
  ASSUME RetryInv, UNCHANGED vars
  PROVE  RetryInv'
BY DEF RetryInv, vars, RetryTypes, Counted, Where, Empty, ToldSoFar, Begins, Recorded, RowSaysWhatHappened,
       Streamed, Written, Ended, Allowed

\* Each step keeps the invariant.
LEMMA NextKeeps ==
  ASSUME RetryInv, [Next]_vars
  PROVE  RetryInv'
BY SendStep, BackOffStep, RespondStep, LoseStep, EscapeStep, ChunkStep, FeedStep, HandTextStep,
   EndBodyStep, FinishStep, StutterStep DEF Next, Step

LEMMA Invariance == Spec => []RetryInv
<1>1. Init => RetryInv
  BY InitStart
<1>2. RetryInv /\ [Next]_vars => RetryInv'
  BY NextKeeps
<1>. QED
  BY <1>1, <1>2, PTL DEF Spec

-----------------------------------------------------------------------------
\* Whatever on_text does and however a stream is cut, retried or ended, the pieces it is given
\* are the text of the attempt that is the answer, from its start, in order and once
\* (chat_stream, _hand_text).
THEOREM PiecesAreTheText == Spec => []PiecesAreText
<1>1. RetryInv => PiecesAreText
  <2>. SUFFICES ASSUME RetryInv, call.onText
                PROVE  /\ IsPrefix(handed, parser.text)
                       /\ at = "returned" => handed = parser.text
                       /\ row.state = "complete" /\ result = "ok" /\ ~held => handed = parser.text
    BY DEF PiecesAreText
  <2>1. handed \in Seq(Pieces) /\ parser.text \in Seq(Pieces) /\ Begins(handed, parser.text)
    BY DEF RetryInv, RetryTypes, Parsers, ToldSoFar
  <2>2. IsPrefix(handed, parser.text)
    BY <2>1, BeginsIsPrefix
  <2>3. ASSUME at \in Written, result = "ok", ~held
        PROVE  handed = parser.text
    BY <2>1, <2>3, BeginsWhole DEF RetryInv, ToldSoFar
  <2>4. at = "returned" => result = "ok" /\ ~held /\ at \in Written
    BY DEF RetryInv, Recorded, Written
  <2>5. row.state = "complete" => at \in Written
    BY DEF RetryInv, Recorded, NewRow
  <2>. QED
    BY <2>2, <2>3, <2>4, <2>5
<1>. QED
  BY <1>1, Invariance, PTL

\* A call that returns or raises has a complete row whose retries, cost, error and first-token
\* time are those of what was sent and answered; a pass-through call was sent once (_finish).
THEOREM RowIsTrueAlways == Spec => []RowIsTrue
<1>1. RetryInv => RowIsTrue
  <2>. SUFFICES ASSUME RetryInv
                PROVE  RowIsTrue
    OBVIOUS
  <2>1. at \in {"ready", "waiting", "backoff", "body", "chunk", "finish"} \cup Ended /\ attempt \in 1 .. MaxAttempts
        /\ sent \in 0 .. MaxAttempts
    BY SendAssumption DEF RetryInv, RetryTypes, Counted
  <2>2. TypeOK
    BY <2>1, SendAssumption DEF RetryInv, RetryTypes, TypeOK, Parsers, Rows, ToldSoFar
  <2>3. AttemptsAreCounted
    <3>1. call.passthrough => sent <= 1
      BY SendAssumption DEF RetryInv, RetryTypes, Counted
    <3>2. row.state = "complete" => row.retries = attempt - 1 /\ at \in Written
      BY DEF RetryInv, Recorded, NewRow
    <3>3. ASSUME at \in Written
          PROVE  attempt - 1 = (IF sent = 0 THEN 0 ELSE sent - 1)
      BY <3>3, SendAssumption DEF RetryInv, RetryTypes, Counted, Written
    <3>. QED
      BY <3>1, <3>2, <3>3 DEF AttemptsAreCounted
  <2>4. RowSaysWhatHappened
    BY DEF RetryInv, Recorded, NewRow, RowSaysWhatHappened
  <2>5. /\ at \in {"returned", "raised"} => row.state = "complete"
        /\ at = "escaped" => row = NewRow
    BY DEF RetryInv, Recorded, Written
  <2>. QED
    BY <2>2, <2>3, <2>4, <2>5 DEF RowIsTrue
<1>. QED
  BY <1>1, Invariance, PTL

\* Once a byte of a stream has come or on_text was given a piece, nothing is sent again, and
\* once on_text raised it is given nothing more (_stream_sync, _stream_async).
THEOREM NothingAfterTheFirstByte == Spec => AfterTheFirstByte
<1>1. RetryInv /\ [Next]_vars => [sent' # sent => ~parser.received /\ handed = <<>> /\ ~held]_vars
  <2>. SUFFICES ASSUME RetryInv, Next, sent' # sent
                PROVE  ~parser.received /\ handed = <<>> /\ ~held
    OBVIOUS
  <2>1. Send
    BY DEF Next, Step, BackOff, Respond, HandText, Finish, EndBody, Lose, Escape, Chunk, Feed
  <2>. QED
    BY <2>1 DEF Send, RetryInv, Where, Empty
<1>2. RetryInv /\ [Next]_vars => [held => held' /\ handed' = handed]_vars
  <2>. SUFFICES ASSUME RetryInv, Next, held
                PROVE  held' /\ handed' = handed
    OBVIOUS
  <2>. QED
    BY DEF Next, Step, Send, BackOff, Respond, HandText, Hand, Finish, EndBody, Lose, Escape,
           Chunk, Feed
<1>. QED
  BY <1>1, <1>2, Invariance, PTL DEF Spec, AfterTheFirstByte, NotSentAgain, RaisedOnce

-----------------------------------------------------------------------------
(* The parts, side by side.                                                *)

\* Whatever a part's step is, the others have none: what holds of one part at its start and
\* over its steps holds always.
LEMMA OnePartActs ==
  ASSUME [PartsNext]_partsVars
  PROVE  /\ part' = part
         /\ part = "token" => [Token!Next]_tokenVars
         /\ part = "quality" => [Quality!Next]_qualityVars
         /\ part = "move" => [Move!Next]_moveVars
         /\ part = "names" => [Names!Next]_nameVars
         /\ part = "wire" => [Wire!Next]_wireVars
         /\ part = "answers" => [Answers!Next]_answerVars
         /\ part = "page" => [Dashboard!Next]_pageVars
         /\ part = "batch" => [Batch!Next]_batchVars
BY DEF PartsNext, partsVars, tokenVars, wireVars, answerVars, qualityVars, moveVars, nameVars,
       pageVars, batchVars

LEMMA EachPartStarts ==
  ASSUME PartsInit
  PROVE  /\ part = "token" => Token!Init
         /\ part = "quality" => Quality!Init
         /\ part = "move" => Move!Init
         /\ part = "names" => Names!Init
         /\ part = "wire" => Wire!Init
         /\ part = "answers" => Answers!Init
         /\ part = "page" => Dashboard!Init
         /\ part = "batch" => Batch!Init
BY DEF PartsInit

-----------------------------------------------------------------------------
(* The access token.                                                       *)

TokenTypes ==
  /\ now \in Nat
  /\ current \in Threads \cup {None}
  /\ sources \in [Threads -> [lock : Threads \cup {None}, expiry : Nat]]
  /\ threads \in [Threads -> [at : {"look", "make", "enter", "refresh", "held"},
                              source : Threads \cup {None}, since : Nat, key : Nat]]
  /\ minted \in [Threads -> SUBSET Nat]

\* A thread that refreshes holds the lock of a source whose token is of no use any more.
Refreshing ==
  \A t \in Threads :
    /\ threads[t].at \in {"enter", "refresh"} => threads[t].source \in Threads
    /\ threads[t].at = "refresh" =>
         /\ sources[threads[t].source].lock = t
         /\ Token!NeedsRefresh(threads[t].source)

\* What a source was given is what it has, or has had its useful life.
Minted ==
  \A s \in Threads : \A m \in minted[s] :
    /\ m <= now
    /\ m + Life <= sources[s].expiry \/ now + Skew >= m + Life

\* An attempt is not waited for longer than its timeout, and its key outlives the skew.
Held ==
  \A t \in Threads : threads[t].at = "held" =>
    now <= threads[t].since + Timeout /\ threads[t].since + Skew < threads[t].key

Apart == \A s \in Threads : \A m, n \in minted[s] : m < n => n + Skew >= m + Life

TokenInv == TokenTypes /\ Refreshing /\ Minted /\ Held /\ Apart

LEMMA TokenConstants ==
  /\ None \notin Threads
  /\ Life \in Nat /\ Skew \in Nat /\ Timeout \in Nat /\ MaxTime \in Nat
  /\ Timeout < Skew /\ Skew < Life
BY PartsAssumption DEF Token!AccessTokenAssumption

LEMMA TokenStarts == Token!Init => TokenInv
BY TokenConstants
DEF Token!Init, Token!Fresh, TokenInv, TokenTypes, Refreshing, Minted, Held, Apart

\* The call of a thread starts with a key that outlives the skew, and no source that another
\* thread refreshes has changed.
LEMMA TokenHands ==
  ASSUME TokenInv, NEW t \in Threads, NEW key \in Nat, now + Skew < key,
         threads' = Token!Hand(t, key), UNCHANGED <<now, current>>,
         sources' \in [Threads -> [lock : Threads \cup {None}, expiry : Nat]],
         minted' \in [Threads -> SUBSET Nat],
         \A u \in Threads : u # t /\ threads[u].at = "refresh" =>
           sources'[threads[u].source] = sources[threads[u].source],
         Minted', Apart'
  PROVE  TokenInv'
<1>1. threads' = [threads EXCEPT ![t] = [@ EXCEPT !.at = "held", !.since = now, !.key = key]]
  BY DEF Token!Hand
<1>2. threads'[t].at = "held" /\ threads'[t].since = now /\ threads'[t].key = key
  BY <1>1 DEF TokenInv, TokenTypes
<1>3. \A u \in Threads : u # t => threads'[u] = threads[u]
  BY <1>1 DEF TokenInv, TokenTypes
<1>4. TokenTypes'
  <2>. DEFINE T == [at : {"look", "make", "enter", "refresh", "held"},
                    source : Threads \cup {None}, since : Nat, key : Nat]
  <2>1. threads[t] \in T /\ threads \in [Threads -> T] /\ now \in Nat
    BY DEF TokenInv, TokenTypes
  <2>2. [threads[t] EXCEPT !.at = "held", !.since = now, !.key = key] \in T
    BY <2>1
  <2>3. threads' \in [Threads -> T]
    <3>. DEFINE n == [threads[t] EXCEPT !.at = "held", !.since = now, !.key = key]
    <3>1. threads' = [threads EXCEPT ![t] = n]
      BY <1>1
    <3>. HIDE DEF T, n
    <3>. QED
      BY <2>1, <2>2, <3>1 DEF n
  <2>. QED
    BY <2>3 DEF TokenInv, TokenTypes
<1>5. Refreshing'
  BY <1>2, <1>3 DEF TokenInv, Refreshing, Token!NeedsRefresh
<1>6. Held'
  BY <1>2, <1>3, TokenConstants DEF TokenInv, TokenTypes, Held
<1>. QED
  BY <1>4, <1>5, <1>6 DEF TokenInv

LEMMA TokenSteps ==
  ASSUME TokenInv, [Token!Next]_tokenVars
  PROVE  TokenInv'
<1>. USE TokenConstants
<1>1. CASE Token!Tick
  BY <1>1
  DEF Token!Tick, TokenInv, TokenTypes, Refreshing, Minted, Held, Apart, Token!NeedsRefresh
<1>2. ASSUME NEW t \in Threads, Token!Look(t) PROVE TokenInv'
  <2>1. /\ UNCHANGED <<now, current, sources, minted>>
        /\ threads' = [threads EXCEPT ![t] = [@ EXCEPT
                                  !.at = IF current = None THEN "make" ELSE "enter",
                                  !.source = current]]
    BY <1>2 DEF Token!Look, TokenInv, TokenTypes
  <2>2. threads'[t].at \in {"make", "enter"} /\ threads'[t].source = current
    BY <2>1 DEF TokenInv, TokenTypes
  <2>3. threads'[t].at = "enter" => current \in Threads
    BY <2>1 DEF TokenInv, TokenTypes
  <2>4. \A u \in Threads : u # t => threads'[u] = threads[u]
    BY <2>1 DEF TokenInv, TokenTypes
  <2>5. TokenTypes'
    <3>. DEFINE T == [at : {"look", "make", "enter", "refresh", "held"},
                      source : Threads \cup {None}, since : Nat, key : Nat]
                n == [threads[t] EXCEPT !.at = IF current = None THEN "make" ELSE "enter",
                                        !.source = current]
    <3>1. threads \in [Threads -> T] /\ n \in T
      BY DEF TokenInv, TokenTypes
    <3>2. threads' = [threads EXCEPT ![t] = n]
      BY <2>1
    <3>. HIDE DEF T, n
    <3>3. threads' \in [Threads -> T]
      BY <3>1, <3>2
    <3>. QED
      BY <2>1, <3>3 DEF T, TokenInv, TokenTypes
  <2>6. Refreshing'
    BY <2>1, <2>2, <2>3, <2>4 DEF TokenInv, Refreshing, Token!NeedsRefresh
  <2>7. Minted' /\ Apart'
    BY <2>1 DEF TokenInv, Minted, Apart
  <2>8. Held'
    BY <2>1, <2>2, <2>4 DEF TokenInv, Held
  <2>. QED
    BY <2>5, <2>6, <2>7, <2>8 DEF TokenInv
<1>3. ASSUME NEW t \in Threads, Token!Make(t) PROVE TokenInv'
  <2>1. /\ UNCHANGED <<now, sources, minted>> /\ current' = t
        /\ threads' = [threads EXCEPT ![t] = [@ EXCEPT !.at = "enter", !.source = t]]
    BY <1>3 DEF Token!Make, TokenInv, TokenTypes
  <2>2. threads'[t].at = "enter" /\ threads'[t].source = t
    BY <2>1 DEF TokenInv, TokenTypes
  <2>3. \A u \in Threads : u # t => threads'[u] = threads[u]
    BY <2>1 DEF TokenInv, TokenTypes
  <2>4. TokenTypes'
    BY <2>1 DEF TokenInv, TokenTypes
  <2>5. Refreshing'
    BY <2>1, <2>2, <2>3 DEF TokenInv, Refreshing, Token!NeedsRefresh
  <2>6. Minted' /\ Apart'
    BY <2>1 DEF TokenInv, Minted, Apart
  <2>7. Held'
    BY <2>1, <2>2, <2>3 DEF TokenInv, Held
  <2>. QED
    BY <2>4, <2>5, <2>6, <2>7 DEF TokenInv
<1>4. ASSUME NEW t \in Threads, Token!Enter(t) PROVE TokenInv'
  <2>. DEFINE s == threads[t].source
  <2>1. s \in Threads /\ sources[s].lock = None /\ UNCHANGED <<now, current, minted>>
    BY <1>4 DEF Token!Enter, Token!Judge, TokenInv, Refreshing
  <2>2. CASE Token!NeedsRefresh(s)
    <3>1. /\ threads' = [threads EXCEPT ![t] = [@ EXCEPT !.at = "refresh"]]
          /\ sources' = [sources EXCEPT ![s] = [@ EXCEPT !.lock = t]]
      BY <1>4, <2>2 DEF Token!Enter, Token!Judge, TokenInv, TokenTypes
    <3>2. threads'[t].at = "refresh" /\ threads'[t].source = s
      BY <3>1 DEF TokenInv, TokenTypes
    <3>3. \A u \in Threads : u # t => threads'[u] = threads[u]
      BY <3>1 DEF TokenInv, TokenTypes
    <3>4. sources'[s].lock = t /\ \A r \in Threads : r # s => sources'[r] = sources[r]
      BY <2>1, <3>1 DEF TokenInv, TokenTypes
    <3>5. \A r \in Threads : sources'[r].expiry = sources[r].expiry
      BY <2>1, <3>1 DEF TokenInv, TokenTypes
    <3>6. TokenTypes'
      BY <2>1, <3>1 DEF TokenInv, TokenTypes
    <3>7. Refreshing'
      BY <2>1, <2>2, <3>2, <3>3, <3>4, <3>5 DEF TokenInv, Refreshing, Token!NeedsRefresh
    <3>8. Minted' /\ Apart'
      BY <2>1, <3>5 DEF TokenInv, Minted, Apart
    <3>9. Held'
      BY <2>1, <3>2, <3>3 DEF TokenInv, Held
    <3>. QED
      BY <3>6, <3>7, <3>8, <3>9 DEF TokenInv
  <2>3. CASE ~Token!NeedsRefresh(s)
    <3>1. threads' = Token!Hand(t, sources[s].expiry) /\ UNCHANGED sources
      BY <1>4, <2>3 DEF Token!Enter, Token!Judge
    <3>2. now + Skew < sources[s].expiry
      BY <2>1, <2>3 DEF Token!NeedsRefresh, TokenInv, TokenTypes
    <3>. QED
      BY <2>1, <3>1, <3>2, TokenHands DEF TokenInv, TokenTypes, Minted, Apart
  <2>. QED
    BY <2>2, <2>3
<1>5. ASSUME NEW t \in Threads, Token!Refresh(t) PROVE TokenInv'
  <2>. DEFINE s == threads[t].source
  <2>1. /\ s \in Threads /\ sources[s].lock = t /\ threads[t].at = "refresh"
        /\ Token!NeedsRefresh(s) /\ UNCHANGED <<now, current>>
    BY <1>5 DEF Token!Refresh, TokenInv, Refreshing
  <2>2. \A m \in minted[s] : m <= now /\ now + Skew >= m + Life
    BY <2>1 DEF TokenInv, Minted, TokenTypes, Token!NeedsRefresh
  <2>3. \A u \in Threads : u # t /\ threads[u].at = "refresh" => threads[u].source # s
    BY <2>1 DEF TokenInv, Refreshing
  <2>4. CASE /\ sources' = [sources EXCEPT ![s] = [lock |-> None, expiry |-> now + Life]]
             /\ threads' = Token!Hand(t, now + Life)
             /\ minted' = [minted EXCEPT ![s] = @ \cup {now}]
    <3>1. \A r \in Threads :
            /\ r # s => sources'[r] = sources[r] /\ minted'[r] = minted[r]
            /\ r = s => sources'[r].expiry = now + Life /\ minted'[r] = minted[r] \cup {now}
      BY <2>1, <2>4 DEF TokenInv, TokenTypes
    <3>2. /\ sources' \in [Threads -> [lock : Threads \cup {None}, expiry : Nat]]
          /\ minted' \in [Threads -> SUBSET Nat]
      BY <2>1, <2>4 DEF TokenInv, TokenTypes
    <3>3. Minted'
      BY <2>1, <2>2, <3>1 DEF TokenInv, TokenTypes, Minted
    <3>4. Apart'
      <4>1. SUFFICES ASSUME NEW r \in Threads, NEW m \in minted'[r], NEW n \in minted'[r], m < n
                     PROVE  n + Skew >= m + Life
        BY DEF Apart
      <4>2. CASE r # s
        BY <4>1, <4>2, <3>1 DEF TokenInv, Apart
      <4>3. CASE r = s
        BY <4>1, <4>3, <2>2, <3>1 DEF TokenInv, TokenTypes, Apart
      <4>. QED
        BY <4>2, <4>3
    <3>5. \A u \in Threads : u # t /\ threads[u].at = "refresh" =>
            sources'[threads[u].source] = sources[threads[u].source]
      BY <2>1, <2>3, <3>1 DEF TokenInv, Refreshing
    <3>6. now + Life \in Nat /\ now + Skew < now + Life
      BY DEF TokenInv, TokenTypes
    <3>. QED
      BY <2>1, <2>4, <3>2, <3>3, <3>4, <3>5, <3>6, TokenHands
  <2>5. ASSUME NEW expiry \in {0, sources[s].expiry},
               sources' = [sources EXCEPT ![s] = [lock |-> None, expiry |-> expiry]],
               threads' = [threads EXCEPT ![t] = [@ EXCEPT !.at = "look", !.source = None]],
               UNCHANGED minted
        PROVE  TokenInv'
    <3>1. \A r \in Threads : /\ r # s => sources'[r] = sources[r]
                             /\ r = s => sources'[r].expiry = expiry
      BY <2>1, <2>5 DEF TokenInv, TokenTypes
    <3>2. threads'[t].at = "look" /\ \A u \in Threads : u # t => threads'[u] = threads[u]
      BY <2>5 DEF TokenInv, TokenTypes
    <3>3. TokenTypes'
      <4>1. [lock |-> None, expiry |-> expiry] \in [lock : Threads \cup {None}, expiry : Nat]
        BY <2>1 DEF TokenInv, TokenTypes
      <4>2. sources' \in [Threads -> [lock : Threads \cup {None}, expiry : Nat]]
        BY <2>1, <2>5, <4>1 DEF TokenInv, TokenTypes
      <4>3. threads' \in [Threads -> [at : {"look", "make", "enter", "refresh", "held"},
                                      source : Threads \cup {None}, since : Nat, key : Nat]]
        BY <2>5 DEF TokenInv, TokenTypes
      <4>4. minted' = minted
        BY <2>5
      <4>. QED
        BY <2>1, <4>2, <4>3, <4>4 DEF TokenInv, TokenTypes
    <3>4. Refreshing'
      BY <2>1, <2>3, <3>1, <3>2 DEF TokenInv, Refreshing, Token!NeedsRefresh
    <3>5. Minted' /\ Apart'
      BY <2>1, <2>2, <2>5, <3>1 DEF TokenInv, Minted, Apart
    <3>6. Held'
      BY <2>1, <3>2 DEF TokenInv, Held
    <3>. QED
      BY <3>3, <3>4, <3>5, <3>6 DEF TokenInv
  <2>. QED
    BY <1>5, <2>4, <2>5 DEF Token!Refresh
<1>6. ASSUME NEW t \in Threads, Token!Answered(t) PROVE TokenInv'
  <2>1. /\ threads' = [threads EXCEPT ![t] = [at |-> "look", source |-> None, since |-> 0,
                                              key |-> 0]]
        /\ UNCHANGED <<now, current, sources, minted>>
    BY <1>6 DEF Token!Answered
  <2>2. threads'[t].at = "look" /\ \A u \in Threads : u # t => threads'[u] = threads[u]
    BY <2>1 DEF TokenInv, TokenTypes
  <2>. QED
    BY <2>1, <2>2 DEF TokenInv, TokenTypes, Refreshing, Minted, Held, Apart, Token!NeedsRefresh
<1>7. CASE UNCHANGED tokenVars
  BY <1>7
  DEF tokenVars, TokenInv, TokenTypes, Refreshing, Minted, Held, Apart, Token!NeedsRefresh
<1>. QED
  BY <1>1, <1>2, <1>3, <1>4, <1>5, <1>6, <1>7 DEF Token!Next

\* However many threads wait for a token, one refresh serves them all, and a call's first
\* attempt ends before its key expires: whatever the lifetime, the skew and the timeout are,
\* as long as the skew is longer than an attempt and shorter than a token's life.
THEOREM OneRefreshServes == PartsSpec => []OneRefreshServesAll
<1>. DEFINE Inv == part = "token" => TokenInv
<1>1. PartsInit => Inv
  BY EachPartStarts, TokenStarts
<1>2. Inv /\ [PartsNext]_partsVars => Inv'
  BY OnePartActs, TokenSteps
<1>3. Inv => OneRefreshServesAll
  BY TokenConstants
  DEF OneRefreshServesAll, Token!OneRefreshServesAll, TokenInv, TokenTypes, Apart, Held
<1>. QED
  BY <1>1, <1>2, <1>3, PTL DEF PartsSpec

-----------------------------------------------------------------------------
(* Batches: InOrder lists the requests of a set, each once and in order.   *)

\* FiniteSets is instantiated with the part.
LEMMA BatchCardinality == \A S : Batch!Cardinality(S) = Cardinality(S)
BY Zenon DEF Cardinality, Batch!Cardinality, IsFiniteSet, Batch!IsFiniteSet

\* How many of S come before k.
Before(S, k) == Cardinality({j \in S : j < k})

\* Every place of the list has one request, and every request one place.
LEMMA OrderOf ==
  ASSUME NEW S \in SUBSET Nat, IsFiniteSet(S)
  PROVE  /\ Cardinality(S) \in Nat
         /\ \A k \in S : Before(S, k) \in 0 .. Cardinality(S) - 1
         /\ \A j, k \in S : Before(S, j) = Before(S, k) => j = k
         /\ \A n \in 1 .. Cardinality(S) : \E k \in S : Before(S, k) = n - 1
<1>. DEFINE c == Cardinality(S)
            U(k) == {j \in S : j < k}
<1>1. c \in Nat
  BY FS_CardinalityType
<1>2. ASSUME NEW k \in S PROVE Before(S, k) \in 0 .. c - 1
  <2>1. U(k) \subseteq S /\ U(k) # S
    OBVIOUS
  <2>2. Cardinality(U(k)) \in Nat /\ Cardinality(U(k)) < c
    BY <2>1, Fewer
  <2>. QED
    BY <1>1, <2>2 DEF Before
<1>3. ASSUME NEW j \in S, NEW k \in S, j < k PROVE Before(S, j) < Before(S, k)
  <2>1. U(j) \subseteq U(k) /\ U(j) # U(k) /\ U(k) \subseteq S
    <3>1. j \in Nat /\ k \in Nat /\ \A i \in S : i \in Nat
      OBVIOUS
    <3>2. \A i \in S : i < j => i < k
      BY <1>3, <3>1
    <3>3. j \in U(k) /\ j \notin U(j)
      BY <1>3, <3>1
    <3>. QED
      BY <3>2, <3>3
  <2>2. IsFiniteSet(U(k))
    BY <2>1, FS_Subset
  <2>3. Cardinality(U(j)) < Cardinality(U(k))
    BY <2>1, <2>2, Fewer
  <2>. QED
    BY <2>3 DEF Before
<1>4. ASSUME NEW j \in S, NEW k \in S, Before(S, j) = Before(S, k) PROVE j = k
  <2>1. Before(S, j) \in Int
    BY <1>1, <1>2
  <2>2. CASE j < k
    BY <1>3, <1>4, <2>1, <2>2
  <2>3. CASE k < j
    BY <1>3, <1>4, <2>1, <2>3
  <2>. QED
    BY <2>2, <2>3
<1>5. ASSUME NEW n \in 1 .. c PROVE \E k \in S : Before(S, k) = n - 1
  <2>. DEFINE T == 0 .. c - 1
              f == [k \in S |-> Before(S, k)]
  <2>1. f \in Injection(S, T)
    BY <1>2, <1>4 DEF Injection, IsInjective
  <2>2. IsFiniteSet(T) /\ Cardinality(T) = c
    <3>. DEFINE m == c - 1
    <3>1. m \in Int /\ 0 \in Int /\ m + 1 = c /\ (0 > m => c = 0) /\ T = 0 .. m
      BY <1>1
    <3>. HIDE DEF m, T, c
    <3>2. IsFiniteSet(0 .. m) /\ Cardinality(0 .. m) = IF 0 > m THEN 0 ELSE m - 0 + 1
      BY <3>1, FS_Interval
    <3>. QED
      BY <3>1, <3>2
  <2>3. f \in Surjection(S, T)
    BY <2>1, <2>2, FS_Injection
  <2>4. n - 1 \in T
    BY <1>1
  <2>. QED
    BY <2>3, <2>4 DEF Surjection
<1>. QED
  BY <1>1, <1>2, <1>4, <1>5

LEMMA InOrderIs ==
  ASSUME NEW S \in SUBSET Nat, IsFiniteSet(S)
  PROVE  /\ Batch!InOrder(S) \in Seq(S) /\ Len(Batch!InOrder(S)) = Cardinality(S)
         /\ Cardinality(S) \in Nat
         /\ \A n \in 1 .. Cardinality(S) :
              Batch!InOrder(S)[n] \in S /\ Before(S, Batch!InOrder(S)[n]) = n - 1
         /\ \A k \in S : \E n \in 1 .. Cardinality(S) : Batch!InOrder(S)[n] = k
<1>. DEFINE c == Cardinality(S)
            s == Batch!InOrder(S)
<1>1. s = [n \in 1 .. c |-> CHOOSE k \in S : Batch!Cardinality({j \in S : j < k}) = n - 1]
  BY BatchCardinality, Zenon DEF Batch!InOrder
<1>2. c \in Nat
  BY OrderOf
<1>3. ASSUME NEW n \in 1 .. c PROVE s[n] \in S /\ Before(S, s[n]) = n - 1
  <2>1. \E k \in S : Batch!Cardinality({j \in S : j < k}) = n - 1
    BY OrderOf, BatchCardinality DEF Before
  <2>2. s[n] = CHOOSE k \in S : Batch!Cardinality({j \in S : j < k}) = n - 1
    BY <1>1
  <2>. HIDE DEF s
  <2>3. s[n] \in S /\ Batch!Cardinality({j \in S : j < s[n]}) = n - 1
    BY <2>1, <2>2
  <2>. QED
    BY <2>3, BatchCardinality DEF Before
<1>4. ASSUME NEW k \in S PROVE \E n \in 1 .. c : s[n] = k
  <2>. DEFINE n == Before(S, k) + 1
  <2>1. n \in 1 .. c /\ n - 1 = Before(S, k)
    BY <1>2, OrderOf
  <2>2. s[n] \in S /\ Before(S, s[n]) = Before(S, k)
    BY <1>3, <2>1
  <2>. HIDE DEF s, n
  <2>3. \A i, j \in S : Before(S, i) = Before(S, j) => i = j
    BY OrderOf
  <2>4. s[n] = k
    BY <2>2, <2>3
  <2>. QED
    BY <2>1, <2>4
<1>5. s \in Seq(S) /\ Len(s) = c
  <2>1. s \in [1 .. c -> S]
    BY <1>1, <1>3
  <2>. QED
    BY <1>2, <2>1
<1>. QED
  BY <1>2, <1>3, <1>4, <1>5

\* All requests of a batch are listed as they are.
LEMMA InOrderAll ==
  ASSUME NEW m \in Nat, NEW n \in 1 .. m
  PROVE  Cardinality(1 .. m) = m /\ Batch!InOrder(1 .. m)[n] = n
<1>. DEFINE S == 1 .. m
<1>1. IsFiniteSet(S) /\ Cardinality(S) = m /\ S \in SUBSET Nat
  BY FS_Interval
<1>2. Batch!InOrder(S)[n] \in S /\ Before(S, Batch!InOrder(S)[n]) = n - 1
  BY <1>1, InOrderIs
<1>3. {j \in S : j < n} = 1 .. n - 1
  OBVIOUS
<1>4. Cardinality(1 .. n - 1) = n - 1
  BY FS_Interval
<1>5. Before(S, n) = n - 1
  BY <1>3, <1>4 DEF Before
<1>. HIDE DEF S
<1>6. \A i, j \in S : Before(S, i) = Before(S, j) => i = j
  BY <1>1, OrderOf
<1>7. n \in S
  BY DEF S
<1>8. Batch!InOrder(S)[n] = n
  BY <1>2, <1>5, <1>6, <1>7
<1>. QED
  BY <1>1, <1>8 DEF S

-----------------------------------------------------------------------------
(* Batches: a row's outcome is what the vendor's file says of the batch.   *)

\* batch_submit will not touch the batch's rows again.
Closed == {"submitted", "dead"}
Outcomes == Batch!Verdicts \cup {"missing"}
Open == {"none", "failed"}

\* The requests of a batch that are named, and those its results file lists.
NamedIn(i) == {k \in Batch!Requests : batchId[i[1]][k] = i}
Listed(i) == {k \in Batch!Requests : results[i].verdict[k] # "absent"}

\* The file can be put in place: every entry names its request, or there are as many as rows.
Placeable(i) ==
  Batch!Positional(i) = {} \/ Len(Batch!Items(i)) = Len(Batch!RowsForBatch(i))

\* What ByCustomId says of a batch whose ids are all its rows.
Fate(i) ==
  LET Placed(k) == {n \in Batch!Positional(i) :
                      n <= Len(Batch!RowsForBatch(i)) /\ Batch!RowsForBatch(i)[n] = k}
  IN  [k \in Batch!Requests |->
         IF Placed(k) # {}
         THEN Batch!Item(i, Batch!Items(i)[CHOOSE n \in Placed(k) : TRUE])
         ELSE IF k \in results[i].keyed /\ results[i].verdict[k] # "absent"
              THEN Batch!Item(i, k) ELSE Batch!Plain("missing")]

Reported(i, k) ==
  IF results[i].verdict[k] = "absent" THEN Batch!Plain("missing") ELSE Batch!Item(i, k)

\* A row is named after the last create request that was sent.
Named ==
  \A b \in Batches, k \in Batch!Requests :
    batchId[b][k] # Batch!NoId =>
      batchId[b][k] = <<b, creates[b]>> /\ pc[b] \in {"name"} \cup Closed

\* A create request is left to send until the submitter has one that came through.
Sendable ==
  \A b \in Batches :
    /\ pc[b] \in {"new", "begin", "upload", "create"} => creates[b] < BatchAttempts
    /\ pc[b] = "name" => creates[b] > 0

\* A collection reads the file of a batch that is closed, and what it has yet to complete
\* are rows it has no outcome of.
CollectedBy(c) ==
  LET i == id[c]
  IN  /\ cpc[c] \in {"poll", "complete", "done"} =>
           /\ i \in Batch!BatchIds /\ pc[i[1]] \in Closed /\ NamedIn(i) # {}
           /\ i = <<i[1], creates[i[1]]>>
      /\ cpc[c] = "poll" => ids[c] = Batch!RowsForBatch(i)
      /\ cpc[c] \in {"complete", "done"} =>
           /\ results[i].ended /\ found[c] = Fate(i) /\ Placeable(i)
           /\ \A k \in NamedIn(i) :
                \/ batchRow[i[1]][k].as \in Outcomes
                \/ cpc[c] = "complete" /\ \E n \in DOMAIN ids[c] : ids[c][n] = k
      /\ cpc[c] = "complete" => ids[c] # <<>>
Collected == \A c \in Collectors : CollectedBy(c)

\* A row that has an outcome has the one the file of its batch gives it.
Told ==
  \A b \in Batches, k \in Batch!Requests :
    batchRow[b][k].as \in Outcomes =>
      /\ pc[b] \in Closed /\ <<b, creates[b]>> \in Batch!BatchIds
      /\ results[<<b, creates[b]>>].ended /\ batchRow[b][k] = Fate(<<b, creates[b]>>)[k]

BatchInv == Batch!TypeOK /\ Named /\ Sendable /\ Collected /\ Told

LEMMA BatchConstants ==
  /\ Size \in Nat /\ Size > 0 /\ BatchAttempts \in Nat /\ BatchAttempts > 0 /\ Cap \in Nat
  /\ Batch!Requests = 1 .. Size /\ IsFiniteSet(Batch!Requests)
  /\ Cardinality(Batch!Requests) = Size
<1>1. /\ Size \in Nat /\ Size > 0 /\ BatchAttempts \in Nat /\ BatchAttempts > 0 /\ Cap \in Nat
  BY PartsAssumption DEF Batch!ConstantsAssumption
<1>2. Batch!Requests = 1 .. Size
  BY DEF Batch!Requests
<1>3. IsFiniteSet(1 .. Size) /\ Cardinality(1 .. Size) = Size
  BY <1>1, FS_Interval
<1>. QED
  BY <1>1, <1>2, <1>3

\* What the lists of a batch hold.
LEMMA BatchLists ==
  ASSUME NEW i
  PROVE  /\ Batch!RowsForBatch(i) \in Seq(NamedIn(i)) /\ Batch!Items(i) \in Seq(Listed(i))
         /\ Len(Batch!RowsForBatch(i)) = Cardinality(NamedIn(i))
         /\ Len(Batch!Items(i)) = Cardinality(Listed(i))
         /\ Cardinality(NamedIn(i)) \in Nat /\ Cardinality(Listed(i)) \in Nat
         /\ \A k \in NamedIn(i) : \E n \in DOMAIN Batch!RowsForBatch(i) :
              Batch!RowsForBatch(i)[n] = k
         /\ \A k \in Listed(i) : \E n \in DOMAIN Batch!Items(i) : Batch!Items(i)[n] = k
         /\ Batch!RowsForBatch(i) # <<>> => NamedIn(i) # {}
         /\ NamedIn(i) = Batch!Requests => \A n \in 1 .. Size : Batch!RowsForBatch(i)[n] = n
         /\ Listed(i) = Batch!Requests => \A n \in 1 .. Size : Batch!Items(i)[n] = n
<1>1. Batch!RowsForBatch(i) = Batch!InOrder(NamedIn(i)) /\ Batch!Items(i) = Batch!InOrder(Listed(i))
  BY Zenon DEF Batch!RowsForBatch, Batch!Items, NamedIn, Listed
<1>2. /\ NamedIn(i) \in SUBSET Nat /\ IsFiniteSet(NamedIn(i))
      /\ Listed(i) \in SUBSET Nat /\ IsFiniteSet(Listed(i))
  <2>1. NamedIn(i) \subseteq Batch!Requests /\ Listed(i) \subseteq Batch!Requests
    BY DEF NamedIn, Listed
  <2>2. Batch!Requests \subseteq Nat
    BY BatchConstants
  <2>. QED
    BY <2>1, <2>2, BatchConstants, FS_Subset
<1>3. ASSUME NEW S \in SUBSET Nat, IsFiniteSet(S)
      PROVE  /\ Batch!InOrder(S) \in Seq(S) /\ Len(Batch!InOrder(S)) = Cardinality(S)
             /\ Cardinality(S) \in Nat
             /\ \A k \in S : \E n \in DOMAIN Batch!InOrder(S) : Batch!InOrder(S)[n] = k
             /\ Batch!InOrder(S) # <<>> => S # {}
             /\ S = Batch!Requests => \A n \in 1 .. Size : Batch!InOrder(S)[n] = n
  <2>1. Batch!InOrder(S) \in Seq(S) /\ Len(Batch!InOrder(S)) = Cardinality(S)
        /\ Cardinality(S) \in Nat
    BY <1>3, InOrderIs
  <2>2. \A k \in S : \E n \in 1 .. Cardinality(S) : Batch!InOrder(S)[n] = k
    BY <1>3, InOrderIs
  <2>3. DOMAIN Batch!InOrder(S) = 1 .. Cardinality(S)
    BY <2>1
  <2>4. Batch!InOrder(S) # <<>> => S # {}
    BY <2>1, FS_EmptySet
  <2>5. S = Batch!Requests => \A n \in 1 .. Size : Batch!InOrder(S)[n] = n
    BY BatchConstants, InOrderAll
  <2>. QED
    BY <2>1, <2>2, <2>3, <2>4, <2>5
<1>4. /\ Batch!RowsForBatch(i) \in Seq(NamedIn(i))
      /\ Len(Batch!RowsForBatch(i)) = Cardinality(NamedIn(i)) /\ Cardinality(NamedIn(i)) \in Nat
      /\ \A k \in NamedIn(i) : \E n \in DOMAIN Batch!RowsForBatch(i) :
           Batch!RowsForBatch(i)[n] = k
      /\ Batch!RowsForBatch(i) # <<>> => NamedIn(i) # {}
      /\ NamedIn(i) = Batch!Requests => \A n \in 1 .. Size : Batch!RowsForBatch(i)[n] = n
  BY <1>1, <1>2, <1>3
<1>5. /\ Batch!Items(i) \in Seq(Listed(i))
      /\ Len(Batch!Items(i)) = Cardinality(Listed(i)) /\ Cardinality(Listed(i)) \in Nat
      /\ \A k \in Listed(i) : \E n \in DOMAIN Batch!Items(i) : Batch!Items(i)[n] = k
      /\ Listed(i) = Batch!Requests => \A n \in 1 .. Size : Batch!Items(i)[n] = n
  BY <1>1, <1>2, <1>3
<1>. QED
  BY <1>4, <1>5

\* What a file gives a request is an outcome, and where the file can be put in place on a
\* batch whose rows are all named, or names them itself, what it says of that request.
LEMMA FateIs ==
  ASSUME Batch!TypeOK, NEW i \in Batch!BatchIds, NEW k \in Batch!Requests
  PROVE  /\ Fate(i)[k] \in Batch!Rows /\ Fate(i)[k].as \in Outcomes
         /\ Placeable(i) /\ (Batch!Positional(i) = {} \/ NamedIn(i) = Batch!Requests)
              => Fate(i)[k] = Reported(i, k)
<1>. DEFINE R == Batch!RowsForBatch(i)
            I == Batch!Items(i)
            Placed == {n \in Batch!Positional(i) : n <= Len(R) /\ R[n] = k}
            p == CHOOSE n \in Placed : TRUE
<1>1. /\ results[i].keyed \in SUBSET Batch!Requests
      /\ results[i].verdict \in [Batch!Requests -> Batch!Verdicts \cup {"absent"}]
  BY DEF Batch!TypeOK
<1>2. Fate(i)[k] = IF Placed # {} THEN Batch!Item(i, I[p])
                   ELSE IF k \in results[i].keyed /\ results[i].verdict[k] # "absent"
                        THEN Batch!Item(i, k) ELSE Batch!Plain("missing")
  BY DEF Fate
<1>3. Placed # {} => p \in Placed
  BY Zenon
<1>4. ASSUME NEW n \in Batch!Positional(i)
      PROVE  n \in 1 .. Len(I) /\ I[n] \in Listed(i) /\ I[n] \notin results[i].keyed
  <2>1. n \in DOMAIN I /\ I[n] \notin results[i].keyed
    BY DEF Batch!Positional
  <2>2. I \in Seq(Listed(i))
    BY BatchLists
  <2>. QED
    BY <2>1, <2>2
<1>5. \A j \in Listed(i) : Batch!Item(i, j) \in Batch!Rows /\ Batch!Item(i, j).as \in Outcomes
  BY <1>1 DEF Listed, Batch!Item, Batch!Rows, Outcomes, Batch!Verdicts
<1>6. Batch!Plain("missing") \in Batch!Rows /\ Batch!Plain("missing").as \in Outcomes
  BY DEF Batch!Plain, Batch!Rows, Outcomes
<1>7. Fate(i)[k] \in Batch!Rows /\ Fate(i)[k].as \in Outcomes
  <2>1. CASE Placed # {}
    BY <1>2, <1>3, <1>4, <1>5, <2>1
  <2>2. CASE Placed = {}
    <3>1. k \in results[i].keyed /\ results[i].verdict[k] # "absent" => k \in Listed(i)
      BY DEF Listed
    <3>. QED
      BY <1>2, <1>5, <1>6, <2>2, <3>1
  <2>. QED
    BY <2>1, <2>2
<1>8. ASSUME Batch!Positional(i) = {} PROVE Fate(i)[k] = Reported(i, k)
  <2>1. Fate(i)[k] = IF k \in results[i].keyed /\ results[i].verdict[k] # "absent"
                     THEN Batch!Item(i, k) ELSE Batch!Plain("missing")
    BY <1>2, <1>8
  <2>2. results[i].verdict[k] # "absent" => k \in results[i].keyed
    <3>1. SUFFICES ASSUME results[i].verdict[k] # "absent" PROVE k \in results[i].keyed
      OBVIOUS
    <3>2. PICK n \in DOMAIN I : I[n] = k
      BY <3>1, BatchLists DEF Listed
    <3>. QED
      BY <1>8, <3>2 DEF Batch!Positional
  <2>. QED
    BY <2>1, <2>2 DEF Reported
<1>9. ASSUME Len(I) = Len(R), NamedIn(i) = Batch!Requests PROVE Fate(i)[k] = Reported(i, k)
  <2>1. Listed(i) = Batch!Requests
    <3>1. Cardinality(Listed(i)) = Cardinality(Batch!Requests) /\ Listed(i) \subseteq Batch!Requests
      BY <1>9, BatchLists DEF Listed
    <3>. QED
      BY <3>1, BatchConstants, FS_Subset
  <2>2. /\ \A n \in 1 .. Size : I[n] = n /\ R[n] = n
        /\ Len(I) = Size /\ Len(R) = Size
    BY <1>9, <2>1, BatchLists, BatchConstants
  <2>3. k \in 1 .. Size /\ results[i].verdict[k] # "absent"
    BY <2>1, BatchConstants DEF Listed
  <2>4. ASSUME Placed # {} PROVE p = k
    BY <1>3, <1>4, <2>2, <2>4
  <2>5. CASE Placed # {}
    BY <1>2, <2>2, <2>3, <2>4, <2>5 DEF Reported
  <2>6. CASE Placed = {}
    <3>1. k \notin Batch!Positional(i)
      BY <2>2, <2>3, <2>6
    <3>2. k \in DOMAIN I
      BY <2>2, <2>3, BatchLists
    <3>3. k \in results[i].keyed
      BY <2>2, <2>3, <3>1, <3>2 DEF Batch!Positional
    <3>. QED
      BY <1>2, <2>3, <2>6, <3>3 DEF Reported
  <2>. QED
    BY <2>5, <2>6
<1>. QED
  BY <1>7, <1>8, <1>9 DEF Placeable

\* It depends on the file and the names of the batch alone.
LEMMA FateStays ==
  ASSUME NEW i, results'[i] = results[i], batchId'[i[1]] = batchId[i[1]]
  PROVE  /\ Fate(i)' = Fate(i) /\ Placeable(i)' = Placeable(i) /\ NamedIn(i)' = NamedIn(i)
         /\ Batch!RowsForBatch(i)' = Batch!RowsForBatch(i)
<1>1. NamedIn(i)' = NamedIn(i) /\ Listed(i)' = Listed(i)
  BY DEF NamedIn, Listed
<1>2. /\ Batch!RowsForBatch(i)' = Batch!RowsForBatch(i)
      /\ Batch!Items(i)' = Batch!Items(i)
  BY <1>1 DEF Batch!RowsForBatch, Batch!Items, NamedIn, Listed
<1>3. Batch!Positional(i)' = Batch!Positional(i)
  BY <1>2 DEF Batch!Positional
<1>4. Fate(i)' = Fate(i)
  BY <1>2, <1>3 DEF Fate, Batch!Item
<1>. QED
  BY <1>1, <1>2, <1>3, <1>4 DEF Placeable

LEMMA BatchStarts == Batch!Init => BatchInv
<1>1. ASSUME Batch!Init PROVE BatchInv
  <2>1. 1 \in Batch!Requests /\ 0 \in 0 .. BatchAttempts
    BY BatchConstants
  <2>2. Batch!TypeOK
    BY <1>1, <2>1 DEF Batch!Init, Batch!TypeOK, Batch!Plain, Batch!Rows, Batch!NotEnded,
                      Batch!Missing, Batch!NoId, Batch!Verdicts
  <2>3. Named /\ Sendable /\ Collected /\ Told
    BY <1>1, BatchConstants
    DEF Batch!Init, Named, Sendable, Collected, CollectedBy, Told, Batch!NoId, Batch!Plain, Outcomes,
        Batch!Verdicts
  <2>. QED
    BY <2>2, <2>3 DEF BatchInv
<1>. QED
  BY <1>1

\* What a step of a batch's submitter leaves alone is what collections rest on: they are of
\* batches that are closed, and it gives no row an outcome.
LEMMA SubmitterKeeps ==
  ASSUME BatchInv, NEW b \in Batches, pc[b] \notin Closed,
         \A a \in Batches : a # b =>
           /\ pc'[a] = pc[a] /\ creates'[a] = creates[a]
           /\ batchRow'[a] = batchRow[a] /\ batchId'[a] = batchId[a],
         \A k \in Batch!Requests : batchRow'[b][k].as \notin Outcomes,
         UNCHANGED <<results, cpc, id, ids, found>>
  PROVE  Collected' /\ Told'
<1>1. ASSUME NEW c \in Collectors, cpc[c] \in {"poll", "complete", "done"}
      PROVE  /\ id[c][1] \in Batches /\ id[c][1] # b
             /\ Fate(id[c])' = Fate(id[c]) /\ Placeable(id[c])' = Placeable(id[c])
             /\ NamedIn(id[c])' = NamedIn(id[c])
             /\ Batch!RowsForBatch(id[c])' = Batch!RowsForBatch(id[c])
  <2>1. id[c] \in Batch!BatchIds /\ pc[id[c][1]] \in Closed
    BY <1>1 DEF BatchInv, Collected, CollectedBy
  <2>2. id[c][1] \in Batches /\ id[c][1] # b
    BY <2>1 DEF Batch!BatchIds
  <2>3. \A i : results'[i] = results[i] /\ batchId'[i[1]] = batchId[i[1]] =>
          /\ Fate(i)' = Fate(i) /\ Placeable(i)' = Placeable(i) /\ NamedIn(i)' = NamedIn(i)
          /\ Batch!RowsForBatch(i)' = Batch!RowsForBatch(i)
    BY FateStays
  <2>. QED
    BY <2>2, <2>3
<1>2. Collected'
  BY <1>1 DEF BatchInv, Collected, CollectedBy
<1>3. ASSUME NEW a \in Batches, NEW k \in Batch!Requests, batchRow'[a][k].as \in Outcomes
      PROVE  /\ pc'[a] \in Closed /\ <<a, creates'[a]>> \in Batch!BatchIds
             /\ results'[<<a, creates'[a]>>].ended
             /\ batchRow'[a][k] = Fate(<<a, creates[a]>>)'[k]
  <2>1. a # b
    BY <1>3
  <2>2. /\ pc[a] \in Closed /\ <<a, creates[a]>> \in Batch!BatchIds
        /\ results[<<a, creates[a]>>].ended /\ batchRow[a][k] = Fate(<<a, creates[a]>>)[k]
    BY <1>3, <2>1 DEF BatchInv, Told
  <2>3. Fate(<<a, creates[a]>>)' = Fate(<<a, creates[a]>>)
    BY <2>1, FateStays
  <2>. QED
    BY <2>1, <2>2, <2>3
<1>. QED
  BY <1>2, <1>3 DEF Told

\* A submitter goes on within its rows.
LEMMA Turns ==
  ASSUME Batch!TypeOK, NEW b \in Batches, NEW next,
         next \in {"upload", "create", "failed", "submitted"}, Batch!Turn(b, next)
  PROVE  /\ turn' \in [Batches -> Batch!Requests]
         /\ pc' \in [Batches -> {"new", "refused", "begin", "upload", "create", "fail", "failed",
                               "name", "submitted", "unread", "dead"}]
         /\ \A a \in Batches : a # b => pc'[a] = pc[a] /\ turn'[a] = turn[a]
         /\ \/ turn[b] < Size /\ turn'[b] = turn[b] + 1 /\ pc'[b] = pc[b]
            \/ turn[b] = Size /\ turn'[b] = 1 /\ pc'[b] = next
<1>1. turn[b] \in Nat /\ turn[b] <= Size /\ turn[b] > 0
  BY BatchConstants DEF Batch!TypeOK
<1>2. CASE turn[b] < Size
  <2>1. turn' = [turn EXCEPT ![b] = turn[b] + 1] /\ pc' = pc
    BY <1>2 DEF Batch!Turn
  <2>2. turn[b] + 1 \in Batch!Requests
    BY <1>1, <1>2, BatchConstants
  <2>. QED
    BY <1>1, <1>2, <2>1, <2>2 DEF Batch!TypeOK
<1>3. CASE ~(turn[b] < Size)
  <2>1. turn' = [turn EXCEPT ![b] = 1] /\ pc' = [pc EXCEPT ![b] = next]
    BY <1>3 DEF Batch!Turn, Batch!Goto
  <2>2. 1 \in Batch!Requests /\ turn[b] = Size
    BY <1>1, <1>3, BatchConstants
  <2>. QED
    BY <2>1, <2>2 DEF Batch!TypeOK
<1>. QED
  BY <1>2, <1>3

LEMMA Goes ==
  ASSUME Batch!TypeOK, NEW b \in Batches, NEW place,
         place \in {"refused", "begin", "create", "fail", "name", "unread", "dead"},
         Batch!Goto(b, place)
  PROVE  /\ turn' \in [Batches -> Batch!Requests]
         /\ pc' \in [Batches -> {"new", "refused", "begin", "upload", "create", "fail", "failed",
                               "name", "submitted", "unread", "dead"}]
         /\ \A a \in Batches : a # b => pc'[a] = pc[a] /\ turn'[a] = turn[a]
         /\ pc'[b] = place /\ turn'[b] = 1
<1>1. 1 \in Batch!Requests
  BY BatchConstants
<1>. QED
  BY <1>1 DEF Batch!TypeOK, Batch!Goto

\* While the submitter is at work no row of its batch has an outcome.
LEMMA NoOutcomeYet ==
  ASSUME BatchInv, NEW b \in Batches, pc[b] \notin Closed
  PROVE  \A k \in Batch!Requests : batchRow[b][k].as \notin Outcomes
BY DEF BatchInv, Told

\* A submitter that changes no row and no name.
LEMMA SubmitterMoves ==
  ASSUME BatchInv, NEW b \in Batches, pc[b] \notin Closed,
         turn' \in [Batches -> Batch!Requests],
         pc' \in [Batches -> {"new", "refused", "begin", "upload", "create", "fail", "failed",
                             "name", "submitted", "unread", "dead"}],
         \A a \in Batches : a # b => pc'[a] = pc[a],
         pc[b] = "name" => pc'[b] = "dead",
         pc'[b] \in {"new", "begin", "upload", "create"} =>
           pc[b] \in {"new", "begin", "upload", "create"},
         pc'[b] # "name",
         UNCHANGED <<batchRow, batchId, creates, accepted, results, cpc, id, ids, found>>
  PROVE  BatchInv'
<1>1. Batch!TypeOK'
  BY DEF BatchInv, Batch!TypeOK
<1>2. Collected' /\ Told'
  BY SubmitterKeeps, NoOutcomeYet
<1>3. Named' /\ Sendable'
  BY DEF BatchInv, Named, Sendable, Closed
<1>. QED
  BY <1>1, <1>2, <1>3 DEF BatchInv

LEMMA BatchChecks ==
  ASSUME BatchInv, NEW b \in Batches, Batch!Check(b) \/ Batch!Upload(b) \/ Batch!SubmitterStops(b)
  PROVE  BatchInv'
<1>1. ASSUME NEW place, place \in {"refused", "begin", "create", "fail", "dead"},
             Batch!Goto(b, place),
             pc[b] \in {"new", "upload"} \/ (place = "dead" /\ pc[b] \notin Closed),
             UNCHANGED <<batchRow, batchId, creates, accepted, results, cpc, id, ids, found>>
      PROVE  BatchInv'
  <2>1. Batch!TypeOK /\ pc[b] \notin Closed
    BY <1>1 DEF BatchInv, Closed
  <2>2. /\ turn' \in [Batches -> Batch!Requests]
        /\ pc' \in [Batches -> {"new", "refused", "begin", "upload", "create", "fail", "failed",
                              "name", "submitted", "unread", "dead"}]
        /\ \A a \in Batches : a # b => pc'[a] = pc[a]
        /\ pc'[b] = place
    BY <1>1, <2>1, Goes
  <2>. QED
    BY <1>1, <2>1, <2>2, SubmitterMoves
<1>2. CASE Batch!Check(b)
  <2>1. PICK place \in {"refused", "begin"} : Batch!Goto(b, place)
    BY <1>2 DEF Batch!Check
  <2>. QED
    BY <1>1, <1>2, <2>1 DEF Batch!Check, Batch!rowVars, Batch!vendorVars, Batch!handVars
<1>3. CASE Batch!Upload(b)
  BY <1>1, <1>3 DEF Batch!Upload, Batch!rowVars, Batch!vendorVars, Batch!handVars
<1>4. CASE Batch!SubmitterStops(b)
  BY <1>1, <1>4
  DEF Batch!SubmitterStops, Batch!rowVars, Batch!vendorVars, Batch!handVars, Closed
<1>. QED
  BY <1>2, <1>3, <1>4

LEMMA BatchBeginsOrFails ==
  ASSUME BatchInv, NEW b \in Batches, Batch!BeginRow(b) \/ Batch!FailRow(b)
  PROVE  BatchInv'
<1>. DEFINE Row == Batch!Plain(IF pc[b] = "begin" THEN "in_flight" ELSE "failed")
<1>1. PICK next \in {"upload", "create", "failed"} :
        /\ pc[b] \in {"begin", "fail"} /\ (pc[b] = "fail" => next = "failed")
        /\ batchRow' = [batchRow EXCEPT ![b][turn[b]] = Row] /\ Batch!Turn(b, next)
        /\ UNCHANGED <<batchId, creates, accepted, results, cpc, id, ids, found>>
  BY DEF Batch!BeginRow, Batch!FailRow, Batch!vendorVars, Batch!handVars
<1>2. Batch!TypeOK /\ pc[b] \notin Closed
  BY <1>1 DEF BatchInv, Closed
<1>3. /\ turn' \in [Batches -> Batch!Requests]
      /\ pc' \in [Batches -> {"new", "refused", "begin", "upload", "create", "fail", "failed",
                            "name", "submitted", "unread", "dead"}]
      /\ \A a \in Batches : a # b => pc'[a] = pc[a]
      /\ pc'[b] \in {pc[b], next}
  BY <1>1, <1>2, Turns
<1>4. Row \in Batch!Rows /\ Row.as \notin Outcomes
  BY DEF Batch!Plain, Batch!Rows, Outcomes, Batch!Verdicts
<1>. HIDE DEF Row
<1>5. /\ batchRow' \in [Batches -> [Batch!Requests -> Batch!Rows]]
      /\ \A a \in Batches : a # b => batchRow'[a] = batchRow[a]
      /\ \A k \in Batch!Requests : batchRow'[b][k] \in {batchRow[b][k], Row}
  BY <1>1, <1>2, <1>4 DEF Batch!TypeOK
<1>6. \A k \in Batch!Requests : batchRow'[b][k].as \notin Outcomes
  BY <1>2, <1>4, <1>5, NoOutcomeYet
<1>7. Collected' /\ Told'
  BY <1>1, <1>2, <1>3, <1>5, <1>6, SubmitterKeeps
<1>8. Batch!TypeOK'
  BY <1>1, <1>2, <1>3, <1>5 DEF Batch!TypeOK
<1>9. Named' /\ Sendable'
  BY <1>1, <1>3 DEF BatchInv, Named, Sendable, Closed
<1>. QED
  BY <1>7, <1>8, <1>9 DEF BatchInv

\* What becomes of a create request that was sent.
LEMMA CreateBecomes ==
  ASSUME Batch!TypeOK, NEW b \in Batches, Batch!Create(b)
  PROVE  /\ pc[b] = "create" /\ creates' = [creates EXCEPT ![b] = @ + 1]
         /\ UNCHANGED <<batchRow, batchId, results, cpc, id, ids, found>>
         /\ turn' \in [Batches -> Batch!Requests]
         /\ pc' \in [Batches -> {"new", "refused", "begin", "upload", "create", "fail", "failed",
                               "name", "submitted", "unread", "dead"}]
         /\ \A a \in Batches : a # b => pc'[a] = pc[a]
         /\ pc'[b] \in {"name", "unread", "fail"}
              \/ (pc'[b] = "create" /\ creates[b] + 1 < BatchAttempts)
         /\ \/ accepted' = accepted
            \/ /\ accepted' = accepted \cup {<<b, creates[b] + 1>>}
               /\ ~AnswersLost => pc'[b] \in {"name", "unread"}
<1>1. pc[b] = "create" /\ creates' = [creates EXCEPT ![b] = @ + 1]
      /\ UNCHANGED <<batchRow, batchId, results, cpc, id, ids, found>>
  BY DEF Batch!Create, Batch!rowVars, Batch!handVars
<1>. DEFINE Went ==
       /\ turn' \in [Batches -> Batch!Requests]
       /\ pc' \in [Batches -> {"new", "refused", "begin", "upload", "create", "fail", "failed",
                             "name", "submitted", "unread", "dead"}]
       /\ \A a \in Batches : a # b => pc'[a] = pc[a]
       /\ pc'[b] \in {"name", "unread", "fail"}
            \/ (pc'[b] = "create" /\ creates[b] + 1 < BatchAttempts)
<1>2. ASSUME NEW place, place \in {"name", "unread", "fail"}, Batch!Goto(b, place)
      PROVE  Went /\ pc'[b] = place
  BY <1>2, Goes
<1>3. ASSUME Batch!RetryOrFail(b) PROVE Went
  <2>1. CASE creates[b] + 1 < BatchAttempts
    BY <1>1, <1>3, <2>1 DEF Batch!RetryOrFail, Batch!TypeOK
  <2>2. CASE ~(creates[b] + 1 < BatchAttempts)
    BY <1>2, <1>3, <2>2 DEF Batch!RetryOrFail
  <2>. QED
    BY <2>1, <2>2
<1>. HIDE DEF Went
<1>4. CASE accepted' = accepted /\ (Batch!Goto(b, "fail") \/ Batch!RetryOrFail(b))
  BY <1>1, <1>2, <1>3, <1>4 DEF Went
<1>5. CASE /\ accepted' = accepted \cup {<<b, creates[b] + 1>>}
           /\ \/ Batch!Goto(b, "name") \/ Batch!Goto(b, "unread")
              \/ AnswersLost /\ Batch!RetryOrFail(b)
  BY <1>1, <1>2, <1>3, <1>5 DEF Went
<1>. QED
  BY <1>4, <1>5 DEF Batch!Create

LEMMA BatchCreates ==
  ASSUME BatchInv, NEW b \in Batches, Batch!Create(b)
  PROVE  BatchInv'
<1>1. Batch!TypeOK /\ pc[b] \notin Closed /\ pc[b] = "create"
  BY CreateBecomes DEF BatchInv, Closed
<1>2. /\ creates' = [creates EXCEPT ![b] = @ + 1]
      /\ UNCHANGED <<batchRow, batchId, results, cpc, id, ids, found>>
      /\ turn' \in [Batches -> Batch!Requests]
      /\ pc' \in [Batches -> {"new", "refused", "begin", "upload", "create", "fail", "failed",
                            "name", "submitted", "unread", "dead"}]
      /\ \A a \in Batches : a # b => pc'[a] = pc[a]
      /\ pc'[b] \in {"name", "unread", "fail"}
           \/ (pc'[b] = "create" /\ creates[b] + 1 < BatchAttempts)
      /\ accepted' \in {accepted, accepted \cup {<<b, creates[b] + 1>>}}
  BY <1>1, CreateBecomes
<1>3. /\ creates[b] \in Nat /\ creates[b] < BatchAttempts
      /\ creates[b] + 1 \in 1 .. BatchAttempts
  BY <1>1, BatchConstants DEF BatchInv, Sendable, Batch!TypeOK
<1>4. creates'[b] = creates[b] + 1 /\ \A a \in Batches : a # b => creates'[a] = creates[a]
  BY <1>1, <1>2 DEF Batch!TypeOK
<1>5. Batch!TypeOK'
  <2>1. creates' \in [Batches -> 0 .. BatchAttempts]
    BY <1>1, <1>2, <1>3, BatchConstants DEF Batch!TypeOK
  <2>2. accepted' \subseteq Batch!BatchIds
    BY <1>1, <1>2, <1>3 DEF Batch!TypeOK, Batch!BatchIds
  <2>. QED
    BY <1>1, <1>2, <2>1, <2>2 DEF Batch!TypeOK
<1>6. \A k \in Batch!Requests : batchRow'[b][k].as \notin Outcomes
  BY <1>1, <1>2, NoOutcomeYet
<1>7. Collected' /\ Told'
  BY <1>1, <1>2, <1>4, <1>6, SubmitterKeeps
<1>8. Sendable'
  BY <1>2, <1>3, <1>4 DEF BatchInv, Sendable
<1>9. Named'
  <2>1. \A k \in Batch!Requests : batchId[b][k] = Batch!NoId
    BY <1>1 DEF BatchInv, Named, Closed
  <2>. QED
    BY <1>2, <1>4, <2>1 DEF BatchInv, Named
<1>. QED
  BY <1>5, <1>7, <1>8, <1>9 DEF BatchInv

LEMMA BatchNames ==
  ASSUME BatchInv, NEW b \in Batches, Batch!NameRow(b)
  PROVE  BatchInv'
<1>1. /\ pc[b] = "name" /\ batchId' = [batchId EXCEPT ![b][turn[b]] = <<b, creates[b]>>]
      /\ Batch!Turn(b, "submitted")
      /\ UNCHANGED <<batchRow, creates, accepted, results, cpc, id, ids, found>>
  BY DEF Batch!NameRow, Batch!vendorVars, Batch!handVars
<1>2. Batch!TypeOK /\ pc[b] \notin Closed
  BY <1>1 DEF BatchInv, Closed
<1>3. /\ turn' \in [Batches -> Batch!Requests]
      /\ pc' \in [Batches -> {"new", "refused", "begin", "upload", "create", "fail", "failed",
                            "name", "submitted", "unread", "dead"}]
      /\ \A a \in Batches : a # b => pc'[a] = pc[a]
      /\ pc'[b] \in {"name", "submitted"}
  BY <1>1, <1>2, Turns
<1>4. <<b, creates[b]>> \in Batch!BatchIds
  <2>1. creates[b] \in 1 .. BatchAttempts
    BY <1>1, <1>2, BatchConstants DEF BatchInv, Sendable, Batch!TypeOK
  <2>. QED
    BY <2>1 DEF Batch!BatchIds
<1>5. /\ batchId' \in [Batches -> [Batch!Requests -> Batch!BatchIds \cup {Batch!NoId}]]
      /\ \A a \in Batches : a # b => batchId'[a] = batchId[a]
      /\ \A k \in Batch!Requests : batchId'[b][k] \in {batchId[b][k], <<b, creates[b]>>}
  BY <1>1, <1>2, <1>4 DEF Batch!TypeOK
<1>6. \A k \in Batch!Requests : batchRow'[b][k].as \notin Outcomes
  BY <1>1, <1>2, NoOutcomeYet
<1>7. Collected' /\ Told'
  BY <1>1, <1>2, <1>3, <1>5, <1>6, SubmitterKeeps
<1>8. Batch!TypeOK'
  BY <1>1, <1>2, <1>3, <1>5 DEF Batch!TypeOK
<1>9. Sendable'
  BY <1>1, <1>3 DEF BatchInv, Sendable
<1>10. Named'
  BY <1>1, <1>3, <1>5 DEF BatchInv, Named, Closed
<1>. QED
  BY <1>7, <1>8, <1>9, <1>10 DEF BatchInv

\* A file is written once, and read only when it is.
LEMMA BatchEnds ==
  ASSUME BatchInv, NEW j \in Batch!BatchIds, Batch!End(j)
  PROVE  BatchInv'
<1>1. PICK keyed \in SUBSET Batch!Requests,
           verdict \in [Batch!Requests -> Batch!Verdicts \cup {"absent"}] :
        results' = [results EXCEPT ![j] = [ended |-> TRUE, keyed |-> keyed, verdict |-> verdict]]
  <2>1. PICK keyed \in IF Keyless THEN SUBSET Batch!Requests ELSE {Batch!Requests},
             verdict \in [Batch!Requests ->
                           Batch!Verdicts \cup IF MayOmit THEN {"absent"} ELSE {}] :
          results' = [results EXCEPT ![j] = [ended |-> TRUE, keyed |-> keyed, verdict |-> verdict]]
    BY DEF Batch!End
  <2>2. keyed \in SUBSET Batch!Requests
    BY <2>1
  <2>3. verdict \in [Batch!Requests -> Batch!Verdicts \cup {"absent"}]
    BY <2>1
  <2>. QED
    BY <2>1, <2>2, <2>3
<1>2. /\ ~results[j].ended
      /\ UNCHANGED <<batchRow, batchId, pc, turn, creates, accepted, cpc, id, ids, found>>
  BY DEF Batch!End, Batch!rowVars, Batch!submitVars, Batch!handVars
<1>3. Batch!TypeOK
  BY DEF BatchInv
<1>4. \A i : i # j => results'[i] = results[i]
  BY <1>1
<1>5. Batch!TypeOK'
  BY <1>1, <1>2, <1>3 DEF Batch!TypeOK
<1>6. \A i : /\ NamedIn(i)' = NamedIn(i) /\ Batch!RowsForBatch(i)' = Batch!RowsForBatch(i)
             /\ i # j => Fate(i)' = Fate(i) /\ Placeable(i)' = Placeable(i)
  <2>1. ASSUME NEW i
        PROVE NamedIn(i)' = NamedIn(i) /\ Batch!RowsForBatch(i)' = Batch!RowsForBatch(i)
    <3>1. NamedIn(i)' = NamedIn(i)
      BY <1>2 DEF NamedIn
    <3>. QED
      BY <1>2, <3>1 DEF Batch!RowsForBatch, NamedIn
  <2>2. ASSUME NEW i, i # j PROVE Fate(i)' = Fate(i) /\ Placeable(i)' = Placeable(i)
    BY <1>2, <1>4, <2>2, FateStays
  <2>. QED
    BY <2>1, <2>2
<1>7. \A c \in Collectors : cpc[c] \in {"complete", "done"} => id[c] # j
  BY <1>2 DEF BatchInv, Collected, CollectedBy
<1>8. Collected'
  BY <1>2, <1>4, <1>6, <1>7 DEF BatchInv, Collected, CollectedBy
<1>9. ASSUME NEW b \in Batches, NEW k \in Batch!Requests, batchRow[b][k].as \in Outcomes
      PROVE  /\ results'[<<b, creates[b]>>].ended
             /\ batchRow[b][k] = Fate(<<b, creates[b]>>)'[k]
  <2>1. results[<<b, creates[b]>>].ended /\ batchRow[b][k] = Fate(<<b, creates[b]>>)[k]
    BY <1>9 DEF BatchInv, Told
  <2>2. <<b, creates[b]>> # j
    BY <1>2, <2>1
  <2>. QED
    BY <1>2, <1>4, <1>6, <2>1, <2>2
<1>10. Told'
  BY <1>2, <1>9 DEF BatchInv, Told
<1>11. Named' /\ Sendable'
  BY <1>2 DEF BatchInv, Named, Sendable
<1>. QED
  BY <1>5, <1>8, <1>10, <1>11 DEF BatchInv

\* What a collector's step leaves alone.
LEMMA CollectorKeeps ==
  ASSUME UNCHANGED <<batchId, results>>, NEW i
  PROVE  /\ NamedIn(i)' = NamedIn(i) /\ Batch!RowsForBatch(i)' = Batch!RowsForBatch(i)
         /\ Fate(i)' = Fate(i) /\ Placeable(i)' = Placeable(i)
<1>1. results'[i] = results[i] /\ batchId'[i[1]] = batchId[i[1]]
  OBVIOUS
<1>. QED
  BY <1>1, FateStays

LEMMA BatchCollects ==
  ASSUME BatchInv, NEW c \in Collectors,
         (\E i \in Batch!BatchIds : Batch!Start(c, i)) \/ Batch!Fetch(c) \/ Batch!CollectorStops(c)
  PROVE  BatchInv'
<1>1. /\ UNCHANGED <<batchRow, batchId, pc, turn, creates, accepted, results>>
      /\ \A d \in Collectors : d # c =>
           cpc'[d] = cpc[d] /\ id'[d] = id[d] /\ ids'[d] = ids[d] /\ found'[d] = found[d]
  BY DEF Batch!Start, Batch!Fetch, Batch!CollectorStops, BatchInv, Batch!TypeOK,
         Batch!rowVars, Batch!submitVars, Batch!vendorVars
<1>2. Batch!TypeOK
  BY DEF BatchInv
<1>3. \A i : /\ NamedIn(i)' = NamedIn(i) /\ Batch!RowsForBatch(i)' = Batch!RowsForBatch(i)
             /\ Fate(i)' = Fate(i) /\ Placeable(i)' = Placeable(i)
  BY <1>1, CollectorKeeps
<1>4. Named' /\ Sendable' /\ Told'
  BY <1>1, <1>3 DEF BatchInv, Named, Sendable, Told
<1>5. \A d \in Collectors : CollectedBy(d)
  BY DEF BatchInv, Collected
<1>6. ASSUME NEW d \in Collectors, d # c PROVE CollectedBy(d)'
  <2>1. CollectedBy(d)
    BY <1>5
  <2>2. cpc'[d] = cpc[d] /\ id'[d] = id[d] /\ ids'[d] = ids[d] /\ found'[d] = found[d]
    BY <1>1, <1>6
  <2>3. UNCHANGED <<batchRow, pc, creates, results>>
    BY <1>1
  <2>. QED
    BY <1>3, <2>1, <2>2, <2>3 DEF CollectedBy
<1>7. ASSUME NEW i \in Batch!BatchIds, Batch!Start(c, i) PROVE Batch!TypeOK' /\ CollectedBy(c)'
  <2>1. /\ pc[i[1]] \in Closed /\ Batch!RowsForBatch(i) # <<>> /\ found' = found
        /\ id' = [id EXCEPT ![c] = i] /\ ids' = [ids EXCEPT ![c] = Batch!RowsForBatch(i)]
        /\ cpc' = [cpc EXCEPT ![c] = "poll"]
    BY <1>7 DEF Batch!Start, Closed
  <2>2. PICK k \in NamedIn(i) : TRUE
    BY <2>1, BatchLists
  <2>3. i[1] \in Batches /\ i # Batch!NoId
    BY DEF Batch!BatchIds, Batch!NoId
  <2>4. i = <<i[1], creates[i[1]]>>
    BY <2>2, <2>3 DEF BatchInv, Named, NamedIn
  <2>5. Batch!RowsForBatch(i) \in Seq(Batch!Requests)
    <3>1. Batch!RowsForBatch(i) \in Seq(NamedIn(i)) /\ NamedIn(i) \subseteq Batch!Requests
      BY BatchLists DEF NamedIn
    <3>. QED
      BY <3>1
  <2>6. id'[c] = i /\ ids'[c] = Batch!RowsForBatch(i) /\ cpc'[c] = "poll"
    BY <1>2, <2>1 DEF Batch!TypeOK
  <2>7. Batch!TypeOK'
    BY <1>1, <1>2, <2>1, <2>5 DEF Batch!TypeOK
  <2>. QED
    BY <1>1, <1>3, <2>1, <2>2, <2>4, <2>6, <2>7 DEF CollectedBy
<1>8. ASSUME Batch!Fetch(c) PROVE Batch!TypeOK' /\ CollectedBy(c)'
  <2>. DEFINE i == id[c]
  <2>1. cpc[c] = "poll" /\ results[i].ended /\ UNCHANGED <<id, ids>>
    BY <1>8 DEF Batch!Fetch
  <2>2. /\ i \in Batch!BatchIds /\ pc[i[1]] \in Closed /\ NamedIn(i) # {}
        /\ i = <<i[1], creates[i[1]]>> /\ ids[c] = Batch!RowsForBatch(i)
    BY <1>5, <2>1 DEF CollectedBy
  <2>3. CASE ~Placeable(i)
    <3>1. cpc' = [cpc EXCEPT ![c] = "raised"] /\ UNCHANGED found
      BY <1>8, <2>2, <2>3 DEF Batch!Fetch, Placeable
    <3>. QED
      BY <1>1, <1>2, <2>1, <3>1 DEF Batch!TypeOK, CollectedBy
  <2>4. CASE Placeable(i)
    <3>1. cpc' = [cpc EXCEPT ![c] = "complete"] /\ found' = [found EXCEPT ![c] = Batch!ByCustomId(c)]
      BY <1>8, <2>2, <2>4 DEF Batch!Fetch, Placeable
    <3>2. Batch!ByCustomId(c) = Fate(i)
      BY <2>2 DEF Batch!ByCustomId, Fate
    <3>3. Fate(i) \in [Batch!Requests -> Batch!Rows]
      <4>1. \A k \in Batch!Requests : Fate(i)[k] \in Batch!Rows
        BY <1>2, <2>2, FateIs
      <4>2. Fate(i) = [k \in Batch!Requests |-> Fate(i)[k]]
        BY DEF Fate
      <4>. QED
        BY <4>1, <4>2
    <3>4. Batch!TypeOK'
      BY <1>1, <1>2, <2>1, <3>1, <3>2, <3>3 DEF Batch!TypeOK
    <3>5. cpc'[c] = "complete" /\ found'[c] = Fate(i)
      BY <1>2, <3>1, <3>2 DEF Batch!TypeOK
    <3>6. \A k \in NamedIn(i) : \E n \in DOMAIN ids[c] : ids[c][n] = k
      BY <2>2, BatchLists
    <3>7. ids[c] # <<>>
      BY <2>2, <3>6
    <3>. QED
      BY <1>1, <1>3, <2>1, <2>2, <2>4, <3>4, <3>5, <3>6, <3>7 DEF CollectedBy
  <2>. QED
    BY <2>3, <2>4
<1>9. ASSUME Batch!CollectorStops(c) PROVE Batch!TypeOK' /\ CollectedBy(c)'
  <2>1. cpc' = [cpc EXCEPT ![c] = "stopped"] /\ UNCHANGED <<id, ids, found>>
    BY <1>9 DEF Batch!CollectorStops
  <2>. QED
    BY <1>1, <1>2, <2>1 DEF Batch!TypeOK, CollectedBy
<1>10. Collected'
  <2>1. \A d \in Collectors : CollectedBy(d)'
    BY <1>6, <1>7, <1>8, <1>9
  <2>. QED
    BY <2>1 DEF Collected, CollectedBy
<1>. QED
  BY <1>4, <1>7, <1>8, <1>9, <1>10 DEF BatchInv

\* The row a collector is at gets what the file gives it, which is what it has if it has an
\* outcome.
Completing(c, b, i, k) ==
  /\ i = id[c] /\ i = <<b, creates[b]>> /\ pc[b] \in Closed /\ results[i].ended
  /\ k = Head(ids[c]) /\ ids[c] \in Seq(Batch!Requests) /\ ids[c] # <<>>
  /\ batchRow' = [batchRow EXCEPT ![b][k] = Fate(i)[k]]
  /\ Fate(i)[k] \in Batch!Rows /\ Fate(i)[k].as \in Outcomes
  /\ ids' = [ids EXCEPT ![c] = Tail(@)]
  /\ cpc[c] = "complete"
  /\ cpc' = [cpc EXCEPT ![c] = IF Len(ids[c]) = 1 THEN "done" ELSE "complete"]
  /\ UNCHANGED <<batchId, pc, turn, creates, accepted, results, id, found>>
LEMMA RowCompletes ==
  ASSUME BatchInv, NEW c \in Collectors, Batch!CompleteRow(c)
  PROVE  \E b \in Batches, i \in Batch!BatchIds, k \in Batch!Requests : Completing(c, b, i, k)
<1>. DEFINE i == id[c]
            b == i[1]
            k == Head(ids[c])
<1>1. /\ cpc[c] = "complete" /\ ids' = [ids EXCEPT ![c] = Tail(@)]
      /\ batchRow' = [batchRow EXCEPT ![b][k] = found[c][k]]
      /\ cpc' = [cpc EXCEPT ![c] = IF Len(ids[c]) = 1 THEN "done" ELSE "complete"]
      /\ UNCHANGED <<batchId, pc, turn, creates, accepted, results, id, found>>
  BY DEF Batch!CompleteRow, Batch!Outcome, Batch!submitVars, Batch!vendorVars
<1>2. /\ i \in Batch!BatchIds /\ pc[b] \in Closed /\ i = <<b, creates[b]>>
      /\ results[i].ended /\ found[c] = Fate(i) /\ ids[c] # <<>>
  BY <1>1 DEF BatchInv, Collected, CollectedBy
<1>3. ids[c] \in Seq(Batch!Requests) /\ Batch!TypeOK
  BY DEF BatchInv, Batch!TypeOK
<1>4. k \in Batch!Requests /\ b \in Batches
  BY <1>2, <1>3 DEF Batch!BatchIds
<1>5. Fate(i)[k] \in Batch!Rows /\ Fate(i)[k].as \in Outcomes
  BY <1>2, <1>3, <1>4, FateIs
<1>6. batchRow' = [batchRow EXCEPT ![b][k] = Fate(i)[k]]
  BY <1>1, <1>2
<1>7. Completing(c, b, i, k)
  BY <1>1, <1>2, <1>3, <1>5, <1>6 DEF Completing
<1>. QED
  BY <1>2, <1>4, <1>7

LEMMA BatchCompletes ==
  ASSUME BatchInv, NEW c \in Collectors, Batch!CompleteRow(c)
  PROVE  BatchInv'
<1>0. PICK b \in Batches, i \in Batch!BatchIds, k \in Batch!Requests : Completing(c, b, i, k)
  BY RowCompletes
<1>1. /\ i = id[c] /\ i = <<b, creates[b]>> /\ pc[b] \in Closed /\ results[i].ended
      /\ k = Head(ids[c]) /\ ids[c] \in Seq(Batch!Requests) /\ ids[c] # <<>>
      /\ batchRow' = [batchRow EXCEPT ![b][k] = Fate(i)[k]]
      /\ Fate(i)[k] \in Batch!Rows /\ Fate(i)[k].as \in Outcomes
      /\ ids' = [ids EXCEPT ![c] = Tail(@)]
      /\ cpc[c] = "complete"
      /\ cpc' = [cpc EXCEPT ![c] = IF Len(ids[c]) = 1 THEN "done" ELSE "complete"]
      /\ UNCHANGED <<batchId, pc, turn, creates, accepted, results, id, found>>
  BY <1>0 DEF Completing
<1>2. Batch!TypeOK
  BY DEF BatchInv
<1>3. \A j : /\ NamedIn(j)' = NamedIn(j) /\ Batch!RowsForBatch(j)' = Batch!RowsForBatch(j)
             /\ Fate(j)' = Fate(j) /\ Placeable(j)' = Placeable(j)
  BY <1>1, CollectorKeeps
<1>4. \A a \in Batches, l \in Batch!Requests :
        /\ a # b \/ l # k => batchRow'[a][l] = batchRow[a][l]
        /\ a = b /\ l = k => batchRow'[a][l] = Fate(i)[k]
  BY <1>1, <1>2 DEF Batch!TypeOK
<1>5. /\ \A d \in Collectors : d # c => cpc'[d] = cpc[d] /\ ids'[d] = ids[d]
      /\ ids'[c] = Tail(ids[c]) /\ cpc'[c] = IF Len(ids[c]) = 1 THEN "done" ELSE "complete"
  BY <1>1, <1>2 DEF Batch!TypeOK
<1>6. Batch!TypeOK'
  <2>1. batchRow' \in [Batches -> [Batch!Requests -> Batch!Rows]]
    BY <1>1, <1>2 DEF Batch!TypeOK
  <2>2. Tail(ids[c]) \in Seq(Batch!Requests)
    BY <1>1
  <2>3. ids' \in [Collectors -> Seq(Batch!Requests)]
    BY <1>1, <1>2, <2>2 DEF Batch!TypeOK
  <2>4. cpc' \in [Collectors -> {"new", "poll", "complete", "done", "raised", "stopped"}]
    BY <1>1, <1>2 DEF Batch!TypeOK
  <2>. QED
    BY <1>1, <1>2, <2>1, <2>3, <2>4 DEF Batch!TypeOK
<1>7. Named' /\ Sendable'
  BY <1>1 DEF BatchInv, Named, Sendable
<1>8. Told'
  <2>1. SUFFICES ASSUME NEW a \in Batches, NEW l \in Batch!Requests,
                        batchRow'[a][l].as \in Outcomes
                 PROVE  /\ pc'[a] \in Closed /\ <<a, creates'[a]>> \in Batch!BatchIds
                        /\ results'[<<a, creates'[a]>>].ended
                        /\ batchRow'[a][l] = Fate(<<a, creates[a]>>)'[l]
    BY DEF Told
  <2>2. CASE a = b /\ l = k
    <3>1. Fate(<<a, creates[a]>>)' = Fate(<<a, creates[a]>>)
      BY <1>1, <1>3
    <3>2. batchRow'[a][l] = Fate(i)[l]
      BY <1>4, <2>2
    <3>3. /\ i = <<b, creates[b]>> /\ pc[b] \in Closed /\ results[i].ended
          /\ UNCHANGED <<pc, creates, results>>
      BY <1>1
    <3>4. i = <<a, creates[a]>>
      BY <2>2, <3>3
    <3>. QED
      BY <2>2, <3>1, <3>2, <3>3, <3>4
  <2>3. CASE a # b \/ l # k
    <3>1. batchRow'[a][l] = batchRow[a][l]
      BY <1>4, <2>3
    <3>2. /\ pc[a] \in Closed /\ <<a, creates[a]>> \in Batch!BatchIds
          /\ results[<<a, creates[a]>>].ended /\ batchRow[a][l] = Fate(<<a, creates[a]>>)[l]
      BY <2>1, <3>1 DEF BatchInv, Told
    <3>3. Fate(<<a, creates[a]>>)' = Fate(<<a, creates[a]>>)
      BY <1>1, <1>3
    <3>. QED
      BY <1>1, <3>1, <3>2, <3>3
  <2>. QED
    BY <2>2, <2>3
<1>9. \A a \in Batches, l \in Batch!Requests :
        batchRow[a][l].as \in Outcomes => batchRow'[a][l].as \in Outcomes
  BY <1>1, <1>4
<1>10. \A j \in Batch!BatchIds : j[1] \in Batches /\ NamedIn(j) \subseteq Batch!Requests
  BY DEF Batch!BatchIds, NamedIn
<1>11. ASSUME NEW d \in Collectors, d # c, cpc[d] \in {"complete", "done"}
       PROVE  \A l \in NamedIn(id[d]) :
                \/ batchRow'[id[d][1]][l].as \in Outcomes
                \/ cpc[d] = "complete" /\ \E n \in DOMAIN ids[d] : ids[d][n] = l
  <2>1. id[d] \in Batch!BatchIds
    BY <1>11 DEF BatchInv, Collected, CollectedBy
  <2>2. \A l \in NamedIn(id[d]) :
          \/ batchRow[id[d][1]][l].as \in Outcomes
          \/ cpc[d] = "complete" /\ \E n \in DOMAIN ids[d] : ids[d][n] = l
    BY <1>11 DEF BatchInv, Collected, CollectedBy
  <2>. QED
    BY <1>9, <1>10, <2>1, <2>2
<1>12. ASSUME NEW l \in NamedIn(i)
       PROVE  \/ batchRow'[b][l].as \in Outcomes
              \/ cpc'[c] = "complete" /\ \E n \in DOMAIN ids'[c] : ids'[c][n] = l
  <2>1. l \in Batch!Requests /\ i[1] = b
    BY <1>1, <1>10
  <2>2. \/ batchRow[b][l].as \in Outcomes
        \/ \E n \in DOMAIN ids[c] : ids[c][n] = l
    BY <1>1, <2>1 DEF BatchInv, Collected, CollectedBy
  <2>3. CASE batchRow[b][l].as \in Outcomes
    BY <1>9, <2>1, <2>3
  <2>4. CASE l = k
    BY <1>1, <1>4, <2>1, <2>4
  <2>5. ASSUME NEW n \in DOMAIN ids[c], ids[c][n] = l, l # k
        PROVE  cpc'[c] = "complete" /\ \E m \in DOMAIN ids'[c] : ids'[c][m] = l
    <3>1. n \in 2 .. Len(ids[c]) /\ Len(ids[c]) # 1
      BY <1>1, <2>5
    <3>2. n - 1 \in DOMAIN Tail(ids[c]) /\ Tail(ids[c])[n - 1] = ids[c][n]
      BY <1>1, <3>1
    <3>. QED
      BY <1>5, <2>5, <3>1, <3>2
  <2>. QED
    BY <2>2, <2>3, <2>4, <2>5
<1>13. cpc'[c] = "complete" => ids'[c] # <<>>
  <2>1. SUFFICES ASSUME Len(ids[c]) # 1 PROVE Tail(ids[c]) # <<>>
    BY <1>5
  <2>2. Len(ids[c]) \in Nat \ {0}
    BY <1>1, EmptySeq
  <2>3. Len(Tail(ids[c])) = Len(ids[c]) - 1
    BY <1>1, HeadTailProperties
  <2>4. Len(Tail(ids[c])) # 0
    BY <2>1, <2>2, <2>3
  <2>. QED
    BY <2>4, EmptySeq
<1>14. Collected'
  <2>1. SUFFICES ASSUME NEW d \in Collectors PROVE CollectedBy(d)'
    BY DEF Collected
  <2>2. CASE d # c
    <3>1. CollectedBy(d)
      BY DEF BatchInv, Collected
    <3>2. /\ NamedIn(id[d])' = NamedIn(id[d]) /\ Fate(id[d])' = Fate(id[d])
          /\ Placeable(id[d])' = Placeable(id[d])
          /\ Batch!RowsForBatch(id[d])' = Batch!RowsForBatch(id[d])
      BY <1>1, <1>3
    <3>3. UNCHANGED <<cpc[d], ids[d], id[d], found[d], pc, creates, results>>
      BY <1>1, <1>5, <2>2
    <3>. QED
      BY <1>11, <2>2, <3>1, <3>2, <3>3 DEF CollectedBy
  <2>3. CASE d = c
    <3>1. /\ id[c] \in Batch!BatchIds /\ pc[id[c][1]] \in Closed /\ NamedIn(id[c]) # {}
          /\ id[c] = <<id[c][1], creates[id[c][1]]>> /\ id[c][1] = b
          /\ results[id[c]].ended /\ found[c] = Fate(id[c]) /\ Placeable(id[c])
      <4>1. CollectedBy(c) /\ cpc[c] = "complete" /\ id[c] = <<b, creates[b]>>
        BY <1>1 DEF BatchInv, Collected
      <4>2. id[c][1] = b
        BY <4>1
      <4>. QED
        BY <4>1, <4>2 DEF CollectedBy
    <3>2. cpc'[c] \in {"complete", "done"}
      BY <1>5
    <3>3. /\ NamedIn(id[c])' = NamedIn(id[c]) /\ Fate(id[c])' = Fate(id[c])
          /\ Placeable(id[c])' = Placeable(id[c])
      BY <1>1, <1>3
    <3>4. UNCHANGED <<id[c], found[c], pc, creates, results>> /\ i = id[c]
      BY <1>1
    <3>. QED
      BY <1>12, <1>13, <2>3, <3>1, <3>2, <3>3, <3>4 DEF CollectedBy
  <2>. QED
    BY <2>2, <2>3
<1>. QED
  BY <1>6, <1>7, <1>8, <1>14 DEF BatchInv

LEMMA BatchSteps ==
  ASSUME BatchInv, [Batch!Next]_batchVars
  PROVE  BatchInv'
<1>1. CASE UNCHANGED batchVars
  <2>1. Batch!TypeOK' /\ Named' /\ Sendable'
    BY <1>1 DEF BatchInv, Batch!TypeOK, Named, Sendable, batchVars
  <2>2. \A i : /\ NamedIn(i)' = NamedIn(i) /\ Batch!RowsForBatch(i)' = Batch!RowsForBatch(i)
               /\ Fate(i)' = Fate(i) /\ Placeable(i)' = Placeable(i)
    BY <1>1, CollectorKeeps DEF batchVars
  <2>3. Collected' /\ Told'
    BY <1>1, <2>2 DEF BatchInv, Collected, CollectedBy, Told, batchVars
  <2>. QED
    BY <2>1, <2>3 DEF BatchInv
<1>2. CASE Batch!Next
  BY <1>2, BatchChecks, BatchBeginsOrFails, BatchCreates, BatchNames, BatchEnds, BatchCollects,
     BatchCompletes
  DEF Batch!Next
<1>. QED
  BY <1>1, <1>2

\* Whoever collects a batch, twice or at once, and wherever a process stops: a row that has
\* its outcome keeps it.
THEOREM OutcomesAreFinal == PartsSpec => OutcomeIsFinal
<1>. DEFINE Inv == part = "batch" => BatchInv
<1>1. PartsInit => Inv
  BY EachPartStarts, BatchStarts
<1>2. Inv /\ [PartsNext]_partsVars => Inv'
  BY OnePartActs, BatchSteps
<1>3. Inv /\ [PartsNext]_partsVars => [part = "batch" => Batch!OutcomeStays]_partsVars
  <2>1. SUFFICES ASSUME Inv, [PartsNext]_partsVars, part = "batch" PROVE Batch!OutcomeStays
    OBVIOUS
  <2>2. BatchInv /\ [Batch!Next]_batchVars
    BY <2>1, OnePartActs
  <2>3. SUFFICES ASSUME NEW b \in Batches, NEW k \in Batch!Requests,
                        batchRow[b][k].as \in Outcomes
                 PROVE  batchRow'[b][k] = batchRow[b][k]
    BY DEF Batch!OutcomeStays, Outcomes
  <2>4. pc[b] \in Closed /\ batchRow[b][k] = Fate(<<b, creates[b]>>)[k]
    BY <2>2, <2>3 DEF BatchInv, Told
  <2>5. ASSUME NEW c \in Collectors, Batch!CompleteRow(c) PROVE batchRow'[b][k] = batchRow[b][k]
    <3>0. PICK a \in Batches, i \in Batch!BatchIds, l \in Batch!Requests : Completing(c, a, i, l)
      BY <2>2, <2>5, RowCompletes
    <3>1. i = <<a, creates[a]>> /\ batchRow' = [batchRow EXCEPT ![a][l] = Fate(i)[l]]
      BY <3>0 DEF Completing
    <3>2. batchRow \in [Batches -> [Batch!Requests -> Batch!Rows]]
      BY <2>2 DEF BatchInv, Batch!TypeOK
    <3>3. CASE a = b /\ l = k
      BY <2>4, <3>1, <3>2, <3>3
    <3>4. CASE a # b \/ l # k
      BY <3>1, <3>2, <3>4
    <3>. QED
      BY <3>3, <3>4
  <2>6. ASSUME NEW a \in Batches, Batch!BeginRow(a) \/ Batch!FailRow(a)
        PROVE  batchRow'[b][k] = batchRow[b][k]
    <3>1. a # b
      BY <2>4, <2>6 DEF Batch!BeginRow, Batch!FailRow, Closed
    <3>. QED
      BY <2>2, <2>6, <3>1 DEF Batch!BeginRow, Batch!FailRow, BatchInv, Batch!TypeOK
  <2>7. CASE UNCHANGED batchRow
    BY <2>7
  <2>. QED
    BY <2>2, <2>5, <2>6, <2>7
    DEF Batch!Next, Batch!Check, Batch!Upload, Batch!Create, Batch!NameRow, Batch!SubmitterStops,
        Batch!End, Batch!Start, Batch!Fetch, Batch!CollectorStops, Batch!rowVars, batchVars
<1>. QED
  BY <1>1, <1>2, <1>3, PTL DEF PartsSpec, OutcomeIsFinal

-----------------------------------------------------------------------------
(* What the vendor bills is in the ledger.                                 *)

\* The rows are begun one by one, and all are before anything is sent.
Begun ==
  \A b \in Batches, k \in Batch!Requests :
    \/ pc[b] = "begin" /\ k < turn[b]
    \/ pc[b] \in {"upload", "create"}
    => batchRow[b][k].as \notin Open

\* An accepted batch is of the last create request, and the submitter has not failed.
Billed ==
  \A i \in accepted :
    /\ pc[i[1]] \in {"name", "unread"} \cup Closed /\ i = <<i[1], creates[i[1]]>>
    /\ \A k \in Batch!Requests : batchRow[i[1]][k].as \notin Open

BilledInv == BatchInv /\ Begun /\ Billed

\* A step that touches neither what is begun nor what is billed.
LEMMA BilledStays ==
  ASSUME BilledInv, NEW b \in Batches, BatchInv',
         \A a \in Batches : a # b => pc'[a] = pc[a] /\ turn'[a] = turn[a] /\ batchRow'[a] = batchRow[a],
         \A k \in Batch!Requests :
           batchRow[b][k].as \notin Open => batchRow'[b][k].as \notin Open,
         \A k \in Batch!Requests :
           (pc'[b] = "begin" /\ k < turn'[b]) \/ pc'[b] \in {"upload", "create"}
             => batchRow'[b][k].as \notin Open,
         pc[b] \in {"name", "unread"} \cup Closed => pc'[b] \in {"name", "unread"} \cup Closed,
         UNCHANGED <<creates, accepted>>
  PROVE  BilledInv'
<1>1. \A i \in accepted : i[1] \in Batches
  BY DEF BilledInv, BatchInv, Batch!TypeOK, Batch!BatchIds
<1>2. Begun'
  BY DEF BilledInv, Begun
<1>3. Billed'
  BY <1>1 DEF BilledInv, Billed
<1>. QED
  BY <1>2, <1>3 DEF BilledInv

LEMMA BilledSteps ==
  ASSUME ~AnswersLost, BilledInv, [Batch!Next]_batchVars
  PROVE  BilledInv'
<1>1. Batch!TypeOK /\ BatchInv'
  BY BatchSteps DEF BilledInv, BatchInv
<1>2. CASE UNCHANGED batchVars
  BY <1>1, <1>2 DEF BilledInv, Begun, Billed, batchVars
<1>3. ASSUME NEW b \in Batches, Batch!Check(b) \/ Batch!Upload(b) \/ Batch!SubmitterStops(b)
      PROVE  BilledInv'
  <2>1. PICK place \in {"refused", "begin", "create", "fail", "dead"} :
          /\ Batch!Goto(b, place) /\ (place = "create" => pc[b] = "upload")
          /\ (pc[b] \in {"name", "unread"} \cup Closed => place = "dead")
          /\ UNCHANGED <<batchRow, creates, accepted>>
    BY <1>3
    DEF Batch!Check, Batch!Upload, Batch!SubmitterStops, Batch!rowVars, Batch!vendorVars, Closed
  <2>2. /\ \A a \in Batches : a # b => pc'[a] = pc[a] /\ turn'[a] = turn[a]
        /\ pc'[b] = place /\ turn'[b] = 1
    BY <1>1, <2>1, Goes
  <2>3. \A k \in Batch!Requests : ~(k < 1)
    BY BatchConstants
  <2>4. place = "create" => \A k \in Batch!Requests : batchRow[b][k].as \notin Open
    BY <2>1 DEF BilledInv, Begun
  <2>. QED
    BY <1>1, <2>1, <2>2, <2>3, <2>4, BilledStays DEF Closed
<1>4. ASSUME NEW b \in Batches, Batch!BeginRow(b) PROVE BilledInv'
  <2>1. PICK next \in {"upload", "create"} :
          /\ pc[b] = "begin" /\ Batch!Turn(b, next) /\ UNCHANGED <<creates, accepted>>
          /\ batchRow' = [batchRow EXCEPT ![b][turn[b]] = Batch!Plain("in_flight")]
    BY <1>4 DEF Batch!BeginRow, Batch!vendorVars
  <2>2. /\ \A a \in Batches : a # b => pc'[a] = pc[a] /\ turn'[a] = turn[a]
        /\ \/ turn[b] < Size /\ turn'[b] = turn[b] + 1 /\ pc'[b] = pc[b]
           \/ turn[b] = Size /\ turn'[b] = 1 /\ pc'[b] = next
    BY <1>1, <2>1, Turns
  <2>3. /\ \A a \in Batches : a # b => batchRow'[a] = batchRow[a]
        /\ \A k \in Batch!Requests :
             /\ k # turn[b] => batchRow'[b][k] = batchRow[b][k]
             /\ k = turn[b] => batchRow'[b][k].as = "in_flight"
    BY <1>1, <2>1 DEF Batch!TypeOK, Batch!Plain
  <2>4. \A k \in Batch!Requests : k < turn[b] => batchRow[b][k].as \notin Open
    BY <2>1 DEF BilledInv, Begun
  <2>5. ASSUME NEW k \in Batch!Requests,
               (pc'[b] = "begin" /\ k < turn'[b]) \/ pc'[b] \in {"upload", "create"}
        PROVE  batchRow'[b][k].as \notin Open
    <3>1. k \in Nat /\ k <= Size /\ turn[b] \in Nat /\ (k < turn[b] + 1 => k <= turn[b])
      BY <1>1, BatchConstants DEF Batch!TypeOK
    <3>2. k <= turn[b]
      BY <2>1, <2>2, <2>5, <3>1
    <3>. QED
      BY <2>3, <2>4, <3>1, <3>2 DEF Open
  <2>6. \A k \in Batch!Requests : batchRow[b][k].as \notin Open => batchRow'[b][k].as \notin Open
    BY <2>3 DEF Open
  <2>7. pc[b] \notin {"name", "unread"} \cup Closed
    BY <2>1 DEF Closed
  <2>. QED
    BY <1>1, <2>1, <2>2, <2>3, <2>5, <2>6, <2>7, BilledStays
<1>5. ASSUME NEW b \in Batches, Batch!FailRow(b) PROVE BilledInv'
  <2>1. /\ pc[b] = "fail" /\ Batch!Turn(b, "failed") /\ UNCHANGED <<creates, accepted>>
        /\ batchRow' = [batchRow EXCEPT ![b][turn[b]] = Batch!Plain("failed")]
    BY <1>5 DEF Batch!FailRow, Batch!vendorVars
  <2>2. /\ \A a \in Batches : a # b => pc'[a] = pc[a] /\ turn'[a] = turn[a]
        /\ pc'[b] \in {"fail", "failed"}
    BY <1>1, <2>1, Turns
  <2>3. \A a \in Batches : a # b => batchRow'[a] = batchRow[a]
    BY <1>1, <2>1 DEF Batch!TypeOK
  <2>4. \A i \in accepted : i[1] # b /\ i[1] \in Batches
    BY <1>1, <2>1 DEF BilledInv, Billed, Closed, Batch!TypeOK, Batch!BatchIds
  <2>5. Begun'
    BY <2>2, <2>3 DEF BilledInv, Begun
  <2>6. Billed'
    BY <2>1, <2>2, <2>3, <2>4 DEF BilledInv, Billed
  <2>. QED
    BY <1>1, <2>5, <2>6 DEF BilledInv
<1>6. ASSUME NEW b \in Batches, Batch!Create(b) PROVE BilledInv'
  <2>1. /\ pc[b] = "create" /\ creates' = [creates EXCEPT ![b] = @ + 1] /\ batchRow' = batchRow
        /\ \A a \in Batches : a # b => pc'[a] = pc[a]
        /\ pc'[b] \in {"name", "unread", "fail", "create"}
        /\ \/ accepted' = accepted
           \/ accepted' = accepted \cup {<<b, creates[b] + 1>>} /\ pc'[b] \in {"name", "unread"}
    BY <1>1, <1>6, CreateBecomes
  <2>2. \A a \in Batches : a # b => turn'[a] = turn[a]
    BY <1>1, <1>6 DEF Batch!Create, Batch!Goto, Batch!RetryOrFail, Batch!TypeOK
  <2>3. creates'[b] = creates[b] + 1 /\ \A a \in Batches : a # b => creates'[a] = creates[a]
    BY <1>1, <2>1 DEF Batch!TypeOK
  <2>4. \A k \in Batch!Requests : batchRow[b][k].as \notin Open
    BY <2>1 DEF BilledInv, Begun
  <2>5. \A i \in accepted : i[1] # b /\ i[1] \in Batches
    BY <1>1, <2>1 DEF BilledInv, Billed, Closed, Batch!TypeOK, Batch!BatchIds
  <2>6. Begun'
    BY <2>1, <2>2, <2>4 DEF BilledInv, Begun
  <2>7. Billed'
    BY <2>1, <2>3, <2>4, <2>5 DEF BilledInv, Billed
  <2>. QED
    BY <1>1, <2>6, <2>7 DEF BilledInv
<1>7. ASSUME NEW b \in Batches, Batch!NameRow(b) PROVE BilledInv'
  <2>1. pc[b] = "name" /\ Batch!Turn(b, "submitted") /\ UNCHANGED <<batchRow, creates, accepted>>
    BY <1>7 DEF Batch!NameRow, Batch!vendorVars
  <2>2. /\ \A a \in Batches : a # b => pc'[a] = pc[a] /\ turn'[a] = turn[a]
        /\ pc'[b] \in {"name", "submitted"}
    BY <1>1, <2>1, Turns
  <2>. QED
    BY <1>1, <2>1, <2>2, BilledStays DEF Closed
<1>8. ASSUME NEW c \in Collectors, Batch!CompleteRow(c) PROVE BilledInv'
  <2>1. PICK b \in Batches, i \in Batch!BatchIds, k \in Batch!Requests : Completing(c, b, i, k)
    BY <1>8, RowCompletes DEF BilledInv
  <2>2. /\ batchRow' = [batchRow EXCEPT ![b][k] = Fate(i)[k]] /\ Fate(i)[k].as \in Outcomes
        /\ pc[b] \in Closed /\ UNCHANGED <<pc, turn, creates, accepted>>
    BY <2>1 DEF Completing
  <2>3. Fate(i)[k].as \notin Open
    BY <2>2 DEF Outcomes, Open, Batch!Verdicts
  <2>4. /\ \A a \in Batches : a # b => batchRow'[a] = batchRow[a]
        /\ \A l \in Batch!Requests : batchRow'[b][l] \in {batchRow[b][l], Fate(i)[k]}
    BY <1>1, <2>2 DEF Batch!TypeOK
  <2>5. pc'[b] \notin {"begin", "upload", "create"}
    BY <2>2 DEF Closed
  <2>. QED
    BY <1>1, <2>2, <2>3, <2>4, <2>5, BilledStays
<1>9. ASSUME UNCHANGED <<batchRow, pc, turn, creates, accepted>> PROVE BilledInv'
  BY <1>1, <1>9 DEF BilledInv, Begun, Billed
<1>10. CASE \/ \E i \in Batch!BatchIds : Batch!End(i)
            \/ \E c \in Collectors : \/ \E i \in Batch!BatchIds : Batch!Start(c, i)
                                     \/ Batch!Fetch(c) \/ Batch!CollectorStops(c)
  BY <1>9, <1>10
  DEF Batch!End, Batch!Start, Batch!Fetch, Batch!CollectorStops, Batch!rowVars, Batch!submitVars,
      Batch!vendorVars
<1>. QED
  BY <1>2, <1>3, <1>4, <1>5, <1>6, <1>7, <1>8, <1>10 DEF Batch!Next

\* What the vendor bills is in the ledger, and a collection that returned says of each request
\* what the vendor's file said: whoever stops when, as long as no answer to a create request
\* is lost on its way (the request is not idempotent, and a second one is a second batch).
THEOREM BatchesAreCounted == ~AnswersLost => (PartsSpec => []BatchIsCounted)
<1>. SUFFICES ASSUME ~AnswersLost PROVE PartsSpec => []BatchIsCounted
  OBVIOUS
<1>. DEFINE Inv == part = "batch" => BilledInv
<1>1. PartsInit => Inv
  <2>1. Batch!Init => Begun /\ Billed
    BY DEF Batch!Init, Begun, Billed
  <2>. QED
    BY <2>1, EachPartStarts, BatchStarts DEF BilledInv
<1>2. Inv /\ [PartsNext]_partsVars => Inv'
  BY OnePartActs, BilledSteps
<1>3. Inv => BatchIsCounted
  <2>1. SUFFICES ASSUME BilledInv PROVE Batch!AcceptedIsCounted /\ Batch!CollectedAsReported
    BY DEF BatchIsCounted
  <2>2. Batch!AcceptedIsCounted
    BY <2>1 DEF BilledInv, Billed, Batch!AcceptedIsCounted, Open
  <2>3. ASSUME NEW c \in Collectors, cpc[c] = "done",
               Batch!Positional(id[c]) = {} \/ \A k \in Batch!Requests : batchId[id[c][1]][k] = id[c],
               NEW k \in Batch!Requests, batchId[id[c][1]][k] = id[c]
        PROVE  batchRow[id[c][1]][k] = Reported(id[c], k)
    <3>. DEFINE i == id[c]
    <3>1. Batch!TypeOK /\ CollectedBy(c)
      BY <2>1 DEF BilledInv, BatchInv, Collected
    <3>2. /\ i \in Batch!BatchIds /\ i = <<i[1], creates[i[1]]>> /\ Placeable(i)
          /\ k \in NamedIn(i) /\ batchRow[i[1]][k].as \in Outcomes
      BY <2>3, <3>1 DEF CollectedBy, NamedIn
    <3>3. i[1] \in Batches
      BY <3>2 DEF Batch!BatchIds
    <3>4. batchRow[i[1]][k] = Fate(i)[k]
      BY <2>1, <3>2, <3>3 DEF BilledInv, BatchInv, Told
    <3>5. Batch!Positional(i) = {} \/ NamedIn(i) = Batch!Requests
      BY <2>3 DEF NamedIn
    <3>. QED
      BY <3>1, <3>2, <3>4, <3>5, FateIs
  <2>4. Batch!CollectedAsReported
    BY <2>3 DEF Batch!CollectedAsReported, Reported
  <2>. QED
    BY <2>2, <2>4
<1>. QED
  BY <1>1, <1>2, <1>3, PTL DEF PartsSpec

-----------------------------------------------------------------------------
(* The dashboard's page.                                                   *)

States == {"none", "in_flight", "complete"}
PagedRows == [Paged -> States]
Page == [at : Nat, rows : PagedRows, crossed : BOOLEAN]
View == [at : {"asked", "half", "read", "shown"}, on : Workers, time : Nat, own : PagedRows,
         must : PagedRows, crossed : BOOLEAN, page : {None} \cup Page]
Away == [at |-> "away"]

\* What the tables know of the calls, and that of two it is the further.
LEMMA RankIs ==
  /\ Dashboard!Rank["none"] = 0 /\ Dashboard!Rank["in_flight"] = 1
  /\ Dashboard!Rank["complete"] = 2
  /\ \A a \in States : Dashboard!Rank[a] \in 0 .. 2
BY DEF Dashboard!Rank, States

LEMMA FurtherIs ==
  ASSUME NEW a \in States, NEW b \in States
  PROVE  /\ Dashboard!Further(a, b) \in {a, b} /\ Dashboard!Further(a, b) \in States
         /\ Dashboard!Rank[Dashboard!Further(a, b)] >= Dashboard!Rank[a]
         /\ Dashboard!Rank[Dashboard!Further(a, b)] >= Dashboard!Rank[b]
BY RankIs DEF Dashboard!Further

LEMMA ReachesOn ==
  ASSUME NEW a \in PagedRows, NEW b \in PagedRows, NEW c \in PagedRows
  PROVE  /\ Dashboard!Reaches(a, a)
         /\ Dashboard!Reaches(a, b) /\ Dashboard!Reaches(b, c) => Dashboard!Reaches(a, c)
<1>1. \A u \in Paged : a[u] \in States /\ b[u] \in States /\ c[u] \in States
  BY DEF PagedRows
<1>2. \A u \in Paged : /\ Dashboard!Rank[a[u]] \in Int /\ Dashboard!Rank[b[u]] \in Int
                       /\ Dashboard!Rank[c[u]] \in Int
  BY <1>1, RankIs
<1>. QED
  BY <1>2 DEF Dashboard!Reaches

LEMMA UnionIs ==
  ASSUME NEW own \in PagedRows, NEW central \in PagedRows
  PROVE  /\ Dashboard!Union(own, central) \in PagedRows
         /\ \A u \in Paged :
              /\ Dashboard!Union(own, central)[u] \in {own[u], central[u]}
              /\ Dashboard!Rank[Dashboard!Union(own, central)[u]] >= Dashboard!Rank[own[u]]
              /\ Dashboard!Rank[Dashboard!Union(own, central)[u]] >= Dashboard!Rank[central[u]]
<1>1. ASSUME NEW u \in Paged
      PROVE  /\ Dashboard!Union(own, central)[u] \in {own[u], central[u]}
             /\ Dashboard!Union(own, central)[u] \in States
             /\ Dashboard!Rank[Dashboard!Union(own, central)[u]] >= Dashboard!Rank[own[u]]
             /\ Dashboard!Rank[Dashboard!Union(own, central)[u]] >= Dashboard!Rank[central[u]]
  <2>1. own[u] \in States /\ central[u] \in States
    BY DEF PagedRows
  <2>2. Dashboard!Union(own, central)[u] =
          IF own[u] = "none" \/ (own[u] = "in_flight" /\ central[u] = "complete")
          THEN central[u] ELSE own[u]
    BY DEF Dashboard!Union
  <2>. QED
    BY <2>1, <2>2, RankIs DEF States
<1>2. Dashboard!Union(own, central) \in PagedRows
  BY <1>1 DEF PagedRows, Dashboard!Union
<1>. QED
  BY <1>1, <1>2

PageTypes ==
  /\ clock \in Nat
  /\ rows \in [own : PagedRows, central : PagedRows]
  /\ push \in [Paged -> [at : {"idle", "committed", "answered"}, on : Workers \cup {None},
                         row : States]]
  /\ stood \in [0 .. clock -> PagedRows]
  /\ answered \in [Workers -> PagedRows]
  /\ DOMAIN page = Workers
  /\ view \in [Viewers -> {Away} \cup View]

\* The tables only get further.
Past ==
  /\ \A s, t \in 0 .. clock : s <= t => Dashboard!Reaches(stood[t], stood[s])
  /\ \A t \in 0 .. clock : Dashboard!Reaches(Dashboard!Known, stood[t])

\* A push that is committed, or answered, is in the central ledger.
Delivered ==
  /\ \A w \in Workers : Dashboard!Reaches(rows.central, answered[w])
  /\ \A u \in Paged : push[u].at = "committed" =>
       /\ push[u].on \in Workers
       /\ Dashboard!Rank[rows.central[u]] >= Dashboard!Rank[push[u].row]

\* A page that is kept says no less than the tables did when it was asked for, and no more
\* than they do; and no push answered since is missing, unless it crossed the render.
KeptBy(w) ==
  page[w] # None =>
    /\ page[w] \in Page /\ page[w].at <= clock
    /\ Dashboard!Reaches(page[w].rows, stood[page[w].at])
    /\ Dashboard!Reaches(Dashboard!Known, page[w].rows)
    /\ ~page[w].crossed => Dashboard!Reaches(page[w].rows, answered[w])

\* The same of a render that is under way, and of a page that is shown.
ViewedBy(v) ==
  view[v].at # "away" =>
    /\ view[v].time <= clock
    /\ view[v].at \in {"asked", "half", "read"} /\ ~view[v].crossed =>
         answered[view[v].on] = view[v].must
    /\ view[v].at = "half" =>
         /\ Dashboard!Reaches(rows.own, view[v].own)
         /\ \A u \in Paged :
              \/ Dashboard!Rank[view[v].own[u]] >= Dashboard!Rank[stood[view[v].time][u]]
              \/ Dashboard!Rank[rows.central[u]] >= Dashboard!Rank[stood[view[v].time][u]]
    /\ view[v].at = "read" =>
         /\ Dashboard!Reaches(Dashboard!Known, view[v].own)
         /\ Dashboard!Reaches(view[v].own, stood[view[v].time])
         /\ ~view[v].crossed => Dashboard!Reaches(view[v].own, view[v].must)
    /\ view[v].at = "shown" =>
         /\ view[v].page \in Page
         /\ view[v].time >= Ttl => Dashboard!Reaches(view[v].page.rows, stood[view[v].time - Ttl])
         /\ ~view[v].page.crossed => Dashboard!Reaches(view[v].page.rows, view[v].must)
         /\ Dashboard!Reaches(Dashboard!Known, view[v].page.rows)

PageInv ==
  /\ PageTypes /\ Past /\ Delivered
  /\ \A w \in Workers : KeptBy(w)
  /\ \A v \in Viewers : ViewedBy(v)

LEMMA PageConstants == Ttl \in Nat /\ Ttl > 0 /\ Horizon \in Nat
BY PartsAssumption DEF Dashboard!DashboardAssumption

LEMMA FurthestIs ==
  ASSUME NEW own \in PagedRows, NEW central \in PagedRows,
         NEW K, K = [u \in Paged |-> Dashboard!Further(own[u], central[u])]
  PROVE  /\ K \in PagedRows /\ Dashboard!Reaches(K, own) /\ Dashboard!Reaches(K, central)
         /\ \A u \in Paged : K[u] \in {own[u], central[u]}
<1>1. ASSUME NEW u \in Paged
      PROVE  /\ K[u] \in States /\ K[u] \in {own[u], central[u]}
             /\ Dashboard!Rank[K[u]] >= Dashboard!Rank[own[u]]
             /\ Dashboard!Rank[K[u]] >= Dashboard!Rank[central[u]]
  <2>1. own[u] \in States /\ central[u] \in States
    BY DEF PagedRows
  <2>2. K[u] = Dashboard!Further(own[u], central[u])
    OBVIOUS
  <2>. QED
    BY <2>1, <2>2, FurtherIs
<1>2. K \in PagedRows
  BY <1>1 DEF PagedRows
<1>. QED
  BY <1>1, <1>2 DEF Dashboard!Reaches

LEMMA KnownIs ==
  ASSUME PageTypes
  PROVE  /\ Dashboard!Known \in PagedRows
         /\ Dashboard!Reaches(Dashboard!Known, rows.own)
         /\ Dashboard!Reaches(Dashboard!Known, rows.central)
         /\ \A u \in Paged : Dashboard!Known[u] \in {rows.own[u], rows.central[u]}
BY FurthestIs DEF PageTypes, Dashboard!Known

LEMMA PageStarts == Dashboard!Init => PageInv
<1>. SUFFICES ASSUME Dashboard!Init PROVE PageInv
  OBVIOUS
<1>. DEFINE N == [u \in Paged |-> "none"]
<1>1. N \in PagedRows /\ Dashboard!Nothing = N
  BY DEF PagedRows, States, Dashboard!Nothing
<1>2. PageTypes
  BY <1>1 DEF Dashboard!Init, PageTypes, States, Away
<1>3. Dashboard!Reaches(N, N)
  BY <1>1, ReachesOn
<1>4. Dashboard!Reaches(Dashboard!Known, N)
  <2>1. Dashboard!Known \in PagedRows
    BY <1>2, KnownIs
  <2>2. \A u \in Paged : Dashboard!Rank[Dashboard!Known[u]] \in 0 .. 2 /\ N[u] = "none"
    BY <2>1, RankIs DEF PagedRows
  <2>. QED
    BY <2>2, RankIs DEF Dashboard!Reaches
<1>5. Past
  BY <1>1, <1>3, <1>4 DEF Dashboard!Init, Past
<1>6. Delivered
  BY <1>1, <1>3 DEF Dashboard!Init, Delivered
<1>. QED
  BY <1>2, <1>5, <1>6 DEF Dashboard!Init, PageInv, KeptBy, ViewedBy

\* The tables get further, and what was seen of them is seen no less of.
LEMMA TablesGrow ==
  ASSUME PageInv, PageTypes', Delivered', UNCHANGED <<clock, page, view, stood, answered>>,
         Dashboard!Reaches(rows'.own, rows.own), Dashboard!Reaches(rows'.central, rows.central)
  PROVE  PageInv'
<1>. DEFINE K == Dashboard!Known
<1>1. /\ K \in PagedRows /\ K' \in PagedRows
      /\ \A u \in Paged : K[u] \in {rows.own[u], rows.central[u]}
      /\ Dashboard!Reaches(K', rows'.own) /\ Dashboard!Reaches(K', rows'.central)
  <2>1. K = [u \in Paged |-> Dashboard!Further(rows.own[u], rows.central[u])]
    BY DEF Dashboard!Known
  <2>2. K' = [u \in Paged |-> Dashboard!Further(rows'.own[u], rows'.central[u])]
    BY DEF Dashboard!Known
  <2>3. /\ rows.own \in PagedRows /\ rows.central \in PagedRows
        /\ rows'.own \in PagedRows /\ rows'.central \in PagedRows
    BY DEF PageInv, PageTypes
  <2>. HIDE DEF K
  <2>. QED
    BY <2>1, <2>2, <2>3, FurthestIs
<1>2. Dashboard!Reaches(K', K)
  <2>1. \A u \in Paged :
          /\ rows.own[u] \in States /\ rows.central[u] \in States
          /\ rows'.own[u] \in States /\ rows'.central[u] \in States /\ K'[u] \in States
    BY <1>1 DEF PageInv, PageTypes, PagedRows
  <2>. HIDE DEF K
  <2>. QED
    BY <1>1, <2>1, RankIs DEF Dashboard!Reaches
<1>. HIDE DEF K
<1>3. \A r \in PagedRows : Dashboard!Reaches(K, r) => Dashboard!Reaches(K', r)
  BY <1>1, <1>2, ReachesOn
<1>4. \A t \in 0 .. clock : stood[t] \in PagedRows
  BY DEF PageInv, PageTypes
<1>5. Past'
  BY <1>3, <1>4 DEF PageInv, Past, K
<1>6. ASSUME NEW w \in Workers PROVE KeptBy(w)'
  <2>1. page[w] \in Page => page[w].rows \in PagedRows
    BY DEF Page
  <2>. QED
    BY <1>3, <2>1 DEF PageInv, KeptBy, K
<1>7. ASSUME NEW v \in Viewers PROVE ViewedBy(v)'
  <2>1. SUFFICES ASSUME view[v].at # "away" PROVE ViewedBy(v)'
    BY DEF ViewedBy
  <2>2. view[v] \in View /\ view[v].own \in PagedRows /\ view[v].time \in 0 .. clock
    BY <2>1 DEF PageInv, PageTypes, View, Away, ViewedBy
  <2>3. view[v].page \in Page => view[v].page.rows \in PagedRows
    BY DEF Page
  <2>4. Dashboard!Reaches(rows.own, view[v].own) => Dashboard!Reaches(rows'.own, view[v].own)
    BY <2>2, ReachesOn DEF PageInv, PageTypes
  <2>5. \A u \in Paged :
          Dashboard!Rank[rows.central[u]] >= Dashboard!Rank[stood[view[v].time][u]] =>
            Dashboard!Rank[rows'.central[u]] >= Dashboard!Rank[stood[view[v].time][u]]
    <3>1. \A u \in Paged : /\ rows.central[u] \in States /\ rows'.central[u] \in States
                           /\ stood[view[v].time][u] \in States
      BY <1>4, <2>2 DEF PageInv, PageTypes, PagedRows
    <3>. QED
      BY <3>1, RankIs DEF Dashboard!Reaches
  <2>. QED
    BY <1>3, <2>1, <2>2, <2>3, <2>4, <2>5 DEF PageInv, ViewedBy, K
<1>. QED
  BY <1>5, <1>6, <1>7 DEF PageInv

\* A step of one viewer that keeps nothing.
LEMMA ViewerSteps ==
  ASSUME PageInv, NEW v \in Viewers, NEW new, new \in {Away} \cup View,
         view' = [view EXCEPT ![v] = new], UNCHANGED <<clock, rows, page, push, stood, answered>>,
         ViewedBy(v)'
  PROVE  PageInv'
<1>1. PageTypes'
  BY DEF PageInv, PageTypes
<1>2. Dashboard!Known' = Dashboard!Known
  BY DEF Dashboard!Known
<1>3. Past' /\ Delivered' /\ \A w \in Workers : KeptBy(w)'
  BY <1>2 DEF PageInv, Past, Delivered, KeptBy
<1>4. ASSUME NEW o \in Viewers, o # v PROVE ViewedBy(o)'
  <2>1. view'[o] = view[o]
    BY <1>4 DEF PageInv, PageTypes
  <2>. QED
    BY <1>2, <2>1 DEF PageInv, ViewedBy
<1>. QED
  BY <1>1, <1>3, <1>4 DEF PageInv

\* A call, or a push of it, gets further.
LEMMA TablesChange ==
  ASSUME PageInv, NEW u \in Paged,
         Dashboard!Calling(u) \/ \E w \in Workers : Dashboard!PushRows(u, w)
  PROVE  PageInv'
<1>1. /\ rows.own \in PagedRows /\ rows.central \in PagedRows
      /\ rows.own[u] \in States /\ rows.central[u] \in States
      /\ rows \in [own : PagedRows, central : PagedRows]
  BY DEF PageInv, PageTypes, PagedRows
<1>2. CASE Dashboard!Calling(u)
  <2>. DEFINE n == IF rows.own[u] = "none" THEN "in_flight" ELSE "complete"
              own == [rows.own EXCEPT ![u] = n]
  <2>1. /\ rows' = [rows EXCEPT !.own = own]
        /\ UNCHANGED <<clock, page, push, view, stood, answered>>
    BY <1>2 DEF Dashboard!Calling
  <2>2. n \in States /\ Dashboard!Rank[n] >= Dashboard!Rank[rows.own[u]]
    BY <1>1, <1>2, RankIs DEF Dashboard!Calling, States
  <2>. HIDE DEF n
  <2>3. own \in PagedRows /\ rows'.own = own /\ rows'.central = rows.central
    BY <1>1, <2>1, <2>2 DEF PagedRows
  <2>4. \A o \in Paged : Dashboard!Rank[own[o]] >= Dashboard!Rank[rows.own[o]]
    <3>1. \A o \in Paged : rows.own[o] \in States /\ Dashboard!Rank[rows.own[o]] \in Int
      BY <1>1, RankIs DEF PagedRows
    <3>. QED
      BY <1>1, <2>2, <3>1 DEF PagedRows
  <2>5. Dashboard!Reaches(rows'.own, rows.own) /\ Dashboard!Reaches(rows'.central, rows.central)
    BY <1>1, <2>3, <2>4, ReachesOn DEF Dashboard!Reaches
  <2>. HIDE DEF own
  <2>6. rows' \in [own : PagedRows, central : PagedRows]
    BY <1>1, <2>1, <2>3
  <2>7. PageTypes' /\ Delivered'
    BY <2>1, <2>3, <2>6 DEF PageInv, PageTypes, Delivered
  <2>. QED
    BY <2>1, <2>5, <2>7, TablesGrow
<1>3. ASSUME NEW w \in Workers, Dashboard!PushRows(u, w) PROVE PageInv'
  <2>1. PICK r \in {"in_flight", "complete"} :
          /\ push' = [push EXCEPT ![u] = [at |-> "committed", on |-> w, row |-> r]]
          /\ rows' = [rows EXCEPT !.central[u] = Dashboard!Further(@, r)]
    BY <1>3 DEF Dashboard!PushRows
  <2>2. UNCHANGED <<clock, page, view, stood, answered>>
    BY <1>3 DEF Dashboard!PushRows
  <2>. DEFINE n == Dashboard!Further(rows.central[u], r)
              central == [rows.central EXCEPT ![u] = n]
  <2>3. rows' = [rows EXCEPT !.central = central]
    BY <2>1
  <2>4. /\ r \in States /\ n \in States /\ Dashboard!Rank[n] >= Dashboard!Rank[r]
        /\ Dashboard!Rank[n] >= Dashboard!Rank[rows.central[u]]
    <3>1. r \in States
      BY DEF States
    <3>. QED
      BY <1>1, <3>1, FurtherIs
  <2>. HIDE DEF n
  <2>5. central \in PagedRows /\ rows'.central = central /\ rows'.own = rows.own
    BY <1>1, <2>3, <2>4 DEF PagedRows
  <2>6. /\ \A o \in Paged : Dashboard!Rank[central[o]] >= Dashboard!Rank[rows.central[o]]
        /\ Dashboard!Rank[central[u]] >= Dashboard!Rank[r]
    <3>1. \A o \in Paged : rows.central[o] \in States /\ Dashboard!Rank[rows.central[o]] \in Int
      BY <1>1, RankIs DEF PagedRows
    <3>. QED
      BY <1>1, <2>4, <3>1 DEF PagedRows
  <2>7. Dashboard!Reaches(central, rows.central) /\ Dashboard!Reaches(rows'.own, rows.own)
    BY <1>1, <2>5, <2>6, ReachesOn DEF Dashboard!Reaches
  <2>. HIDE DEF central
  <2>8. rows' \in [own : PagedRows, central : PagedRows]
    BY <1>1, <2>3, <2>5
  <2>9. /\ push' \in [Paged -> [at : {"idle", "committed", "answered"}, on : Workers \cup {None},
                               row : States]]
        /\ push'[u].on = w /\ push'[u].row = r
        /\ \A o \in Paged : o # u => push'[o] = push[o]
    BY <2>1, <2>4 DEF PageInv, PageTypes
  <2>10. PageTypes'
    BY <2>2, <2>8, <2>9 DEF PageInv, PageTypes
  <2>11. \A x \in Workers : Dashboard!Reaches(central, answered[x])
    BY <1>1, <2>5, <2>7, ReachesOn DEF PageInv, PageTypes, Delivered
  <2>12. \A o \in Paged : o # u /\ push[o].at = "committed" =>
           Dashboard!Rank[central[o]] >= Dashboard!Rank[push[o].row]
    <3>1. \A o \in Paged : /\ central[o] \in States /\ rows.central[o] \in States
                           /\ push[o].row \in States
      BY <1>1, <2>5 DEF PageInv, PageTypes, PagedRows
    <3>2. \A o \in Paged : push[o].at = "committed" =>
            Dashboard!Rank[rows.central[o]] >= Dashboard!Rank[push[o].row]
      BY DEF PageInv, Delivered
    <3>. QED
      BY <2>6, <3>1, <3>2, RankIs
  <2>13. Delivered'
    BY <2>2, <2>5, <2>6, <2>9, <2>11, <2>12 DEF PageInv, Delivered
  <2>. QED
    BY <2>2, <2>5, <2>7, <2>10, <2>13, TablesGrow
<1>. QED
  BY <1>2, <1>3

LEMMA PageTicks ==
  ASSUME PageInv, Dashboard!Tick
  PROVE  PageInv'
<1>. DEFINE K == Dashboard!Known
<1>1. /\ clock' = clock + 1 /\ clock \in Nat /\ UNCHANGED <<rows, page, push, view, answered>>
      /\ stood' = [t \in 0 .. clock + 1 |-> IF t = clock + 1 THEN K ELSE stood[t]]
  BY DEF Dashboard!Tick, PageInv, PageTypes
<1>2. K' = K /\ K \in PagedRows
  BY <1>1, KnownIs DEF PageInv, Dashboard!Known
<1>. HIDE DEF K
<1>3. /\ stood'[clock + 1] = K
      /\ \A t \in 0 .. clock : t \in 0 .. clock + 1 /\ stood'[t] = stood[t]
      /\ \A t \in 0 .. clock + 1 : t \in 0 .. clock \/ t = clock + 1
  BY <1>1
<1>4. \A t \in 0 .. clock : stood[t] \in PagedRows /\ Dashboard!Reaches(K, stood[t])
  BY DEF PageInv, PageTypes, Past, K
<1>5. PageTypes'
  <2>1. stood' \in [0 .. clock + 1 -> PagedRows]
    BY <1>1, <1>2, <1>3, <1>4
  <2>. QED
    BY <1>1, <2>1 DEF PageInv, PageTypes
<1>6. Past'
  <2>1. ASSUME NEW s \in 0 .. clock + 1, NEW t \in 0 .. clock + 1, s <= t
        PROVE  Dashboard!Reaches(stood'[t], stood'[s])
    <3>1. CASE t \in 0 .. clock
      <4>1. s \in 0 .. clock
        BY <1>1, <2>1, <3>1
      <4>. QED
        BY <1>3, <2>1, <3>1, <4>1 DEF PageInv, Past
    <3>2. CASE t = clock + 1 /\ s \in 0 .. clock
      BY <1>3, <1>4, <3>2
    <3>3. CASE t = clock + 1 /\ s = clock + 1
      BY <1>2, <1>3, <3>3, ReachesOn
    <3>. QED
      BY <1>3, <3>1, <3>2, <3>3
  <2>2. ASSUME NEW t \in 0 .. clock + 1 PROVE Dashboard!Reaches(K, stood'[t])
    BY <1>2, <1>3, <1>4, ReachesOn
  <2>. QED
    BY <1>1, <1>2, <2>1, <2>2 DEF Past, K
<1>7. Delivered'
  BY <1>1 DEF PageInv, Delivered
<1>8. ASSUME NEW w \in Workers PROVE KeptBy(w)'
  <2>1. page[w] # None => page[w].at \in 0 .. clock /\ page[w].at <= clock + 1
    BY <1>1 DEF PageInv, KeptBy, Page
  <2>. QED
    BY <1>1, <1>2, <1>3, <2>1 DEF PageInv, KeptBy, K
<1>9. ASSUME NEW v \in Viewers PROVE ViewedBy(v)'
  <2>1. SUFFICES ASSUME view[v].at # "away" PROVE ViewedBy(v)'
    BY <1>1 DEF ViewedBy
  <2>2. view[v].time \in 0 .. clock /\ view[v].time <= clock + 1
    BY <1>1, <2>1 DEF PageInv, PageTypes, View, Away, ViewedBy
  <2>3. view[v].time >= Ttl => view[v].time - Ttl \in 0 .. clock
    BY <1>1, <2>2, PageConstants
  <2>. QED
    BY <1>1, <1>2, <1>3, <2>1, <2>2, <2>3 DEF PageInv, ViewedBy, K
<1>. QED
  BY <1>5, <1>6, <1>7, <1>8, <1>9 DEF PageInv

\* A push is answered: the page is dropped, and the renders it crosses know of it.
LEMMA PushAnswered ==
  ASSUME PageInv, NEW u \in Paged, Dashboard!AnswerPush(u)
  PROVE  PageInv'
<1>. DEFINE w == push[u].on
            n == Dashboard!Further(answered[w][u], push[u].row)
<1>1. /\ push[u].at = "committed" /\ page' = [page EXCEPT ![w] = None]
      /\ push' = [push EXCEPT ![u] = [at |-> "answered", on |-> None, row |-> "none"]]
      /\ answered' = [answered EXCEPT ![w][u] = n]
      /\ view' = [v \in Viewers |-> IF Dashboard!UnderWay(v, w)
                                    THEN [view[v] EXCEPT !.crossed = TRUE] ELSE view[v]]
      /\ UNCHANGED <<clock, rows, stood>>
  BY DEF Dashboard!AnswerPush
<1>2. /\ w \in Workers /\ rows.central \in PagedRows /\ answered[w] \in PagedRows
      /\ push[u].row \in States /\ answered[w][u] \in States /\ rows.central[u] \in States
  BY <1>1 DEF PageInv, PageTypes, Delivered, PagedRows
<1>3. n \in States /\ Dashboard!Rank[n] <= Dashboard!Rank[rows.central[u]]
  <2>1. /\ Dashboard!Rank[push[u].row] <= Dashboard!Rank[rows.central[u]]
        /\ Dashboard!Rank[answered[w][u]] <= Dashboard!Rank[rows.central[u]]
    <3>1. Dashboard!Rank[rows.central[u]] >= Dashboard!Rank[push[u].row]
      BY <1>1 DEF PageInv, Delivered
    <3>2. Dashboard!Rank[rows.central[u]] >= Dashboard!Rank[answered[w][u]]
      BY <1>2 DEF PageInv, Delivered, Dashboard!Reaches
    <3>. QED
      BY <1>2, <3>1, <3>2, RankIs
  <2>. QED
    BY <1>2, <2>1, FurtherIs
<1>4. Dashboard!Known' = Dashboard!Known
  BY <1>1 DEF Dashboard!Known
<1>. HIDE DEF n
<1>5. /\ answered' \in [Workers -> PagedRows]
      /\ \A x \in Workers : x # w => answered'[x] = answered[x]
      /\ \A o \in Paged : answered'[w][o] = IF o = u THEN n ELSE answered[w][o]
  BY <1>1, <1>2, <1>3 DEF PageInv, PageTypes, PagedRows
<1>6. ASSUME NEW v \in Viewers
      PROVE  /\ view'[v].at = view[v].at /\ view'[v] \in {Away} \cup View
             /\ view[v].at # "away" =>
                  /\ view'[v].on = view[v].on /\ view'[v].time = view[v].time
                  /\ view'[v].own = view[v].own /\ view'[v].must = view[v].must
                  /\ view'[v].page = view[v].page
                  /\ ~view'[v].crossed => ~view[v].crossed
                  /\ view[v].at \in {"asked", "half", "read"} /\ view[v].on = w => view'[v].crossed
  <2>1. view[v] \in {Away} \cup View
    BY DEF PageInv, PageTypes
  <2>2. CASE Dashboard!UnderWay(v, w)
    <3>1. view[v] \in View
      BY <2>1, <2>2 DEF Dashboard!UnderWay, Away
    <3>. QED
      BY <1>1, <2>2, <3>1 DEF View, Away
  <2>3. CASE ~Dashboard!UnderWay(v, w)
    BY <1>1, <2>1, <2>3 DEF Dashboard!UnderWay
  <2>. QED
    BY <2>2, <2>3
<1>7. PageTypes'
  <2>1. push' \in [Paged -> [at : {"idle", "committed", "answered"}, on : Workers \cup {None},
                           row : States]]
    BY <1>1 DEF PageInv, PageTypes, States
  <2>2. DOMAIN page' = Workers
    BY <1>1 DEF PageInv, PageTypes
  <2>3. view' \in [Viewers -> {Away} \cup View]
    BY <1>1, <1>6
  <2>. QED
    BY <1>1, <1>5, <2>1, <2>2, <2>3 DEF PageInv, PageTypes
<1>8. Past'
  BY <1>1, <1>4 DEF PageInv, Past
<1>9. Delivered'
  <2>1. \A o \in Paged : Dashboard!Rank[rows.central[o]] >= Dashboard!Rank[answered[w][o]]
    BY <1>2 DEF PageInv, Delivered, Dashboard!Reaches
  <2>2. Dashboard!Rank[rows.central[u]] >= Dashboard!Rank[n]
    BY <1>2, <1>3, RankIs
  <2>3. Dashboard!Reaches(rows.central, answered'[w])
    BY <1>5, <2>1, <2>2 DEF Dashboard!Reaches
  <2>4. \A x \in Workers : Dashboard!Reaches(rows.central, answered'[x])
    BY <1>5, <2>3 DEF PageInv, Delivered
  <2>5. \A o \in Paged : push'[o].at = "committed" => o # u /\ push'[o] = push[o]
    BY <1>1 DEF PageInv, PageTypes
  <2>. QED
    BY <1>1, <2>4, <2>5 DEF PageInv, Delivered
<1>10. ASSUME NEW x \in Workers PROVE KeptBy(x)'
  <2>1. x = w => page'[x] = None
    BY <1>1, <1>2 DEF PageInv, PageTypes
  <2>2. x # w => page'[x] = page[x]
    BY <1>1, <1>2 DEF PageInv, PageTypes
  <2>. QED
    BY <1>1, <1>4, <1>5, <2>1, <2>2 DEF PageInv, KeptBy
<1>11. ASSUME NEW v \in Viewers PROVE ViewedBy(v)'
  <2>1. SUFFICES ASSUME view[v].at # "away" PROVE ViewedBy(v)'
    BY <1>6 DEF ViewedBy
  <2>2. view[v].on \in Workers
    BY <2>1 DEF PageInv, PageTypes, View, Away
  <2>. HIDE DEF w
  <2>3. view[v].on # w => answered'[view[v].on] = answered[view[v].on]
    BY <1>5, <2>2
  <2>4. /\ view'[v].at = view[v].at /\ view'[v].on = view[v].on /\ view'[v].time = view[v].time
        /\ view'[v].own = view[v].own /\ view'[v].must = view[v].must
        /\ view'[v].page = view[v].page
        /\ ~view'[v].crossed => ~view[v].crossed
    BY <1>6, <2>1
  <2>5. view[v].at \in {"asked", "half", "read"} /\ ~view'[v].crossed =>
          answered'[view'[v].on] = view'[v].must
    <3>1. CASE view[v].on = w
      BY <1>6, <2>1, <3>1
    <3>2. CASE view[v].on # w
      <4>1. view[v].at \in {"asked", "half", "read"} /\ ~view[v].crossed =>
              answered[view[v].on] = view[v].must
        BY <2>1 DEF PageInv, ViewedBy
      <4>. QED
        BY <2>3, <2>4, <3>2, <4>1
    <3>. QED
      BY <3>1, <3>2
  <2>. QED
    BY <1>1, <1>4, <2>1, <2>4, <2>5 DEF PageInv, ViewedBy
<1>. QED
  BY <1>7, <1>8, <1>9, <1>10, <1>11 DEF PageInv

\* A viewer comes: a page that is young enough is shown as it is.
LEMMA ViewerLooks ==
  ASSUME PageInv, NEW v \in Viewers, NEW w \in Workers, Dashboard!Look(v, w)
  PROVE  PageInv'
<1>. DEFINE new == [at |-> IF Dashboard!Stale(w) THEN "asked" ELSE "shown", on |-> w,
                    time |-> clock, own |-> Dashboard!Nothing, must |-> answered[w],
                    crossed |-> FALSE, page |-> page[w]]
<1>1. view' = [view EXCEPT ![v] = new] /\ UNCHANGED <<clock, rows, page, push, stood, answered>>
  BY DEF Dashboard!Look
<1>2. /\ Dashboard!Nothing \in PagedRows /\ answered[w] \in PagedRows /\ clock \in Nat
      /\ page[w] \in {None} \cup Page
  BY DEF PageInv, PageTypes, KeptBy, Dashboard!Nothing, PagedRows, States
<1>3. new \in View
  BY <1>2 DEF View
<1>4. view'[v] = new
  BY <1>1 DEF PageInv, PageTypes
<1>5. Dashboard!Known' = Dashboard!Known
  BY <1>1 DEF Dashboard!Known
<1>6. CASE Dashboard!Stale(w)
  <2>1. /\ view'[v].at = "asked" /\ view'[v].on = w /\ view'[v].time = clock
        /\ view'[v].must = answered[w]
    BY <1>4, <1>6
  <2>2. ViewedBy(v)'
    BY <1>1, <1>2, <2>1 DEF ViewedBy
  <2>. QED
    BY <1>1, <1>3, <2>2, ViewerSteps
<1>7. CASE ~Dashboard!Stale(w)
  <2>1. /\ view'[v].at = "shown" /\ view'[v].time = clock /\ view'[v].must = answered[w]
        /\ view'[v].page = page[w]
    BY <1>4, <1>7
  <2>. DEFINE P == page[w]
  <2>2. /\ P \in Page /\ P.at <= clock /\ P.at \in Nat /\ P.rows \in PagedRows
        /\ Dashboard!Reaches(P.rows, stood[P.at])
        /\ Dashboard!Reaches(Dashboard!Known, P.rows)
        /\ ~P.crossed => Dashboard!Reaches(P.rows, answered[w])
        /\ clock - P.at <= Ttl
    BY <1>2, <1>7, PageConstants DEF PageInv, KeptBy, Dashboard!Stale, Page
  <2>3. ASSUME clock >= Ttl PROVE Dashboard!Reaches(P.rows, stood[clock - Ttl])
    <3>1. clock - Ttl \in 0 .. clock /\ P.at \in 0 .. clock /\ clock - Ttl <= P.at
      BY <1>2, <2>2, <2>3, PageConstants
    <3>2. Dashboard!Reaches(stood[P.at], stood[clock - Ttl])
      BY <3>1 DEF PageInv, Past
    <3>3. stood[P.at] \in PagedRows /\ stood[clock - Ttl] \in PagedRows
      BY <3>1 DEF PageInv, PageTypes
    <3>. QED
      BY <2>2, <3>2, <3>3, ReachesOn
  <2>. HIDE DEF P
  <2>4. ViewedBy(v)'
    BY <1>1, <1>2, <1>5, <2>1, <2>2, <2>3 DEF ViewedBy, P
  <2>. QED
    BY <1>1, <1>3, <2>4, ViewerSteps
<1>. QED
  BY <1>6, <1>7

\* A render reads the ledgers, one after the other or both at once.
LEMMA ViewerReads ==
  ASSUME PageInv, NEW v \in Viewers,
         Dashboard!ReadOwn(v) \/ Dashboard!ReadCentral(v) \/ Dashboard!ReadBoth(v)
  PROVE  PageInv'
<1>. DEFINE V == view[v]
<1>1. /\ UNCHANGED <<clock, rows, page, push, stood, answered>>
      /\ V.at \in {"asked", "half"}
  BY DEF Dashboard!ReadOwn, Dashboard!ReadCentral, Dashboard!ReadBoth, Dashboard!Rendered
<1>2. /\ V \in View /\ V.time \in Nat /\ V.time <= clock /\ V.own \in PagedRows
      /\ V.must \in PagedRows /\ V.on \in Workers
      /\ ~V.crossed => answered[V.on] = V.must
      /\ V.time \in 0 .. clock /\ stood[V.time] \in PagedRows
  <2>1. V \in View /\ V.at # "away"
    BY <1>1 DEF PageInv, PageTypes, Away
  <2>2. V.time \in Nat /\ V.own \in PagedRows /\ V.must \in PagedRows /\ V.on \in Workers
    BY <2>1 DEF View
  <2>3. V.time <= clock /\ (~V.crossed => answered[V.on] = V.must)
    BY <1>1, <2>1 DEF PageInv, ViewedBy
  <2>. QED
    BY <2>1, <2>2, <2>3 DEF PageInv, PageTypes
<1>3. /\ rows.own \in PagedRows /\ rows.central \in PagedRows /\ Dashboard!Known \in PagedRows
      /\ Dashboard!Reaches(Dashboard!Known, rows.own)
      /\ Dashboard!Reaches(Dashboard!Known, rows.central)
      /\ Dashboard!Reaches(Dashboard!Known, stood[V.time])
      /\ \A u \in Paged : Dashboard!Known[u] \in {rows.own[u], rows.central[u]}
      /\ \A w \in Workers : Dashboard!Reaches(rows.central, answered[w])
  BY <1>2, KnownIs DEF PageInv, PageTypes, Past, Delivered
<1>4. Dashboard!Known' = Dashboard!Known
  BY <1>1 DEF Dashboard!Known
<1>5. CASE Dashboard!ReadOwn(v)
  <2>. DEFINE new == [V EXCEPT !.at = "half", !.own = rows.own]
  <2>1. view' = [view EXCEPT ![v] = new]
    BY <1>5 DEF Dashboard!ReadOwn, PageInv, PageTypes
  <2>2. new \in View /\ view'[v] = new
    BY <1>2, <1>3, <2>1 DEF View, PageInv, PageTypes
  <2>3. /\ view'[v].at = "half" /\ view'[v].own = rows.own /\ view'[v].time = V.time
        /\ view'[v].on = V.on /\ view'[v].must = V.must /\ view'[v].crossed = V.crossed
    BY <1>2, <2>2 DEF View
  <2>4. \A u \in Paged :
          \/ Dashboard!Rank[rows.own[u]] >= Dashboard!Rank[stood[V.time][u]]
          \/ Dashboard!Rank[rows.central[u]] >= Dashboard!Rank[stood[V.time][u]]
    BY <1>3 DEF Dashboard!Reaches
  <2>5. Dashboard!Reaches(rows.own, rows.own)
    BY <1>3, ReachesOn
  <2>. HIDE DEF V, new
  <2>6. ViewedBy(v)'
    BY <1>1, <1>2, <2>3, <2>4, <2>5 DEF ViewedBy
  <2>. QED
    BY <1>1, <2>1, <2>2, <2>6, ViewerSteps
<1>6. ASSUME NEW own \in PagedRows, Dashboard!Rendered(v, own),
             Dashboard!Reaches(rows.own, own),
             \A u \in Paged :
               \/ Dashboard!Rank[own[u]] >= Dashboard!Rank[stood[V.time][u]]
               \/ Dashboard!Rank[rows.central[u]] >= Dashboard!Rank[stood[V.time][u]]
      PROVE  PageInv'
  <2>. DEFINE U == Dashboard!Union(own, rows.central)
              new == [V EXCEPT !.at = "read", !.own = U]
  <2>1. view' = [view EXCEPT ![v] = new]
    BY <1>6 DEF Dashboard!Rendered, PageInv, PageTypes
  <2>2. /\ U \in PagedRows
        /\ \A u \in Paged : /\ U[u] \in {own[u], rows.central[u]}
                            /\ Dashboard!Rank[U[u]] >= Dashboard!Rank[own[u]]
                            /\ Dashboard!Rank[U[u]] >= Dashboard!Rank[rows.central[u]]
    BY <1>3, <1>6, UnionIs
  <2>. HIDE DEF U
  <2>3. new \in View /\ view'[v] = new
    BY <1>2, <2>1, <2>2 DEF View, PageInv, PageTypes
  <2>4. /\ view'[v].at = "read" /\ view'[v].own = U /\ view'[v].time = V.time
        /\ view'[v].on = V.on /\ view'[v].must = V.must /\ view'[v].crossed = V.crossed
    BY <1>2, <2>3 DEF View
  <2>5. \A u \in Paged :
          /\ Dashboard!Rank[own[u]] \in Int /\ Dashboard!Rank[rows.central[u]] \in Int
          /\ Dashboard!Rank[U[u]] \in Int /\ Dashboard!Rank[stood[V.time][u]] \in Int
          /\ Dashboard!Rank[rows.own[u]] \in Int /\ Dashboard!Rank[Dashboard!Known[u]] \in Int
    <3>1. \A u \in Paged :
            /\ own[u] \in States /\ rows.central[u] \in States /\ U[u] \in States
            /\ stood[V.time][u] \in States /\ rows.own[u] \in States
            /\ Dashboard!Known[u] \in States
      BY <1>2, <1>3, <1>6, <2>2 DEF PagedRows
    <3>. QED
      BY <3>1, RankIs
  <2>. HIDE DEF V, new
  <2>6. Dashboard!Reaches(Dashboard!Known, U)
    BY <1>3, <1>6, <2>2, <2>5 DEF Dashboard!Reaches
  <2>7. Dashboard!Reaches(U, stood[V.time])
    BY <1>6, <2>2, <2>5 DEF Dashboard!Reaches
  <2>8. Dashboard!Reaches(U, rows.central)
    BY <2>2 DEF Dashboard!Reaches
  <2>9. ~V.crossed => Dashboard!Reaches(U, V.must)
    <3>1. ASSUME ~V.crossed PROVE Dashboard!Reaches(U, V.must)
      <4>1. Dashboard!Reaches(rows.central, V.must)
        BY <1>2, <1>3, <3>1
      <4>. QED
        BY <1>2, <1>3, <2>2, <2>8, <4>1, ReachesOn
    <3>. QED
      BY <3>1
  <2>10. ViewedBy(v)'
    BY <1>1, <1>2, <1>4, <2>4, <2>6, <2>7, <2>9 DEF ViewedBy
  <2>. QED
    BY <1>1, <2>1, <2>3, <2>10, ViewerSteps
<1>7. CASE Dashboard!ReadCentral(v)
  <2>1. V.at = "half" /\ Dashboard!Rendered(v, V.own)
    BY <1>7 DEF Dashboard!ReadCentral
  <2>2. /\ Dashboard!Reaches(rows.own, V.own)
        /\ \A u \in Paged :
             \/ Dashboard!Rank[V.own[u]] >= Dashboard!Rank[stood[V.time][u]]
             \/ Dashboard!Rank[rows.central[u]] >= Dashboard!Rank[stood[V.time][u]]
    BY <2>1 DEF PageInv, ViewedBy
  <2>. QED
    BY <1>2, <1>6, <2>1, <2>2
<1>8. CASE Dashboard!ReadBoth(v)
  <2>1. Dashboard!Rendered(v, rows.own)
    BY <1>8 DEF Dashboard!ReadBoth
  <2>2. \A u \in Paged :
          \/ Dashboard!Rank[rows.own[u]] >= Dashboard!Rank[stood[V.time][u]]
          \/ Dashboard!Rank[rows.central[u]] >= Dashboard!Rank[stood[V.time][u]]
    BY <1>3 DEF Dashboard!Reaches
  <2>3. Dashboard!Reaches(rows.own, rows.own)
    BY <1>3, ReachesOn
  <2>. QED
    BY <1>3, <1>6, <2>1, <2>2, <2>3
<1>. QED
  BY <1>5, <1>7, <1>8

\* A viewer leaves.
LEMMA ViewerLeaves ==
  ASSUME PageInv, NEW v \in Viewers, Dashboard!Leave(v)
  PROVE  PageInv'
<1>1. view' = [view EXCEPT ![v] = Away] /\ UNCHANGED <<clock, rows, page, push, stood, answered>>
  BY DEF Dashboard!Leave, Away
<1>2. view'[v].at = "away"
  BY <1>1 DEF PageInv, PageTypes, Away
<1>3. ViewedBy(v)'
  BY <1>2 DEF ViewedBy
<1>. QED
  BY <1>1, <1>3, ViewerSteps

\* The page that was read is kept by the worker and shown.
LEMMA PageIsKept ==
  ASSUME PageInv, NEW v \in Viewers, Dashboard!Keep(v)
  PROVE  PageInv'
<1>. DEFINE V == view[v]
            made == [at |-> V.time, rows |-> V.own, crossed |-> V.crossed]
            new == [V EXCEPT !.at = "shown", !.own = Dashboard!Nothing, !.page = made]
<1>1. /\ V.at = "read" /\ UNCHANGED <<clock, rows, push, stood, answered>>
      /\ page' = [page EXCEPT ![V.on] = made]
      /\ view' = [view EXCEPT ![v] = new]
  BY DEF Dashboard!Keep, Dashboard!KeepAs, PageInv, PageTypes
<1>2. V \in View /\ V.at # "away"
  BY <1>1 DEF PageInv, PageTypes, Away
<1>3. /\ V.time \in Nat /\ V.time <= clock /\ V.own \in PagedRows /\ V.on \in Workers
      /\ V.crossed \in BOOLEAN /\ V.must \in PagedRows
      /\ ~V.crossed => answered[V.on] = V.must
      /\ Dashboard!Reaches(Dashboard!Known, V.own)
      /\ Dashboard!Reaches(V.own, stood[V.time])
      /\ ~V.crossed => Dashboard!Reaches(V.own, V.must)
  <2>1. /\ V.time \in Nat /\ V.own \in PagedRows /\ V.on \in Workers /\ V.crossed \in BOOLEAN
        /\ V.must \in PagedRows
    BY <1>2 DEF View
  <2>. QED
    BY <1>1, <1>2, <2>1 DEF PageInv, ViewedBy
<1>4. Dashboard!Nothing \in PagedRows
  BY DEF Dashboard!Nothing, PagedRows, States
<1>5. /\ made \in Page /\ made.at = V.time /\ made.rows = V.own /\ made.crossed = V.crossed
  BY <1>3 DEF Page
<1>. HIDE DEF made
<1>6. /\ new \in View /\ view'[v] = new
      /\ view' \in [Viewers -> {Away} \cup View]
  BY <1>1, <1>2, <1>4, <1>5 DEF View, PageInv, PageTypes
<1>7. /\ view'[v].at = "shown" /\ view'[v].time = V.time /\ view'[v].must = V.must
      /\ view'[v].page = made
  BY <1>2, <1>6 DEF View
<1>8. /\ DOMAIN page' = Workers /\ page'[V.on] = made
      /\ \A w \in Workers : w # V.on => page'[w] = page[w]
  BY <1>1, <1>3 DEF PageInv, PageTypes
<1>. HIDE DEF new, V
<1>9. Dashboard!Known' = Dashboard!Known
  BY <1>1 DEF Dashboard!Known
<1>10. PageTypes'
  BY <1>1, <1>6, <1>8 DEF PageInv, PageTypes
<1>11. Past' /\ Delivered'
  BY <1>1, <1>9 DEF PageInv, Past, Delivered
<1>12. ASSUME NEW w \in Workers PROVE KeptBy(w)'
  <2>1. CASE w = V.on
    BY <1>1, <1>3, <1>5, <1>8, <1>9, <2>1 DEF KeptBy
  <2>2. CASE w # V.on
    BY <1>1, <1>8, <1>9, <2>2 DEF PageInv, KeptBy
  <2>. QED
    BY <2>1, <2>2
<1>13. ASSUME NEW o \in Viewers PROVE ViewedBy(o)'
  <2>1. CASE o = v
    <3>1. ASSUME V.time >= Ttl PROVE Dashboard!Reaches(V.own, stood[V.time - Ttl])
      <4>1. V.time - Ttl \in 0 .. clock /\ V.time \in 0 .. clock /\ V.time - Ttl <= V.time
        BY <1>3, <3>1, PageConstants DEF PageInv, PageTypes
      <4>2. Dashboard!Reaches(stood[V.time], stood[V.time - Ttl])
        BY <4>1 DEF PageInv, Past
      <4>3. stood[V.time] \in PagedRows /\ stood[V.time - Ttl] \in PagedRows
        BY <4>1 DEF PageInv, PageTypes
      <4>. QED
        BY <1>3, <4>2, <4>3, ReachesOn
    <3>2. ViewedBy(v)'
      BY <1>1, <1>3, <1>5, <1>7, <1>9, <3>1 DEF ViewedBy
    <3>. QED
      BY <2>1, <3>2
  <2>2. CASE o # v
    <3>1. view'[o] = view[o]
      BY <1>1, <2>2 DEF PageInv, PageTypes
    <3>. QED
      BY <1>1, <1>9, <3>1 DEF PageInv, ViewedBy
  <2>. QED
    BY <2>1, <2>2
<1>. QED
  BY <1>10, <1>11, <1>12, <1>13 DEF PageInv

\* A worker starts again: its page and the renders under way on it are gone.
LEMMA WorkerRestarts ==
  ASSUME PageInv, NEW w \in Workers, Dashboard!Restart(w)
  PROVE  PageInv'
<1>1. /\ page' = [page EXCEPT ![w] = None] /\ UNCHANGED <<clock, rows, push, stood, answered>>
      /\ view' = [v \in Viewers |-> IF Dashboard!UnderWay(v, w) THEN Away ELSE view[v]]
  BY DEF Dashboard!Restart, Away
<1>2. /\ \A v \in Viewers : view'[v] = Away \/ view'[v] = view[v]
      /\ view' \in [Viewers -> {Away} \cup View]
  BY <1>1 DEF PageInv, PageTypes
<1>3. /\ DOMAIN page' = Workers
      /\ \A x \in Workers : page'[x] = None \/ page'[x] = page[x]
  BY <1>1 DEF PageInv, PageTypes
<1>4. Dashboard!Known' = Dashboard!Known
  BY <1>1 DEF Dashboard!Known
<1>5. PageTypes'
  BY <1>1, <1>2, <1>3 DEF PageInv, PageTypes
<1>6. Past' /\ Delivered'
  BY <1>1, <1>4 DEF PageInv, Past, Delivered
<1>7. ASSUME NEW x \in Workers PROVE KeptBy(x)'
  BY <1>1, <1>3, <1>4 DEF PageInv, KeptBy
<1>8. ASSUME NEW v \in Viewers PROVE ViewedBy(v)'
  <2>1. CASE view'[v] = Away
    BY <2>1 DEF ViewedBy, Away
  <2>2. CASE view'[v] = view[v]
    BY <1>1, <1>4, <2>2 DEF PageInv, ViewedBy
  <2>. QED
    BY <1>2, <2>1, <2>2
<1>. QED
  BY <1>5, <1>6, <1>7, <1>8 DEF PageInv

LEMMA PageSteps ==
  ASSUME PageInv, Dashboard!Next \/ UNCHANGED pageVars
  PROVE  PageInv'
<1>1. CASE UNCHANGED pageVars
  <2>1. UNCHANGED <<clock, rows, page, push, view, stood, answered>>
    BY <1>1 DEF pageVars
  <2>2. Dashboard!Known' = Dashboard!Known
    BY <2>1 DEF Dashboard!Known
  <2>3. \A w \in Workers : KeptBy(w)'
    BY <2>1, <2>2 DEF PageInv, KeptBy
  <2>4. \A v \in Viewers : ViewedBy(v)'
    BY <2>1, <2>2 DEF PageInv, ViewedBy
  <2>. QED
    BY <2>1, <2>2, <2>3, <2>4 DEF PageInv, PageTypes, Past, Delivered
<1>2. CASE \E u \in Paged : \/ Dashboard!Calling(u) \/ Dashboard!AnswerPush(u)
                           \/ \E w \in Workers : Dashboard!PushRows(u, w)
  BY <1>2, TablesChange, PushAnswered
<1>3. CASE \E v \in Viewers :
             \/ \E w \in Workers : Dashboard!Look(v, w)
             \/ Dashboard!ReadOwn(v) \/ Dashboard!ReadCentral(v) \/ Dashboard!ReadBoth(v)
             \/ Dashboard!Keep(v) \/ Dashboard!Leave(v)
  BY <1>3, ViewerLooks, ViewerReads, PageIsKept, ViewerLeaves
<1>4. CASE \E w \in Workers : Dashboard!Restart(w)
  BY <1>4, WorkerRestarts
<1>5. CASE Dashboard!Tick
  BY <1>5, PageTicks
<1>. QED
  BY <1>1, <1>2, <1>3, <1>4, <1>5 DEF Dashboard!Next

\* A viewer sees of every call what the tables said a lifetime of the page before it came, and
\* no more than they say now; and the rows of a push its own worker had answered, unless the
\* page's render began before that: for any number of viewers, workers and calls, whatever
\* renders, pushes, restarts and disconnections cross each other.
THEOREM PagesAreRecent == PartsSpec => []PageIsRecent
<1>. DEFINE Inv == part = "page" => PageInv
<1>1. PartsInit => Inv
  BY EachPartStarts, PageStarts
<1>2. Inv /\ [PartsNext]_partsVars => Inv'
  BY OnePartActs, PageSteps
<1>3. Inv => PageIsRecent
  <2>1. SUFFICES ASSUME PageInv PROVE Dashboard!PageIsRecent
    BY DEF PageIsRecent
  <2>2. \A v \in Viewers : ViewedBy(v)
    BY <2>1 DEF PageInv
  <2>. QED
    BY <2>2 DEF ViewedBy, Dashboard!PageIsRecent
<1>. QED
  BY <1>1, <1>2, <1>3, PTL DEF PartsSpec

-----------------------------------------------------------------------------
(* The move to Postgres.                                                   *)

Ledgers ==
  [ledger : Move!Rows, chain : Seq(Moved), central : Move!Rows, receipts : SUBSET Moved,
   local : Nat]
Imports ==
  [at : {"idle", "audit", "import", "central", "rows", "done"}, records : Seq(Moved),
   left : SUBSET Moved]

MoveTypes ==
  /\ old \in Ledgers /\ hosted \in Ledgers /\ up \in BOOLEAN /\ anchor \in Seq(Moved)
  /\ imports \in [Importers -> Imports] /\ pushed \in Nat

Starts(s, t) == Len(s) <= Len(t) /\ \A j \in 1 .. Len(s) : s[j] = t[j]

\* A ledger seals what is complete, once, and has a row for every receipt.
Sound(files) ==
  /\ \A a, b \in 1 .. Len(files.chain) : files.chain[a] = files.chain[b] => a = b
  /\ \A a \in 1 .. Len(files.chain) : files.ledger[files.chain[a]] = "complete"
  /\ \A u \in files.receipts : files.central[u] # "none"

\* All that the old proxy left is in the hosted one.
Through ==
  /\ Move!Reaches(hosted.ledger, old.ledger) /\ Move!Reaches(hosted.central, old.central)
  /\ old.receipts \subseteq hosted.receipts /\ Starts(old.chain, hosted.chain)

\* What an import has brought by where it is.
Brought(i) ==
  /\ imports[i].at # "idle" => Move!Reaches(hosted.ledger, old.ledger)
  /\ imports[i].at = "import" => imports[i].records = old.chain
  /\ imports[i].at \in {"central", "rows", "done"} => Starts(old.chain, hosted.chain)
  /\ imports[i].at = "rows" =>
       \A u \in Moved : u \notin imports[i].left =>
         Move!Rank[hosted.central[u]] >= Move!Rank[old.central[u]]
  /\ imports[i].at = "done" => Through

MoveInv ==
  /\ MoveTypes /\ Sound(old) /\ Sound(hosted) /\ Starts(anchor, old.chain)
  /\ pushed <= hosted.local
  /\ hosted.chain # <<>> => Starts(old.chain, hosted.chain)
  /\ up => Through
  /\ \A i \in Importers : Brought(i)

\* How far a row is, and that a merge never takes it back.
LEMMA MoveRanks ==
  /\ Move!Rank["none"] = 0 /\ Move!Rank["in_flight"] = 1 /\ Move!Rank["complete"] = 2
  /\ \A a \in Move!States : Move!Rank[a] \in 0 .. 2
BY DEF Move!Rank, Move!States

LEMMA MergedIs ==
  ASSUME NEW a \in Move!States, NEW b \in Move!States
  PROVE  /\ Move!Merged(a, b) \in {a, b}
         /\ Move!Rank[Move!Merged(a, b)] >= Move!Rank[a]
         /\ Move!Rank[Move!Merged(a, b)] >= Move!Rank[b]
         /\ a = "complete" => Move!Merged(a, b) = "complete"
         /\ a # "none" \/ b # "none" => Move!Merged(a, b) # "none"
BY MoveRanks DEF Move!Merged, Move!States

\* What reaches what reaches: one ledger's rows are as far as another's.
LEMMA MoveReaches ==
  ASSUME NEW a \in Move!Rows, NEW b \in Move!Rows, NEW c \in Move!Rows
  PROVE  /\ Move!Reaches(a, a)
         /\ Move!Reaches(a, b) /\ Move!Reaches(b, c) => Move!Reaches(a, c)
         /\ Move!Reaches(a, b) => \A u \in Moved : /\ b[u] = "complete" => a[u] = "complete"
                                                   /\ b[u] # "none" => a[u] # "none"
<1>1. \A u \in Moved : a[u] \in Move!States /\ b[u] \in Move!States /\ c[u] \in Move!States
  BY DEF Move!Rows
<1>2. \A u \in Moved : /\ Move!Rank[a[u]] \in Int /\ Move!Rank[b[u]] \in Int
                       /\ Move!Rank[c[u]] \in Int
  BY <1>1, MoveRanks
<1>3. Move!Reaches(a, b) => \A u \in Moved : /\ b[u] = "complete" => a[u] = "complete"
                                             /\ b[u] # "none" => a[u] # "none"
  BY <1>1, MoveRanks DEF Move!Reaches, Move!States
<1>. QED
  BY <1>2, <1>3 DEF Move!Reaches

\* A chain that starts as another that starts as a third.
LEMMA StartsOn ==
  ASSUME NEW r \in Seq(Moved), NEW s \in Seq(Moved), NEW t \in Seq(Moved)
  PROVE  /\ Starts(s, s) /\ Starts(<<>>, s)
         /\ Starts(r, s) /\ Starts(s, t) => Starts(r, t)
         /\ Starts(s, t) => Move!IsPrefix(s, t)
         /\ \A u \in Moved : /\ Starts(s, Append(s, u)) /\ Append(s, u) \in Seq(Moved)
                             /\ Append(s, u) # <<>>
<1>1. /\ Len(r) \in Nat /\ Len(s) \in Nat /\ Len(t) \in Nat
      /\ DOMAIN s = 1 .. Len(s) /\ DOMAIN t = 1 .. Len(t)
  BY LenProperties
<1>2. Starts(s, s) /\ Starts(<<>>, s)
  BY <1>1, EmptySeq DEF Starts
<1>3. Starts(r, s) /\ Starts(s, t) => Starts(r, t)
  BY <1>1 DEF Starts
<1>4. ASSUME Starts(s, t) PROVE Move!IsPrefix(s, t)
  <2>. DEFINE a == SubSeq(s, 1, Len(s))
              b == SubSeq(t, 1, Len(s))
  <2>1. /\ \A i \in 1 .. Len(s) : s[i] \in Moved /\ t[i] \in Moved
        /\ Len(s) <= Len(t) /\ \A i \in 1 .. Len(s) : s[i] = t[i]
    BY <1>1, <1>4, ElementOfSeq DEF Starts
  <2>2. /\ a \in Seq(Moved) /\ Len(a) = IF 1 <= Len(s) THEN Len(s) - 1 + 1 ELSE 0
        /\ \A i \in 1 .. Len(s) - 1 + 1 : a[i] = s[1 + i - 1]
    BY <1>1, <2>1, SubSeqProperties
  <2>3. /\ b \in Seq(Moved) /\ Len(b) = IF 1 <= Len(s) THEN Len(s) - 1 + 1 ELSE 0
        /\ \A i \in 1 .. Len(s) - 1 + 1 : b[i] = t[1 + i - 1]
    BY <1>1, <2>1, SubSeqProperties
  <2>. HIDE DEF a, b
  <2>4. Len(a) = Len(s) /\ Len(b) = Len(s)
    BY <1>1, <2>2, <2>3
  <2>5. \A i \in 1 .. Len(s) : a[i] = b[i]
    BY <1>1, <2>1, <2>2, <2>3
  <2>6. a = b
    BY <2>2, <2>3, <2>4, <2>5, SeqEqual
  <2>. QED
    BY <2>1, <2>6 DEF a, b, Move!IsPrefix
<1>5. ASSUME NEW u \in Moved
      PROVE  Starts(s, Append(s, u)) /\ Append(s, u) \in Seq(Moved) /\ Append(s, u) # <<>>
  <2>1. /\ Append(s, u) \in Seq(Moved) /\ Len(Append(s, u)) = Len(s) + 1
        /\ \A i \in 1 .. Len(s) : Append(s, u)[i] = s[i]
    BY AppendProperties
  <2>. QED
    BY <1>1, <2>1, EmptySeq DEF Starts
<1>. QED
  BY <1>2, <1>3, <1>4, <1>5

\* A call that is complete and not yet sealed is sealed.
LEMMA SealsSoundly ==
  ASSUME NEW files \in Ledgers, Sound(files), NEW u \in Moved, files.ledger[u] = "complete",
         u \notin Move!ToSet(files.chain)
  PROVE  Sound([files EXCEPT !.chain = Append(@, u)])
<1>. DEFINE s == files.chain
            t == Append(s, u)
            next == [files EXCEPT !.chain = t]
<1>1. s \in Seq(Moved) /\ Len(s) \in Nat /\ DOMAIN s = 1 .. Len(s)
  BY LenProperties DEF Ledgers
<1>2. /\ t \in Seq(Moved) /\ Len(t) = Len(s) + 1 /\ \A i \in 1 .. Len(s) : t[i] = s[i]
      /\ t[Len(s) + 1] = u
  BY <1>1, AppendProperties
<1>3. \A i \in 1 .. Len(s) : s[i] # u
  BY <1>1 DEF Move!ToSet
<1>4. /\ next.chain = t /\ next.ledger = files.ledger /\ next.receipts = files.receipts
      /\ next.central = files.central
  BY DEF Ledgers
<1>. HIDE DEF t, next
<1>5. \A i \in 1 .. Len(t) : i \in 1 .. Len(s) \/ i = Len(s) + 1
  BY <1>1, <1>2
<1>6. \A a, b \in 1 .. Len(t) : t[a] = t[b] => a = b
  BY <1>2, <1>3, <1>5 DEF Sound
<1>7. \A a \in 1 .. Len(t) : files.ledger[t[a]] = "complete"
  BY <1>2, <1>5 DEF Sound
<1>8. Sound(next)
  BY <1>4, <1>6, <1>7 DEF Sound
<1>. QED
  BY <1>8 DEF next, t

LEMMA MoveStarts == Move!Init => MoveInv
<1>. SUFFICES ASSUME Move!Init PROVE MoveInv
  OBVIOUS
<1>1. /\ old.ledger \in Move!Rows /\ old.central \in Move!Rows /\ old.receipts \in SUBSET Moved
      /\ old.local \in Nat /\ old.chain \in Move!SeqOf(Moved, Move!Cardinality(Moved))
      /\ DOMAIN old = {"ledger", "chain", "central", "receipts", "local"}
      /\ old = [ledger |-> old.ledger, chain |-> old.chain, central |-> old.central,
                receipts |-> old.receipts, local |-> old.local]
  BY DEF Move!Init
<1>2. old.chain \in Seq(Moved)
  BY <1>1 DEF Move!SeqOf
<1>3. old \in Ledgers
  BY <1>1, <1>2 DEF Ledgers
<1>4. /\ hosted.ledger = [u \in Moved |-> "none"] /\ hosted.chain = <<>> /\ hosted \in Ledgers
      /\ hosted.receipts = {} /\ hosted.local = 0
  BY EmptySeq DEF Move!Init, Move!Empty, Ledgers, Move!Rows, Move!States
<1>5. Len(old.chain) \in Nat /\ DOMAIN old.chain = 1 .. Len(old.chain)
  BY <1>2, LenProperties
<1>6. anchor \in Seq(Moved) /\ Starts(anchor, old.chain)
  <2>1. PICK n \in {0, Len(old.chain)} : anchor = SubSeq(old.chain, 1, n)
    BY DEF Move!Init
  <2>2. CASE n = 0
    <3>1. SubSeq(old.chain, 1, 0) = <<>>
      BY SubSeqEmpty
    <3>2. anchor = <<>>
      BY <2>1, <2>2, <3>1
    <3>3. Starts(<<>>, old.chain) /\ <<>> \in Seq(Moved)
      BY <1>2, EmptySeq, StartsOn
    <3>. QED
      BY <3>2, <3>3
  <2>3. CASE n = Len(old.chain)
    BY <1>2, <2>1, <2>3, SubSeqFull, StartsOn
  <2>. QED
    BY <2>1, <2>2, <2>3
<1>7. Sound(old)
  BY <1>5 DEF Move!Init, Sound, Move!IsInjective, Move!ToSet, Move!Completed
<1>8. Sound(hosted)
  BY <1>4, EmptySeq DEF Sound
<1>9. imports \in [Importers -> Imports] /\ \A i \in Importers : imports[i].at = "idle"
  BY EmptySeq DEF Move!Init, Move!NoImport, Imports
<1>10. MoveTypes
  BY <1>3, <1>4, <1>6, <1>9 DEF MoveTypes, Move!Init
<1>11. \A i \in Importers : Brought(i)
  BY <1>9 DEF Brought
<1>. QED
  BY <1>4, <1>6, <1>7, <1>8, <1>10, <1>11 DEF MoveInv, Move!Init

\* A step after which the hosted ledgers are as far as before, and further only by what an
\* import brings or the hosted proxy does.
LEMMA MoveGrows ==
  ASSUME MoveInv, MoveTypes', Sound(hosted)', UNCHANGED <<old, anchor>>,
         pushed' <= hosted'.local,
         Move!Reaches(hosted'.ledger, hosted.ledger),
         Move!Reaches(hosted'.central, hosted.central),
         hosted.receipts \subseteq hosted'.receipts,
         Starts(hosted.chain, hosted'.chain),
         hosted'.chain = hosted.chain \/ Starts(old.chain, hosted'.chain),
         up' => up \/ Through,
         \A i \in Importers : imports'[i] = imports[i] \/ Brought(i)'
  PROVE  MoveInv'
<1>1. /\ \A r \in Move!Rows : Move!Reaches(hosted.ledger, r) => Move!Reaches(hosted'.ledger, r)
      /\ \A r \in Move!Rows : Move!Reaches(hosted.central, r) => Move!Reaches(hosted'.central, r)
  BY MoveReaches DEF MoveInv, MoveTypes, Ledgers
<1>2. Starts(old.chain, hosted.chain) => Starts(old.chain, hosted'.chain)
  BY StartsOn DEF MoveInv, MoveTypes, Ledgers
<1>3. old.ledger \in Move!Rows /\ old.central \in Move!Rows
  BY DEF MoveInv, MoveTypes, Ledgers
<1>4. Through => Through'
  BY <1>1, <1>2, <1>3 DEF Through
<1>5. ASSUME NEW i \in Importers, imports'[i] = imports[i] PROVE Brought(i)'
  <2>1. Brought(i)
    BY DEF MoveInv
  <2>2. \A u \in Moved : Move!Rank[hosted.central[u]] >= Move!Rank[old.central[u]] =>
                           Move!Rank[hosted'.central[u]] >= Move!Rank[old.central[u]]
    <3>1. \A u \in Moved : /\ hosted.central[u] \in Move!States /\ old.central[u] \in Move!States
                           /\ hosted'.central[u] \in Move!States
      BY DEF MoveInv, MoveTypes, Ledgers, Move!Rows
    <3>2. \A u \in Moved : Move!Rank[hosted'.central[u]] >= Move!Rank[hosted.central[u]]
      BY DEF Move!Reaches
    <3>. QED
      BY <3>1, <3>2, MoveRanks
  <2>3. /\ Move!Reaches(hosted.ledger, old.ledger) => Move!Reaches(hosted'.ledger, old.ledger)
        /\ old' = old
    BY <1>1, <1>3
  <2>. QED
    BY <1>2, <1>4, <1>5, <2>1, <2>2, <2>3 DEF Brought
<1>6. \A i \in Importers : Brought(i)'
  BY <1>5
<1>7. hosted'.chain # <<>> => Starts(old.chain, hosted'.chain)
  BY <1>2 DEF MoveInv
<1>. QED
  BY <1>4, <1>6, <1>7 DEF MoveInv

\* The same of a step that leaves the hosted ledgers alone.
LEMMA MoveStays ==
  ASSUME MoveInv, UNCHANGED <<old, hosted, anchor, pushed>>, up' \in BOOLEAN,
         imports' \in [Importers -> Imports], up' => up \/ Through,
         \A i \in Importers : imports'[i] = imports[i] \/ Brought(i)'
  PROVE  MoveInv'
<1>1. /\ hosted.ledger \in Move!Rows /\ hosted.central \in Move!Rows /\ hosted.chain \in Seq(Moved)
  BY DEF MoveInv, MoveTypes, Ledgers
<1>2. /\ Move!Reaches(hosted.ledger, hosted.ledger) /\ Move!Reaches(hosted.central, hosted.central)
      /\ Starts(hosted.chain, hosted.chain)
  BY <1>1, MoveReaches, StartsOn
<1>3. MoveTypes' /\ Sound(hosted)' /\ pushed' <= hosted'.local
  BY DEF MoveInv, MoveTypes, Sound
<1>. QED
  BY <1>2, <1>3, MoveGrows

\* The old proxy runs: no import is under way, and nothing of the chain is moved yet.
LEMMA OldProxyRuns ==
  ASSUME MoveInv, NEW u \in Moved, Move!OldCompletes(u) \/ Move!OldSeals(u)
  PROVE  MoveInv'
<1>1. /\ ~up /\ hosted.chain = <<>> /\ \A i \in Importers : imports[i].at = "idle"
      /\ UNCHANGED <<hosted, up, imports, pushed>>
  BY DEF Move!OldCompletes, Move!OldSeals, Move!OldRuns
<1>2. \A i \in Importers : Brought(i)'
  BY <1>1 DEF Brought
<1>3. /\ old \in Ledgers /\ old.ledger \in Move!Rows /\ old.ledger[u] \in Move!States
      /\ old.chain \in Seq(Moved)
  BY DEF MoveInv, MoveTypes, Ledgers, Move!Rows
<1>4. CASE Move!OldCompletes(u)
  <2>. DEFINE l == [old.ledger EXCEPT ![u] = "complete"]
  <2>1. old' = [old EXCEPT !.ledger = l] /\ anchor' = anchor
    BY <1>4 DEF Move!OldCompletes
  <2>2. /\ l \in Move!Rows /\ \A o \in Moved : old.ledger[o] = "complete" => l[o] = "complete"
    BY <1>3 DEF Move!Rows, Move!States
  <2>. HIDE DEF l
  <2>3. /\ old' \in Ledgers /\ old'.ledger = l /\ old'.chain = old.chain
        /\ old'.receipts = old.receipts /\ old'.central = old.central
    BY <1>3, <2>1, <2>2 DEF Ledgers
  <2>4. \A a \in 1 .. Len(old.chain) : old.chain[a] \in Moved
    BY <1>3, ElementOfSeq
  <2>5. Sound(old)'
    BY <2>2, <2>3, <2>4 DEF MoveInv, Sound
  <2>6. Starts(anchor, old.chain)' /\ Sound(hosted)'
    BY <1>1, <2>1, <2>3 DEF MoveInv, Sound
  <2>7. MoveTypes'
    BY <1>1, <2>1, <2>3 DEF MoveInv, MoveTypes
  <2>. QED
    BY <1>1, <1>2, <2>5, <2>6, <2>7 DEF MoveInv
<1>5. CASE Move!OldSeals(u)
  <2>1. /\ old' = [old EXCEPT !.chain = Append(@, u)]
        /\ old.ledger[u] = "complete" /\ u \notin Move!ToSet(old.chain)
        /\ anchor' \in {anchor, old'.chain}
    BY <1>5 DEF Move!OldSeals, Move!Completed
  <2>2. Sound(old')
    BY <1>3, <2>1, SealsSoundly DEF MoveInv
  <2>3. /\ Append(old.chain, u) \in Seq(Moved) /\ Starts(old.chain, Append(old.chain, u))
    BY <1>3, StartsOn
  <2>. DEFINE c == Append(old.chain, u)
  <2>4. old' \in Ledgers /\ old'.chain = c
    <3>1. old' = [old EXCEPT !.chain = c] /\ c \in Seq(Moved)
      BY <2>1, <2>3
    <3>. HIDE DEF c
    <3>. QED
      BY <1>3, <3>1 DEF Ledgers
  <2>5. anchor' \in Seq(Moved) /\ Starts(anchor', old'.chain)
    <3>1. anchor \in Seq(Moved) /\ Starts(anchor, old.chain)
      BY DEF MoveInv, MoveTypes
    <3>. HIDE DEF c
    <3>2. c \in Seq(Moved) /\ Starts(old.chain, c)
      BY <2>3 DEF c
    <3>3. Starts(anchor, c) /\ Starts(c, c)
      BY <1>3, <3>1, <3>2, StartsOn
    <3>4. CASE anchor' = anchor
      BY <2>4, <3>1, <3>3, <3>4
    <3>5. CASE anchor' = old'.chain
      BY <2>4, <3>2, <3>3, <3>5
    <3>. QED
      BY <2>1, <3>4, <3>5
  <2>6. MoveTypes'
    BY <1>1, <2>4, <2>5 DEF MoveInv, MoveTypes
  <2>7. Sound(old)' /\ Sound(hosted)'
    BY <1>1, <2>2 DEF MoveInv, Sound
  <2>. QED
    BY <1>1, <1>2, <2>5, <2>6, <2>7 DEF MoveInv
<1>. QED
  BY <1>4, <1>5

\* One import's step: what is said of the others stays.
LEMMA OneImport ==
  ASSUME MoveInv, NEW i \in Importers, NEW new \in Imports,
         imports' = [imports EXCEPT ![i] = new]
  PROVE  /\ imports' \in [Importers -> Imports] /\ imports'[i] = new
         /\ \A j \in Importers : j # i => imports'[j] = imports[j]
BY DEF MoveInv, MoveTypes

\* The ledger is brought, row by row no less than it was on either side.
LEMMA LedgerIsBrought ==
  ASSUME MoveInv, NEW i \in Importers, Move!ImportLedger(i)
  PROVE  MoveInv'
<1>. DEFINE l == [u \in Moved |-> Move!Merged(hosted.ledger[u], old.ledger[u])]
            new == [imports[i] EXCEPT !.at = "audit"]
<1>1. /\ hosted' = [hosted EXCEPT !.ledger = l] /\ imports' = [imports EXCEPT ![i] = new]
      /\ UNCHANGED <<old, up, anchor, pushed>>
  BY DEF Move!ImportLedger, Move!Goes, MoveInv, MoveTypes
<1>2. /\ old.ledger \in Move!Rows /\ hosted.ledger \in Move!Rows /\ hosted.central \in Move!Rows
      /\ hosted.chain \in Seq(Moved) /\ hosted \in Ledgers /\ imports[i] \in Imports
  BY DEF MoveInv, MoveTypes, Ledgers
<1>3. new \in Imports /\ new.at = "audit"
  BY <1>2 DEF Imports
<1>4. \A u \in Moved : /\ l[u] \in Move!States /\ Move!Rank[l[u]] >= Move!Rank[hosted.ledger[u]]
                       /\ Move!Rank[l[u]] >= Move!Rank[old.ledger[u]]
                       /\ hosted.ledger[u] = "complete" => l[u] = "complete"
  BY <1>2, MergedIs DEF Move!Rows
<1>5. l \in Move!Rows /\ Move!Reaches(l, hosted.ledger) /\ Move!Reaches(l, old.ledger)
  BY <1>4 DEF Move!Rows, Move!Reaches
<1>. HIDE DEF l, new
<1>6. /\ hosted' \in Ledgers /\ hosted'.ledger = l /\ hosted'.chain = hosted.chain
      /\ hosted'.central = hosted.central /\ hosted'.receipts = hosted.receipts
      /\ hosted'.local = hosted.local
  BY <1>1, <1>2, <1>5 DEF Ledgers
<1>7. /\ imports' \in [Importers -> Imports] /\ imports'[i].at = "audit"
      /\ \A j \in Importers : j # i => imports'[j] = imports[j]
  BY <1>1, <1>3, OneImport
<1>8. MoveTypes'
  BY <1>1, <1>6, <1>7 DEF MoveInv, MoveTypes
<1>9. Sound(hosted)'
  <2>1. \A a \in 1 .. Len(hosted.chain) : hosted.chain[a] \in Moved
    BY <1>2, ElementOfSeq
  <2>. QED
    BY <1>4, <1>6, <2>1 DEF MoveInv, Sound
<1>10. Brought(i)'
  BY <1>1, <1>5, <1>6, <1>7 DEF Brought
<1>11. \A j \in Importers : imports'[j] = imports[j] \/ Brought(j)'
  BY <1>7, <1>10
<1>12. /\ Move!Reaches(hosted'.ledger, hosted.ledger)
       /\ Move!Reaches(hosted'.central, hosted.central)
       /\ hosted.receipts \subseteq hosted'.receipts /\ Starts(hosted.chain, hosted'.chain)
       /\ pushed' <= hosted'.local
  BY <1>1, <1>2, <1>5, <1>6, MoveReaches, StartsOn DEF MoveInv
<1>. QED
  BY <1>1, <1>6, <1>8, <1>9, <1>11, <1>12, MoveGrows

\* The chain is read, and imported into a table that is still empty.
LEMMA ChainIsRead ==
  ASSUME MoveInv, NEW i \in Importers, Move!ReadChain(i)
  PROVE  MoveInv'
<1>. DEFINE new == [imports[i] EXCEPT !.records = old.chain,
                      !.at = IF hosted.chain = <<>> THEN "import" ELSE "central"]
<1>1. /\ imports[i].at = "audit" /\ imports' = [imports EXCEPT ![i] = new]
      /\ UNCHANGED <<old, hosted, up, anchor, pushed>>
  BY DEF Move!ReadChain, MoveInv, MoveTypes
<1>2. imports[i] \in Imports /\ old.chain \in Seq(Moved)
  BY DEF MoveInv, MoveTypes, Ledgers
<1>3. /\ new \in Imports /\ new.records = old.chain
      /\ new.at = IF hosted.chain = <<>> THEN "import" ELSE "central"
  BY <1>2 DEF Imports
<1>. HIDE DEF new
<1>4. /\ imports' \in [Importers -> Imports] /\ imports'[i] = new
      /\ \A j \in Importers : j # i => imports'[j] = imports[j]
  BY <1>1, <1>3, OneImport
<1>5. /\ Move!Reaches(hosted.ledger, old.ledger)
      /\ hosted.chain # <<>> => Starts(old.chain, hosted.chain)
  BY <1>1 DEF MoveInv, Brought
<1>6. Brought(i)'
  BY <1>1, <1>3, <1>4, <1>5 DEF Brought
<1>7. \A j \in Importers : imports'[j] = imports[j] \/ Brought(j)'
  BY <1>4, <1>6
<1>8. up' \in BOOLEAN
  BY <1>1 DEF MoveInv, MoveTypes
<1>. QED
  BY <1>1, <1>4, <1>7, <1>8, MoveStays

LEMMA ChainIsBrought ==
  ASSUME MoveInv, NEW i \in Importers, Move!ImportChain(i)
  PROVE  MoveInv'
<1>1. /\ imports[i].at = "import" /\ UNCHANGED <<old, up, anchor, pushed>>
      /\ imports[i].records = old.chain /\ Move!Reaches(hosted.ledger, old.ledger)
      /\ imports[i] \in Imports /\ hosted \in Ledgers /\ old \in Ledgers
  BY DEF Move!ImportChain, MoveInv, MoveTypes, Brought
<1>2. /\ old.ledger \in Move!Rows /\ hosted.ledger \in Move!Rows /\ hosted.central \in Move!Rows
      /\ hosted.chain \in Seq(Moved) /\ old.chain \in Seq(Moved)
  BY <1>1 DEF Ledgers
<1>3. CASE hosted.chain = <<>>
  <2>. DEFINE new == [imports[i] EXCEPT !.at = "central"]
  <2>1. /\ hosted' = [hosted EXCEPT !.chain = old.chain]
        /\ imports' = [imports EXCEPT ![i] = new]
    BY <1>1, <1>3 DEF Move!ImportChain, Move!Goes, MoveInv, MoveTypes
  <2>2. new \in Imports /\ new.at = "central"
    BY <1>1 DEF Imports
  <2>. HIDE DEF new
  <2>3. /\ imports' \in [Importers -> Imports] /\ imports'[i].at = "central"
        /\ \A j \in Importers : j # i => imports'[j] = imports[j]
    BY <2>1, <2>2, OneImport
  <2>4. /\ hosted' \in Ledgers /\ hosted'.ledger = hosted.ledger /\ hosted'.chain = old.chain
        /\ hosted'.central = hosted.central /\ hosted'.receipts = hosted.receipts
        /\ hosted'.local = hosted.local
    BY <1>1, <1>2, <2>1 DEF Ledgers
  <2>5. MoveTypes'
    BY <1>1, <2>3, <2>4 DEF MoveInv, MoveTypes
  <2>6. Sound(hosted)'
    <3>1. \A a \in 1 .. Len(old.chain) : old.chain[a] \in Moved
      BY <1>2, ElementOfSeq
    <3>2. \A u \in Moved : old.ledger[u] = "complete" => hosted.ledger[u] = "complete"
      BY <1>1, <1>2, MoveReaches
    <3>3. Sound(old) /\ Sound(hosted)
      BY DEF MoveInv
    <3>. QED
      BY <2>4, <3>1, <3>2, <3>3 DEF Sound
  <2>7. Starts(old.chain, old.chain) /\ Starts(hosted.chain, old.chain)
    BY <1>2, <1>3, StartsOn
  <2>8. Brought(i)'
    BY <1>1, <2>3, <2>4, <2>7 DEF Brought
  <2>9. \A j \in Importers : imports'[j] = imports[j] \/ Brought(j)'
    BY <2>3, <2>8
  <2>10. /\ Move!Reaches(hosted'.ledger, hosted.ledger)
         /\ Move!Reaches(hosted'.central, hosted.central) /\ pushed' <= hosted'.local
    BY <1>1, <1>2, <2>4, MoveReaches DEF MoveInv
  <2>. QED
    BY <1>1, <2>4, <2>5, <2>6, <2>7, <2>9, <2>10, MoveGrows
<1>4. CASE hosted.chain # <<>>
  <2>1. hosted' = hosted /\ imports' = [imports EXCEPT ![i] = Move!NoImport]
    BY <1>4 DEF Move!ImportChain
  <2>2. Move!NoImport \in Imports /\ Move!NoImport.at = "idle"
    BY EmptySeq DEF Imports, Move!NoImport
  <2>3. /\ imports' \in [Importers -> Imports] /\ imports'[i].at = "idle"
        /\ \A j \in Importers : j # i => imports'[j] = imports[j]
    BY <2>1, <2>2, OneImport
  <2>4. Brought(i)'
    BY <2>3 DEF Brought
  <2>5. \A j \in Importers : imports'[j] = imports[j] \/ Brought(j)'
    BY <2>3, <2>4
  <2>6. up' \in BOOLEAN
    BY <1>1 DEF MoveInv, MoveTypes
  <2>. QED
    BY <1>1, <2>1, <2>3, <2>5, <2>6, MoveStays
<1>. QED
  BY <1>3, <1>4

\* The central rows, one by one, and then the receipts.
LEMMA CentralIsBrought ==
  ASSUME MoveInv, NEW i \in Importers,
         Move!ReadCentral(i) \/ (\E u \in Moved : Move!ImportRow(i, u)) \/ Move!ImportSources(i)
  PROVE  MoveInv'
<1>1. /\ imports[i] \in Imports /\ hosted \in Ledgers /\ old \in Ledgers
      /\ UNCHANGED <<old, up, anchor, pushed>>
  BY DEF MoveInv, MoveTypes, Move!ReadCentral, Move!ImportRow, Move!ImportSources, Move!Sources
<1>2. /\ old.ledger \in Move!Rows /\ hosted.ledger \in Move!Rows /\ hosted.central \in Move!Rows
      /\ old.central \in Move!Rows /\ hosted.chain \in Seq(Moved) /\ old.chain \in Seq(Moved)
      /\ \A u \in Moved : old.central[u] \in Move!States /\ hosted.central[u] \in Move!States
      /\ hosted.local \in Nat /\ old.local \in Nat /\ old.receipts \subseteq Moved
      /\ hosted.receipts \subseteq Moved
  BY <1>1 DEF Ledgers, Move!Rows
<1>3. CASE Move!ReadCentral(i)
  <2>. DEFINE left == {u \in Moved : old.central[u] # "none"}
              new == [imports[i] EXCEPT !.at = "rows", !.left = left]
  <2>1. /\ imports[i].at = "central" /\ imports' = [imports EXCEPT ![i] = new]
        /\ hosted' = hosted
    BY <1>3 DEF Move!ReadCentral, MoveInv, MoveTypes
  <2>2. new \in Imports /\ new.at = "rows" /\ new.left = left
    BY <1>1 DEF Imports
  <2>. HIDE DEF new
  <2>3. /\ imports' \in [Importers -> Imports] /\ imports'[i] = new
        /\ \A j \in Importers : j # i => imports'[j] = imports[j]
    BY <2>1, <2>2, OneImport
  <2>4. \A u \in Moved : u \notin left => Move!Rank[hosted.central[u]] >= Move!Rank[old.central[u]]
    BY <1>2, MoveRanks
  <2>5. Move!Reaches(hosted.ledger, old.ledger) /\ Starts(old.chain, hosted.chain)
    BY <2>1 DEF MoveInv, Brought
  <2>. HIDE DEF left
  <2>6. Brought(i)'
    BY <1>1, <2>1, <2>2, <2>3, <2>4, <2>5 DEF Brought
  <2>7. \A j \in Importers : imports'[j] = imports[j] \/ Brought(j)'
    BY <2>3, <2>6
  <2>8. up' \in BOOLEAN
    BY <1>1 DEF MoveInv, MoveTypes
  <2>. QED
    BY <1>1, <2>1, <2>3, <2>7, <2>8, MoveStays
<1>4. ASSUME NEW u \in Moved, Move!ImportRow(i, u) PROVE MoveInv'
  <2>. DEFINE n == Move!Merged(hosted.central[u], old.central[u])
              c == [hosted.central EXCEPT ![u] = n]
              new == [imports[i] EXCEPT !.left = @ \ {u}]
  <2>1. /\ imports[i].at = "rows" /\ hosted' = [hosted EXCEPT !.central = c]
        /\ imports' = [imports EXCEPT ![i] = new]
    BY <1>4 DEF Move!ImportRow, MoveInv, MoveTypes
  <2>2. /\ n \in Move!States /\ Move!Rank[n] >= Move!Rank[hosted.central[u]]
        /\ Move!Rank[n] >= Move!Rank[old.central[u]]
        /\ hosted.central[u] # "none" => n # "none"
    BY <1>2, MergedIs
  <2>. HIDE DEF n
  <2>3. /\ new \in Imports /\ new.at = "rows" /\ new.left = imports[i].left \ {u}
    BY <1>1, <2>1 DEF Imports
  <2>. HIDE DEF new
  <2>4. /\ imports' \in [Importers -> Imports] /\ imports'[i] = new
        /\ \A j \in Importers : j # i => imports'[j] = imports[j]
    BY <2>1, <2>3, OneImport
  <2>5. /\ c \in Move!Rows /\ c[u] = n /\ \A o \in Moved : o # u => c[o] = hosted.central[o]
    BY <1>2, <2>2 DEF Move!Rows
  <2>. HIDE DEF c
  <2>6. /\ hosted' \in Ledgers /\ hosted'.ledger = hosted.ledger /\ hosted'.chain = hosted.chain
        /\ hosted'.central = c /\ hosted'.receipts = hosted.receipts
        /\ hosted'.local = hosted.local
    BY <1>1, <2>1, <2>5 DEF Ledgers
  <2>7. MoveTypes'
    BY <1>1, <2>4, <2>6 DEF MoveInv, MoveTypes
  <2>8. Sound(hosted)'
    <3>1. Sound(hosted)
      BY DEF MoveInv
    <3>2. \A o \in hosted.receipts : c[o] # "none"
      BY <1>2, <2>2, <2>5, <3>1 DEF Sound
    <3>. QED
      BY <2>6, <3>1, <3>2 DEF Sound
  <2>9. \A o \in Moved : Move!Rank[c[o]] >= Move!Rank[hosted.central[o]]
    <3>1. \A o \in Moved : Move!Rank[hosted.central[o]] \in Int
      BY <1>2, MoveRanks
    <3>. QED
      BY <2>2, <2>5, <3>1
  <2>10. /\ Move!Reaches(hosted.ledger, old.ledger) /\ Starts(old.chain, hosted.chain)
         /\ \A o \in Moved : o \notin imports[i].left =>
              Move!Rank[hosted.central[o]] >= Move!Rank[old.central[o]]
    BY <2>1 DEF MoveInv, Brought
  <2>11. \A o \in Moved : o \notin imports[i].left \ {u} =>
           Move!Rank[c[o]] >= Move!Rank[old.central[o]]
    BY <2>2, <2>5, <2>10
  <2>12. Brought(i)'
    BY <1>1, <2>3, <2>4, <2>6, <2>10, <2>11 DEF Brought
  <2>13. \A j \in Importers : imports'[j] = imports[j] \/ Brought(j)'
    BY <2>4, <2>12
  <2>14. /\ Move!Reaches(hosted'.ledger, hosted.ledger)
         /\ Move!Reaches(hosted'.central, hosted.central) /\ pushed' <= hosted'.local
         /\ Starts(hosted.chain, hosted'.chain)
    BY <1>1, <1>2, <2>6, <2>9, MoveReaches, StartsOn DEF MoveInv, Move!Reaches
  <2>. QED
    BY <1>1, <2>6, <2>7, <2>8, <2>13, <2>14, MoveGrows
<1>5. CASE Move!ImportSources(i)
  <2>. DEFINE new == [Move!NoImport EXCEPT !.at = "done"]
              r == hosted.receipts \cup old.receipts
              l == IF hosted.local = 0 THEN old.local ELSE hosted.local
  <2>1. /\ imports[i].at = "rows" /\ imports[i].left = {}
        /\ hosted' = [hosted EXCEPT !.receipts = r, !.local = l]
        /\ imports' = [imports EXCEPT ![i] = new]
    BY <1>5 DEF Move!ImportSources, Move!Sources
  <2>2. new \in Imports /\ new.at = "done"
    BY EmptySeq DEF Imports, Move!NoImport
  <2>. HIDE DEF new
  <2>3. /\ imports' \in [Importers -> Imports] /\ imports'[i] = new
        /\ \A j \in Importers : j # i => imports'[j] = imports[j]
    BY <2>1, <2>2, OneImport
  <2>4. r \in SUBSET Moved /\ l \in Nat /\ hosted.local <= l
    BY <1>2
  <2>5. /\ hosted' \in Ledgers /\ hosted'.ledger = hosted.ledger /\ hosted'.chain = hosted.chain
        /\ hosted'.central = hosted.central /\ hosted'.receipts = r /\ hosted'.local = l
    <3>. HIDE DEF r, l
    <3>. QED
      BY <1>1, <2>1, <2>4 DEF Ledgers
  <2>6. MoveTypes'
    BY <1>1, <2>3, <2>5 DEF MoveInv, MoveTypes
  <2>7. /\ Move!Reaches(hosted.ledger, old.ledger) /\ Starts(old.chain, hosted.chain)
        /\ Move!Reaches(hosted.central, old.central)
    BY <2>1 DEF MoveInv, Brought, Move!Reaches
  <2>8. Sound(hosted)'
    <3>1. Sound(hosted) /\ Sound(old)
      BY DEF MoveInv
    <3>2. \A o \in r : hosted.central[o] # "none"
      BY <1>2, <2>7, <3>1, MoveReaches DEF Sound
    <3>. QED
      BY <2>5, <3>1, <3>2 DEF Sound
  <2>9. Through'
    BY <1>1, <2>5, <2>7 DEF Through
  <2>10. Brought(i)'
    BY <1>1, <2>2, <2>3, <2>5, <2>7, <2>9 DEF Brought
  <2>11. \A j \in Importers : imports'[j] = imports[j] \/ Brought(j)'
    BY <2>3, <2>10
  <2>12. /\ Move!Reaches(hosted'.ledger, hosted.ledger)
         /\ Move!Reaches(hosted'.central, hosted.central)
         /\ Starts(hosted.chain, hosted'.chain) /\ hosted.receipts \subseteq hosted'.receipts
    BY <1>2, <2>5, MoveReaches, StartsOn
  <2>13. pushed' <= hosted'.local
    BY <1>1, <1>2, <2>4, <2>5 DEF MoveInv, MoveTypes
  <2>. QED
    BY <1>1, <2>5, <2>6, <2>8, <2>11, <2>12, <2>13, MoveGrows
<1>. QED
  BY <1>3, <1>4, <1>5

\* An import is killed, or over and run again; the hosted proxy is started once one is over.
LEMMA ImportsEnd ==
  ASSUME MoveInv, NEW i \in Importers, Move!Kill(i) \/ Move!Again(i)
  PROVE  MoveInv'
<1>1. /\ imports' = [imports EXCEPT ![i] = Move!NoImport]
      /\ UNCHANGED <<old, hosted, up, anchor, pushed>>
  BY DEF Move!Kill, Move!Again
<1>2. Move!NoImport \in Imports /\ Move!NoImport.at = "idle"
  BY EmptySeq DEF Imports, Move!NoImport
<1>3. /\ imports' \in [Importers -> Imports] /\ imports'[i].at = "idle"
      /\ \A j \in Importers : j # i => imports'[j] = imports[j]
  BY <1>1, <1>2, OneImport
<1>4. Brought(i)'
  BY <1>3 DEF Brought
<1>5. \A j \in Importers : imports'[j] = imports[j] \/ Brought(j)'
  BY <1>3, <1>4
<1>6. up' \in BOOLEAN
  BY <1>1 DEF MoveInv, MoveTypes
<1>. QED
  BY <1>1, <1>3, <1>5, <1>6, MoveStays

LEMMA ProxyStarts ==
  ASSUME MoveInv, Move!Start
  PROVE  MoveInv'
<1>1. /\ up' = TRUE /\ UNCHANGED <<old, hosted, anchor, imports, pushed>>
      /\ \E i \in Importers : imports[i].at = "done"
  BY DEF Move!Start
<1>2. Through
  BY <1>1 DEF MoveInv, Brought
<1>3. imports' \in [Importers -> Imports]
  BY <1>1 DEF MoveInv, MoveTypes
<1>. QED
  BY <1>1, <1>2, <1>3, MoveStays

\* The hosted proxy makes and seals calls, and takes what a source pushes.
LEMMA HostedProxyRuns ==
  ASSUME MoveInv, NEW u \in Moved, Move!Call(u) \/ Move!Seal(u) \/ Move!Push(u)
  PROVE  MoveInv'
<1>1. /\ UNCHANGED <<old, up, anchor, imports>> /\ hosted \in Ledgers /\ up /\ Through
  BY DEF Move!Call, Move!Seal, Move!Push, MoveInv, MoveTypes
<1>2. /\ hosted.ledger \in Move!Rows /\ hosted.central \in Move!Rows /\ hosted.chain \in Seq(Moved)
      /\ hosted.local \in Nat /\ hosted.receipts \subseteq Moved
      /\ hosted.ledger[u] \in Move!States /\ hosted.central[u] \in Move!States
      /\ \A o \in Moved : /\ Move!Rank[hosted.ledger[o]] \in Int
                          /\ Move!Rank[hosted.central[o]] \in Int
  <2>1. hosted.ledger \in Move!Rows /\ hosted.central \in Move!Rows
    BY <1>1 DEF Ledgers
  <2>2. \A o \in Moved : hosted.ledger[o] \in Move!States /\ hosted.central[o] \in Move!States
    BY <2>1 DEF Move!Rows
  <2>. QED
    BY <1>1, <2>1, <2>2, MoveRanks DEF Ledgers
<1>3. /\ Move!Reaches(hosted.ledger, hosted.ledger) /\ Starts(hosted.chain, hosted.chain)
      /\ Move!Reaches(hosted.central, hosted.central) /\ Sound(hosted)
      /\ pushed \in Nat /\ pushed <= hosted.local
  BY <1>2, MoveReaches, StartsOn DEF MoveInv, MoveTypes
<1>4. \A j \in Importers : imports'[j] = imports[j]
  BY <1>1
<1>5. CASE Move!Call(u)
  <2>. DEFINE n == IF hosted.ledger[u] = "none" THEN "in_flight" ELSE "complete"
              l == [hosted.ledger EXCEPT ![u] = n]
  <2>1. hosted' = [hosted EXCEPT !.ledger = l] /\ pushed' = pushed
    BY <1>5 DEF Move!Call
  <2>2. /\ n \in Move!States /\ Move!Rank[n] >= Move!Rank[hosted.ledger[u]]
        /\ hosted.ledger[u] # "complete"
    BY <1>2, <1>5, MoveRanks DEF Move!Call, Move!States
  <2>. HIDE DEF n
  <2>3. /\ l \in Move!Rows /\ l[u] = n /\ \A o \in Moved : o # u => l[o] = hosted.ledger[o]
    BY <1>2, <2>2 DEF Move!Rows
  <2>. HIDE DEF l
  <2>4. /\ hosted' \in Ledgers /\ hosted'.ledger = l /\ hosted'.chain = hosted.chain
        /\ hosted'.central = hosted.central /\ hosted'.receipts = hosted.receipts
        /\ hosted'.local = hosted.local
    BY <1>1, <1>2, <2>1, <2>3 DEF Ledgers
  <2>5. MoveTypes'
    BY <1>1, <2>1, <2>4 DEF MoveInv, MoveTypes
  <2>6. Sound(hosted)'
    <3>1. \A a \in 1 .. Len(hosted.chain) : hosted.chain[a] \in Moved
      BY <1>2, ElementOfSeq
    <3>. QED
      BY <1>3, <2>2, <2>3, <2>4, <3>1 DEF Sound
  <2>7. Move!Reaches(l, hosted.ledger)
    BY <1>2, <2>2, <2>3 DEF Move!Reaches
  <2>. QED
    BY <1>1, <1>3, <1>4, <2>1, <2>4, <2>5, <2>6, <2>7, MoveGrows
<1>6. CASE Move!Seal(u)
  <2>1. /\ hosted' = [hosted EXCEPT !.chain = Append(@, u)] /\ pushed' = pushed
        /\ hosted.ledger[u] = "complete" /\ u \notin Move!ToSet(hosted.chain)
    BY <1>6 DEF Move!Seal, Move!Completed
  <2>2. Sound(hosted')
    BY <1>1, <1>3, <2>1, SealsSoundly
  <2>. DEFINE c == Append(hosted.chain, u)
  <2>3. hosted' = [hosted EXCEPT !.chain = c]
    BY <2>1
  <2>4. /\ c \in Seq(Moved) /\ Starts(hosted.chain, c)
    BY <1>2, StartsOn
  <2>. HIDE DEF c
  <2>5. /\ hosted' \in Ledgers /\ hosted'.ledger = hosted.ledger /\ hosted'.chain = c
        /\ hosted'.central = hosted.central /\ hosted'.receipts = hosted.receipts
        /\ hosted'.local = hosted.local
    BY <1>1, <1>2, <2>3, <2>4 DEF Ledgers
  <2>6. MoveTypes'
    BY <1>1, <2>1, <2>5 DEF MoveInv, MoveTypes
  <2>7. Sound(hosted)'
    BY <2>2 DEF Sound
  <2>8. Starts(old.chain, c)
    <3>1. old.chain \in Seq(Moved) /\ Starts(old.chain, hosted.chain)
      BY <1>1 DEF MoveInv, MoveTypes, Ledgers, Through
    <3>. QED
      BY <1>2, <2>4, <3>1, StartsOn
  <2>. QED
    BY <1>1, <1>3, <1>4, <2>1, <2>4, <2>5, <2>6, <2>7, <2>8, MoveGrows
<1>7. CASE Move!Push(u)
  <2>1. PICK brings \in {"in_flight", "complete"} :
          hosted' = [hosted EXCEPT !.central[u] = Move!Merged(@, brings), !.receipts = @ \cup {u},
                                   !.local = @ + 1]
    BY <1>7 DEF Move!Push
  <2>. DEFINE n == Move!Merged(hosted.central[u], brings)
              c == [hosted.central EXCEPT ![u] = n]
              r == hosted.receipts \cup {u}
              l == hosted.local + 1
  <2>2. hosted' = [hosted EXCEPT !.central = c, !.receipts = r, !.local = l]
    BY <2>1
  <2>3. /\ n \in Move!States /\ Move!Rank[n] >= Move!Rank[hosted.central[u]] /\ n # "none"
    BY <1>2, MergedIs DEF Move!States
  <2>. HIDE DEF n
  <2>4. /\ c \in Move!Rows /\ c[u] = n /\ \A o \in Moved : o # u => c[o] = hosted.central[o]
        /\ r \in SUBSET Moved /\ l \in Nat /\ l = hosted.local + 1
    BY <1>2, <2>3 DEF Move!Rows
  <2>5. \A o \in r : o \in hosted.receipts \/ o = u
    OBVIOUS
  <2>6. hosted.receipts \subseteq r
    OBVIOUS
  <2>. HIDE DEF c, r, l
  <2>7. /\ hosted' \in Ledgers /\ hosted'.ledger = hosted.ledger /\ hosted'.chain = hosted.chain
        /\ hosted'.central = c /\ hosted'.receipts = r /\ hosted'.local = l
    BY <1>1, <1>2, <2>2, <2>4 DEF Ledgers
  <2>8. pushed' = hosted'.local
    BY <1>7 DEF Move!Push
  <2>9. MoveTypes' /\ pushed' <= hosted'.local
    BY <1>1, <2>4, <2>7, <2>8 DEF MoveInv, MoveTypes
  <2>10. Sound(hosted)'
    <3>1. \A o \in r : c[o] # "none"
      BY <1>2, <1>3, <2>3, <2>4, <2>5 DEF Sound
    <3>. QED
      BY <1>3, <2>7, <3>1 DEF Sound
  <2>11. Move!Reaches(c, hosted.central)
    BY <1>2, <2>3, <2>4 DEF Move!Reaches
  <2>. QED
    BY <1>1, <1>3, <1>4, <2>6, <2>7, <2>9, <2>10, <2>11, MoveGrows
<1>. QED
  BY <1>5, <1>6, <1>7

LEMMA MoveSteps ==
  ASSUME MoveInv, [Move!Next]_moveVars
  PROVE  MoveInv'
<1>1. CASE UNCHANGED moveVars
  <2>1. UNCHANGED <<old, hosted, up, anchor, imports, pushed>>
    BY <1>1 DEF moveVars
  <2>2. up' \in BOOLEAN /\ imports' \in [Importers -> Imports]
    BY <2>1 DEF MoveInv, MoveTypes
  <2>. QED
    BY <2>1, <2>2, MoveStays
<1>2. CASE Move!Next
  BY <1>2, ProxyStarts, OldProxyRuns, HostedProxyRuns, LedgerIsBrought, ChainIsRead,
     ChainIsBrought, CentralIsBrought, ImportsEnd DEF Move!Next
<1>. QED
  BY <1>1, <1>2

\* The page shows each call once: the further copy, and of equals the ledger's.
LEMMA ShownOnce ==
  ASSUME hosted \in Ledgers, NEW u \in Moved,
         Move!InLedger(u) \/ hosted.central[u] # "none"
  PROVE  Move!Shown(u) = Move!Union(u)
<1>. DEFINE C == {c \in {"ledger", "central"} : hosted[c][u] # "none"}
            P(copy) == \A c \in C : \/ c = copy
                                    \/ Move!Rank[hosted[copy][u]] > Move!Rank[hosted[c][u]]
                                    \/ Move!Rank[hosted[copy][u]] = Move!Rank[hosted[c][u]]
                                       /\ copy = "ledger"
<1>1. hosted.ledger[u] \in Move!States /\ hosted.central[u] \in Move!States
  BY DEF Ledgers, Move!Rows
<1>2. hosted["ledger"] = hosted.ledger /\ hosted["central"] = hosted.central
  OBVIOUS
<1>3. Move!Shown(u) = CHOOSE copy \in C : P(copy)
  BY DEF Move!Shown
<1>4. /\ "ledger" \in C <=> hosted.ledger[u] # "none"
      /\ "central" \in C <=> hosted.central[u] # "none"
      /\ \A c \in C : c \in {"ledger", "central"}
  BY <1>2
<1>5. Move!Union(u) \in C /\ P(Move!Union(u))
  <2>. HIDE DEF C
  <2>. QED
    BY <1>1, <1>2, <1>4, MoveRanks DEF Move!Union, Move!InLedger, Move!States
<1>6. \A copy \in C : P(copy) => copy = Move!Union(u)
  <2>. HIDE DEF C
  <2>. QED
    BY <1>1, <1>2, <1>4, MoveRanks DEF Move!Union, Move!InLedger, Move!States
<1>. HIDE DEF C, P
<1>. QED
  BY <1>3, <1>5, <1>6

\* Nothing the old proxy recorded is missing once an import is through.
LEMMA MoveInvIsWhole ==
  ASSUME MoveInv
  PROVE  Move!MoveIsWhole
<1>1. /\ hosted \in Ledgers /\ hosted.chain \in Seq(Moved) /\ old.chain \in Seq(Moved)
      /\ anchor \in Seq(Moved)
  BY DEF MoveInv, MoveTypes, Ledgers
<1>2. DOMAIN hosted.chain = 1 .. Len(hosted.chain)
  BY <1>1, LenProperties
<1>3. ASSUME up \/ \E i \in Importers : imports[i].at = "done"
      PROVE  /\ Move!Reaches(hosted.ledger, old.ledger) /\ Move!Reaches(hosted.central, old.central)
             /\ old.receipts \subseteq hosted.receipts
             /\ Move!IsPrefix(anchor, hosted.chain)
  <2>1. Through
    BY <1>3 DEF MoveInv, Brought
  <2>2. Starts(anchor, hosted.chain)
    BY <1>1, <2>1, StartsOn DEF MoveInv, Through
  <2>. QED
    BY <1>1, <2>1, <2>2, StartsOn DEF Through
<1>4. /\ Move!IsInjective(hosted.chain)
      /\ Move!ToSet(hosted.chain) \subseteq Move!Completed(hosted.ledger)
  <2>1. \A a \in 1 .. Len(hosted.chain) : hosted.chain[a] \in Moved
    BY <1>1, ElementOfSeq
  <2>. QED
    BY <1>2, <2>1 DEF MoveInv, Sound, Move!IsInjective, Move!ToSet, Move!Completed
<1>5. /\ \A u \in hosted.receipts : hosted.central[u] # "none"
      /\ hosted.local >= pushed
  BY <1>1 DEF MoveInv, MoveTypes, Sound, Ledgers
<1>6. \A u \in Moved : Move!InLedger(u) \/ hosted.central[u] # "none" =>
                         Move!Shown(u) = Move!Union(u)
  BY <1>1, ShownOnce
<1>. QED
  BY <1>3, <1>4, <1>5, <1>6 DEF Move!MoveIsWhole

-----------------------------------------------------------------------------
(* The measurement.                                                        *)

AnswerLines  == [key : Keys, status : {"200", "422", "error"}, output : BOOLEAN]
VerdictLines == [key : Keys, about : Nat]
Runs ==
  [step : {"idle", "collect", "judge"}, todo : SUBSET Keys, asked : SUBSET Keys, spent : Nat,
   chunk : SUBSET Keys, replies : Seq(Keys)]

QualityTypes ==
  /\ answers \in Seq(AnswerLines) /\ verdicts \in Seq(VerdictLines) /\ run \in Runs
  /\ asks \in [Quality!Steps -> [Keys -> Nat]] /\ lost \in [Quality!Steps -> [Keys -> Nat]]

In(file, k) == \E n \in 1 .. Len(file) : file[n].key = k
Judged(k)   == In(verdicts, k)
Replied(k)  == \E n \in 1 .. Len(run.replies) : run.replies[n] = k

\* What is asked, or still to ask, is not stored: collect asks for what is not settled, and
\* judge for what is answered and has neither a verdict nor a reply.
Asking ==
  /\ run.step = "idle" => run.todo = {} /\ run.asked = {}
  /\ run.step # "judge" => run.chunk = {} /\ run.replies = <<>>
  /\ run.asked \cap (run.todo \cup run.chunk) = {} /\ run.todo \cap run.chunk = {}
  /\ run.step = "collect" => \A k \in run.asked \cup run.todo : ~Quality!Settled(k)
  /\ run.step = "judge" =>
       /\ \A k \in run.asked \cup run.todo \cup run.chunk :
            Quality!Ok(k) /\ ~Judged(k) /\ ~Replied(k)
       /\ \A k \in Keys : Replied(k) => Quality!Ok(k) /\ ~Judged(k)

\* What was paid for was lost, but for what is stored or about to be.
PaidOnce ==
  \A k \in Keys :
    /\ asks["collect"][k] <= lost["collect"][k] + (IF Quality!Settled(k) THEN 1 ELSE 0)
    /\ asks["judge"][k] <= lost["judge"][k] + (IF Judged(k) \/ Replied(k) THEN 1 ELSE 0)

Owned ==
  \A n \in 1 .. Len(verdicts) : \A k \in Keys :
    verdicts[n].key = k => Quality!Ok(k) /\ verdicts[n].about = Quality!LineOf(k)

QualityInv ==
  QualityTypes /\ Asking /\ PaidOnce /\ Owned /\ Quality!SpentIsBounded

\* What is assumed of the constants of the measurement.
LEMMA QualityConstants ==
  /\ IsFiniteSet(Keys) /\ Concurrency \in Nat \ {0} /\ MaxUsd \in Nat \ {0}
  /\ ChunkSize \in Nat \ {0}
<1>1. Quality!IsFiniteSet(Keys) <=> IsFiniteSet(Keys)
  BY Zenon DEF IsFiniteSet, Quality!IsFiniteSet
<1>. QED
  BY <1>1, PartsAssumption DEF Quality!QualityAssumption

\* The measurement's Cardinality is FiniteSets'.
LEMMA QualityCardinality == \A S : Quality!Cardinality(S) = Cardinality(S)
BY Zenon DEF Cardinality, Quality!Cardinality, IsFiniteSet, Quality!IsFiniteSet

\* The last line of a key is there, and after every other; and it is the only such line.
LastOf(file, k) ==
  CHOOSE i \in Quality!Lines(file, k) : \A j \in Quality!Lines(file, k) : j <= i

LEMMA LastIs ==
  ASSUME NEW T, NEW file \in Seq(T), NEW k
  PROVE  /\ Quality!Lines(file, k) # {} <=> In(file, k)
         /\ In(file, k) =>
              /\ LastOf(file, k) \in 1 .. Len(file) /\ file[LastOf(file, k)].key = k
              /\ \A n \in 1 .. Len(file) : file[n].key = k => n <= LastOf(file, k)
         /\ \A m \in 1 .. Len(file) :
              file[m].key = k /\ (\A n \in 1 .. Len(file) : file[n].key = k => n <= m) =>
                In(file, k) /\ LastOf(file, k) = m
<1>. DEFINE S == Quality!Lines(file, k)
<1>1. Len(file) \in Nat /\ DOMAIN file = 1 .. Len(file)
  BY LenProperties
<1>2. S = {n \in 1 .. Len(file) : file[n].key = k}
  BY <1>1 DEF Quality!Lines
<1>3. LastOf(file, k) = CHOOSE m \in S : \A n \in S : n <= m
  BY DEF LastOf
<1>4. S \in SUBSET (0 .. Len(file))
  BY <1>1, <1>2
<1>. HIDE DEF S
<1>5. ASSUME S # {} PROVE LastOf(file, k) \in S /\ \A n \in S : n <= LastOf(file, k)
  <2>1. \E m \in S : \A n \in S : n <= m
    BY <1>1, <1>4, <1>5, GreatestOf
  <2>. QED
    BY <1>3, <2>1
<1>6. S # {} <=> In(file, k)
  BY <1>2 DEF In
<1>7. ASSUME NEW m \in 1 .. Len(file), file[m].key = k,
             \A n \in 1 .. Len(file) : file[n].key = k => n <= m
      PROVE  In(file, k) /\ LastOf(file, k) = m
  <2>1. m \in S
    BY <1>2, <1>7
  <2>2. LastOf(file, k) \in S /\ m <= LastOf(file, k)
    BY <1>5, <2>1
  <2>3. LastOf(file, k) \in 1 .. Len(file) /\ LastOf(file, k) <= m
    BY <1>2, <1>7, <2>2
  <2>. QED
    BY <1>1, <1>6, <2>1, <2>2, <2>3
<1>. QED
  BY <1>2, <1>5, <1>6, <1>7 DEF S

\* A line that is stored is the last of its key, and changes no other key's.
LEMMA LineIsStored ==
  ASSUME answers \in Seq(AnswerLines), NEW k \in Keys, NEW line \in AnswerLines, line.key = k,
         answers' = Append(answers, line)
  PROVE  /\ answers' \in Seq(AnswerLines)
         /\ Quality!Settled(k)' <=> line.status \in {"200", "422"}
         /\ \A l \in Keys \ {k} : /\ Quality!Settled(l)' <=> Quality!Settled(l)
                                  /\ Quality!Ok(l)' <=> Quality!Ok(l)
                                  /\ Quality!Ok(l) => Quality!LineOf(l)' = Quality!LineOf(l)
<1>. DEFINE a == answers
            b == Append(a, line)
            m == Len(a) + 1
<1>1. /\ b \in Seq(AnswerLines) /\ Len(b) = m /\ \A n \in 1 .. Len(a) : b[n] = a[n]
      /\ b[m] = line /\ Len(a) \in Nat
  BY AppendProperties, LenProperties
<1>2. \A n \in 1 .. Len(b) : n \in 1 .. Len(a) \/ n = m
  BY <1>1
<1>3. m \in 1 .. Len(b) /\ \A n \in 1 .. Len(a) : n \in 1 .. Len(b)
  BY <1>1
<1>. HIDE DEF b, m
<1>4. In(b, k) /\ LastOf(b, k) = m
  <2>1. b[m].key = k /\ \A n \in 1 .. Len(b) : n <= m
    BY <1>1
  <2>. QED
    BY <1>1, <1>3, <2>1, LastIs
<1>5. ASSUME NEW l \in Keys \ {k}
      PROVE  /\ In(b, l) <=> In(a, l)
             /\ In(a, l) => LastOf(b, l) = LastOf(a, l) /\ LastOf(a, l) \in 1 .. Len(a)
  <2>1. b[m].key # l
    BY <1>1
  <2>2. In(b, l) <=> In(a, l)
    BY <1>1, <1>2, <1>3, <2>1 DEF In
  <2>3. ASSUME In(a, l) PROVE LastOf(b, l) = LastOf(a, l) /\ LastOf(a, l) \in 1 .. Len(a)
    <3>. DEFINE n == LastOf(a, l)
    <3>1. /\ n \in 1 .. Len(a) /\ a[n].key = l
          /\ \A p \in 1 .. Len(a) : a[p].key = l => p <= n
      BY <2>3, LastIs
    <3>2. /\ n \in 1 .. Len(b) /\ b[n].key = l
          /\ \A p \in 1 .. Len(b) : b[p].key = l => p <= n
      BY <1>1, <1>2, <1>3, <2>1, <3>1
    <3>. HIDE DEF n
    <3>3. LastOf(b, l) = n
      BY <1>1, <3>2, LastIs
    <3>. QED
      BY <3>1, <3>3 DEF n
  <2>. QED
    BY <2>2, <2>3
<1>6. /\ Quality!Settled(k)' <=> (In(b, k) /\ b[LastOf(b, k)].status \in {"200", "422"})
      /\ \A l : /\ Quality!Settled(l)' <=> (In(b, l) /\ b[LastOf(b, l)].status \in {"200", "422"})
                /\ Quality!Ok(l)' <=> (In(b, l) /\ b[LastOf(b, l)].status = "200"
                                                /\ b[LastOf(b, l)].output)
                /\ Quality!LineOf(l)' = LastOf(b, l)
  <2>1. answers' = b
    BY DEF b
  <2>2. \A l : Quality!Lines(b, l) # {} <=> In(b, l)
    BY <1>1, LastIs
  <2>. QED
    BY <2>1, <2>2 DEF Quality!Settled, Quality!Ok, Quality!Stored, Quality!LineOf, LastOf
<1>7. \A l : /\ Quality!Settled(l) <=> (In(a, l) /\ a[LastOf(a, l)].status \in {"200", "422"})
             /\ Quality!Ok(l) <=> (In(a, l) /\ a[LastOf(a, l)].status = "200"
                                            /\ a[LastOf(a, l)].output)
             /\ Quality!LineOf(l) = LastOf(a, l)
  <2>1. \A l : Quality!Lines(a, l) # {} <=> In(a, l)
    BY LastIs
  <2>. QED
    BY <2>1 DEF Quality!Settled, Quality!Ok, Quality!Stored, Quality!LineOf, LastOf
<1>8. \A l \in Keys \ {k} : In(a, l) => b[LastOf(b, l)] = a[LastOf(a, l)]
  BY <1>1, <1>5
<1>9. answers' \in Seq(AnswerLines)
  BY <1>1 DEF b
<1>. HIDE DEF a
<1>10. Quality!Settled(k)' <=> line.status \in {"200", "422"}
  BY <1>1, <1>4, <1>6
<1>11. ASSUME NEW l \in Keys \ {k}
       PROVE  /\ Quality!Settled(l)' <=> Quality!Settled(l)
              /\ Quality!Ok(l)' <=> Quality!Ok(l)
              /\ Quality!Ok(l) => Quality!LineOf(l)' = Quality!LineOf(l)
  BY <1>5, <1>6, <1>7, <1>8
<1>. QED
  BY <1>9, <1>10, <1>11

\* The measurement starts with nothing asked and nothing stored.
LEMMA QualityStarts == Quality!Init => QualityInv
<1>. SUFFICES ASSUME Quality!Init PROVE QualityInv
  OBVIOUS
<1>1. /\ answers = <<>> /\ verdicts = <<>> /\ run = Quality!Idle
      /\ asks = [s \in Quality!Steps |-> [k \in Keys |-> 0]]
      /\ lost = [s \in Quality!Steps |-> [k \in Keys |-> 0]]
  BY DEF Quality!Init, Quality!Never
<1>2. /\ run \in Runs /\ run.step = "idle" /\ run.todo = {} /\ run.asked = {} /\ run.chunk = {}
      /\ run.replies = <<>> /\ run.spent = 0
  BY <1>1, EmptySeq DEF Quality!Idle, Runs
<1>3. QualityTypes
  BY <1>1, <1>2, EmptySeq DEF QualityTypes
<1>4. Asking
  BY <1>2 DEF Asking
<1>5. PaidOnce
  BY <1>1 DEF PaidOnce, Quality!Steps
<1>6. Owned
  BY <1>1, EmptySeq DEF Owned
<1>7. Quality!SpentIsBounded
  BY <1>2, QualityConstants, QualityCardinality, FS_EmptySet DEF Quality!SpentIsBounded
<1>. QED
  BY <1>3, <1>4, <1>5, <1>6, <1>7 DEF QualityInv

\* What is asked counts against the sum.
LEMMA AskedCount ==
  ASSUME NEW A \in SUBSET Keys, NEW k \in Keys
  PROVE  /\ Quality!Cardinality(A) \in Nat
         /\ k \notin A => Quality!Cardinality(A \cup {k}) = Quality!Cardinality(A) + 1
         /\ k \in A => Quality!Cardinality(A \ {k}) = Quality!Cardinality(A) - 1
<1>1. IsFiniteSet(A)
  BY QualityConstants, FS_Subset
<1>. QED
  BY <1>1, FS_CardinalityType, FS_AddElement, FS_RemoveElement, QualityCardinality

\* What is said of keys by files that stay as they are.
LEMMA FilesStay ==
  ASSUME NEW k
  PROVE  /\ answers' = answers => /\ Quality!Settled(k)' <=> Quality!Settled(k)
                                  /\ Quality!Ok(k)' <=> Quality!Ok(k)
                                  /\ Quality!LineOf(k)' = Quality!LineOf(k)
         /\ verdicts' = verdicts => (Judged(k)' <=> Judged(k))
         /\ run'.replies = run.replies => (Replied(k)' <=> Replied(k))
         /\ Quality!Ok(k) => Quality!Settled(k)
BY DEF Quality!Settled, Quality!Ok, Quality!Stored, Quality!LineOf, Quality!Lines, Judged, In,
       Replied

\* A step of the process that neither pays nor stores.
LEMMA RunGoesOn ==
  ASSUME QualityInv, UNCHANGED <<answers, verdicts, asks, lost>>, run' \in Runs,
         run'.replies = run.replies, Asking', Quality!SpentIsBounded'
  PROVE  QualityInv'
<1>1. QualityTypes'
  BY DEF QualityInv, QualityTypes
<1>2. PaidOnce'
  BY FilesStay DEF QualityInv, PaidOnce
<1>3. Owned'
  BY FilesStay DEF QualityInv, Owned
<1>. QED
  BY <1>1, <1>2, <1>3 DEF QualityInv

\* A run that has done nothing yet.
LEMMA RunsIdle ==
  ASSUME QualityInv, UNCHANGED <<answers, verdicts, asks, lost>>, run.replies = <<>>,
         run' \in Runs, run'.asked = {}, run'.chunk = {}, run'.replies = <<>>, run'.spent = 0,
         run'.step = "idle" => run'.todo = {},
         run'.step = "collect" => \A k \in run'.todo : ~Quality!Settled(k),
         run'.step = "judge" => \A k \in run'.todo : Quality!Ok(k) /\ ~Judged(k)
  PROVE  QualityInv'
<1>1. Quality!SpentIsBounded'
  <2>1. Quality!Cardinality({}) = 0
    BY QualityCardinality, FS_EmptySet
  <2>2. 0 + 0 <= MaxUsd - 1 + Concurrency
    BY QualityConstants
  <2>. QED
    BY <2>1, <2>2 DEF Quality!SpentIsBounded
<1>2. Asking'
  <2>1. \A k : /\ ~Replied(k)'
               /\ Quality!Settled(k)' <=> Quality!Settled(k)
               /\ Quality!Ok(k)' <=> Quality!Ok(k)
               /\ Judged(k)' <=> Judged(k)
    BY FilesStay, EmptySeq DEF Replied
  <2>. QED
    BY <2>1, EmptySeq DEF Asking
<1>. QED
  BY <1>1, <1>2, RunGoesOn

\* A run starts, and ends.
LEMMA RunsStart ==
  ASSUME QualityInv,
         Quality!StartCollect \/ Quality!StartJudge \/ Quality!EndCollect \/ Quality!EndJudge
  PROVE  QualityInv'
<1>1. /\ UNCHANGED <<answers, verdicts, asks, lost>> /\ run.replies = <<>>
  BY DEF Quality!StartCollect, Quality!StartJudge, Quality!EndCollect, Quality!EndJudge,
         QualityInv, Asking
<1>2. CASE Quality!StartCollect
  <2>. DEFINE todo == {k \in Keys : ~Quality!Settled(k)}
  <2>1. run' = [Quality!Idle EXCEPT !.step = "collect", !.todo = todo]
    BY <1>2 DEF Quality!StartCollect
  <2>2. todo \in SUBSET Keys /\ \A k \in todo : ~Quality!Settled(k)
    OBVIOUS
  <2>. HIDE DEF todo
  <2>3. /\ run' \in Runs /\ run'.step = "collect" /\ run'.todo = todo /\ run'.asked = {}
        /\ run'.chunk = {} /\ run'.replies = <<>> /\ run'.spent = 0
    BY <2>1, <2>2, EmptySeq DEF Quality!Idle, Runs
  <2>. QED
    BY <1>1, <2>2, <2>3, RunsIdle
<1>3. CASE Quality!StartJudge
  <2>. DEFINE todo == Quality!Unjudged
  <2>1. run' = [Quality!Idle EXCEPT !.step = "judge", !.todo = todo]
    BY <1>3 DEF Quality!StartJudge
  <2>2. todo \in SUBSET Keys /\ \A k \in todo : Quality!Ok(k) /\ ~Judged(k)
    BY LastIs DEF Quality!Unjudged, Judged, QualityInv, QualityTypes
  <2>. HIDE DEF todo
  <2>3. /\ run' \in Runs /\ run'.step = "judge" /\ run'.todo = todo /\ run'.asked = {}
        /\ run'.chunk = {} /\ run'.replies = <<>> /\ run'.spent = 0
    BY <2>1, <2>2, EmptySeq DEF Quality!Idle, Runs
  <2>. QED
    BY <1>1, <2>2, <2>3, RunsIdle
<1>4. CASE Quality!EndCollect \/ Quality!EndJudge
  <2>1. run' = Quality!Idle
    BY <1>4 DEF Quality!EndCollect, Quality!EndJudge
  <2>2. /\ run' \in Runs /\ run'.step = "idle" /\ run'.todo = {} /\ run'.asked = {}
        /\ run'.chunk = {} /\ run'.replies = <<>> /\ run'.spent = 0
    BY <2>1, EmptySeq DEF Quality!Idle, Runs
  <2>. QED
    BY <1>1, <2>2, RunsIdle
<1>. QED
  BY <1>2, <1>3, <1>4

\* A turn to ask: with money left, what is asked is one more.
LEMMA RunAsks ==
  ASSUME QualityInv, NEW k \in Keys, Quality!Ask(k) \/ Quality!AskJudge(k)
  PROVE  QualityInv'
<1>. DEFINE asked2 == IF run.spent < MaxUsd THEN run.asked \cup {k} ELSE run.asked
<1>1. /\ UNCHANGED <<answers, verdicts, asks, lost>> /\ run \in Runs
      /\ Quality!Cardinality(run.asked) < Concurrency
  BY DEF Quality!Ask, Quality!AskJudge, Quality!Free, QualityInv, QualityTypes
<1>2. /\ run.todo \in SUBSET Keys /\ run.asked \in SUBSET Keys /\ run.chunk \in SUBSET Keys
      /\ run.spent \in Nat /\ run.replies \in Seq(Keys)
  BY <1>1 DEF Runs
<1>3. asked2 \in SUBSET Keys /\ asked2 \subseteq run.asked \cup {k}
  BY <1>2
<1>4. /\ run' \in Runs /\ run'.step = run.step /\ run'.asked = asked2
      /\ run'.replies = run.replies /\ run'.spent = run.spent
      /\ \/ run.step = "collect" /\ k \in run.todo /\ run'.todo = run.todo \ {k}
            /\ run'.chunk = run.chunk
         \/ run.step = "judge" /\ k \in run.chunk /\ run'.chunk = run.chunk \ {k}
            /\ run'.todo = run.todo
  <2>1. CASE Quality!Ask(k)
    <3>1. run' = [run EXCEPT !.todo = run.todo \ {k}, !.asked = asked2]
      BY <2>1 DEF Quality!Ask
    <3>. HIDE DEF asked2
    <3>. QED
      BY <1>1, <1>2, <1>3, <2>1, <3>1 DEF Runs, Quality!Ask
  <2>2. CASE Quality!AskJudge(k)
    <3>1. run' = [run EXCEPT !.chunk = run.chunk \ {k}, !.asked = asked2]
      BY <2>2 DEF Quality!AskJudge
    <3>. HIDE DEF asked2
    <3>. QED
      BY <1>1, <1>2, <1>3, <2>2, <3>1 DEF Runs, Quality!AskJudge
  <2>. QED
    BY <2>1, <2>2
<1>5. k \notin run.asked
  BY <1>4 DEF QualityInv, Asking
<1>6. Quality!SpentIsBounded'
  <2>1. CASE run.spent < MaxUsd
    <3>1. Quality!Cardinality(run'.asked) = Quality!Cardinality(run.asked) + 1
      BY <1>2, <1>4, <1>5, <2>1, AskedCount
    <3>2. Quality!Cardinality(run.asked) \in Nat
      BY <1>2, AskedCount
    <3>3. run.spent + (Quality!Cardinality(run.asked) + 1) <= MaxUsd - 1 + Concurrency
      BY <1>1, <1>2, <2>1, <3>2, QualityConstants
    <3>. QED
      BY <1>4, <3>1, <3>3 DEF Quality!SpentIsBounded
  <2>2. CASE ~(run.spent < MaxUsd)
    BY <1>4, <2>2 DEF QualityInv, Quality!SpentIsBounded
  <2>. QED
    BY <2>1, <2>2
<1>. HIDE DEF asked2
<1>7. Asking'
  <2>1. Asking
    BY DEF QualityInv
  <2>2. \A l : /\ Quality!Settled(l)' <=> Quality!Settled(l)
               /\ Quality!Ok(l)' <=> Quality!Ok(l)
               /\ Judged(l)' <=> Judged(l)
               /\ Replied(l)' <=> Replied(l)
    BY <1>1, <1>4, FilesStay
  <2>. QED
    BY <1>3, <1>4, <2>1, <2>2 DEF Asking
<1>. QED
  BY <1>1, <1>4, <1>6, <1>7, RunGoesOn

\* A chunk of what is left to judge.
LEMMA ChunkStarts ==
  ASSUME QualityInv, Quality!StartChunk
  PROVE  QualityInv'
<1>1. /\ UNCHANGED <<answers, verdicts, asks, lost>> /\ run \in Runs /\ run.step = "judge"
      /\ run.chunk = {} /\ run.asked = {} /\ run.replies = <<>>
  BY DEF Quality!StartChunk, QualityInv, QualityTypes
<1>2. PICK c \in SUBSET run.todo : run' = [run EXCEPT !.chunk = c, !.todo = run.todo \ c]
  BY DEF Quality!StartChunk, Quality!Chunks
<1>3. run.todo \in SUBSET Keys
  BY <1>1 DEF Runs
<1>4. /\ run' \in Runs /\ run'.step = "judge" /\ run'.todo = run.todo \ c /\ run'.chunk = c
      /\ run'.asked = {} /\ run'.replies = run.replies /\ run'.spent = run.spent
  BY <1>1, <1>2, <1>3 DEF Runs
<1>5. Quality!SpentIsBounded'
  BY <1>1, <1>4 DEF QualityInv, Quality!SpentIsBounded
<1>6. Asking'
  <2>1. \A l : /\ Quality!Ok(l)' <=> Quality!Ok(l)
               /\ Judged(l)' <=> Judged(l)
               /\ Replied(l)' <=> Replied(l)
    BY <1>1, <1>4, FilesStay
  <2>. QED
    BY <1>1, <1>4, <2>1, EmptySeq DEF QualityInv, Asking
<1>. QED
  BY <1>1, <1>4, <1>5, <1>6, RunGoesOn

\* A vendor is paid once more, for one key.
LEMMA PaidIs ==
  ASSUME QualityTypes, NEW s \in Quality!Steps, NEW k \in Keys, Quality!Paid(s, k)
  PROVE  /\ asks' \in [Quality!Steps -> [Keys -> Nat]]
         /\ \A z \in Quality!Steps, l \in Keys :
              asks'[z][l] = asks[z][l] + (IF z = s /\ l = k THEN 1 ELSE 0)
<1>1. asks \in [Quality!Steps -> [Keys -> Nat]] /\ asks[s] \in [Keys -> Nat] /\ asks[s][k] \in Nat
  BY DEF QualityTypes
<1>. DEFINE f == [asks[s] EXCEPT ![k] = asks[s][k] + 1]
<1>2. asks' = [asks EXCEPT ![s] = f]
  BY <1>1 DEF Quality!Paid
<1>3. f \in [Keys -> Nat] /\ \A l \in Keys : f[l] = asks[s][l] + (IF l = k THEN 1 ELSE 0)
  BY <1>1
<1>. HIDE DEF f
<1>4. asks' \in [Quality!Steps -> [Keys -> Nat]]
  BY <1>1, <1>2, <1>3
<1>5. \A z \in Quality!Steps : asks'[z] = IF z = s THEN f ELSE asks[z]
  BY <1>1, <1>2
<1>6. \A z \in Quality!Steps, l \in Keys : asks[z][l] \in Nat
  BY <1>1
<1>. QED
  BY <1>3, <1>4, <1>5, <1>6

\* What it paid it had kept back.
LEMMA SumIsKept ==
  ASSUME QualityTypes, Quality!SpentIsBounded, NEW k \in run.asked, NEW paid \in {0, 1},
         run'.asked = run.asked \ {k}, run'.spent = run.spent + paid
  PROVE  Quality!SpentIsBounded'
<1>1. run.asked \in SUBSET Keys /\ run.spent \in Nat /\ k \in Keys
  BY DEF QualityTypes, Runs
<1>. DEFINE a == Quality!Cardinality(run.asked)
            b == Quality!Cardinality(run'.asked)
<1>2. a \in Nat /\ b = a - 1
  BY <1>1, AskedCount
<1>3. run.spent + a <= MaxUsd - 1 + Concurrency
  BY DEF Quality!SpentIsBounded
<1>. SUFFICES run'.spent + b <= MaxUsd - 1 + Concurrency
  BY DEF Quality!SpentIsBounded
<1>. HIDE DEF a, b
<1>4. (run.spent + paid) + (a - 1) <= MaxUsd - 1 + Concurrency
  BY <1>1, <1>2, <1>3, QualityConstants
<1>. QED
  BY <1>2, <1>4

\* The process takes what was asked, and what it cost.
LEMMA RunTakes ==
  ASSUME run \in Runs, NEW A \in SUBSET Keys, NEW n \in Nat,
         \/ run' = [run EXCEPT !.asked = A, !.spent = n]
         \/ run' = [run EXCEPT !.asked = A] /\ n = run.spent
  PROVE  /\ run' \in Runs /\ run'.step = run.step /\ run'.todo = run.todo
         /\ run'.chunk = run.chunk /\ run'.asked = A /\ run'.spent = n
         /\ run'.replies = run.replies
BY DEF Runs

\* An answer of collect is stored: refused, failed, or answered and paid for.
LEMMA LineComes ==
  ASSUME QualityInv, NEW k \in Keys, NEW line \in AnswerLines, line.key = k, NEW paid \in {0, 1},
         paid = 1 => line.status = "200",
         run.step = "collect", k \in run.asked, answers' = Append(answers, line),
         UNCHANGED <<verdicts, lost>>,
         asks' \in [Quality!Steps -> [Keys -> Nat]],
         \A z \in Quality!Steps, l \in Keys :
           asks'[z][l] = asks[z][l] + (IF z = "collect" /\ l = k THEN paid ELSE 0),
         run' \in Runs, run'.step = run.step, run'.todo = run.todo, run'.chunk = run.chunk,
         run'.asked = run.asked \ {k}, run'.spent = run.spent + paid, run'.replies = run.replies
  PROVE  QualityInv'
<1>1. /\ run \in Runs /\ answers \in Seq(AnswerLines) /\ verdicts \in Seq(VerdictLines)
      /\ asks \in [Quality!Steps -> [Keys -> Nat]] /\ lost \in [Quality!Steps -> [Keys -> Nat]]
      /\ Asking /\ PaidOnce /\ Owned
  BY DEF QualityInv, QualityTypes
<1>2. /\ run.asked \in SUBSET Keys /\ run.spent \in Nat /\ run.replies \in Seq(Keys)
  BY <1>1 DEF Runs
<1>4. /\ answers' \in Seq(AnswerLines)
      /\ Quality!Settled(k)' <=> line.status \in {"200", "422"}
      /\ \A l \in Keys \ {k} : /\ Quality!Settled(l)' <=> Quality!Settled(l)
                               /\ Quality!Ok(l)' <=> Quality!Ok(l)
                               /\ Quality!Ok(l) => Quality!LineOf(l)' = Quality!LineOf(l)
  BY <1>1, LineIsStored
<1>5. ~Quality!Settled(k) /\ ~Quality!Ok(k)
  BY <1>1, FilesStay DEF Asking
<1>6. \A l : /\ Judged(l)' <=> Judged(l)
             /\ Replied(l)' <=> Replied(l)
  BY FilesStay
<1>7. QualityTypes'
  BY <1>1, <1>4 DEF QualityTypes
<1>8. Asking'
  <2>1. k \notin run.todo /\ run.todo \in SUBSET Keys
    BY <1>1 DEF Asking, Runs
  <2>2. \A l \in run'.asked \cup run'.todo : l \in Keys \ {k} /\ ~Quality!Settled(l)
    BY <1>1, <1>2, <2>1 DEF Asking
  <2>3. \A l \in run'.asked \cup run'.todo : ~Quality!Settled(l)'
    BY <1>4, <2>2
  <2>4. run'.chunk = {} /\ run'.replies = <<>>
    BY <1>1 DEF Asking
  <2>. QED
    BY <1>1, <2>1, <2>3, <2>4 DEF Asking
<1>9. PaidOnce'
  <2>1. ASSUME NEW l \in Keys
        PROVE  /\ asks'["collect"][l] <= lost["collect"][l] + (IF Quality!Settled(l)' THEN 1 ELSE 0)
               /\ asks'["judge"][l] = asks["judge"][l]
    <3>1. /\ asks["collect"][l] \in Nat /\ lost["collect"][l] \in Nat /\ asks["judge"][l] \in Nat
          /\ asks'["judge"][l] = asks["judge"][l] + 0
          /\ asks'["collect"][l] = asks["collect"][l] + (IF l = k THEN paid ELSE 0)
      BY <1>1 DEF Quality!Steps
    <3>2. asks["collect"][l] <= lost["collect"][l] + (IF Quality!Settled(l) THEN 1 ELSE 0)
      BY <1>1 DEF PaidOnce
    <3>3. CASE l = k
      BY <1>4, <1>5, <3>1, <3>2, <3>3
    <3>4. CASE l # k
      BY <1>4, <3>1, <3>2, <3>4
    <3>. QED
      BY <3>1, <3>3, <3>4
  <2>2. lost' = lost
    OBVIOUS
  <2>. QED
    BY <1>1, <1>6, <2>1, <2>2 DEF PaidOnce
<1>10. Owned'
  <2>1. \A n \in 1 .. Len(verdicts) : verdicts[n].key \in Keys \ {k}
    <3>1. \A n \in 1 .. Len(verdicts) : verdicts[n] \in VerdictLines
      BY <1>1, ElementOfSeq
    <3>. QED
      BY <1>1, <1>5, <3>1 DEF Owned, VerdictLines
  <2>2. \A n \in 1 .. Len(verdicts) : \A l \in Keys : verdicts[n].key = l =>
          l \in Keys \ {k} /\ Quality!Ok(l) /\ verdicts[n].about = Quality!LineOf(l)
    BY <1>1, <2>1 DEF Owned
  <2>3. \A n \in 1 .. Len(verdicts) : \A l \in Keys : verdicts[n].key = l =>
          Quality!Ok(l)' /\ verdicts[n].about = Quality!LineOf(l)'
    BY <1>4, <2>2
  <2>4. verdicts' = verdicts
    OBVIOUS
  <2>. QED
    BY <2>3, <2>4 DEF Owned
<1>11. Quality!SpentIsBounded'
  BY SumIsKept DEF QualityInv
<1>. QED
  BY <1>7, <1>8, <1>9, <1>10, <1>11 DEF QualityInv

\* The steps of collect that store a line.
LEMMA AnswerIsStored ==
  ASSUME QualityInv, NEW k \in Keys, Quality!Refuse(k) \/ Quality!Fail(k) \/ Quality!Answer(k)
  PROVE  QualityInv'
<1>1. /\ run.step = "collect" /\ k \in run.asked /\ UNCHANGED <<verdicts, lost>>
      /\ run \in Runs /\ asks \in [Quality!Steps -> [Keys -> Nat]] /\ QualityTypes
  BY DEF Quality!Refuse, Quality!Fail, Quality!Answer, Quality!Store, QualityInv, QualityTypes
<1>2. ASSUME NEW status \in {"422", "error"}, asks' = asks,
             answers' = Append(answers, [key |-> k, status |-> status, output |-> FALSE]),
             run' = [run EXCEPT !.asked = @ \ {k}]
      PROVE  QualityInv'
  <2>. DEFINE line == [key |-> k, status |-> status, output |-> FALSE]
  <2>1. line \in AnswerLines /\ line.key = k
    BY DEF AnswerLines
  <2>2. /\ run' \in Runs /\ run'.step = run.step /\ run'.todo = run.todo
        /\ run'.chunk = run.chunk /\ run'.asked = run.asked \ {k}
        /\ run'.spent = run.spent + 0 /\ run'.replies = run.replies
    <3>1. run.asked \ {k} \in SUBSET Keys /\ run.spent + 0 = run.spent /\ run.spent \in Nat
      BY <1>1 DEF Runs
    <3>2. run' = [run EXCEPT !.asked = run.asked \ {k}]
      BY <1>2
    <3>. QED
      BY <1>1, <3>1, <3>2, RunTakes
  <2>3. \A z \in Quality!Steps, l \in Keys :
          asks'[z][l] = asks[z][l] + (IF z = "collect" /\ l = k THEN 0 ELSE 0)
    <3>1. \A z \in Quality!Steps, l \in Keys : asks[z][l] \in Nat
      BY <1>1
    <3>. QED
      BY <1>2, <3>1
  <2>4. answers' = Append(answers, line) /\ asks' \in [Quality!Steps -> [Keys -> Nat]]
    BY <1>1, <1>2 DEF line
  <2>. HIDE DEF line
  <2>. QED
    BY <1>1, <2>1, <2>2, <2>3, <2>4, LineComes
<1>3. CASE Quality!Answer(k)
  <2>1. PICK output \in BOOLEAN :
          answers' = Append(answers, [key |-> k, status |-> "200", output |-> output])
    BY <1>3 DEF Quality!Answer, Quality!Store
  <2>. DEFINE line == [key |-> k, status |-> "200", output |-> output]
  <2>2. line \in AnswerLines /\ line.key = k /\ line.status = "200"
    BY DEF AnswerLines
  <2>3. /\ run' \in Runs /\ run'.step = run.step /\ run'.todo = run.todo
        /\ run'.chunk = run.chunk /\ run'.asked = run.asked \ {k}
        /\ run'.spent = run.spent + 1 /\ run'.replies = run.replies
    <3>1. run.asked \ {k} \in SUBSET Keys /\ run.spent + 1 \in Nat
      BY <1>1 DEF Runs
    <3>2. run' = [run EXCEPT !.asked = run.asked \ {k}, !.spent = run.spent + 1]
      BY <1>3 DEF Quality!Answer
    <3>. QED
      BY <1>1, <3>1, <3>2, RunTakes
  <2>4. /\ asks' \in [Quality!Steps -> [Keys -> Nat]]
        /\ \A z \in Quality!Steps, l \in Keys :
             asks'[z][l] = asks[z][l] + (IF z = "collect" /\ l = k THEN 1 ELSE 0)
    <3>1. "collect" \in Quality!Steps /\ Quality!Paid("collect", k)
      BY <1>3 DEF Quality!Answer, Quality!Steps
    <3>. QED
      BY <1>1, <3>1, PaidIs
  <2>. HIDE DEF line
  <2>5. answers' = Append(answers, line)
    BY <2>1 DEF line
  <2>. QED
    BY <1>1, <2>2, <2>3, <2>4, <2>5, LineComes
<1>. QED
  BY <1>2, <1>3 DEF Quality!Refuse, Quality!Fail, Quality!Store

\* A reply of the judge, which is paid for.
LEMMA ReplyComes ==
  ASSUME QualityInv, NEW k \in Keys, Quality!Reply(k)
  PROVE  QualityInv'
<1>1. /\ run.step = "judge" /\ k \in run.asked /\ UNCHANGED <<answers, verdicts, lost>>
      /\ QualityTypes /\ Asking /\ PaidOnce /\ Owned /\ Quality!SpentIsBounded /\ run \in Runs
  BY DEF Quality!Reply, QualityInv, QualityTypes
<1>. DEFINE b == Append(run.replies, k)
            A == run.asked \ {k}
            n == run.spent + 1
<1>2. A \in SUBSET Keys /\ n \in Nat /\ run.replies \in Seq(Keys)
  BY <1>1 DEF Runs
<1>3. /\ b \in Seq(Keys) /\ Len(run.replies) \in Nat /\ Len(b) = Len(run.replies) + 1
      /\ \A i \in 1 .. Len(run.replies) : b[i] = run.replies[i]
      /\ b[Len(run.replies) + 1] = k
  BY <1>2, AppendProperties, LenProperties
<1>4. run' = [run EXCEPT !.asked = A, !.spent = n, !.replies = b]
  BY DEF Quality!Reply
<1>5. A = run.asked \ {k} /\ n = run.spent + 1
  OBVIOUS
<1>. HIDE DEF A, b, n
<1>6. /\ run' \in Runs /\ run'.step = run.step /\ run'.todo = run.todo
      /\ run'.chunk = run.chunk /\ run'.asked = A /\ run'.spent = n /\ run'.replies = b
  BY <1>1, <1>2, <1>3, <1>4 DEF Runs
<1>7. \A i \in 1 .. Len(b) : i \in 1 .. Len(run.replies) \/ i = Len(run.replies) + 1
  BY <1>3
<1>8. /\ Len(run.replies) + 1 \in 1 .. Len(b)
      /\ \A i \in 1 .. Len(run.replies) : i \in 1 .. Len(b)
  BY <1>3
<1>9. \A l : Replied(l)' <=> Replied(l) \/ l = k
  BY <1>3, <1>6, <1>7, <1>8 DEF Replied
<1>10. \A l : /\ Quality!Settled(l)' <=> Quality!Settled(l)
              /\ Quality!Ok(l)' <=> Quality!Ok(l)
              /\ Quality!LineOf(l)' = Quality!LineOf(l)
              /\ Judged(l)' <=> Judged(l)
  BY <1>1, FilesStay
<1>11. Quality!Ok(k) /\ ~Judged(k) /\ ~Replied(k) /\ k \notin run.todo /\ k \notin run.chunk
  BY <1>1 DEF Asking
<1>12. /\ asks' \in [Quality!Steps -> [Keys -> Nat]]
       /\ \A z \in Quality!Steps, l \in Keys :
            asks'[z][l] = asks[z][l] + (IF z = "judge" /\ l = k THEN 1 ELSE 0)
  <2>1. "judge" \in Quality!Steps /\ Quality!Paid("judge", k)
    BY DEF Quality!Reply, Quality!Steps
  <2>. QED
    BY <1>1, <2>1, PaidIs
<1>13. QualityTypes'
  BY <1>1, <1>6, <1>12 DEF QualityTypes
<1>14. Asking'
  <2>1. \A l \in run'.asked \cup run'.todo \cup run'.chunk :
          l # k /\ Quality!Ok(l) /\ ~Judged(l) /\ ~Replied(l)
    BY <1>1, <1>5, <1>6, <1>11 DEF Asking
  <2>2. \A l \in run'.asked \cup run'.todo \cup run'.chunk :
          Quality!Ok(l)' /\ ~Judged(l)' /\ ~Replied(l)'
    BY <1>9, <1>10, <2>1
  <2>4. \A l \in Keys : Replied(l)' => Quality!Ok(l)' /\ ~Judged(l)'
    BY <1>1, <1>9, <1>10, <1>11 DEF Asking
  <2>5. /\ run'.asked \cap (run'.todo \cup run'.chunk) = {}
        /\ run'.todo \cap run'.chunk = {} /\ run'.step = "judge"
    BY <1>1, <1>5, <1>6 DEF Asking
  <2>. QED
    BY <2>2, <2>4, <2>5 DEF Asking
<1>15. PaidOnce'
  <2>1. ASSUME NEW l \in Keys
        PROVE  /\ asks'["collect"][l]
                    <= lost["collect"][l] + (IF Quality!Settled(l) THEN 1 ELSE 0)
               /\ asks'["judge"][l]
                    <= lost["judge"][l] + (IF Judged(l) \/ Replied(l) \/ l = k THEN 1 ELSE 0)
    <3>1. /\ asks["collect"][l] \in Nat /\ asks["judge"][l] \in Nat /\ lost["judge"][l] \in Nat
          /\ asks'["collect"][l] = asks["collect"][l] + 0
          /\ asks'["judge"][l] = asks["judge"][l] + (IF l = k THEN 1 ELSE 0)
      BY <1>1, <1>12 DEF QualityTypes, Quality!Steps
    <3>2. /\ asks["collect"][l]
               <= lost["collect"][l] + (IF Quality!Settled(l) THEN 1 ELSE 0)
          /\ asks["judge"][l] <= lost["judge"][l] + (IF Judged(l) \/ Replied(l) THEN 1 ELSE 0)
      BY <1>1 DEF PaidOnce
    <3>. QED
      BY <1>11, <3>1, <3>2
  <2>. QED
    BY <1>1, <1>9, <1>10, <2>1 DEF PaidOnce
<1>16. Owned'
  BY <1>1, <1>10 DEF Owned
<1>17. Quality!SpentIsBounded'
  BY <1>1, <1>5, <1>6, SumIsKept
<1>. QED
  BY <1>13, <1>14, <1>15, <1>16, <1>17 DEF QualityInv

\* Two files, one after the other.
LEMMA Joined ==
  ASSUME NEW T, NEW a \in Seq(T), NEW b \in Seq(T), NEW c, c = a \o b
  PROVE  /\ c \in Seq(T) /\ Len(a) \in Nat /\ Len(c) = Len(a) + Len(b)
         /\ \A i \in 1 .. Len(a) : c[i] = a[i]
         /\ \A i \in 1 .. Len(b) : c[Len(a) + i] = b[i]
<1>1. Len(a) \in Nat /\ Len(b) \in Nat
  BY LenProperties
<1>2. /\ c \in Seq(T) /\ Len(c) = Len(a) + Len(b)
      /\ \A i \in 1 .. Len(a) + Len(b) : c[i] = IF i <= Len(a) THEN a[i] ELSE b[i - Len(a)]
  BY ConcatProperties
<1>3. \A i \in 1 .. Len(a) : i \in 1 .. Len(a) + Len(b) /\ i <= Len(a)
  BY <1>1
<1>4. \A i \in 1 .. Len(b) : /\ Len(a) + i \in 1 .. Len(a) + Len(b)
                            /\ ~(Len(a) + i <= Len(a)) /\ (Len(a) + i) - Len(a) = i
  BY <1>1
<1>. QED
  BY <1>1, <1>2, <1>3, <1>4

\* A chunk's verdicts are stored: each reply becomes a verdict on the answer it was asked of.
LEMMA ChunkIsStored ==
  ASSUME QualityInv, Quality!StoreChunk
  PROVE  QualityInv'
<1>1. /\ run.step = "judge" /\ run.chunk = {} /\ run.asked = {}
      /\ UNCHANGED <<answers, asks, lost>> /\ run' = [run EXCEPT !.replies = <<>>]
      /\ QualityTypes /\ Asking /\ PaidOnce /\ Owned /\ Quality!SpentIsBounded /\ run \in Runs
      /\ answers \in Seq(AnswerLines) /\ verdicts \in Seq(VerdictLines)
  BY DEF Quality!StoreChunk, Quality!ChunkDone, QualityInv, QualityTypes
<1>2. /\ run' \in Runs /\ run'.step = "judge" /\ run'.todo = run.todo /\ run'.chunk = {}
      /\ run'.asked = {} /\ run'.spent = run.spent /\ run'.replies = <<>>
  BY <1>1, EmptySeq DEF Runs
<1>. DEFINE r == run.replies
            f == [i \in 1 .. Len(r) |-> [key |-> r[i], about |-> Quality!LineOf(r[i])]]
            v == verdicts
            w == v \o f
<1>3. r \in Seq(Keys) /\ Len(r) \in Nat /\ DOMAIN r = 1 .. Len(r)
  BY <1>1, LenProperties DEF Runs
<1>4. \A i \in 1 .. Len(r) :
        r[i] \in Keys /\ Quality!Ok(r[i]) /\ ~Judged(r[i]) /\ Quality!LineOf(r[i]) \in Nat
  <2>1. \A i \in 1 .. Len(r) : r[i] \in Keys
    BY <1>3, ElementOfSeq
  <2>2. \A i \in 1 .. Len(r) : Quality!Ok(r[i]) /\ ~Judged(r[i])
    <3>1. \A l \in Keys : Replied(l) => Quality!Ok(l) /\ ~Judged(l)
      BY <1>1 DEF Asking
    <3>2. \A i \in 1 .. Len(r) : Replied(r[i])
      BY DEF Replied
    <3>. QED
      BY <2>1, <3>1, <3>2
  <2>3. ASSUME NEW l, Quality!Ok(l) PROVE Quality!LineOf(l) \in Nat
    <3>1. Quality!Lines(answers, l) # {} /\ Quality!LineOf(l) = LastOf(answers, l)
      BY <2>3 DEF Quality!Ok, Quality!Stored, Quality!LineOf, LastOf
    <3>2. LastOf(answers, l) \in 1 .. Len(answers) /\ Len(answers) \in Nat
      BY <1>1, <3>1, LastIs, LenProperties
    <3>. QED
      BY <3>1, <3>2
  <2>. QED
    BY <2>1, <2>2, <2>3
<1>5. f \in Seq(VerdictLines) /\ Len(f) = Len(r)
  <2>1. f \in [1 .. Len(r) -> VerdictLines]
    BY <1>4 DEF VerdictLines
  <2>2. f \in Seq(VerdictLines)
    BY <1>3, <2>1, SeqDef
  <2>3. DOMAIN f = 1 .. Len(r)
    OBVIOUS
  <2>. HIDE DEF f
  <2>. QED
    BY <1>3, <2>2, <2>3, LenProperties
<1>6. \A i \in 1 .. Len(r) : f[i].key = r[i] /\ f[i].about = Quality!LineOf(r[i])
  OBVIOUS
<1>7. verdicts' = w
  BY <1>3 DEF Quality!StoreChunk
<1>. HIDE DEF f
<1>8. /\ w \in Seq(VerdictLines) /\ Len(v) \in Nat /\ Len(w) = Len(v) + Len(r)
      /\ \A i \in 1 .. Len(v) : w[i] = v[i]
      /\ \A i \in 1 .. Len(r) : w[Len(v) + i] = f[i]
  <2>1. v \in Seq(VerdictLines)
    BY <1>1
  <2>2. w = v \o f
    OBVIOUS
  <2>3. f \in Seq(VerdictLines)
    BY <1>5
  <2>. HIDE DEF r, v, w
  <2>4. /\ w \in Seq(VerdictLines) /\ Len(v) \in Nat /\ Len(w) = Len(v) + Len(f)
        /\ \A i \in 1 .. Len(v) : w[i] = v[i]
        /\ \A i \in 1 .. Len(f) : w[Len(v) + i] = f[i]
    BY <2>1, <2>2, <2>3, Joined
  <2>. QED
    BY <1>5, <2>4
<1>9. \A i \in 1 .. Len(w) : \/ i \in 1 .. Len(v)
                             \/ \E j \in 1 .. Len(r) : i = Len(v) + j
  <2>1. ASSUME NEW i \in 1 .. Len(w), i \notin 1 .. Len(v)
        PROVE  (i - Len(v)) \in 1 .. Len(r) /\ i = Len(v) + (i - Len(v))
    BY <1>3, <1>8, <2>1
  <2>. QED
    BY <2>1
<1>10. /\ \A i \in 1 .. Len(v) : i \in 1 .. Len(w)
       /\ \A j \in 1 .. Len(r) : Len(v) + j \in 1 .. Len(w)
  BY <1>3, <1>8
<1>. HIDE DEF w, r
<1>11. \A l : Judged(l)' <=> In(w, l)
  BY <1>7 DEF Judged
<1>12. \A l : Judged(l) <=> In(v, l)
  BY DEF Judged
<1>. HIDE DEF v
<1>13. \A l : In(w, l) <=> In(v, l) \/ \E j \in 1 .. Len(r) : r[j] = l
  <2>1. ASSUME NEW l, In(v, l) PROVE In(w, l)
    BY <1>8, <1>10, <2>1 DEF In
  <2>2. ASSUME NEW l, NEW j \in 1 .. Len(r), r[j] = l PROVE In(w, l)
    BY <1>6, <1>8, <1>10, <2>2 DEF In
  <2>3. ASSUME NEW l, NEW i \in 1 .. Len(w), w[i].key = l
        PROVE  In(v, l) \/ \E j \in 1 .. Len(r) : r[j] = l
    <3>1. CASE i \in 1 .. Len(v)
      BY <1>8, <2>3, <3>1 DEF In
    <3>2. ASSUME NEW j \in 1 .. Len(r), i = Len(v) + j PROVE r[j] = l
      <4>1. w[i] = f[j]
        BY <1>8, <3>2
      <4>. QED
        BY <1>6, <2>3, <4>1
    <3>. QED
      BY <1>9, <3>1, <3>2
  <2>. QED
    BY <2>1, <2>2, <2>3 DEF In
<1>14. \A l : Replied(l) <=> \E j \in 1 .. Len(r) : r[j] = l
  BY DEF Replied, r
<1>15. \A l : Judged(l)' <=> Judged(l) \/ Replied(l)
  BY <1>11, <1>12, <1>13, <1>14
<1>16. \A l : /\ Quality!Settled(l)' <=> Quality!Settled(l)
              /\ Quality!Ok(l)' <=> Quality!Ok(l)
              /\ Quality!LineOf(l)' = Quality!LineOf(l)
              /\ ~Replied(l)'
  BY <1>1, <1>2, FilesStay, EmptySeq DEF Replied
<1>17. QualityTypes'
  BY <1>1, <1>2, <1>7, <1>8 DEF QualityTypes
<1>18. Asking'
  <2>1. \A l \in run'.todo : Quality!Ok(l) /\ ~Judged(l) /\ ~Replied(l)
    BY <1>1, <1>2 DEF Asking
  <2>2. \A l \in run'.asked \cup run'.todo \cup run'.chunk :
          Quality!Ok(l)' /\ ~Judged(l)' /\ ~Replied(l)'
    BY <1>2, <1>15, <1>16, <2>1
  <2>. QED
    BY <1>2, <1>16, <2>2 DEF Asking
<1>19. PaidOnce'
  BY <1>1, <1>15, <1>16 DEF PaidOnce
<1>20. Owned'
  <2>1. \A i \in 1 .. Len(v) : \A k \in Keys :
          v[i].key = k => Quality!Ok(k) /\ v[i].about = Quality!LineOf(k)
    BY <1>1 DEF Owned, v
  <2>2. \A i \in 1 .. Len(r) : \A k \in Keys :
          f[i].key = k => Quality!Ok(k) /\ f[i].about = Quality!LineOf(k)
    BY <1>4, <1>6
  <2>3. \A i \in 1 .. Len(w) : \A k \in Keys :
          w[i].key = k => Quality!Ok(k) /\ w[i].about = Quality!LineOf(k)
    <3>. SUFFICES ASSUME NEW i \in 1 .. Len(w), NEW k \in Keys, w[i].key = k
                  PROVE  Quality!Ok(k) /\ w[i].about = Quality!LineOf(k)
      OBVIOUS
    <3>1. CASE i \in 1 .. Len(v)
      BY <1>8, <2>1, <3>1
    <3>2. ASSUME NEW j \in 1 .. Len(r), i = Len(v) + j
          PROVE  Quality!Ok(k) /\ w[i].about = Quality!LineOf(k)
      <4>1. w[i] = f[j]
        BY <1>8, <3>2
      <4>. QED
        BY <2>2, <4>1
    <3>. QED
      BY <1>9, <3>1, <3>2
  <2>. QED
    BY <1>7, <1>16, <2>3 DEF Owned
<1>21. Quality!SpentIsBounded'
  BY <1>1, <1>2 DEF Quality!SpentIsBounded
<1>. QED
  BY <1>17, <1>18, <1>19, <1>20, <1>21 DEF QualityInv

\* The process dies: what was asked, and the replies that were not stored, were paid and lost.
LEMMA RunDies ==
  ASSUME QualityInv, Quality!Kill
  PROVE  QualityInv'
<1>1. /\ run.step \in Quality!Steps /\ run' = Quality!Idle /\ UNCHANGED <<answers, verdicts>>
      /\ QualityTypes /\ Asking /\ PaidOnce /\ Owned /\ run \in Runs
      /\ run.asked \in SUBSET Keys /\ run.replies \in Seq(Keys)
  BY DEF Quality!Kill, Quality!Steps, QualityInv, QualityTypes, Runs
<1>2. /\ run' \in Runs /\ run'.step = "idle" /\ run'.todo = {} /\ run'.asked = {}
      /\ run'.chunk = {} /\ run'.replies = <<>> /\ run'.spent = 0
  BY <1>1, EmptySeq DEF Quality!Idle, Runs
<1>. DEFINE s == run.step
            gone == run.asked \cup Quality!ToSet(run.replies)
            A == [k \in Keys |-> asks[s][k] + (IF k \in run.asked THEN 1 ELSE 0)]
            L == [k \in Keys |-> lost[s][k] + (IF k \in gone THEN 1 ELSE 0)]
<1>3. asks' = [asks EXCEPT ![s] = A] /\ lost' = [lost EXCEPT ![s] = L]
  BY DEF Quality!Kill
<1>4. \A k : k \in gone <=> k \in run.asked \/ Replied(k)
  <2>1. DOMAIN run.replies = 1 .. Len(run.replies)
    BY <1>1, LenProperties
  <2>. QED
    BY <2>1 DEF Quality!ToSet, Replied
<1>5. /\ asks \in [Quality!Steps -> [Keys -> Nat]] /\ lost \in [Quality!Steps -> [Keys -> Nat]]
      /\ asks[s] \in [Keys -> Nat] /\ lost[s] \in [Keys -> Nat]
  BY <1>1 DEF QualityTypes
<1>6. /\ A \in [Keys -> Nat] /\ L \in [Keys -> Nat]
      /\ \A k \in Keys : /\ A[k] = asks[s][k] + (IF k \in run.asked THEN 1 ELSE 0)
                         /\ L[k] = lost[s][k] + (IF k \in gone THEN 1 ELSE 0)
  BY <1>5
<1>. HIDE DEF A, L, gone
<1>7. /\ asks' \in [Quality!Steps -> [Keys -> Nat]] /\ lost' \in [Quality!Steps -> [Keys -> Nat]]
      /\ asks'[s] = A /\ lost'[s] = L
      /\ \A z \in Quality!Steps \ {s} : asks'[z] = asks[z] /\ lost'[z] = lost[z]
  BY <1>1, <1>3, <1>5, <1>6
<1>8. \A k : /\ Quality!Settled(k)' <=> Quality!Settled(k)
             /\ Quality!Ok(k)' <=> Quality!Ok(k)
             /\ Quality!LineOf(k)' = Quality!LineOf(k)
             /\ Judged(k)' <=> Judged(k)
             /\ ~Replied(k)'
  BY <1>1, <1>2, FilesStay, EmptySeq DEF Replied
<1>9. QualityTypes'
  BY <1>1, <1>2, <1>7 DEF QualityTypes
<1>10. Asking'
  BY <1>2, EmptySeq DEF Asking
<1>11. ASSUME NEW k \in Keys
       PROVE  /\ asks'["collect"][k]
                   <= lost'["collect"][k] + (IF Quality!Settled(k) THEN 1 ELSE 0)
              /\ asks'["judge"][k] <= lost'["judge"][k] + (IF Judged(k) THEN 1 ELSE 0)
  <2>1. /\ asks["collect"][k] <= lost["collect"][k] + (IF Quality!Settled(k) THEN 1 ELSE 0)
        /\ asks["judge"][k] <= lost["judge"][k] + (IF Judged(k) \/ Replied(k) THEN 1 ELSE 0)
    BY <1>1 DEF PaidOnce
  <2>2. /\ asks["collect"][k] \in Nat /\ lost["collect"][k] \in Nat
        /\ asks["judge"][k] \in Nat /\ lost["judge"][k] \in Nat
    BY <1>5 DEF Quality!Steps
  <2>3. /\ asks'[s][k] = asks[s][k] + (IF k \in run.asked THEN 1 ELSE 0)
        /\ lost'[s][k] = lost[s][k] + (IF k \in run.asked \/ Replied(k) THEN 1 ELSE 0)
    BY <1>4, <1>6, <1>7
  <2>4. CASE s = "collect"
    <3>1. asks'["judge"] = asks["judge"] /\ lost'["judge"] = lost["judge"]
      BY <1>7, <2>4 DEF Quality!Steps
    <3>2. ~Replied(k)
      BY <1>1, <2>4, EmptySeq DEF Asking, Replied
    <3>. QED
      BY <2>1, <2>2, <2>3, <2>4, <3>1, <3>2
  <2>5. CASE s = "judge"
    <3>1. asks'["collect"] = asks["collect"] /\ lost'["collect"] = lost["collect"]
      BY <1>7, <2>5 DEF Quality!Steps
    <3>2. k \in run.asked => ~Judged(k) /\ ~Replied(k)
      BY <1>1, <2>5 DEF Asking
    <3>. QED
      BY <2>1, <2>2, <2>3, <2>5, <3>1, <3>2
  <2>. QED
    BY <1>1, <2>4, <2>5 DEF Quality!Steps
<1>12. PaidOnce'
  BY <1>8, <1>11 DEF PaidOnce
<1>13. Owned'
  BY <1>1, <1>8 DEF Owned
<1>14. Quality!SpentIsBounded'
  <2>1. Quality!Cardinality({}) = 0
    BY QualityCardinality, FS_EmptySet
  <2>2. 0 + 0 <= MaxUsd - 1 + Concurrency
    BY QualityConstants
  <2>. QED
    BY <1>2, <2>1, <2>2 DEF Quality!SpentIsBounded
<1>. QED
  BY <1>9, <1>10, <1>12, <1>13, <1>14 DEF QualityInv

\* Every step of the measurement, and the steps of the others.
LEMMA QualitySteps == QualityInv /\ [Quality!Next]_qualityVars => QualityInv'
<1>. SUFFICES ASSUME QualityInv, [Quality!Next]_qualityVars PROVE QualityInv'
  OBVIOUS
<1>1. CASE UNCHANGED qualityVars
  <2>1. \A k : /\ Quality!Settled(k)' <=> Quality!Settled(k)
               /\ Quality!Ok(k)' <=> Quality!Ok(k)
               /\ Judged(k)' <=> Judged(k)
               /\ Replied(k)' <=> Replied(k)
    BY <1>1, FilesStay DEF qualityVars
  <2>2. Asking'
    BY <1>1, <2>1 DEF qualityVars, QualityInv, Asking
  <2>3. run' \in Runs /\ Quality!SpentIsBounded'
    BY <1>1 DEF qualityVars, QualityInv, QualityTypes, Quality!SpentIsBounded
  <2>. QED
    BY <1>1, <2>2, <2>3, RunGoesOn DEF qualityVars
<1>2. CASE Quality!Next
  BY <1>2, RunsStart, RunAsks, ChunkStarts, AnswerIsStored, ReplyComes, ChunkIsStored, RunDies
  DEF Quality!Next
<1>. QED
  BY <1>1, <1>2

\* The invariant is what the measurement promises.
LEMMA QualityInvIsResumed == QualityInv => Quality!RunIsResumed
<1>. SUFFICES ASSUME QualityInv PROVE Quality!RunIsResumed
  OBVIOUS
<1>1. Quality!ResumedNotRepaid
  <2>1. ASSUME NEW k \in Keys
        PROVE  /\ asks["collect"][k] <= 1 + lost["collect"][k]
               /\ asks["judge"][k] <= 1 + lost["judge"][k]
    <3>1. /\ asks["collect"][k] \in Nat /\ lost["collect"][k] \in Nat
          /\ asks["judge"][k] \in Nat /\ lost["judge"][k] \in Nat
      BY DEF QualityInv, QualityTypes, Quality!Steps
    <3>. QED
      BY <3>1 DEF QualityInv, PaidOnce
  <2>. QED
    BY <2>1 DEF Quality!ResumedNotRepaid, Quality!Steps
<1>2. Quality!VerdictsAreOwn
  <2>1. DOMAIN verdicts = 1 .. Len(verdicts)
    BY LenProperties DEF QualityInv, QualityTypes
  <2>2. \A n \in 1 .. Len(verdicts) : verdicts[n] \in VerdictLines
    BY ElementOfSeq DEF QualityInv, QualityTypes
  <2>3. \A n \in 1 .. Len(verdicts) : verdicts[n].key \in Keys
    BY <2>2 DEF VerdictLines
  <2>. QED
    BY <2>1, <2>3 DEF QualityInv, Owned, Quality!VerdictsAreOwn
<1>. QED
  BY <1>1, <1>2 DEF QualityInv, Quality!RunIsResumed

\* A measurement that is killed or runs out of money, at whatever point, pays again only for what
\* went with its process, its verdicts stay about the answers that are stored, and no run passes
\* its sum by more than what was in flight; and nothing of what the old proxy recorded is missing
\* in the hosted one once an import is through, nor told twice, however often the import is
\* repeated or cut off and whichever processes import at once.
THEOREM RestartsAreWhole == PartsSpec => []RestartsLoseNothing
<1>. DEFINE Inv == /\ part = "quality" => QualityInv
                   /\ part = "move" => MoveInv
<1>1. PartsInit => Inv
  BY EachPartStarts, QualityStarts, MoveStarts
<1>2. Inv /\ [PartsNext]_partsVars => Inv'
  <2>. SUFFICES ASSUME Inv, [PartsNext]_partsVars PROVE Inv'
    OBVIOUS
  <2>1. ASSUME part' = "quality" PROVE QualityInv'
    BY <2>1, OnePartActs, QualitySteps
  <2>2. ASSUME part' = "move" PROVE MoveInv'
    BY <2>2, OnePartActs, MoveSteps
  <2>. QED
    BY <2>1, <2>2
<1>3. Inv => RestartsLoseNothing
  BY QualityInvIsResumed, MoveInvIsWhole DEF RestartsLoseNothing
<1>. QED
  BY <1>1, <1>2, <1>3, PTL DEF PartsSpec

-----------------------------------------------------------------------------
(* The names of a text (NameRuns).                                         *)

TextWords == [word : Names!Words, after : Names!Gaps]
RunWords  == [at : Nat, kind : {"name", "initial", "particle"}]

NameTypes ==
  /\ text \in Seq(TextWords)
  /\ nameRun \in Seq(RunWords) /\ Len(nameRun) <= Len(text)

Particle(i) == text[i].word = "particle"

\* What belongs together from the part at i to the word at m.
Chain(i, m) ==
  /\ i \in 1 .. m /\ Names!Part(i)
  /\ \A k \in i .. m : Names!Part(k) \/ Particle(k)
  /\ \A k \in i .. m - 1 : Names!Touch(k)

KindAt(i) == IF Names!Initial(i) THEN "initial"
             ELSE IF text[i].word = "name" THEN "name" ELSE "particle"

\* The words before the run.
Ahead == Len(text) - Len(nameRun)

\* The run is the longest chain that ends with the last word.
RunFrom(d, n) ==
  /\ \A k \in 1 .. Len(nameRun) : nameRun[k] = [at |-> d + k, kind |-> KindAt(d + k)]
  /\ nameRun # <<>> => Chain(d + 1, n) /\ afterTitle = Names!Titles(d + 1)
  /\ \A i \in 1 .. n : Chain(i, n) => nameRun # <<>> /\ d + 1 <= i
  /\ (lastKind = "initial") <=> text # <<>> /\ Names!Initial(n)

RunIsChain == \A d, n \in Nat : n = Len(text) /\ d = Ahead => RunFrom(d, n)

SpansTo(m) ==
  {s \in (DOMAIN text) \X (DOMAIN text) :
     Names!SpanOf(s[1], s[2]) /\ Names!IsName(s[1], s[2]) /\ s[2] <= m}

MaskedIsWhole == \A d \in Nat : d = Ahead => masked = SpansTo(d)

NameInv == NameTypes /\ RunIsChain /\ MaskedIsWhole

\* No capital is one of the other kinds of word.
LEMMA NameConstants ==
  MaxWords \in Nat /\ Letters \cap {"name", "title", "particle", "word"} = {}
BY PartsAssumption DEF Names!NameRunsAssumption

\* What the invariant says of the run there is.
LEMMA RunIs ==
  ASSUME NameTypes
  PROVE  /\ Ahead \in Nat /\ Len(text) \in Nat
         /\ RunIsChain => RunFrom(Ahead, Len(text))
         /\ MaskedIsWhole => masked = SpansTo(Ahead)
<1>1. Ahead \in Nat /\ Len(text) \in Nat
  BY DEF NameTypes, Ahead
<1>. QED
  BY <1>1 DEF RunIsChain, MaskedIsWhole

\* Before the first word there is no run, and nothing is masked.
LEMMA NamesStart == Names!Init => NameInv
<1>. SUFFICES ASSUME Names!Init PROVE NameInv
  OBVIOUS
<1>1. text = <<>> /\ nameRun = <<>>
  BY DEF Names!Init
<1>d. lastKind = "" /\ masked = {}
  BY DEF Names!Init
<1>a. text \in Seq(TextWords)
  BY <1>1
<1>b. nameRun \in Seq(RunWords)
  BY <1>1
<1>c. Len(text) = 0 /\ Len(nameRun) = 0 /\ DOMAIN text = {}
  BY <1>1
<1>2. NameTypes
  BY <1>a, <1>b, <1>c DEF NameTypes
<1>3. RunIsChain
  <2>1. \A i \in 1 .. Len(text) : FALSE
    BY <1>c
  <2>2. \A k \in 1 .. Len(nameRun) : FALSE
    BY <1>c
  <2>. QED
    BY <1>1, <1>d, <2>1, <2>2 DEF RunIsChain, RunFrom
<1>4. MaskedIsWhole
  BY <1>c, <1>d DEF MaskedIsWhole, SpansTo, Ahead
<1>. QED
  BY <1>2, <1>3, <1>4 DEF NameInv

\* A part is an initial or a name, and is no particle.
LEMMA PartIs ==
  ASSUME NEW i, Names!Part(i)
  PROVE  ~Particle(i) /\ KindAt(i) \in {"initial", "name"}
         /\ (KindAt(i) = "initial" <=> text[i].word \in Letters)
         /\ (KindAt(i) = "name" <=> text[i].word = "name")
BY NameConstants DEF Names!Part, Names!Initial, Particle, KindAt

\* In a chain, the last part before a place and the first one after it are bound.
LEMMA ChainBinds ==
  ASSUME NameTypes, NEW m \in 1 .. Len(text), NEW i, Chain(i, m),
         NEW k \in i .. m, NEW l \in k + 1 .. m, Names!Part(l)
  PROVE  \E j \in k + 1 .. l : Names!Part(j) /\ (Names!Part(k) => Names!Bound(k, j))
                               /\ \A h \in k + 1 .. j - 1 : Particle(h)
<1>. DEFINE S == {j \in k + 1 .. m : Names!Part(j)}
<1>0. i \in Nat /\ m \in Nat /\ k \in Nat /\ l \in Nat /\ i <= k /\ k < l /\ l <= m
  BY DEF Chain
<1>1. S \in SUBSET Nat /\ l \in S
  BY <1>0
<1>2. PICK j \in S : \A x \in S : j <= x
  <2>. HIDE DEF S
  <2>. QED
    BY <1>1, LeastOf
<1>3. j \in Nat /\ k < j /\ j <= l /\ Names!Part(j)
  BY <1>0, <1>1, <1>2
<1>4. ASSUME NEW h \in k + 1 .. j - 1 PROVE Particle(h)
  <2>1. h \in i .. m /\ h < j /\ h \in k + 1 .. m
    BY <1>0, <1>3
  <2>2. h \notin S
    BY <1>2, <1>3, <2>1
  <2>. QED
    BY <2>1, <2>2 DEF Chain
<1>5. \A h \in k .. j - 1 : Names!Touch(h) /\ (h > k => text[h].word = "particle")
  <2>. SUFFICES ASSUME NEW h \in k .. j - 1
                PROVE  Names!Touch(h) /\ (h > k => text[h].word = "particle")
    OBVIOUS
  <2>1. h \in i .. m - 1
    BY <1>0, <1>3
  <2>2. h > k => h \in k + 1 .. j - 1
    BY <1>0, <1>3
  <2>. QED
    BY <1>4, <2>1, <2>2 DEF Chain, Particle
<1>6. Names!Part(k) => Names!Bound(k, j)
  BY <1>3, <1>5 DEF Names!Bound
<1>7. j \in k + 1 .. l
  BY <1>0, <1>3
<1>. QED
  BY <1>3, <1>4, <1>6, <1>7

\* Every word of a chain has a part of it at or before it, with none between.
LEMMA PartBefore ==
  ASSUME NameTypes, NEW m \in 1 .. Len(text), NEW i, Chain(i, m), NEW k \in i .. m
  PROVE  \E c \in i .. k : Names!Part(c) /\ \A h \in c + 1 .. k : ~Names!Part(h)
<1>. DEFINE S == {c \in i .. k : Names!Part(c)}
<1>1. i \in Nat /\ k \in Nat /\ i <= k /\ Names!Part(i)
  BY DEF Chain
<1>2. S \in SUBSET (0 .. k) /\ S # {} /\ \A x \in S : x \in i .. k /\ Names!Part(x)
  BY <1>1
<1>3. \A h \in i .. k : Names!Part(h) => h \in S
  OBVIOUS
<1>. HIDE DEF S
<1>4. PICK c \in S : \A x \in S : x <= c
  BY <1>1, <1>2, GreatestOf
<1>5. c \in i .. k /\ Names!Part(c)
  BY <1>2
<1>6. \A h \in c + 1 .. k : ~Names!Part(h)
  BY <1>1, <1>3, <1>4, <1>5
<1>. QED
  BY <1>5, <1>6

\* A part of a chain that is not its first is bound to one before it.
LEMMA ChainBindsBack ==
  ASSUME NameTypes, NEW m \in 1 .. Len(text), NEW i, Chain(i, m),
         NEW l \in i + 1 .. m, Names!Part(l)
  PROVE  \E c \in i .. l - 1 : Names!Bound(c, l)
<1>1. i \in Nat /\ m \in Nat /\ l \in Nat /\ i < l /\ l <= m /\ l - 1 \in i .. m
  BY DEF Chain
<1>2. PICK c \in i .. l - 1 : Names!Part(c) /\ \A h \in c + 1 .. l - 1 : ~Names!Part(h)
  <2>. DEFINE q == l - 1
  <2>1. q \in i .. m
    BY <1>1
  <2>. HIDE DEF q
  <2>2. \E c \in i .. q : Names!Part(c) /\ \A h \in c + 1 .. q : ~Names!Part(h)
    BY <2>1, PartBefore
  <2>. QED
    BY <2>2 DEF q
<1>3. ASSUME NEW h \in c .. l - 1
      PROVE  Names!Touch(h) /\ (h > c => text[h].word = "particle")
  <2>1. h \in i .. m - 1 /\ h \in i .. m /\ (h > c => h \in c + 1 .. l - 1)
    BY <1>1
  <2>2. Names!Touch(h) /\ (Names!Part(h) \/ Particle(h))
    BY <2>1 DEF Chain
  <2>3. h > c => ~Names!Part(h)
    BY <1>2, <2>1
  <2>. QED
    BY <2>2, <2>3 DEF Particle
<1>4. Names!Bound(c, l)
  BY <1>1, <1>2, <1>3 DEF Names!Bound
<1>. QED
  BY <1>4

\* What a chain has from its start to its last part belongs together.
LEMMA ChainTogether ==
  ASSUME NameTypes, NEW m \in 1 .. Len(text), NEW i, Chain(i, m),
         NEW b \in i .. m, Names!Part(b)
  PROVE  Names!Together(i, b)
<1>1. i \in Nat /\ m \in Nat /\ b \in Nat /\ i <= b /\ b <= m
  BY DEF Chain
<1>2. ASSUME NEW k \in i .. b, ~Names!Part(k)
      PROVE  \E x \in i .. k, y \in k .. b : Names!Bound(x, y)
  <2>1. k \in Nat /\ k \in i .. m /\ k < b
    BY <1>1, <1>2
  <2>2. PICK c \in i .. k : Names!Part(c) /\ \A h \in c + 1 .. k : ~Names!Part(h)
    BY <2>1, PartBefore
  <2>3. c \in i .. m /\ b \in c + 1 .. m /\ c \in Nat
    BY <1>1, <2>1
  <2>4. PICK y \in c + 1 .. b : Names!Part(y) /\ Names!Bound(c, y)
    BY <2>2, <2>3, ChainBinds
  <2>5. y \notin c + 1 .. k
    BY <2>2, <2>4
  <2>6. y \in k .. b
    BY <1>1, <2>1, <2>3, <2>5
  <2>. QED
    BY <2>4, <2>6
<1>. QED
  BY <1>1, <1>2 DEF Names!Together

\* A span is a chain.
LEMMA SpanChains ==
  ASSUME NameTypes, NEW i \in 1 .. Len(text), NEW j \in 1 .. Len(text), Names!SpanOf(i, j)
  PROVE  i <= j /\ Names!Part(i) /\ Names!Part(j) /\ Chain(i, j)
<1>1. i <= j /\ Names!Part(i) /\ Names!Part(j) /\ \A k \in i .. j - 1 : Names!Touch(k)
  BY DEF Names!SpanOf, Names!Together
<1>2. i \in Nat /\ j \in Nat
  OBVIOUS
<1>3. ASSUME NEW k \in i .. j, ~Names!Part(k) PROVE Particle(k)
  <2>1. PICK x \in i .. k, y \in k .. j : Names!Bound(x, y)
    BY <1>3 DEF Names!SpanOf, Names!Together
  <2>2. x # k /\ y # k
    BY <1>3, <2>1 DEF Names!Bound
  <2>3. k \in x .. y - 1 /\ k > x
    BY <1>2, <2>2
  <2>. QED
    BY <2>1, <2>3 DEF Names!Bound, Particle
<1>. QED
  BY <1>1, <1>2, <1>3 DEF Chain

\* The run's span is the one span that ends in it.
LEMMA SpanIsRun ==
  ASSUME NameTypes, RunIsChain, nameRun # <<>>,
         NEW b \in Ahead + 1 .. Len(text), Names!Part(b),
         \A k \in b + 1 .. Len(text) : ~Names!Part(k),
         NEW i \in 1 .. Len(text), NEW j \in 1 .. Len(text)
  PROVE  Names!SpanOf(i, j) /\ Ahead < j <=> i = Ahead + 1 /\ j = b
<1>. DEFINE n == Len(text)
            a == Ahead + 1
<1>1. n \in Nat /\ a \in Nat /\ a \in 1 .. n /\ a - 1 = Ahead /\ b \in a .. n /\ b \in Nat
      /\ i \in Nat /\ j \in Nat /\ n \in 1 .. n /\ DOMAIN text = 1 .. n
  BY DEF NameTypes, Ahead
<1>2. Chain(a, n) /\ \A h \in 1 .. n : Chain(h, n) => a <= h
  BY RunIs DEF RunFrom
<1>c. i \in 1 .. n /\ j \in 1 .. n /\ \A k \in b + 1 .. n : ~Names!Part(k)
  OBVIOUS
<1>. HIDE DEF n, a
<1>3. \A h \in 1 .. n : ~Names!Bound(h, a)
  <2>. SUFFICES ASSUME NEW h \in 1 .. n, Names!Bound(h, a) PROVE FALSE
    OBVIOUS
  <2>1. h \in Nat /\ h < a /\ Names!Part(h) /\ h \in 1 .. n
        /\ \A k \in h .. a - 1 : Names!Touch(k) /\ (k > h => Particle(k))
    BY DEF Names!Bound, Particle
  <2>2. \A k \in h .. n : Names!Part(k) \/ Particle(k)
    <3>. SUFFICES ASSUME NEW k \in h .. n PROVE Names!Part(k) \/ Particle(k)
      OBVIOUS
    <3>1. k = h \/ (k \in h .. a - 1 /\ k > h) \/ k \in a .. n
      BY <1>1, <2>1
    <3>. QED
      BY <1>2, <2>1, <3>1 DEF Chain
  <2>3. \A k \in h .. n - 1 : Names!Touch(k)
    <3>. SUFFICES ASSUME NEW k \in h .. n - 1 PROVE Names!Touch(k)
      OBVIOUS
    <3>1. k \in h .. a - 1 \/ k \in a .. n - 1
      BY <1>1, <2>1
    <3>. QED
      BY <1>2, <2>1, <3>1 DEF Chain
  <2>4. Chain(h, n)
    BY <2>1, <2>2, <2>3 DEF Chain
  <2>. QED
    BY <1>1, <1>2, <2>1, <2>4
<1>4. ASSUME i = a, j = b PROVE Names!SpanOf(i, j) /\ Ahead < j
  <2>1. Names!Together(a, b)
    BY <1>1, <1>2, ChainTogether DEF n
  <2>2. Names!Part(a) /\ \A k \in a .. b - 1 : Names!Touch(k)
    BY <1>1, <1>2 DEF Chain
  <2>3. \A k \in 1 .. n : ~Names!Bound(b, k)
    BY <1>1, <1>c DEF Names!Bound
  <2>. QED
    BY <1>1, <1>3, <1>4, <2>1, <2>2, <2>3 DEF Names!SpanOf
<1>5. ASSUME Names!SpanOf(i, j), Ahead < j PROVE i = a /\ j = b
  <2>1. i <= j /\ Names!Part(i) /\ Names!Part(j) /\ Chain(i, j)
    BY <1>5, SpanChains
  <2>2. \A k \in 1 .. n : ~Names!Bound(k, i) /\ ~Names!Bound(j, k)
    BY <1>1, <1>5 DEF Names!SpanOf
  <2>3. j = b
    <3>1. j <= b
      BY <1>1, <1>c, <2>1
    <3>2. CASE j < b
      <4>1. j \in a .. n /\ b \in j + 1 .. n
        BY <1>1, <1>5, <3>2
      <4>2. \E y \in j + 1 .. b : Names!Bound(j, y)
        BY <1>1, <1>2, <2>1, <4>1, ChainBinds DEF n
      <4>. QED
        BY <1>1, <2>2, <4>2
    <3>. QED
      BY <1>1, <3>1, <3>2
  <2>4. CASE a < i
    <3>1. i \in a + 1 .. n
      BY <1>1, <1>c, <2>4
    <3>2. \E c \in a .. i - 1 : Names!Bound(c, i)
      BY <1>1, <1>2, <2>1, <3>1, ChainBindsBack DEF n
    <3>. QED
      BY <1>1, <2>2, <3>2
  <2>5. CASE i < a
    <3>1. \A k \in i .. n : Names!Part(k) \/ Particle(k)
      <4>. SUFFICES ASSUME NEW k \in i .. n PROVE Names!Part(k) \/ Particle(k)
        OBVIOUS
      <4>1. k \in i .. j \/ k \in a .. n
        BY <1>1, <1>5
      <4>. QED
        BY <1>2, <2>1, <4>1 DEF Chain
    <3>2. \A k \in i .. n - 1 : Names!Touch(k)
      <4>. SUFFICES ASSUME NEW k \in i .. n - 1 PROVE Names!Touch(k)
        OBVIOUS
      <4>1. k \in i .. j - 1 \/ k \in a .. n - 1
        BY <1>1, <1>5
      <4>. QED
        BY <1>2, <2>1, <4>1 DEF Chain
    <3>3. Chain(i, n)
      BY <1>c, <2>1, <3>1, <3>2 DEF Chain
    <3>. QED
      BY <1>1, <1>2, <1>c, <2>5, <3>3
  <2>. QED
    BY <1>1, <2>3, <2>4, <2>5
<1>. QED
  BY <1>4, <1>5 DEF a

\* The word at a place of the run.
LEMMA RunWord ==
  ASSUME NameTypes, RunIsChain, NEW k \in 1 .. Len(nameRun)
  PROVE  nameRun[k].at = Ahead + k /\ nameRun[k].kind = KindAt(Ahead + k)
<1>. DEFINE place == Ahead + k
            what  == KindAt(Ahead + k)
<1>1. nameRun[k] = [at |-> place, kind |-> what]
  BY RunIs DEF RunFrom
<1>. HIDE DEF place, what
<1>2. nameRun[k].at = place /\ nameRun[k].kind = what
  BY <1>1
<1>. QED
  BY <1>2 DEF place, what

\* The last part of the run.
LastPart(b) ==
  /\ b \in Ahead + 1 .. Len(text) /\ Names!Part(b)
  /\ \A k \in b + 1 .. Len(text) : ~Names!Part(k)

\* A run has a part: it starts with one.
LEMMA RunHasPart ==
  ASSUME NameTypes, RunIsChain, nameRun # <<>>
  PROVE  \E b : LastPart(b)
<1>. DEFINE n == Len(text)
            a == Ahead + 1
<1>1. n \in Nat /\ a \in Nat /\ n \in 1 .. n /\ n \in a .. n /\ Chain(a, n)
  <2>1. Len(nameRun) \in Nat /\ Len(nameRun) # 0 /\ n \in Nat /\ Len(nameRun) <= n
    BY DEF NameTypes
  <2>2. Chain(a, n)
    BY RunIs DEF RunFrom
  <2>. QED
    BY <2>1, <2>2 DEF Ahead
<1>. HIDE DEF a, n
<1>2. PICK b \in a .. n : Names!Part(b) /\ \A h \in b + 1 .. n : ~Names!Part(h)
  BY <1>1, PartBefore DEF n
<1>. QED
  BY <1>2 DEF LastPart, a, n

\* What is left of the run without the particles at its end.
LEMMA TrimmedIs ==
  ASSUME NameTypes, RunIsChain, nameRun # <<>>, NEW b, LastPart(b)
  PROVE  /\ b - Ahead \in 1 .. Len(nameRun)
         /\ Names!Trimmed(nameRun) = SubSeq(nameRun, 1, b - Ahead)
<1>. DEFINE d == Ahead
            c == b - d
            L == Len(nameRun)
            kept == {i \in DOMAIN nameRun : nameRun[i].kind # "particle"}
<1>1. L \in Nat /\ d \in Nat /\ d + L = Len(text) /\ b \in d + 1 .. d + L /\ b \in Nat
      /\ DOMAIN nameRun = 1 .. L
  BY DEF NameTypes, Ahead, LastPart
<1>2. \A k \in 1 .. L : nameRun[k].kind = KindAt(d + k)
  BY RunWord
<1>3. \A k : KindAt(k) # "particle" <=> Names!Part(k)
  BY DEF KindAt, Names!Part
<1>4. Names!Part(b) /\ \A k \in b + 1 .. d + L : ~Names!Part(k)
  BY <1>1 DEF LastPart
<1>. HIDE DEF d, L
<1>5. c \in 1 .. L /\ d + c = b
  BY <1>1
<1>. HIDE DEF c
<1>6. c \in kept
  BY <1>1, <1>2, <1>3, <1>4, <1>5
<1>7. \A j \in kept : j <= c
  <2>. SUFFICES ASSUME NEW j \in 1 .. L, j > c PROVE j \notin kept
    BY <1>1, <1>5
  <2>1. d + j \in b + 1 .. d + L
    BY <1>1, <1>5
  <2>. QED
    BY <1>2, <1>3, <1>4, <2>1
<1>8. kept # {} /\ kept \subseteq 1 .. L
  BY <1>1, <1>6
<1>9. Names!Trimmed(nameRun) = SubSeq(nameRun, 1, CHOOSE i \in kept : \A j \in kept : j <= i)
  BY <1>8 DEF Names!Trimmed
<1>. HIDE DEF kept
<1>10. (CHOOSE i \in kept : \A j \in kept : j <= i) = c
  <2>1. \A i \in kept : (\A j \in kept : j <= i) => i = c
    BY <1>1, <1>5, <1>6, <1>7, <1>8
  <2>. QED
    BY <1>6, <1>7, <2>1
<1>11. Names!Trimmed(nameRun) = SubSeq(nameRun, 1, c)
  BY <1>9, <1>10
<1>. QED
  BY <1>5, <1>11 DEF c, d, L

\* The scan keeps a run whose text is a name.
LEMMA KeepIs ==
  ASSUME NameTypes, RunIsChain, nameRun # <<>>, NEW b, LastPart(b)
  PROVE  /\ Names!Trimmed(nameRun) # <<>>
         /\ Names!Trimmed(nameRun)[1].at = Ahead + 1
         /\ Names!Trimmed(nameRun)[Len(Names!Trimmed(nameRun))].at = b
         /\ Names!Keep(Names!Trimmed(nameRun)) <=> Names!IsName(Ahead + 1, b)
<1>. DEFINE d == Ahead
            c == b - d
            r == Names!Trimmed(nameRun)
            places == {k \in d + 1 .. b : text[k].word \in Letters}
<1>1. d \in Nat /\ Len(text) = d + Len(nameRun) /\ Len(nameRun) \in Nat /\ b \in d + 1 .. Len(text)
  BY DEF NameTypes, Ahead, LastPart
<1>2. c \in 1 .. Len(nameRun) /\ r = SubSeq(nameRun, 1, c)
  BY TrimmedIs
<1>3. \A k \in 1 .. Len(nameRun) : nameRun[k].at = d + k /\ nameRun[k].kind = KindAt(d + k)
  BY RunWord
<1>4. Chain(d + 1, Len(text)) /\ afterTitle = Names!Titles(d + 1)
  BY RunIs DEF RunFrom
<1>5. nameRun \in Seq(RunWords)
  BY DEF NameTypes
<1>. HIDE DEF d, r
<1>6. Len(r) = c /\ c \in Nat /\ DOMAIN r = 1 .. c /\ c >= 1 /\ d + c = b
      /\ \A k \in 1 .. c : r[k] = nameRun[k]
  BY <1>1, <1>2, <1>5
<1>. HIDE DEF c
<1>7. \A k \in 1 .. c : r[k].at = d + k /\ r[k].kind = KindAt(d + k)
  <2>. SUFFICES ASSUME NEW k \in 1 .. c PROVE r[k].at = d + k /\ r[k].kind = KindAt(d + k)
    OBVIOUS
  <2>1. k \in 1 .. Len(nameRun) /\ r[k] = nameRun[k]
    BY <1>1, <1>2, <1>6
  <2>2. nameRun[k].at = d + k /\ nameRun[k].kind = KindAt(d + k)
    BY <1>3, <2>1
  <2>. QED
    BY <2>1, <2>2
<1>8. \A k \in d + 1 .. b : Names!Part(k) \/ Particle(k)
  BY <1>1, <1>4 DEF Chain
<1>9. \A k \in d + 1 .. b : /\ KindAt(k) = "name" <=> text[k].word = "name"
                            /\ KindAt(k) = "initial" <=> text[k].word \in Letters
  <2>. SUFFICES ASSUME NEW k \in d + 1 .. b
                PROVE  /\ KindAt(k) = "name" <=> text[k].word = "name"
                       /\ KindAt(k) = "initial" <=> text[k].word \in Letters
    OBVIOUS
  <2>1. CASE Names!Part(k)
    BY <2>1, PartIs
  <2>2. CASE ~Names!Part(k)
    <3>1. text[k].word = "particle"
      BY <1>8, <2>2 DEF Particle
    <3>. QED
      BY <2>2, <3>1, NameConstants DEF KindAt, Names!Part
  <2>. QED
    BY <2>1, <2>2
<1>10. \A k \in d + 1 .. b : \E i \in 1 .. c : k = d + i
  <2>. SUFFICES ASSUME NEW k \in d + 1 .. b PROVE \E i \in 1 .. c : k = d + i
    OBVIOUS
  <2>1. k - d \in 1 .. c /\ k = d + (k - d)
    BY <1>1, <1>6
  <2>. QED
    BY <2>1
<1>11. \A i \in 1 .. c : d + i \in d + 1 .. b
  BY <1>1, <1>6
<1>12. Names!InitialsOf(r) = places
  <2>1. ASSUME NEW x, x \in Names!InitialsOf(r) PROVE x \in places
    BY <1>6, <1>7, <1>9, <1>11, <2>1 DEF Names!InitialsOf
  <2>2. ASSUME NEW x, x \in places PROVE x \in Names!InitialsOf(r)
    <3>1. PICK i \in 1 .. c : x = d + i
      BY <1>10, <2>2
    <3>2. r[i].at = x /\ r[i].kind = "initial"
      BY <1>7, <1>9, <2>2, <3>1
    <3>. QED
      BY <1>6, <3>2 DEF Names!InitialsOf
  <2>. QED
    BY <2>1, <2>2
<1>13. (\E i \in DOMAIN r : r[i].kind = "name") <=> \E k \in d + 1 .. b : text[k].word = "name"
  BY <1>6, <1>7, <1>9, <1>10, <1>11
<1>14. Names!Keep(r) <=> Names!IsName(d + 1, b)
  <2>. DEFINE letters == Names!WordsAt(places)
              named == Len(letters) >= 2 /\ letters \notin Initialisms
  <2>1. Names!Keep(r) <=> (\E i \in DOMAIN r : r[i].kind = "name") \/ afterTitle \/ named
    BY <1>12, Zenon DEF Names!Keep
  <2>2. Names!IsName(d + 1, b) <=> (\E k \in d + 1 .. b : text[k].word = "name")
                                    \/ Names!Titles(d + 1) \/ named
    BY Zenon DEF Names!IsName
  <2>. HIDE DEF named
  <2>. QED
    BY <1>4, <1>13, <2>1, <2>2, Zenon
<1>15. r # <<>> /\ r[1].at = d + 1 /\ r[Len(r)].at = b
  BY <1>6, <1>7
<1>. QED
  BY <1>14, <1>15 DEF d, r

\* A run that is flushed is masked if its text is a name, and the rest was before.
LEMMA FlushIs == NameInv => Names!Flush = SpansTo(Len(text))
<1>. SUFFICES ASSUME NameInv PROVE Names!Flush = SpansTo(Len(text))
  OBVIOUS
<1>. DEFINE n == Len(text)
<1>1. NameTypes /\ RunIsChain /\ masked = SpansTo(Ahead) /\ RunFrom(Ahead, Len(text))
  BY RunIs DEF NameInv
<1>2. n \in Nat /\ DOMAIN text = 1 .. n /\ Ahead \in Nat /\ Ahead <= n
  BY <1>1 DEF NameTypes, Ahead
<1>3. CASE nameRun = <<>>
  <2>1. Names!Trimmed(nameRun) = <<>>
    BY <1>3 DEF Names!Trimmed
  <2>2. Ahead = n
    BY <1>2, <1>3 DEF Ahead
  <2>. QED
    BY <1>1, <2>1, <2>2 DEF Names!Flush
<1>4. CASE nameRun # <<>>
  <2>. DEFINE r == Names!Trimmed(nameRun)
              a == Ahead + 1
  <2>1. PICK b : LastPart(b)
    BY <1>1, <1>4, RunHasPart
  <2>2. r # <<>> /\ r[1].at = a /\ r[Len(r)].at = b /\ (Names!Keep(r) <=> Names!IsName(a, b))
    BY <1>1, <1>4, <2>1, KeepIs
  <2>3. b \in 1 .. n /\ a \in 1 .. n /\ b \in Nat /\ Ahead < b
    BY <1>2, <2>1 DEF LastPart
  <2>4. \A i, j \in 1 .. n : Names!SpanOf(i, j) /\ Ahead < j <=> i = a /\ j = b
    BY <1>1, <1>4, <2>1, SpanIsRun DEF LastPart
  <2>5. Names!Flush = IF Names!Keep(r) THEN masked \cup {<<a, b>>} ELSE masked
    BY <2>2 DEF Names!Flush
  <2>. HIDE DEF r, a, n
  <2>6. \A s \in (1 .. n) \X (1 .. n) :
          s \in SpansTo(n) <=> s \in SpansTo(Ahead) \/ (Names!IsName(a, b) /\ s = <<a, b>>)
    <3>. SUFFICES ASSUME NEW i \in 1 .. n, NEW j \in 1 .. n
                  PROVE  <<i, j>> \in SpansTo(n) <=>
                           <<i, j>> \in SpansTo(Ahead) \/ (Names!IsName(a, b) /\ <<i, j>> = <<a, b>>)
      OBVIOUS
    <3>1. \A m : <<i, j>> \in SpansTo(m) <=> Names!SpanOf(i, j) /\ Names!IsName(i, j) /\ j <= m
      BY <1>2 DEF SpansTo, n
    <3>2. j \in Nat /\ j <= n /\ (j <= Ahead <=> ~(Ahead < j))
      BY <1>2 DEF n
    <3>3. Names!SpanOf(i, j) /\ Ahead < j <=> i = a /\ j = b
      BY <2>4
    <3>4. <<i, j>> = <<a, b>> <=> i = a /\ j = b
      OBVIOUS
    <3>5. CASE i = a /\ j = b
      BY <3>1, <3>2, <3>3, <3>5
    <3>6. CASE ~(i = a /\ j = b)
      BY <3>1, <3>2, <3>3, <3>4, <3>6
    <3>. QED
      BY <3>5, <3>6
  <2>7. \A m : SpansTo(m) \subseteq (1 .. n) \X (1 .. n)
    BY <1>2 DEF SpansTo, n
  <2>8. <<a, b>> \in (1 .. n) \X (1 .. n)
    BY <2>3 DEF n, a
  <2>9. SpansTo(n) = IF Names!IsName(a, b) THEN masked \cup {<<a, b>>} ELSE masked
    <3>1. CASE Names!IsName(a, b)
      BY <1>1, <2>6, <2>7, <2>8, <3>1
    <3>2. CASE ~Names!IsName(a, b)
      BY <1>1, <2>6, <2>7, <3>2
    <3>. QED
      BY <3>1, <3>2
  <2>10. Names!Keep(r) <=> Names!IsName(a, b)
    BY <2>2 DEF r, a
  <2>11. Names!Flush = SpansTo(n)
    BY <2>5, <2>9, <2>10 DEF r, a
  <2>. QED
    BY <2>11 DEF n
<1>. QED
  BY <1>3, <1>4

-----------------------------------------------------------------------------
(* A word is read.                                                         *)

\* The places are listed as the requests of a batch are.
LEMMA NameOrder == \A S : Names!InOrder(S) = Batch!InOrder(S)
BY Zenon DEF Names!InOrder, Batch!InOrder, Names!Cardinality, Batch!Cardinality,
             Names!IsFiniteSet, Batch!IsFiniteSet

\* The places of a set, in order, are of the set.
LEMMA PlacesAreThere ==
  ASSUME NEW m \in Nat, NEW S \in SUBSET (1 .. m)
  PROVE  \A n \in DOMAIN Names!InOrder(S) : Names!InOrder(S)[n] \in S
<1>1. S \in SUBSET Nat /\ IsFiniteSet(S)
  <2>1. IsFiniteSet(1 .. m)
    BY FS_Interval
  <2>2. IsFiniteSet(S)
    BY <2>1, FS_Subset
  <2>3. S \in SUBSET Nat
    OBVIOUS
  <2>. QED
    BY <2>2, <2>3
<1>2. Names!InOrder(S) = Batch!InOrder(S)
  BY NameOrder
<1>3. Batch!InOrder(S) \in Seq(S)
  BY <1>1, InOrderIs
<1>. DEFINE s == Names!InOrder(S)
<1>4. s \in Seq(S)
  BY <1>2, <1>3
<1>. HIDE DEF s
<1>5. \A n \in DOMAIN s : s[n] \in S
  BY <1>4
<1>. QED
  BY <1>5 DEF s

\* What the text says of its words stays as it is when one comes after them.
LEMMA ReadAppends ==
  ASSUME NameTypes, NEW word \in Names!Words, NEW after \in Names!Gaps, Names!Read(word, after)
  PROVE  /\ text' \in Seq(TextWords) /\ Len(text') = Len(text) + 1 /\ Len(text) \in Nat
         /\ text'[Len(text) + 1] = [word |-> word, after |-> after]
         /\ \A k \in 1 .. Len(text) : text'[k] = text[k]
<1>1. text \in Seq(TextWords) /\ [word |-> word, after |-> after] \in TextWords
  BY DEF NameTypes, TextWords
<1>2. text' = Append(text, [word |-> word, after |-> after])
  BY DEF Names!Read
<1>. QED
  BY <1>1, <1>2

\* What is said of a word is not changed by the words that come after it.
LEMMA WordsStay ==
  ASSUME NameTypes, NEW word \in Names!Words, NEW after \in Names!Gaps, Names!Read(word, after),
         NEW k \in 1 .. Len(text)
  PROVE  /\ Names!Part(k)' = Names!Part(k) /\ Names!Touch(k)' = Names!Touch(k)
         /\ Names!Titles(k)' = Names!Titles(k) /\ Particle(k)' = Particle(k)
         /\ Names!Initial(k)' = Names!Initial(k) /\ KindAt(k)' = KindAt(k)
<1>1. text'[k] = text[k]
  BY ReadAppends
<1>2. k > 1 => text'[k - 1] = text[k - 1]
  <2>1. Len(text) \in Nat /\ (k > 1 => k - 1 \in 1 .. Len(text))
    BY ReadAppends
  <2>. QED
    BY <2>1, ReadAppends
<1>3. Names!Titles(k)' = Names!Titles(k)
  BY <1>2 DEF Names!Titles
<1>4. Names!Initial(k)' = Names!Initial(k)
  BY <1>1, <1>3 DEF Names!Initial
<1>5. Names!Part(k)' = Names!Part(k)
  BY <1>1, <1>4 DEF Names!Part
<1>6. Names!Touch(k)' = Names!Touch(k)
  BY <1>1, <1>4 DEF Names!Touch
<1>7. Particle(k)' = Particle(k)
  BY <1>1 DEF Particle
<1>8. KindAt(k)' = KindAt(k)
  BY <1>1, <1>4 DEF KindAt
<1>. QED
  BY <1>3, <1>4, <1>5, <1>6, <1>7, <1>8

\* Nor is whether the words from one to another are a name.
LEMMA NamesStay ==
  ASSUME NameTypes, NEW word \in Names!Words, NEW after \in Names!Gaps, Names!Read(word, after),
         NEW i \in 1 .. Len(text), NEW j \in 1 .. Len(text)
  PROVE  Names!IsName(i, j)' <=> Names!IsName(i, j)
<1>a. Len(text) \in Nat /\ \A k \in 1 .. Len(text) : text'[k] = text[k]
  BY ReadAppends
<1>b. \A k \in i .. j : k \in 1 .. Len(text)
  BY <1>a
<1>1. Len(text) \in Nat /\ \A k \in i .. j : k \in 1 .. Len(text) /\ text'[k] = text[k]
  BY <1>a, <1>b
<1>2. PICK S : S = {k \in i .. j : text[k].word \in Letters}
  OBVIOUS
<1>3. S = {k \in i .. j : text'[k].word \in Letters} /\ S \in SUBSET (1 .. Len(text))
  BY <1>1, <1>2
<1>4. PICK m \in Nat : m = Len(text)
  BY <1>1
<1>5. PICK o : o = Names!InOrder(S)
  OBVIOUS
<1>6. \A n \in DOMAIN o : o[n] \in S
  BY <1>3, <1>4, <1>5, PlacesAreThere
<1>7. \A n \in DOMAIN o : text'[o[n]].word = text[o[n]].word
  BY <1>3, <1>6, ReadAppends
<1>8. [n \in DOMAIN o |-> text'[o[n]].word] = [n \in DOMAIN o |-> text[o[n]].word]
  BY <1>7
<1>9. PICK letters : letters = [n \in DOMAIN o |-> text[o[n]].word]
  OBVIOUS
<1>10. Names!IsName(i, j) <=>
         \/ \E k \in i .. j : text[k].word = "name"
         \/ Names!Titles(i)
         \/ Len(letters) >= 2 /\ letters \notin Initialisms
  BY <1>2, <1>5, <1>9, Zenon DEF Names!IsName, Names!WordsAt
<1>11. Names!IsName(i, j)' <=>
         \/ \E k \in i .. j : text'[k].word = "name"
         \/ Names!Titles(i)'
         \/ Len(letters) >= 2 /\ letters \notin Initialisms
  BY <1>3, <1>5, <1>8, <1>9, Zenon DEF Names!IsName, Names!WordsAt
<1>12. (\E k \in i .. j : text'[k].word = "name") <=> \E k \in i .. j : text[k].word = "name"
  BY <1>1
<1>13. Names!Titles(i)' = Names!Titles(i)
  BY WordsStay
<1>. QED
  BY <1>10, <1>11, <1>12, <1>13

\* So do the bonds between them, and a span only ceases to be one if it is bound to the new word.
LEMMA BondsStay ==
  ASSUME NameTypes, NEW word \in Names!Words, NEW after \in Names!Gaps, Names!Read(word, after),
         NEW i \in 1 .. Len(text), NEW j \in 1 .. Len(text)
  PROVE  /\ Names!Bound(i, j)' <=> Names!Bound(i, j)
         /\ Chain(i, j)' <=> Chain(i, j)
<1>. DEFINE n == Len(text)
<1>1. n \in Nat /\ i \in 1 .. n /\ j \in 1 .. n
  BY ReadAppends
<1>. HIDE DEF n
<1>2. \A k \in i .. j : k \in 1 .. n
  BY <1>1
<1>3. \A k \in i .. j - 1 : k \in 1 .. n
  BY <1>1
<1>4. \A k \in 1 .. n : /\ Names!Part(k)' <=> Names!Part(k)
                        /\ Names!Touch(k)' <=> Names!Touch(k)
                        /\ Particle(k)' <=> Particle(k)
  BY WordsStay DEF n
<1>5. \A k : Particle(k) <=> text[k].word = "particle"
  BY DEF Particle
<1>6. \A k : Particle(k)' <=> text'[k].word = "particle"
  BY DEF Particle
<1>7. Names!Bound(i, j)' <=> Names!Bound(i, j)
  BY <1>1, <1>3, <1>4, <1>5, <1>6 DEF Names!Bound
<1>8. Chain(i, j)' <=> Chain(i, j)
  BY <1>1, <1>2, <1>3, <1>4 DEF Chain
<1>. QED
  BY <1>7, <1>8

\* The bonds of the new word.
LEMMA NewBonds ==
  ASSUME NameTypes, NEW word \in Names!Words, NEW after \in Names!Gaps, Names!Read(word, after),
         NEW m, m = Len(text) + 1
  PROVE  /\ Chain(m, m)' <=> Names!Part(m)'
         /\ \A i \in 1 .. Len(text) :
              /\ Chain(i, m)' <=> /\ Chain(i, Len(text)) /\ Names!Touch(Len(text))
                                  /\ Names!Part(m)' \/ Particle(m)'
              /\ Names!Bound(i, m)' =>
                   /\ Chain(i, Len(text)) /\ Names!Touch(Len(text)) /\ Names!Part(m)'
                   /\ \A k \in i + 1 .. Len(text) : Particle(k)
<1>1. PICK n \in Nat : n = Len(text)
  BY ReadAppends
<1>2. \A k \in 1 .. n : /\ Names!Part(k)' <=> Names!Part(k)
                        /\ Names!Touch(k)' <=> Names!Touch(k)
                        /\ Particle(k)' <=> Particle(k)
  BY <1>1, WordsStay
<1>3. m = n + 1 /\ m \in 1 .. m
  BY <1>1
<1>4. Chain(m, m)' <=> Names!Part(m)'
  <2>1. \A k \in m .. m : k = m
    BY <1>3
  <2>2. \A k \in m .. m - 1 : FALSE
    BY <1>3
  <2>. QED
    BY <1>3, <2>1, <2>2 DEF Chain
<1>5. ASSUME NEW i \in 1 .. n
      PROVE  Chain(i, m)' <=> Chain(i, n) /\ Names!Touch(n) /\ (Names!Part(m)' \/ Particle(m)')
  <2>1. \A k \in i .. m : k \in i .. n \/ k = m
    BY <1>3
  <2>2. \A k \in i .. n : k \in i .. m /\ k \in 1 .. n
    BY <1>3
  <2>3. \A k \in i .. m - 1 : k \in i .. n - 1 \/ k = n
    BY <1>3
  <2>4. \A k \in i .. n - 1 : k \in i .. m - 1 /\ k \in 1 .. n
    BY <1>3
  <2>5. n \in i .. m - 1 /\ n \in 1 .. n /\ m \in i .. m /\ i \in 1 .. m
    BY <1>3
  <2>6. (\A k \in i .. m : Names!Part(k)' \/ Particle(k)') <=>
          /\ \A k \in i .. n : Names!Part(k) \/ Particle(k)
          /\ Names!Part(m)' \/ Particle(m)'
    BY <1>2, <2>1, <2>2, <2>5
  <2>7. (\A k \in i .. m - 1 : Names!Touch(k)') <=>
          (\A k \in i .. n - 1 : Names!Touch(k)) /\ Names!Touch(n)
    BY <1>2, <2>3, <2>4, <2>5
  <2>8. Names!Part(i)' <=> Names!Part(i)
    BY <1>2
  <2>9. Chain(i, m)' <=> /\ Names!Part(i)'
                         /\ \A k \in i .. m : Names!Part(k)' \/ Particle(k)'
                         /\ \A k \in i .. m - 1 : Names!Touch(k)'
    BY <2>5 DEF Chain
  <2>10. Chain(i, n) <=> /\ Names!Part(i)
                         /\ \A k \in i .. n : Names!Part(k) \/ Particle(k)
                         /\ \A k \in i .. n - 1 : Names!Touch(k)
    BY DEF Chain
  <2>. QED
    BY <2>6, <2>7, <2>8, <2>9, <2>10
<1>6. ASSUME NEW i \in 1 .. n, Names!Bound(i, m)'
      PROVE  /\ Chain(i, n) /\ Names!Touch(n) /\ Names!Part(m)'
             /\ \A k \in i + 1 .. n : Particle(k)
  <2>1. Names!Part(i)' /\ Names!Part(m)'
        /\ \A k \in i .. m - 1 : Names!Touch(k)' /\ (k > i => Particle(k)')
    BY <1>6 DEF Names!Bound, Particle
  <2>2. \A k \in i .. n : k \in i .. m - 1 /\ k \in 1 .. n /\ (k = i \/ k > i)
    BY <1>3
  <2>3. \A k \in i + 1 .. n : k \in i .. m - 1 /\ k \in 1 .. n /\ k > i
    BY <1>3
  <2>4. \A k \in i + 1 .. n : Particle(k)
    BY <1>2, <2>1, <2>3
  <2>5. \A k \in i .. n : Names!Touch(k) /\ (Names!Part(k) \/ Particle(k))
    BY <1>2, <2>1, <2>2
  <2>6. Chain(i, n) /\ Names!Touch(n)
    <3>1. \A k \in i .. n - 1 : k \in i .. n
      BY <1>3
    <3>2. n \in i .. n /\ (Names!Part(i)' <=> Names!Part(i))
      BY <1>2
    <3>. QED
      BY <2>1, <2>5, <3>1, <3>2 DEF Chain
  <2>. QED
    BY <2>1, <2>4, <2>6
<1>. QED
  BY <1>1, <1>4, <1>5, <1>6

\* Nor are the names before it, but for the one it is bound to.
LEMMA SpansStay ==
  ASSUME NameTypes, NEW word \in Names!Words, NEW after \in Names!Gaps, Names!Read(word, after),
         NEW m, m = Len(text) + 1, NEW i \in 1 .. Len(text), NEW j \in 1 .. Len(text)
  PROVE  Names!SpanOf(i, j)' <=> Names!SpanOf(i, j) /\ ~Names!Bound(j, m)'
<1>1. PICK n \in Nat : n = Len(text)
  BY ReadAppends
<1>2. i \in 1 .. n /\ j \in 1 .. n /\ m = n + 1 /\ DOMAIN text = 1 .. n /\ DOMAIN text' = 1 .. m
  <2>1. text \in Seq(TextWords) /\ text' \in Seq(TextWords) /\ Len(text') = n + 1
    BY <1>1, ReadAppends DEF NameTypes
  <2>. QED
    BY <1>1, <2>1
<1>3. \A k \in 1 .. n : /\ Names!Part(k)' <=> Names!Part(k)
                        /\ Names!Touch(k)' <=> Names!Touch(k)
  BY <1>1, WordsStay
<1>4. \A k, l \in 1 .. n : Names!Bound(k, l)' <=> Names!Bound(k, l)
  BY <1>1, BondsStay
<1>5. Names!Together(i, j)' <=> Names!Together(i, j)
  <2>1. \A k \in i .. j : k \in 1 .. n
    BY <1>2
  <2>2. \A k \in i .. j : /\ \A x \in i .. k : x \in 1 .. n
                          /\ \A y \in k .. j : y \in 1 .. n
    BY <1>2
  <2>3. \A k \in i .. j : (\E x \in i .. k, y \in k .. j : Names!Bound(x, y)') <=>
                             \E x \in i .. k, y \in k .. j : Names!Bound(x, y)
    BY <1>4, <2>2
  <2>. QED
    BY <1>3, <2>1, <2>3 DEF Names!Together
<1>6. (\A k \in i .. j - 1 : Names!Touch(k)') <=> \A k \in i .. j - 1 : Names!Touch(k)
  <2>1. \A k \in i .. j - 1 : k \in 1 .. n
    BY <1>2
  <2>. QED
    BY <1>3, <2>1
<1>7. (\E k \in 1 .. m : Names!Bound(k, i)' \/ Names!Bound(j, k)') <=>
        (\E k \in 1 .. n : Names!Bound(k, i) \/ Names!Bound(j, k)) \/ Names!Bound(j, m)'
  <2>1. \A k \in 1 .. m : k \in 1 .. n \/ k = m
    BY <1>2
  <2>2. ~Names!Bound(m, i)'
    <3>1. ~(m < i)
      BY <1>2
    <3>. QED
      BY <3>1 DEF Names!Bound
  <2>3. m \in 1 .. m /\ \A k \in 1 .. n : k \in 1 .. m
    BY <1>2
  <2>. QED
    BY <1>2, <1>4, <2>1, <2>2, <2>3
<1>8. Names!SpanOf(i, j) <=>
        /\ Names!Part(i) /\ Names!Part(j) /\ Names!Together(i, j)
        /\ \A k \in i .. j - 1 : Names!Touch(k)
        /\ ~(\E k \in 1 .. n : Names!Bound(k, i) \/ Names!Bound(j, k))
  BY <1>2 DEF Names!SpanOf
<1>9. Names!SpanOf(i, j)' <=>
        /\ Names!Part(i)' /\ Names!Part(j)' /\ Names!Together(i, j)'
        /\ \A k \in i .. j - 1 : Names!Touch(k)'
        /\ ~(\E k \in 1 .. m : Names!Bound(k, i)' \/ Names!Bound(j, k)')
  BY <1>2 DEF Names!SpanOf
<1>10. (Names!Part(i)' <=> Names!Part(i)) /\ (Names!Part(j)' <=> Names!Part(j))
  BY <1>2, <1>3
<1>. QED
  BY <1>5, <1>6, <1>7, <1>8, <1>9, <1>10

\* What the scan makes of a word is what the text says of it, but for a particle, which is
\* one only in a run.
LEMMA KindIs ==
  ASSUME NameTypes, RunIsChain,
         NEW word \in Names!Words, NEW after \in Names!Gaps, Names!Read(word, after),
         NEW m, m = Len(text) + 1
  PROVE  /\ Names!Contiguous <=> text # <<>> /\ Names!Touch(Len(text))
         /\ Names!Titled = Names!Titles(m)'
         /\ Names!KindOf(word, after) \in {"name", "initial"} <=> Names!Part(m)'
         /\ Names!KindOf(word, after) = "initial" <=> Names!Initial(m)'
         /\ Names!KindOf(word, after) = "particle" <=>
              Particle(m)' /\ nameRun # <<>> /\ Names!Contiguous
         /\ Names!KindOf(word, after) \in {"name", "initial", "particle", ""}
         /\ Names!KindOf(word, after) # "" => Names!KindOf(word, after) = KindAt(m)'
<1>. DEFINE kind == Names!KindOf(word, after)
<1>1. /\ text'[m] = [word |-> word, after |-> after] /\ Len(text) \in Nat
      /\ \A k \in 1 .. Len(text) : text'[k] = text[k]
  BY ReadAppends
<1>2. text # <<>> <=> m > 1
  BY <1>1 DEF NameTypes
<1>3. Names!Contiguous <=> text # <<>> /\ Names!Touch(Len(text))
  BY RunIs DEF Names!Contiguous, Names!Touch, RunFrom
<1>4. Names!Titled = Names!Titles(m)'
  <2>1. m > 1 => m - 1 = Len(text) /\ text'[m - 1] = text[Len(text)]
    BY <1>1
  <2>. QED
    BY <1>2, <2>1 DEF Names!Titled, Names!Titles
<1>5. /\ Particle(m)' <=> word = "particle"
      /\ Names!Initial(m)' <=> word \in Letters /\ (after \in {".", ". "} \/ Names!Titles(m)')
      /\ Names!Part(m)' <=> word = "name" \/ Names!Initial(m)'
      /\ KindAt(m)' = (IF Names!Initial(m)' THEN "initial" ELSE IF word = "name" THEN "name" ELSE "particle")
  BY <1>1 DEF Particle, Names!Initial, Names!Part, KindAt
<1>6. kind = IF Names!Initial(m)' THEN "initial" ELSE IF word = "name" THEN "name"
             ELSE IF word = "particle" /\ nameRun # <<>> /\ Names!Contiguous THEN "particle" ELSE ""
  <2>1. word \in Letters => word # "name" /\ word # "particle"
    BY NameConstants
  <2>2. kind = CASE Names!Initial(m)' -> "initial"
                 [] word = "name" -> "name"
                 [] word = "particle" /\ nameRun # <<>> /\ Names!Contiguous -> "particle"
                 [] OTHER -> ""
    BY <1>4, <1>5, Zenon DEF Names!KindOf
  <2>3. Names!Initial(m)' => word \in Letters
    BY <1>5
  <2>. HIDE DEF kind
  <2>. QED
    BY <2>1, <2>2, <2>3
<1>. HIDE DEF kind
<1>7. Names!Initial(m)' => word # "name" /\ word # "particle"
  BY <1>5, NameConstants
<1>8. /\ kind \in {"name", "initial"} <=> Names!Part(m)'
      /\ kind = "initial" <=> Names!Initial(m)'
      /\ kind = "particle" <=> Particle(m)' /\ nameRun # <<>> /\ Names!Contiguous
      /\ kind \in {"name", "initial", "particle", ""}
      /\ kind # "" => kind = KindAt(m)'
  BY <1>5, <1>6, <1>7
<1>. QED
  BY <1>3, <1>4, <1>8 DEF kind

\* Whether the word joins the run.
Joins(word, after) == Names!KindOf(word, after) # "" /\ nameRun # <<>> /\ Names!Contiguous

\* Spans before a place stay, as long as none is bound to the new word.
LEMMA SpansToStay ==
  ASSUME NameTypes, NEW word \in Names!Words, NEW after \in Names!Gaps, Names!Read(word, after),
         NEW x \in Nat, NEW y \in Nat, x <= Len(text),
         NEW m \in Nat, m = Len(text) + 1,
         y = x \/ (x = Len(text) /\ y = m /\ ~Names!Part(m)'),
         \A j \in 1 .. x : ~Names!Bound(j, m)'
  PROVE  SpansTo(y)' = SpansTo(x)
<1>1. PICK n \in Nat : n = Len(text)
  BY ReadAppends
<1>2. m = n + 1
  BY <1>1
<1>3. DOMAIN text = 1 .. n /\ DOMAIN text' = 1 .. m
  <2>1. text \in Seq(TextWords) /\ text' \in Seq(TextWords) /\ Len(text') = n + 1
    BY <1>1, ReadAppends DEF NameTypes
  <2>. QED
    BY <1>1, <1>2, <2>1
<1>4. \A j \in 1 .. x : ~Names!Bound(j, m)'
  OBVIOUS
<1>5. x <= n /\ (y = x \/ (y = m /\ x = n /\ ~Names!Part(m)'))
  BY <1>1
<1>6. \A i, j : <<i, j>> \in SpansTo(x) <=>
                /\ i \in 1 .. n /\ j \in 1 .. n /\ Names!SpanOf(i, j) /\ Names!IsName(i, j) /\ j <= x
  BY <1>3 DEF SpansTo
<1>7. \A i, j : <<i, j>> \in SpansTo(y)' <=>
                /\ i \in 1 .. m /\ j \in 1 .. m /\ Names!SpanOf(i, j)' /\ Names!IsName(i, j)' /\ j <= y
  BY <1>3 DEF SpansTo
<1>8. ASSUME NEW i \in 1 .. m, NEW j \in 1 .. m
      PROVE  <<i, j>> \in SpansTo(y)' <=> <<i, j>> \in SpansTo(x)
  <2>0. i \in Nat /\ j \in Nat /\ i \in 1 .. m /\ j \in 1 .. m
    BY <1>2
  <2>1. CASE i \in 1 .. n /\ j \in 1 .. n
    <3>1. Names!IsName(i, j)' <=> Names!IsName(i, j)
      BY <1>1, <2>1, NamesStay
    <3>2. Names!SpanOf(i, j)' <=> Names!SpanOf(i, j) /\ ~Names!Bound(j, m)'
      BY <1>1, <1>2, <2>1, SpansStay
    <3>3. j <= y <=> j <= x
      BY <1>2, <1>5, <2>0, <2>1
    <3>4. j <= x => j \in 1 .. x
      BY <2>0
    <3>. QED
      BY <1>4, <1>6, <1>7, <2>0, <2>1, <3>1, <3>2, <3>3, <3>4
  <2>2. CASE j = m
    <3>1. <<i, j>> \notin SpansTo(x)
      BY <1>2, <1>6, <2>2
    <3>2. Names!SpanOf(i, j)' => Names!Part(m)'
      BY <2>2 DEF Names!SpanOf
    <3>3. j <= y => y = m /\ ~Names!Part(m)'
      BY <1>2, <1>5, <2>2
    <3>. QED
      BY <1>7, <3>1, <3>2, <3>3
  <2>3. CASE i = m /\ j \in 1 .. n
    <3>1. <<i, j>> \notin SpansTo(x)
      BY <1>2, <1>6, <2>3
    <3>2. ~(i <= j)
      BY <1>2, <2>3
    <3>3. ~Names!SpanOf(i, j)'
      BY <3>2 DEF Names!SpanOf, Names!Together
    <3>. QED
      BY <1>7, <3>1, <3>3
  <2>4. (i \in 1 .. n \/ i = m) /\ (j \in 1 .. n \/ j = m)
    BY <1>2, <2>0
  <2>. QED
    BY <2>1, <2>2, <2>3, <2>4
<1>9. SpansTo(x) \subseteq (1 .. m) \X (1 .. m)
  <2>1. SpansTo(x) \subseteq (1 .. n) \X (1 .. n)
    BY <1>3 DEF SpansTo
  <2>2. (1 .. n) \subseteq (1 .. m)
    BY <1>2
  <2>. QED
    BY <2>1, <2>2
<1>10. SpansTo(y)' \subseteq (1 .. m) \X (1 .. m)
  BY <1>3 DEF SpansTo
<1>. QED
  <2>1. PICK A : A = SpansTo(x)
    OBVIOUS
  <2>2. PICK B : B = SpansTo(y)'
    OBVIOUS
  <2>3. A \subseteq (1 .. m) \X (1 .. m) /\ B \subseteq (1 .. m) \X (1 .. m)
    BY <1>9, <1>10, <2>1, <2>2
  <2>4. \A i \in 1 .. m, j \in 1 .. m : <<i, j>> \in B <=> <<i, j>> \in A
    BY <1>8, <2>1, <2>2
  <2>5. ASSUME NEW s PROVE s \in B <=> s \in A
    <3>. SUFFICES ASSUME s \in (1 .. m) \X (1 .. m) PROVE s \in B <=> s \in A
      BY <2>3
    <3>1. PICK i \in 1 .. m, j \in 1 .. m : s = <<i, j>>
      OBVIOUS
    <3>. QED
      BY <2>4, <3>1
  <2>6. B = A
    BY <2>5
  <2>. QED
    BY <2>1, <2>2, <2>6

\* A word that joins the run makes it the longest chain that ends there.
LEMMA WordJoins ==
  ASSUME NameInv, NEW word \in Names!Words, NEW after \in Names!Gaps, Names!Read(word, after),
         Joins(word, after)
  PROVE  NameInv'
<1>. DEFINE kind == Names!KindOf(word, after)
<1>1. NameTypes /\ RunIsChain /\ masked = SpansTo(Ahead) /\ RunFrom(Ahead, Len(text))
  BY RunIs DEF NameInv
<1>2. PICK n \in Nat, m \in Nat, L \in Nat, d \in Nat :
        n = Len(text) /\ m = n + 1 /\ L = Len(nameRun) /\ d = Ahead /\ d + L = n
  BY <1>1 DEF NameTypes, Ahead
<1>3. text' \in Seq(TextWords) /\ Len(text') = m
  BY <1>1, <1>2, ReadAppends
<1>4. PICK here : here = [at |-> m, kind |-> kind]
  OBVIOUS
<1>5. nameRun' = Append(nameRun, here) /\ masked' = masked /\ afterTitle' = afterTitle /\ lastKind' = kind
  BY <1>2, <1>4 DEF Names!Read, Joins
<1>6. /\ text # <<>> /\ Names!Touch(n)
      /\ kind \in {"name", "initial"} <=> Names!Part(m)'
      /\ kind = "initial" <=> Names!Initial(m)'
      /\ kind = "particle" => Particle(m)'
      /\ kind \in {"name", "initial", "particle"}
      /\ kind = KindAt(m)'
      /\ nameRun # <<>>
  BY <1>1, <1>2, KindIs DEF Joins
<1>. HIDE DEF kind
<1>7. here \in RunWords /\ nameRun \in Seq(RunWords)
  BY <1>1, <1>2, <1>4, <1>6 DEF RunWords, NameTypes
<1>8. /\ nameRun' \in Seq(RunWords) /\ Len(nameRun') = L + 1 /\ nameRun'[L + 1] = here
      /\ \A k \in 1 .. L : nameRun'[k] = nameRun[k]
      /\ nameRun' # <<>>
  BY <1>2, <1>5, <1>7
<1>9. NameTypes' /\ Ahead' = d
  BY <1>2, <1>3, <1>8 DEF NameTypes, Ahead
<1>10. Chain(d + 1, n) /\ afterTitle = Names!Titles(d + 1) /\ d + 1 \in 1 .. n /\ Names!Part(d + 1)
       /\ \A i \in 1 .. n : Chain(i, n) => d + 1 <= i
  BY <1>1, <1>2, <1>6 DEF RunFrom, Chain
<1>11. \A i \in 1 .. n : Chain(i, m)' <=> Chain(i, n) /\ Names!Touch(n) /\ (Names!Part(m)' \/ Particle(m)')
  BY <1>1, <1>2, NewBonds
<1>12. RunIsChain'
  <2>1. ASSUME NEW k \in 1 .. L + 1
        PROVE  nameRun'[k] = [at |-> d + k, kind |-> KindAt(d + k)']
    <3>1. CASE k \in 1 .. L
      <4>1. nameRun[k] = [at |-> d + k, kind |-> KindAt(d + k)]
        BY <1>1, <1>2, <3>1 DEF RunFrom
      <4>2. d + k \in 1 .. n
        BY <1>2, <3>1
      <4>3. KindAt(d + k)' = KindAt(d + k)
        BY <1>1, <1>2, <4>2, WordsStay
      <4>. QED
        BY <1>8, <3>1, <4>1, <4>3
    <3>2. CASE k = L + 1
      <4>1. d + k = m
        BY <1>2, <3>2
      <4>. QED
        BY <1>4, <1>6, <1>8, <3>2, <4>1
    <3>. QED
      BY <1>2, <3>1, <3>2
  <2>2. Chain(d + 1, m)'
    BY <1>6, <1>10, <1>11
  <2>3. afterTitle' = Names!Titles(d + 1)'
    BY <1>1, <1>2, <1>5, <1>10, WordsStay
  <2>4. ASSUME NEW i \in 1 .. m, Chain(i, m)' PROVE d + 1 <= i
    <3>1. i \in 1 .. n \/ (i = m /\ d + 1 <= i)
      BY <1>2
    <3>. QED
      BY <1>10, <1>11, <2>4, <3>1
  <2>5. (lastKind = "initial")' <=> text' # <<>> /\ Names!Initial(m)'
    <3>1. text' # <<>>
      BY <1>2, <1>3
    <3>. QED
      BY <1>5, <1>6, <3>1
  <2>6. RunFrom(d, m)'
    BY <1>8, <2>1, <2>2, <2>3, <2>4, <2>5 DEF RunFrom
  <2>. QED
    BY <1>3, <1>9, <2>6 DEF RunIsChain
<1>13. MaskedIsWhole'
  <2>1. ASSUME NEW j \in 1 .. d PROVE ~Names!Bound(j, m)'
    <3>. SUFFICES ASSUME Names!Bound(j, m)' PROVE FALSE
      OBVIOUS
    <3>1. j \in 1 .. n /\ d + 1 \in j + 1 .. n
      BY <1>2, <1>10
    <3>2. Particle(d + 1)
      BY <1>1, <1>2, <3>1, NewBonds
    <3>. QED
      BY <1>10, <3>2, PartIs
  <2>2. d <= Len(text) /\ m = Len(text) + 1
    BY <1>2
  <2>3. SpansTo(d)' = SpansTo(d)
    BY <1>1, <2>1, <2>2, SpansToStay
  <2>4. masked' = SpansTo(d)'
    BY <1>1, <1>2, <1>5, <2>3
  <2>. QED
    BY <1>9, <2>4 DEF MaskedIsWhole
<1>. QED
  BY <1>9, <1>12, <1>13 DEF NameInv

\* A word that does not join it ends it, and what the run was is masked or is no name.
LEMMA WordEndsRun ==
  ASSUME NameInv, NEW word \in Names!Words, NEW after \in Names!Gaps, Names!Read(word, after),
         ~Joins(word, after)
  PROVE  NameInv'
<1>. DEFINE kind == Names!KindOf(word, after)
<1>1. NameTypes /\ RunIsChain /\ masked = SpansTo(Ahead) /\ RunFrom(Ahead, Len(text))
  BY RunIs DEF NameInv
<1>2. PICK n \in Nat, m \in Nat : n = Len(text) /\ m = n + 1
  BY <1>1, RunIs
<1>3. text' \in Seq(TextWords) /\ Len(text') = m /\ text' # <<>>
  <2>1. text' \in Seq(TextWords) /\ Len(text') = m
    BY <1>1, <1>2, ReadAppends
  <2>. QED
    BY <1>2, <2>1
<1>4. PICK here : here = [at |-> m, kind |-> kind]
  OBVIOUS
<1>5. /\ masked' = Names!Flush /\ lastKind' = kind
      /\ IF kind \in {"name", "initial"}
         THEN nameRun' = <<here>> /\ afterTitle' = Names!Titled
         ELSE nameRun' = <<>>
  BY <1>2, <1>4 DEF Names!Read, Joins
<1>6. masked' = SpansTo(n)
  BY <1>2, <1>5, FlushIs
<1>7. /\ text # <<>> /\ Names!Touch(n) => Names!Contiguous
      /\ Names!Titled = Names!Titles(m)'
      /\ kind \in {"name", "initial"} <=> Names!Part(m)'
      /\ kind = "initial" <=> Names!Initial(m)'
      /\ kind = "particle" <=> Particle(m)' /\ nameRun # <<>> /\ Names!Contiguous
      /\ kind # "" => kind = KindAt(m)'
  BY <1>1, <1>2, KindIs
<1>8. kind = "" \/ nameRun = <<>> \/ ~Names!Contiguous
  BY DEF Joins
<1>. HIDE DEF kind
<1>9. \A i \in 1 .. n : Chain(i, n) => nameRun # <<>>
  BY <1>1, <1>2 DEF RunFrom
<1>10. /\ Chain(m, m)' <=> Names!Part(m)'
       /\ \A i \in 1 .. n :
            /\ Chain(i, m)' <=> Chain(i, n) /\ Names!Touch(n) /\ (Names!Part(m)' \/ Particle(m)')
            /\ Names!Bound(i, m)' => Chain(i, n) /\ Names!Touch(n) /\ Names!Part(m)'
  BY <1>1, <1>2, NewBonds
<1>11. ASSUME NEW i \in 1 .. n, Chain(i, n), Names!Touch(n), Names!Part(m)' \/ Particle(m)'
       PROVE  FALSE
  <2>1. nameRun # <<>> /\ text # <<>>
    BY <1>1, <1>2, <1>9, <1>11 DEF NameTypes
  <2>2. Names!Contiguous
    BY <1>7, <1>11, <2>1
  <2>3. kind # ""
    BY <1>7, <1>11, <2>1, <2>2
  <2>. QED
    BY <1>8, <2>1, <2>2, <2>3
<1>12. \A i \in 1 .. n : ~Chain(i, m)' /\ ~Names!Bound(i, m)'
  BY <1>10, <1>11
<1>13. (lastKind = "initial")' <=> text' # <<>> /\ Names!Initial(m)'
  BY <1>3, <1>5, <1>7
<1>14. \A i \in 1 .. m : i \in 1 .. n \/ i = m
  BY <1>2
<1>15. CASE Names!Part(m)'
  <2>1. nameRun' = <<here>> /\ afterTitle' = Names!Titles(m)' /\ kind = KindAt(m)' /\ kind \in {"name", "initial"}
    BY <1>5, <1>7, <1>15
  <2>2. here \in RunWords
    BY <1>4, <2>1 DEF RunWords
  <2>3. nameRun' \in Seq(RunWords) /\ Len(nameRun') = 1 /\ nameRun'[1] = here /\ nameRun' # <<>>
    BY <2>1, <2>2
  <2>4. NameTypes' /\ Ahead' = n
    BY <1>2, <1>3, <2>3 DEF NameTypes, Ahead
  <2>5. \A k \in 1 .. 1 : nameRun'[k] = [at |-> n + k, kind |-> KindAt(n + k)']
    <3>1. \A k \in 1 .. 1 : k = 1 /\ n + k = m
      BY <1>2
    <3>2. nameRun'[1] = [at |-> m, kind |-> KindAt(m)']
      BY <1>4, <2>1, <2>3
    <3>. QED
      BY <3>1, <3>2
  <2>6. \A i \in 1 .. m : Chain(i, m)' => n + 1 <= i
    BY <1>2, <1>12, <1>14
  <2>7. RunFrom(n, m)'
    <3>1. Chain(n + 1, m)' /\ afterTitle' = Names!Titles(n + 1)'
      BY <1>2, <1>10, <1>15, <2>1
    <3>. QED
      BY <1>13, <2>3, <2>5, <2>6, <3>1 DEF RunFrom
  <2>8. SpansTo(n)' = SpansTo(n)
    BY <1>1, <1>2, <1>12, SpansToStay
  <2>. QED
    BY <1>3, <1>6, <2>4, <2>7, <2>8 DEF NameInv, RunIsChain, MaskedIsWhole
<1>16. CASE ~Names!Part(m)'
  <2>1. nameRun' = <<>>
    BY <1>5, <1>7, <1>16
  <2>2. nameRun' \in Seq(RunWords) /\ Len(nameRun') = 0
    BY <2>1
  <2>3. NameTypes' /\ Ahead' = m
    BY <1>2, <1>3, <2>2 DEF NameTypes, Ahead
  <2>4. \A i \in 1 .. m : ~Chain(i, m)'
    BY <1>10, <1>12, <1>14, <1>16
  <2>5. RunFrom(m, m)'
    <3>1. \A k \in 1 .. Len(nameRun') : FALSE
      BY <2>2
    <3>. QED
      BY <1>13, <2>1, <2>4, <3>1 DEF RunFrom
  <2>6. SpansTo(m)' = SpansTo(n)
    BY <1>1, <1>2, <1>12, <1>16, SpansToStay
  <2>. QED
    BY <1>3, <1>6, <2>3, <2>5, <2>6 DEF NameInv, RunIsChain, MaskedIsWhole
<1>. QED
  BY <1>15, <1>16

\* At every word, what the scan would mask is what is a name.
LEMMA NameSteps == NameInv /\ [Names!Next]_nameVars => NameInv'
<1>. SUFFICES ASSUME NameInv, [Names!Next]_nameVars PROVE NameInv'
  OBVIOUS
<1>1. CASE Names!Next
  <2>1. PICK word \in Names!Words, after \in Names!Gaps : Names!Read(word, after)
    BY <1>1 DEF Names!Next
  <2>2. CASE Joins(word, after)
    BY <2>1, <2>2, WordJoins
  <2>3. CASE ~Joins(word, after)
    BY <2>1, <2>3, WordEndsRun
  <2>. QED
    BY <2>2, <2>3
<1>2. CASE UNCHANGED nameVars
  <2>1. text' = text /\ nameRun' = nameRun /\ afterTitle' = afterTitle /\ lastKind' = lastKind
        /\ masked' = masked
    BY <1>2 DEF nameVars
  <2>2. NameTypes' /\ Ahead' = Ahead /\ DOMAIN text' = DOMAIN text
    BY <2>1 DEF NameInv, NameTypes, Ahead
  <2>3. \A i, j : /\ Names!Part(i)' <=> Names!Part(i)
                  /\ Names!Touch(i)' <=> Names!Touch(i)
                  /\ Names!Titles(i)' = Names!Titles(i)
                  /\ Names!Initial(i)' <=> Names!Initial(i)
                  /\ Names!Bound(i, j)' <=> Names!Bound(i, j)
                  /\ Chain(i, j)' <=> Chain(i, j)
                  /\ KindAt(i)' = KindAt(i)
    BY <2>1 DEF Names!Part, Names!Touch, Names!Titles, Names!Initial, Names!Bound, Chain, KindAt, Particle
  <2>4. ASSUME NEW d, NEW n, RunFrom(d, n) PROVE RunFrom(d, n)'
    BY <2>1, <2>3, <2>4 DEF RunFrom
  <2>5. RunIsChain'
    BY <2>1, <2>2, <2>4 DEF NameInv, RunIsChain
  <2>6. ASSUME NEW i, NEW j PROVE Names!IsName(i, j)' <=> Names!IsName(i, j)
    <3>1. PICK letters : letters = Names!WordsAt({k \in i .. j : text[k].word \in Letters})
      OBVIOUS
    <3>2. letters = Names!WordsAt({k \in i .. j : text[k].word \in Letters})'
      BY <2>1, <3>1 DEF Names!WordsAt
    <3>3. Names!IsName(i, j) <=>
            \/ \E k \in i .. j : text[k].word = "name"
            \/ Names!Titles(i)
            \/ Len(letters) >= 2 /\ letters \notin Initialisms
      BY <3>1, Zenon DEF Names!IsName
    <3>4. Names!IsName(i, j)' <=>
            \/ \E k \in i .. j : text'[k].word = "name"
            \/ Names!Titles(i)'
            \/ Len(letters) >= 2 /\ letters \notin Initialisms
      BY <3>2, Zenon DEF Names!IsName
    <3>. QED
      BY <2>1, <2>3, <3>3, <3>4
  <2>7. ASSUME NEW i, NEW j PROVE Names!SpanOf(i, j)' <=> Names!SpanOf(i, j)
    BY <2>2, <2>3 DEF Names!SpanOf, Names!Together
  <2>8. ASSUME NEW d PROVE SpansTo(d)' = SpansTo(d)
    BY <2>2, <2>6, <2>7 DEF SpansTo
  <2>9. MaskedIsWhole'
    BY <2>1, <2>2, <2>8 DEF NameInv, MaskedIsWhole
  <2>. QED
    BY <2>2, <2>5, <2>9 DEF NameInv
<1>. QED
  BY <1>1, <1>2

\* For a text of any length over any capitals, whatever initialisms are common: what the scan
\* masks is the names of the text, each with its initials and particles, and nothing else
\* (_name_runs).
THEOREM NamesAreMaskedWhole == PartsSpec => []NamesAreMasked
<1>1. PartsInit => (part = "names" => NameInv)
  BY NamesStart, EachPartStarts
<1>2. (part = "names" => NameInv) /\ [PartsNext]_partsVars => (part = "names" => NameInv)'
  <2>. SUFFICES ASSUME part = "names" => NameInv, [PartsNext]_partsVars, part' = "names"
                PROVE  NameInv'
    OBVIOUS
  <2>. QED
    BY OnePartActs, NameSteps
<1>3. (part = "names" => NameInv) => NamesAreMasked
  <2>. SUFFICES ASSUME NameInv PROVE Names!NamesAreMasked
    BY DEF NamesAreMasked
  <2>1. Names!Flush = SpansTo(Len(text))
    BY FlushIs
  <2>2. text \in Seq(TextWords)
    BY DEF NameInv, NameTypes
  <2>3. \A s \in (DOMAIN text) \X (DOMAIN text) : s[2] <= Len(text)
    BY <2>2
  <2>. QED
    BY <2>1, <2>3 DEF SpansTo, Names!NamesAreMasked
<1>. QED
  BY <1>1, <1>2, <1>3, PTL DEF PartsSpec

-----------------------------------------------------------------------------
(* A request on its way to a vendor (WireRequest).                         *)

\* What a caller may send, and the provider it is for.
AskedOk ==
  /\ asked \in Wire!Settings \cup Wire!Talks
  /\ entry \in [kind : Wire!Kinds, maxField : Wire!MaxNames, extra : {"none", "thinking"}]
  /\ entry.kind # "openai_compat" => entry.maxField = "max_tokens"
  /\ entry.kind # "google" => entry.extra = "none"

\* What is parsed was looked at whole, and what is built was parsed.
WireInv ==
  /\ wireStage \in {"arrived", "refused", "parsed", "built", "unbuilt"}
  /\ AskedOk
  /\ wireStage \in {"parsed", "built"} =>
       /\ ~Wire!BadFields(asked) /\ ~Wire!BadMessages(asked.messages) /\ ~Wire!OutOfRange(asked)
       /\ request = Wire!Parsed(asked)
  /\ wireStage = "built" => Wire!Carries(request) /\ body = Wire!Built(request)

\* A request that has arrived was neither read nor built.
LEMMA WireStart == Wire!Init => WireInv
BY DEF Wire!Init, WireInv, AskedOk

\* What was asked does not change,
LEMMA AskedStays ==
  ASSUME asked' = asked, entry' = entry, AskedOk
  PROVE  AskedOk'
BY DEF AskedOk

\* nor what is built of a request that does not.
LEMMA BuiltStays ==
  ASSUME asked' = asked, entry' = entry, request' = request
  PROVE  (Wire!Carries(request))' = Wire!Carries(request) /\ (Wire!Built(request))' = Wire!Built(request)
<1>1. (Wire!Carries(request))' = Wire!Carries(request)
  BY DEF Wire!Carries, Wire!DecisionCarries, Wire!HoldsDocument
<1>2. (Wire!Built(request))' = Wire!Built(request)
  BY DEF Wire!Built, Wire!MessageBody, Wire!ChatBody, Wire!GenerateBody, Wire!DecisionBody
<1>. QED
  BY <1>1, <1>2

\* Every step keeps what was parsed and what was built.
LEMMA WireStep == WireInv /\ [Wire!Next]_wireVars => WireInv'
<1>. SUFFICES ASSUME WireInv, [Wire!Next]_wireVars PROVE WireInv'
  OBVIOUS
<1>1. CASE Wire!Receive
  <2>1. asked' = asked /\ entry' = entry /\ body' = body /\ wireStage = "arrived"
    BY <1>1 DEF Wire!Receive
  <2>2. AskedOk'
    BY <2>1, AskedStays DEF WireInv
  <2>3. \/ wireStage' = "refused"
        \/ /\ wireStage' = "parsed" /\ request' = Wire!Parsed(asked)
           /\ ~Wire!BadFields(asked) /\ ~Wire!BadMessages(asked.messages) /\ ~Wire!OutOfRange(asked)
    BY <1>1 DEF Wire!Receive
  <2>. QED
    BY <2>1, <2>2, <2>3 DEF WireInv
<1>2. CASE Wire!Build
  <2>1. asked' = asked /\ entry' = entry /\ request' = request /\ wireStage = "parsed"
    BY <1>2 DEF Wire!Build
  <2>2. AskedOk'
    BY <2>1, AskedStays DEF WireInv
  <2>3. \/ wireStage' = "unbuilt"
        \/ wireStage' = "built" /\ Wire!Carries(request) /\ body' = Wire!Built(request)
    BY <1>2 DEF Wire!Build
  <2>4. (Wire!Carries(request))' = Wire!Carries(request) /\ (Wire!Built(request))' = Wire!Built(request)
    BY <2>1, BuiltStays
  <2>. QED
    BY <2>1, <2>2, <2>3, <2>4 DEF WireInv
<1>3. CASE UNCHANGED wireVars
  <2>1. /\ asked' = asked /\ entry' = entry /\ request' = request /\ wireStage' = wireStage
        /\ body' = body
    BY <1>3 DEF wireVars
  <2>2. AskedOk'
    BY <2>1, AskedStays DEF WireInv
  <2>4. (Wire!Carries(request))' = Wire!Carries(request) /\ (Wire!Built(request))' = Wire!Built(request)
    BY <2>1, BuiltStays
  <2>. QED
    BY <2>1, <2>2, <2>4 DEF WireInv
<1>. QED
  BY <1>1, <1>2, <1>3 DEF Wire!Next

-----------------------------------------------------------------------------
(* The texts, in their places.                                             *)

\* The places are listed as the requests of a batch are.
LEMMA WireOrder == \A S : Wire!InOrder(S) = Batch!InOrder(S)
BY Zenon DEF Wire!InOrder, Batch!InOrder, Wire!Cardinality, Batch!Cardinality,
             Wire!IsFiniteSet, Batch!IsFiniteSet

\* The places from a on to b come in their order.
LEMMA IntervalInOrder ==
  ASSUME NEW a \in Nat, NEW b \in Nat, a <= b
  PROVE  Wire!InOrder(a + 1 .. b) = [n \in 1 .. b - a |-> a + n]
<1>. DEFINE S == a + 1 .. b
            s == Wire!InOrder(S)
            c == b - a
<1>1. S \in SUBSET Nat /\ IsFiniteSet(S) /\ Cardinality(S) = c /\ c \in Nat
  <2>1. IsFiniteSet(S) /\ Cardinality(S) = IF a + 1 > b THEN 0 ELSE b - (a + 1) + 1
    BY FS_Interval
  <2>. QED
    BY <2>1
<1>. HIDE DEF S
<1>2. s = Batch!InOrder(S)
  BY WireOrder
<1>3. /\ s \in Seq(S) /\ Len(s) = c
      /\ \A n \in 1 .. c : s[n] \in S /\ Before(S, s[n]) = n - 1
  BY <1>1, <1>2, InOrderIs
<1>4. ASSUME NEW n \in 1 .. c
      PROVE  a + n \in S /\ Before(S, a + n) = n - 1
  <2>1. {j \in S : j < a + n} = a + 1 .. a + n - 1
    BY DEF S
  <2>2. Cardinality(a + 1 .. a + n - 1) = IF a + 1 > a + n - 1 THEN 0 ELSE a + n - 1 - (a + 1) + 1
    BY FS_Interval
  <2>3. Cardinality(a + 1 .. a + n - 1) = n - 1
    BY <1>1, <2>2
  <2>4. a + n \in S
    BY <1>1 DEF S
  <2>. QED
    BY <2>1, <2>3, <2>4 DEF Before
<1>5. \A i, j \in S : Before(S, i) = Before(S, j) => i = j
  BY <1>1, OrderOf
<1>6. \A n \in 1 .. c : s[n] = a + n
  BY <1>3, <1>4, <1>5
<1>. HIDE DEF s
<1>7. s = [n \in 1 .. c |-> a + n]
  BY <1>1, <1>3, <1>6
<1>. QED
  BY <1>7 DEF s, S

\* The settings of what may be asked, and its messages.
LEMMA AskedIs ==
  ASSUME AskedOk
  PROVE  /\ asked.max \in {"null", "five", "zero", "true"}
         /\ asked.temperature \in {"null", "one", "high", "true"}
         /\ asked.stop \in {"null", "words", "none", "number"}
         /\ asked.names \in SUBSET Wire!MaxNames
         /\ asked.unknown \in BOOLEAN
         /\ \E n \in Nat : DOMAIN asked.messages = 1 .. n
<1>1. CASE asked \in Wire!Settings
  <2>1. asked.messages = <<[role |-> "user", content |-> "text"]>>
    BY <1>1 DEF Wire!Settings, Wire!Plain
  <2>2. DOMAIN asked.messages = 1 .. 1
    BY <2>1
  <2>. QED
    BY <1>1, <2>2 DEF Wire!Settings
<1>2. CASE asked \in Wire!Talks
  <2>1. PICK m \in SeqOf(Wire!Message, MaxTalk) : asked = [Wire!Plain EXCEPT !.messages = m]
    BY <1>2 DEF Wire!Talks, Wire!SeqOf, SeqOf
  <2>2. PICK n \in 0 .. MaxTalk : m \in [1 .. n -> Wire!Message]
    BY DEF SeqOf
  <2>3. DOMAIN m = 1 .. n /\ n \in Nat
    BY <2>2, PartsAssumption DEF Wire!WireRequestAssumption
  <2>4. /\ asked.max = "null" /\ asked.temperature = "null" /\ asked.stop = "null"
        /\ asked.names = {} /\ asked.unknown = FALSE /\ asked.messages = m
    BY <2>1 DEF Wire!Plain
  <2>. QED
    BY <2>3, <2>4
<1>. QED
  BY <1>1, <1>2 DEF AskedOk

\* Of messages that are taken, the system's come first and another comes after them.
LEMMA SystemFirst ==
  ASSUME AskedOk, ~Wire!BadMessages(asked.messages)
  PROVE  \E n \in Nat, k \in Nat :
           /\ k < n /\ DOMAIN asked.messages = 1 .. n
           /\ {i \in DOMAIN asked.messages : Wire!IsSystem(asked.messages[i])} = 1 .. k
           /\ {i \in DOMAIN asked.messages : ~Wire!IsSystem(asked.messages[i])} = k + 1 .. n
           /\ \A i \in k + 1 .. n : asked.messages[i].role \in {"user", "assistant"}
           /\ \A i \in 1 .. n : asked.messages[i].content \in {"text", "parts"}
<1>1. PICK ms : ms = asked.messages
  OBVIOUS
<1>2. PICK n \in Nat : DOMAIN ms = 1 .. n
  BY <1>1, AskedIs
<1>3. /\ \A i \in 1 .. n : ~Wire!BadMessage(ms[i])
      /\ \A i, j \in 1 .. n : i < j /\ ~Wire!IsSystem(ms[i]) => ~Wire!IsSystem(ms[j])
      /\ \E i \in 1 .. n : ~Wire!IsSystem(ms[i])
  BY <1>1, <1>2 DEF Wire!BadMessages
<1>. DEFINE T == {i \in 1 .. n : ~Wire!IsSystem(ms[i])}
<1>4. PICK f \in T : \A i \in T : f <= i
  <2>1. T \in SUBSET Nat /\ T # {}
    BY <1>3
  <2>. HIDE DEF T
  <2>2. Min(T) \in T /\ \A i \in T : Min(T) <= i
    BY <2>1, LeastOf
  <2>. QED
    BY <2>2
<1>5. \A i \in 1 .. n : ~Wire!IsSystem(ms[i]) <=> f <= i
  BY <1>3, <1>4
<1>. DEFINE k == f - 1
<1>6. k \in Nat /\ k < n
  OBVIOUS
<1>7. {i \in 1 .. n : Wire!IsSystem(ms[i])} = 1 .. k
  BY <1>5, <1>6
<1>8. {i \in 1 .. n : ~Wire!IsSystem(ms[i])} = k + 1 .. n
  BY <1>5, <1>6
<1>9. \A i \in k + 1 .. n : ms[i].role \in {"user", "assistant"}
  BY <1>3, <1>5, <1>6 DEF Wire!BadMessage
<1>10. \A i \in 1 .. n : ms[i].content \in {"text", "parts"}
  BY <1>3 DEF Wire!BadMessage
<1>. HIDE DEF k
<1>. QED
  BY <1>1, <1>2, <1>6, <1>7, <1>8, <1>9, <1>10

\* What is parsed: the system's texts first, then the turns, each with its role.
LEMMA ParsedIs ==
  ASSUME AskedOk, ~Wire!BadMessages(asked.messages), request = Wire!Parsed(asked)
  PROVE  \E n \in Nat, k \in Nat :
           /\ k < n /\ DOMAIN asked.messages = 1 .. n
           /\ request.system = [i \in 1 .. k |-> i]
           /\ request.turns = [i \in 1 .. n - k |-> [role |-> asked.messages[k + i].role, text |-> k + i]]
           /\ \A i \in k + 1 .. n : asked.messages[i].role \in {"user", "assistant"}
           /\ \A i \in 1 .. n : asked.messages[i].content \in {"text", "parts"}
<1>1. PICK n \in Nat, k \in Nat :
        /\ k < n /\ DOMAIN asked.messages = 1 .. n
        /\ {i \in DOMAIN asked.messages : Wire!IsSystem(asked.messages[i])} = 1 .. k
        /\ {i \in DOMAIN asked.messages : ~Wire!IsSystem(asked.messages[i])} = k + 1 .. n
        /\ \A i \in k + 1 .. n : asked.messages[i].role \in {"user", "assistant"}
        /\ \A i \in 1 .. n : asked.messages[i].content \in {"text", "parts"}
  BY SystemFirst
<1>2. Wire!InOrder(0 + 1 .. k) = [i \in 1 .. k - 0 |-> 0 + i]
  <2>1. 0 \in Nat /\ 0 <= k
    OBVIOUS
  <2>. QED
    BY <2>1, IntervalInOrder
<1>3. Wire!InOrder(1 .. k) = [i \in 1 .. k |-> i]
  <2>1. 0 + 1 .. k = 1 .. k /\ k - 0 = k
    OBVIOUS
  <2>2. [i \in 1 .. k |-> 0 + i] = [i \in 1 .. k |-> i]
    OBVIOUS
  <2>. QED
    BY <1>2, <2>1, <2>2
<1>4. Wire!InOrder(k + 1 .. n) = [i \in 1 .. n - k |-> k + i]
  BY <1>1, IntervalInOrder
<1>5. request.system = [i \in 1 .. k |-> i]
  BY <1>1, <1>3 DEF Wire!Parsed, Wire!SystemTexts
<1>. DEFINE t == Wire!TurnTexts(asked.messages)
<1>6. t = [i \in 1 .. n - k |-> k + i]
  BY <1>1, <1>4 DEF Wire!TurnTexts
<1>7. request.turns = [i \in DOMAIN t |-> [role |-> asked.messages[t[i]].role, text |-> t[i]]]
  BY DEF Wire!Parsed
<1>. HIDE DEF t
<1>8. DOMAIN t = 1 .. n - k /\ \A i \in 1 .. n - k : t[i] = k + i
  BY <1>6
<1>9. request.turns = [i \in 1 .. n - k |-> [role |-> asked.messages[k + i].role, text |-> k + i]]
  BY <1>7, <1>8
<1>. QED
  BY <1>1, <1>5, <1>9

\* The texts of the system and of the turns, one after the other, are all the texts in order.
LEMMA TextsTogether ==
  ASSUME NEW n \in Nat, NEW k \in Nat, k <= n
  PROVE  [i \in 1 .. k |-> i] \o [i \in 1 .. n - k |-> k + i] = [i \in 1 .. n |-> i]
<1>. DEFINE s == [i \in 1 .. k |-> i]
            t == [i \in 1 .. n - k |-> k + i]
<1>1. s \in Seq(Nat) /\ Len(s) = k /\ \A i \in 1 .. k : s[i] = i
  OBVIOUS
<1>2. t \in Seq(Nat) /\ Len(t) = n - k /\ \A i \in 1 .. n - k : t[i] = k + i
  <2>1. n - k \in Nat /\ \A i \in 1 .. n - k : k + i \in Nat
    OBVIOUS
  <2>. QED
    BY <2>1
<1>. HIDE DEF s, t
<1>3. Len(s \o t) = n /\ s \o t \in Seq(Nat)
  <2>1. s \o t \in Seq(Nat) /\ Len(s \o t) = Len(s) + Len(t)
    BY <1>1, <1>2, ConcatProperties
  <2>2. k + (n - k) = n
    OBVIOUS
  <2>. QED
    BY <1>1, <1>2, <2>1, <2>2
<1>4. ASSUME NEW i \in 1 .. n PROVE (s \o t)[i] = i
  <2>1. (s \o t)[i] = IF i <= k THEN s[i] ELSE t[i - k]
    BY <1>1, <1>2
  <2>2. CASE i <= k
    BY <1>1, <2>1, <2>2
  <2>3. CASE ~(i <= k)
    <3>1. i - k \in 1 .. n - k /\ k + (i - k) = i
      BY <2>3
    <3>. QED
      BY <1>2, <2>1, <2>3, <3>1
  <2>. QED
    BY <2>2, <2>3
<1>5. s \o t = [i \in 1 .. n |-> i]
  <2>. DEFINE u == s \o t
  <2>1. u \in Seq(Nat) /\ Len(u) = n /\ \A i \in 1 .. n : u[i] = i
    BY <1>3, <1>4
  <2>. HIDE DEF u
  <2>2. u = [i \in 1 .. n |-> i]
    BY <2>1
  <2>. QED
    BY <2>2 DEF u
<1>. QED
  BY <1>5 DEF s, t

\* A list of c.
ListOf(t, c) == t = [i \in 1 .. c |-> t[i]]

\* Turns, the first a of them the system's and the next c not.
LedBy(b, a, c) ==
  /\ ListOf(b, a + c)
  /\ \A i \in 1 .. a : b[i].role = "system"
  /\ \A i \in 1 .. c : b[a + i].role # "system"

\* Of a body whose system prompts are its first turns, the turns that are read are the others.
LEMMA TurnsAreRead ==
  ASSUME NEW a \in Nat, NEW c \in Nat, NEW b, LedBy(b, a, c), body.turns = b
  PROVE  DOMAIN Wire!TurnsRead = 1 .. c /\ \A i \in 1 .. c : Wire!TurnsRead[i] = b[a + i]
<1>. DEFINE places == Wire!InOrder({k \in DOMAIN b : b[k].role # "system"})
<1>1. DOMAIN b = 1 .. a + c
  BY DEF LedBy, ListOf
<1>2. {k \in DOMAIN b : b[k].role # "system"} = a + 1 .. a + c
  <2>1. ASSUME NEW k \in 1 .. a + c PROVE b[k].role # "system" <=> k \in a + 1 .. a + c
    <3>1. CASE k \in 1 .. a
      <4>1. b[k].role = "system"
        BY <3>1 DEF LedBy
      <4>2. k \notin a + 1 .. a + c
        BY <3>1
      <4>. QED
        BY <4>1, <4>2
    <3>2. CASE k \notin 1 .. a
      <4>1. k - a \in 1 .. c /\ a + (k - a) = k
        BY <3>2
      <4>2. b[k].role # "system"
        BY <4>1 DEF LedBy
      <4>. QED
        BY <3>2, <4>2
    <3>. QED
      BY <3>1, <3>2
  <2>2. a + 1 .. a + c \in SUBSET (1 .. a + c)
    OBVIOUS
  <2>. QED
    BY <1>1, <2>1, <2>2
<1>3. a + c \in Nat /\ a <= a + c /\ (a + c) - a = c
  OBVIOUS
<1>4. Wire!InOrder(a + 1 .. a + c) = [i \in 1 .. (a + c) - a |-> a + i]
  BY <1>3, IntervalInOrder
<1>5. places = [i \in 1 .. c |-> a + i]
  BY <1>2, <1>3, <1>4
<1>6. Wire!TurnsRead = [i \in DOMAIN places |-> b[places[i]]]
  BY DEF Wire!TurnsRead
<1>. HIDE DEF places
<1>7. DOMAIN places = 1 .. c /\ \A i \in 1 .. c : places[i] = a + i
  BY <1>5
<1>. QED
  BY <1>6, <1>7

\* The turns of a request.
TurnsOk(t, c) ==
  /\ ListOf(t, c)
  /\ \A i \in 1 .. c : /\ t[i] = [role |-> t[i].role, text |-> t[i].text]
                       /\ t[i].role \in {"user", "assistant"}

\* Each turn is read as it was asked.
ReadAs(t, c) ==
  /\ DOMAIN Wire!TurnsRead = 1 .. c
  /\ \A i \in 1 .. c : /\ Wire!TurnsRead[i].text = t[i].text
                       /\ Wire!Role(Wire!TurnsRead[i]) = t[i].role

\* So they are where the body's turns are those of the request, each under the vendor's role.
LEMMA SameTurns ==
  ASSUME NEW c \in Nat, NEW t, NEW b, ListOf(b, c), body.turns = b,
         \A i \in 1 .. c : b[i].role # "system" /\ b[i].text = t[i].text /\ Wire!Role(b[i]) = t[i].role
  PROVE  ReadAs(t, c)
<1>1. PICK a \in Nat : a = 0
  OBVIOUS
<1>2. ListOf(b, a + c) /\ \A i \in 1 .. c : b[a + i].role # "system"
  <2>1. a + c = c /\ \A i \in 1 .. c : a + i = i
    BY <1>1
  <2>. QED
    BY <2>1
<1>3. \A i \in 1 .. a : b[i].role = "system"
  BY <1>1
<1>0. DOMAIN Wire!TurnsRead = 1 .. c /\ \A i \in 1 .. c : Wire!TurnsRead[i] = b[a + i]
  <2>1. LedBy(b, a, c)
    BY <1>2, <1>3 DEF LedBy
  <2>. QED
    BY <2>1, TurnsAreRead
<1>4. DOMAIN Wire!TurnsRead = 1 .. c /\ \A i \in 1 .. c : Wire!TurnsRead[i] = b[i]
  <2>1. \A i \in 1 .. c : a + i = i
    BY <1>1
  <2>. QED
    BY <1>0, <2>1
<1>. QED
  BY <1>4 DEF ReadAs

\* An OpenAI body's first turn is the system prompt, if there is one.
LEMMA ChatReads ==
  ASSUME NEW c \in Nat, NEW t, TurnsOk(t, c), NEW p, entry.kind = "openai_compat", c > 0,
         body.turns = (IF p = <<>> THEN <<>> ELSE <<[role |-> "system", text |-> p]>>) \o t
  PROVE  Wire!SystemRead = p /\ ReadAs(t, c)
<1>. DEFINE S == {t[i] : i \in 1 .. c} \cup {[role |-> "system", text |-> p]}
            h == <<[role |-> "system", text |-> p]>>
<1>1. t \in Seq(S) /\ Len(t) = c
  <2>1. t = [i \in 1 .. c |-> t[i]] /\ \A i \in 1 .. c : t[i] \in S
    BY DEF TurnsOk, ListOf
  <2>. HIDE DEF S
  <2>. QED
    BY <2>1
<1>2. \A i \in 1 .. c : t[i].role \in {"user", "assistant"} /\ Wire!Role(t[i]) = t[i].role
  BY DEF TurnsOk, Wire!Role
<1>3. CASE p = <<>>
  <2>1. body.turns = t
    <3>. HIDE DEF S
    <3>. QED
      BY <1>1, <1>3, ConcatEmptySeq
  <2>2. t[1].role # "system"
    BY <1>2
  <2>3. Wire!SystemRead = p
    BY <1>3, <2>1, <2>2 DEF Wire!SystemRead
  <2>4. ListOf(t, c)
    BY DEF TurnsOk
  <2>5. ReadAs(t, c)
    BY <1>2, <2>1, <2>4, SameTurns
  <2>. QED
    BY <2>3, <2>5
<1>4. CASE p # <<>>
  <2>. DEFINE b == h \o t
  <2>1. body.turns = b
    BY <1>4
  <2>2. h \in Seq(S) /\ Len(h) = 1 /\ h[1] = [role |-> "system", text |-> p]
    OBVIOUS
  <2>. HIDE DEF h, S
  <2>3. b \in Seq(S) /\ Len(b) = 1 + c /\ \A i \in 1 .. 1 + c : b[i] = IF i <= 1 THEN h[i] ELSE t[i - 1]
    <3>1. /\ h \o t \in Seq(S)
          /\ Len(h \o t) = Len(h) + Len(t)
          /\ \A i \in 1 .. Len(h) + Len(t) : (h \o t)[i] = IF i <= Len(h) THEN h[i] ELSE t[i - Len(h)]
      BY <1>1, <2>2, ConcatProperties
    <3>2. Len(h) = 1 /\ Len(t) = c
      BY <1>1, <2>2
    <3>. HIDE DEF b
    <3>3. b = h \o t
      BY DEF b
    <3>. QED
      BY <3>1, <3>2, <3>3
  <2>. HIDE DEF b
  <2>a. PICK a \in Nat : a = 1
    OBVIOUS
  <2>4. ListOf(b, a + c)
    BY <2>3, <2>a DEF ListOf
  <2>5. b[1] = [role |-> "system", text |-> p] /\ b # <<>>
    <3>1. 1 \in 1 .. 1 + c
      OBVIOUS
    <3>2. b[1] = h[1]
      BY <2>3, <3>1
    <3>. QED
      BY <2>2, <2>3, <3>2
  <2>6. \A i \in 1 .. a : b[i].role = "system"
    BY <2>5, <2>a
  <2>7. \A i \in 1 .. c : b[a + i] = t[i]
    BY <2>3, <2>a
  <2>8. \A i \in 1 .. c : b[a + i].role # "system"
    BY <1>2, <2>7
  <2>9. DOMAIN Wire!TurnsRead = 1 .. c /\ \A i \in 1 .. c : Wire!TurnsRead[i] = b[a + i]
    <3>1. LedBy(b, a, c)
      BY <2>4, <2>6, <2>8 DEF LedBy
    <3>. QED
      BY <2>1, <3>1, TurnsAreRead
  <2>10. ReadAs(t, c)
    BY <1>2, <2>7, <2>9 DEF ReadAs
  <2>11. Wire!SystemRead = p
    BY <2>1, <2>5 DEF Wire!SystemRead
  <2>. QED
    BY <2>10, <2>11
<1>. QED
  BY <1>3, <1>4

\* A body that is built carries the request's system prompt and turns, in the vendor's places.
LEMMA BodyReads ==
  ASSUME WireInv, wireStage = "built", entry.kind # "azure_docintel",
         NEW c \in Nat, c > 0, TurnsOk(request.turns, c)
  PROVE  Wire!SystemRead = request.system /\ ReadAs(request.turns, c)
<1>. DEFINE t == request.turns
            b == body.turns
<1>1. body = Wire!Built(request) /\ Wire!Carries(request)
  BY DEF WireInv
<1>2. TurnsOk(t, c)
  OBVIOUS
<1>3. /\ ListOf(t, c)
      /\ \A i \in 1 .. c : /\ t[i] = [role |-> t[i].role, text |-> t[i].text]
                           /\ t[i].role \in {"user", "assistant"}
  BY <1>2 DEF TurnsOk
<1>4. entry.kind \in {"anthropic", "openai_compat", "google", "decisions", "azure_docintel"}
  BY DEF WireInv, AskedOk, Wire!Kinds
<1>5. b = t => ReadAs(t, c)
  <2>. HIDE DEF t
  <2>1. \A i \in 1 .. c : t[i].role # "system" /\ t[i].text = t[i].text /\ Wire!Role(t[i]) = t[i].role
    BY <1>3 DEF Wire!Role
  <2>. QED
    BY <1>3, <2>1, SameTurns
<1>6. CASE entry.kind = "anthropic"
  <2>1. b = t /\ body.field = request.system
    BY <1>1, <1>6 DEF Wire!Built, Wire!MessageBody
  <2>2. Wire!SystemRead = request.system
    BY <1>6, <2>1 DEF Wire!SystemRead
  <2>. QED
    BY <1>5, <2>1, <2>2
<1>7. CASE entry.kind = "decisions"
  <2>1. b = t /\ body.field = <<>>
    BY <1>1, <1>7 DEF Wire!Built, Wire!DecisionBody
  <2>2. request.system = <<>>
    BY <1>1, <1>7 DEF Wire!Carries, Wire!DecisionCarries
  <2>3. Wire!SystemRead = request.system
    BY <1>7, <2>1, <2>2 DEF Wire!SystemRead
  <2>. QED
    BY <1>5, <2>1, <2>3
<1>8. CASE entry.kind = "google"
  <2>1. /\ b = [k \in DOMAIN t |-> [t[k] EXCEPT !.role = Wire!GoogleRole(@)]]
        /\ body.field = request.system
    BY <1>1, <1>8 DEF Wire!Built, Wire!GenerateBody
  <2>2. Wire!SystemRead = request.system
    BY <1>8, <2>1 DEF Wire!SystemRead
  <2>. HIDE DEF t, b
  <2>3. DOMAIN t = 1 .. c
    BY <1>3 DEF ListOf
  <2>4. ListOf(b, c)
    BY <2>1, <2>3 DEF ListOf
  <2>5. ASSUME NEW i \in 1 .. c
        PROVE  b[i].role # "system" /\ b[i].text = t[i].text /\ Wire!Role(b[i]) = t[i].role
    <3>1. b[i] = [t[i] EXCEPT !.role = Wire!GoogleRole(t[i].role)]
      BY <2>1, <2>3
    <3>2. PICK role, place : t[i] = [role |-> role, text |-> place] /\ role \in {"user", "assistant"}
      BY <1>3
    <3>3. b[i].text = t[i].text /\ b[i].role = Wire!GoogleRole(t[i].role)
      BY <3>1, <3>2
    <3>. QED
      BY <3>2, <3>3 DEF Wire!GoogleRole, Wire!Role
  <2>6. ReadAs(t, c)
    BY <2>4, <2>5, SameTurns DEF b
  <2>. QED
    BY <2>2, <2>6 DEF t
<1>9. CASE entry.kind = "openai_compat"
  <2>1. b = (IF request.system = <<>> THEN <<>> ELSE <<[role |-> "system", text |-> request.system]>>) \o t
    BY <1>1, <1>9 DEF Wire!Built, Wire!ChatBody
  <2>. QED
    BY <1>2, <1>9, <2>1, ChatReads
<1>. QED
  BY <1>4, <1>6, <1>7, <1>8, <1>9

\* No request of the proxy holds a document, so none is built for the reader of documents.
LEMMA NoDocument ==
  ASSUME WireInv, wireStage = "built"
  PROVE  entry.kind # "azure_docintel"
<1>1. AskedOk /\ ~Wire!BadMessages(asked.messages) /\ request = Wire!Parsed(asked)
  BY DEF WireInv
<1>2. PICK n \in Nat, k \in Nat :
        /\ k < n /\ DOMAIN asked.messages = 1 .. n
        /\ request.turns = [i \in 1 .. n - k |-> [role |-> asked.messages[k + i].role, text |-> k + i]]
        /\ \A i \in 1 .. n : asked.messages[i].content \in {"text", "parts"}
  BY <1>1, ParsedIs
<1>3. ASSUME NEW i \in DOMAIN request.turns
      PROVE  asked.messages[request.turns[i].text].content # "document"
  <2>1. i \in 1 .. n - k
    BY <1>2
  <2>2. request.turns[i].text = k + i /\ k + i \in 1 .. n
    BY <1>2, <2>1
  <2>. QED
    BY <1>2, <2>2
<1>4. ~Wire!HoldsDocument(request)
  BY <1>3 DEF Wire!HoldsDocument
<1>5. Wire!Carries(request)
  BY DEF WireInv
<1>. QED
  BY <1>4, <1>5 DEF Wire!Carries

-----------------------------------------------------------------------------
(* The settings, under the vendor's names.                                 *)

StopNames == {"stop", "stop_sequences", "stopSequences"}

SetNames(limit, stop, r) ==
  {limit} \cup (IF r.temperature = "null" THEN {} ELSE {"temperature"})
          \cup (IF r.stop \in {"null", "none"} THEN {} ELSE {stop})

\* The settings a caller gave: the limit always, the rest if it is set.
GivenOk(s, limit, stop, r) ==
  /\ limit \in Wire!MaxNames \cup {"maxOutputTokens"} /\ stop \in StopNames
  /\ DOMAIN s = SetNames(limit, stop, r)
  /\ s[limit] = Wire!Filled(r)
  /\ r.temperature # "null" => s["temperature"] = r.temperature
  /\ r.stop \notin {"null", "none"} => s[stop] = r.stop

\* And those of a body, with what the route has beside them.
SettingsOk(s, limit, stop, r) ==
  /\ limit \in Wire!MaxNames \cup {"maxOutputTokens"} /\ stop \in StopNames
  /\ DOMAIN s = SetNames(limit, stop, r) \cup (IF entry.extra = "thinking" THEN {"thinkingConfig"} ELSE {})
  /\ s[limit] = Wire!Filled(r)
  /\ r.temperature # "null" => s["temperature"] = r.temperature
  /\ r.stop \notin {"null", "none"} => s[stop] = r.stop
  /\ entry.extra = "thinking" => s["thinkingConfig"] = "low"

\* A setting is read under the one of its names that is there.
LEMMA SettingIs ==
  ASSUME NEW names
  PROVE  /\ \A x : {n \in names : n \in DOMAIN body.settings} = {x} =>
              Wire!SettingRead(names) = body.settings[x]
         /\ {n \in names : n \in DOMAIN body.settings} = {} => Wire!SettingRead(names) = "null"
<1>1. ASSUME NEW x, {n \in names : n \in DOMAIN body.settings} = {x}
      PROVE  Wire!SettingRead(names) = body.settings[x]
  <2>1. (CHOOSE n \in {x} : TRUE) = x
    OBVIOUS
  <2>2. {n \in names : n \in DOMAIN body.settings} # {}
    BY <1>1
  <2>. QED
    BY <1>1, <2>1, <2>2 DEF Wire!SettingRead
<1>2. ASSUME {n \in names : n \in DOMAIN body.settings} = {}
      PROVE  Wire!SettingRead(names) = "null"
  BY <1>2 DEF Wire!SettingRead
<1>. QED
  BY <1>1, <1>2

\* A dictionary of those of three settings that are set.
LEMMA GivenIs ==
  ASSUME NEW f, NEW limit \in Wire!MaxNames \cup {"maxOutputTokens"}, NEW stop \in StopNames, NEW r,
         DOMAIN f = {limit, "temperature", stop},
         f[limit] = Wire!Filled(r), f["temperature"] = r.temperature, f[stop] = r.stop,
         Wire!Filled(r) \notin {"null", "none"}, r.temperature # "none"
  PROVE  GivenOk(Wire!Given(f), limit, stop, r)
<1>. DEFINE s == Wire!Given(f)
<1>1. DOMAIN s = {g \in {limit, "temperature", stop} : f[g] \notin {"null", "none"}}
  BY DEF Wire!Given
<1>2. \A g \in DOMAIN s : s[g] = f[g]
  BY <1>1 DEF Wire!Given
<1>. HIDE DEF s
<1>3. DOMAIN s = SetNames(limit, stop, r)
  <2>1. \A g \in {limit, "temperature", stop} :
          f[g] \notin {"null", "none"} <=> g \in SetNames(limit, stop, r)
    BY DEF SetNames, StopNames, Wire!MaxNames
  <2>2. SetNames(limit, stop, r) \in SUBSET {limit, "temperature", stop}
    BY DEF SetNames
  <2>. QED
    BY <1>1, <2>1, <2>2
<1>c. /\ limit \in DOMAIN s
      /\ r.temperature # "null" => "temperature" \in DOMAIN s
      /\ r.stop \notin {"null", "none"} => stop \in DOMAIN s
  BY <1>3 DEF SetNames
<1>4. s[limit] = Wire!Filled(r)
  BY <1>2, <1>c
<1>5. r.temperature # "null" => s["temperature"] = r.temperature
  BY <1>2, <1>c
<1>6. r.stop \notin {"null", "none"} => s[stop] = r.stop
  BY <1>2, <1>c
<1>. QED
  BY <1>3, <1>4, <1>5, <1>6 DEF GivenOk, s

\* They are read as they were set.
LEMMA SettingsAreRead ==
  ASSUME NEW limit, NEW stop, NEW r, SettingsOk(body.settings, limit, stop, r),
         entry.extra \in {"none", "thinking"}
  PROVE  /\ Wire!SettingRead(Wire!MaxNames \cup {"maxOutputTokens"}) = Wire!Filled(r)
         /\ Wire!SettingRead({"temperature"}) = r.temperature
         /\ r.stop \notin {"null", "none"} => Wire!SettingRead(StopNames) = r.stop
         /\ r.stop \in {"null", "none"} => Wire!SettingRead(StopNames) = "null"
         /\ Wire!SettingRead({"thinkingConfig"}) = (IF entry.extra = "none" THEN "null" ELSE "low")
<1>. DEFINE s == body.settings
            Here(names) == {n \in names : n \in DOMAIN s}
<1>1. limit \in {"max_tokens", "max_completion_tokens", "maxOutputTokens"} /\ stop \in StopNames
  BY DEF SettingsOk, Wire!MaxNames
<1>2. DOMAIN s = SetNames(limit, stop, r) \cup (IF entry.extra = "thinking" THEN {"thinkingConfig"} ELSE {})
  BY DEF SettingsOk
<1>3. Here(Wire!MaxNames \cup {"maxOutputTokens"}) = {limit}
  BY <1>1, <1>2 DEF StopNames, SetNames, Wire!MaxNames
<1>4. Here({"temperature"}) = IF r.temperature # "null" THEN {"temperature"} ELSE {}
  BY <1>1, <1>2 DEF StopNames, SetNames
<1>5. Here(StopNames) = IF r.stop \notin {"null", "none"} THEN {stop} ELSE {}
  BY <1>1, <1>2 DEF StopNames, SetNames
<1>6. Here({"thinkingConfig"}) = IF entry.extra = "thinking" THEN {"thinkingConfig"} ELSE {}
  BY <1>1, <1>2 DEF StopNames, SetNames
<1>7. Wire!SettingRead(Wire!MaxNames \cup {"maxOutputTokens"}) = Wire!Filled(r)
  BY <1>3, SettingIs DEF SettingsOk
<1>8. Wire!SettingRead({"temperature"}) = r.temperature
  <2>1. CASE r.temperature # "null"
    BY <1>4, <2>1, SettingIs DEF SettingsOk
  <2>2. CASE r.temperature = "null"
    BY <1>4, <2>2, SettingIs
  <2>. QED
    BY <2>1, <2>2
<1>9. r.stop \notin {"null", "none"} => Wire!SettingRead(StopNames) = r.stop
  BY <1>5, SettingIs DEF SettingsOk
<1>10. r.stop \in {"null", "none"} => Wire!SettingRead(StopNames) = "null"
  BY <1>5, SettingIs
<1>11. Wire!SettingRead({"thinkingConfig"}) = (IF entry.extra = "none" THEN "null" ELSE "low")
  <2>1. CASE entry.extra = "thinking"
    BY <1>6, <2>1, SettingIs DEF SettingsOk
  <2>2. CASE entry.extra = "none"
    BY <1>6, <2>2, SettingIs
  <2>. QED
    BY <2>1, <2>2
<1>. QED
  BY <1>7, <1>8, <1>9, <1>10, <1>11

\* Every body but a decision's has the request's settings, under the vendor's names.
LEMMA SettingsAre ==
  ASSUME AskedOk, NEW r, r.max \in {"null", "five", "zero", "true"}, r.temperature # "none",
         entry.kind \in {"anthropic", "openai_compat", "google"}
  PROVE  \E limit, stop : SettingsOk(Wire!Built(r).settings, limit, stop, r)
<1>1. Wire!Filled(r) \notin {"null", "none"}
  BY DEF Wire!Filled
<1>2. /\ entry.maxField \in Wire!MaxNames /\ entry.extra \in {"none", "thinking"}
      /\ entry.kind # "google" => entry.extra = "none"
  BY DEF AskedOk
<1>3. CASE entry.kind = "anthropic"
  <2>. DEFINE f == [max_tokens |-> Wire!Filled(r), temperature |-> r.temperature, stop_sequences |-> r.stop]
  <2>1. /\ DOMAIN f = {"max_tokens", "temperature", "stop_sequences"}
        /\ f["max_tokens"] = Wire!Filled(r) /\ f["temperature"] = r.temperature
        /\ f["stop_sequences"] = r.stop
    OBVIOUS
  <2>2. Wire!Built(r).settings = Wire!Given(f)
    BY <1>3 DEF Wire!Built, Wire!MessageBody
  <2>. HIDE DEF f
  <2>3. "max_tokens" \in Wire!MaxNames \cup {"maxOutputTokens"} /\ "stop_sequences" \in StopNames
    BY DEF Wire!MaxNames, StopNames
  <2>4. GivenOk(Wire!Given(f), "max_tokens", "stop_sequences", r)
    BY <1>1, <2>1, <2>3, GivenIs
  <2>5. SettingsOk(Wire!Given(f), "max_tokens", "stop_sequences", r)
    BY <1>2, <1>3, <2>4 DEF GivenOk, SettingsOk
  <2>. QED
    BY <2>2, <2>5
<1>4. CASE entry.kind = "openai_compat"
  <2>. DEFINE m == entry.maxField
              f == [g \in {m, "temperature", "stop"} |->
                      CASE g = "temperature" -> r.temperature [] g = "stop" -> r.stop
                        [] OTHER -> Wire!Filled(r)]
  <2>1. m \in {"max_tokens", "max_completion_tokens"}
    BY <1>2 DEF Wire!MaxNames
  <2>2. Wire!Built(r).settings = Wire!Given(f)
    BY <1>4 DEF Wire!Built, Wire!ChatBody
  <2>. HIDE DEF m
  <2>3. /\ DOMAIN f = {m, "temperature", "stop"}
        /\ f[m] = Wire!Filled(r) /\ f["temperature"] = r.temperature /\ f["stop"] = r.stop
    BY <2>1
  <2>. HIDE DEF f
  <2>4. m \in Wire!MaxNames \cup {"maxOutputTokens"} /\ "stop" \in StopNames
    BY <2>1 DEF Wire!MaxNames, StopNames
  <2>5. GivenOk(Wire!Given(f), m, "stop", r)
    BY <1>1, <2>3, <2>4, GivenIs
  <2>6. SettingsOk(Wire!Given(f), m, "stop", r)
    BY <1>2, <1>4, <2>5 DEF GivenOk, SettingsOk
  <2>. QED
    BY <2>2, <2>6
<1>5. CASE entry.kind = "google"
  <2>. DEFINE f == [maxOutputTokens |-> Wire!Filled(r), temperature |-> r.temperature,
                    stopSequences |-> r.stop]
              G == Wire!Given(f)
              X == IF entry.extra = "thinking" THEN Wire!Thinking ELSE <<>>
              s == Wire!Merged(G, X)
  <2>1. /\ DOMAIN f = {"maxOutputTokens", "temperature", "stopSequences"}
        /\ f["maxOutputTokens"] = Wire!Filled(r) /\ f["temperature"] = r.temperature
        /\ f["stopSequences"] = r.stop
    OBVIOUS
  <2>2. Wire!Built(r).settings = s
    BY <1>5 DEF Wire!Built, Wire!GenerateBody
  <2>. HIDE DEF f
  <2>3. "maxOutputTokens" \in Wire!MaxNames \cup {"maxOutputTokens"} /\ "stopSequences" \in StopNames
    BY DEF StopNames
  <2>4. GivenOk(G, "maxOutputTokens", "stopSequences", r)
    BY <1>1, <2>1, <2>3, GivenIs
  <2>5. DOMAIN X = (IF entry.extra = "thinking" THEN {"thinkingConfig"} ELSE {})
    BY DEF Wire!Thinking
  <2>6. entry.extra = "thinking" => X["thinkingConfig"] = "low"
    BY DEF Wire!Thinking
  <2>. HIDE DEF G, X
  <2>7. /\ DOMAIN s = DOMAIN G \cup DOMAIN X
        /\ \A g \in DOMAIN G \cup DOMAIN X : s[g] = IF g \in DOMAIN X THEN X[g] ELSE G[g]
    BY DEF Wire!Merged
  <2>. HIDE DEF s
  <2>8. /\ DOMAIN G = SetNames("maxOutputTokens", "stopSequences", r)
        /\ \A g \in DOMAIN G : g \notin DOMAIN X
    BY <2>4, <2>5 DEF GivenOk, SetNames
  <2>9. /\ "maxOutputTokens" \in DOMAIN G
        /\ r.temperature # "null" => "temperature" \in DOMAIN G
        /\ r.stop \notin {"null", "none"} => "stopSequences" \in DOMAIN G
    BY <2>8 DEF SetNames
  <2>10. \A g \in DOMAIN G : s[g] = G[g]
    BY <2>7, <2>8
  <2>11. entry.extra = "thinking" => s["thinkingConfig"] = "low"
    BY <2>5, <2>6, <2>7
  <2>12. SettingsOk(s, "maxOutputTokens", "stopSequences", r)
    BY <2>3, <2>4, <2>5, <2>7, <2>8, <2>9, <2>10, <2>11 DEF GivenOk, SettingsOk
  <2>. QED
    BY <2>2, <2>12
<1>. QED
  BY <1>3, <1>4, <1>5

\* So what is built carries what was asked.
LEMMA RequestsAreCarried == WireInv => Wire!CarriedOrRefused
<1>. SUFFICES ASSUME WireInv, wireStage = "built" PROVE Wire!CarriedOrRefused
  BY DEF Wire!CarriedOrRefused
<1>1. /\ AskedOk /\ ~Wire!BadFields(asked) /\ ~Wire!BadMessages(asked.messages) /\ ~Wire!OutOfRange(asked)
      /\ request = Wire!Parsed(asked) /\ body = Wire!Built(request)
  BY DEF WireInv
<1>2. PICK n \in Nat, k \in Nat :
        /\ k < n /\ DOMAIN asked.messages = 1 .. n
        /\ request.system = [i \in 1 .. k |-> i]
        /\ request.turns = [i \in 1 .. n - k |-> [role |-> asked.messages[k + i].role, text |-> k + i]]
        /\ \A i \in k + 1 .. n : asked.messages[i].role \in {"user", "assistant"}
        /\ \A i \in 1 .. n : asked.messages[i].content \in {"text", "parts"}
  BY <1>1, ParsedIs
<1>3. PICK c \in Nat : c = n - k /\ c > 0
  BY <1>2
<1>4. PICK t : t = request.turns
  OBVIOUS
<1>5. /\ DOMAIN t = 1 .. c
      /\ \A i \in 1 .. c : t[i] = [role |-> asked.messages[k + i].role, text |-> k + i]
      /\ ListOf(t, c)
  BY <1>2, <1>3, <1>4 DEF ListOf
<1>6. \A i \in 1 .. c : /\ t[i].text = k + i /\ t[i].role = asked.messages[k + i].role
                        /\ t[i] = [role |-> t[i].role, text |-> t[i].text]
                        /\ t[i].role \in {"user", "assistant"}
  <2>. SUFFICES ASSUME NEW i \in 1 .. c
                PROVE  /\ t[i].text = k + i /\ t[i].role = asked.messages[k + i].role
                       /\ t[i] = [role |-> t[i].role, text |-> t[i].text]
                       /\ t[i].role \in {"user", "assistant"}
    OBVIOUS
  <2>1. k + i \in k + 1 .. n
    BY <1>2, <1>3
  <2>2. t[i].text = k + i /\ t[i].role = asked.messages[k + i].role
    BY <1>5
  <2>3. t[i] = [role |-> t[i].role, text |-> t[i].text]
    BY <1>5
  <2>. QED
    BY <1>2, <2>1, <2>2, <2>3
<1>7. TurnsOk(request.turns, c)
  BY <1>4, <1>5, <1>6 DEF TurnsOk
<1>8. entry.kind # "azure_docintel"
  BY NoDocument
<1>9. Wire!SystemRead = request.system /\ ReadAs(request.turns, c)
  BY <1>3, <1>7, <1>8, BodyReads
<1>. DEFINE R == Wire!TurnsRead
<1>10. /\ DOMAIN R = 1 .. c
       /\ \A i \in 1 .. c : R[i].text = k + i /\ Wire!Role(R[i]) = asked.messages[k + i].role
  BY <1>4, <1>6, <1>9 DEF ReadAs
<1>. HIDE DEF R
<1>11. Wire!SystemRead \o [i \in DOMAIN R |-> R[i].text] = [i \in DOMAIN asked.messages |-> i]
  <2>1. [i \in DOMAIN R |-> R[i].text] = [i \in 1 .. n - k |-> k + i]
    BY <1>3, <1>10
  <2>2. Wire!SystemRead = [i \in 1 .. k |-> i]
    BY <1>2, <1>9
  <2>3. [i \in 1 .. k |-> i] \o [i \in 1 .. n - k |-> k + i] = [i \in 1 .. n |-> i]
    BY <1>2, TextsTogether
  <2>4. [i \in DOMAIN asked.messages |-> i] = [i \in 1 .. n |-> i]
    BY <1>2
  <2>. QED
    BY <2>1, <2>2, <2>3, <2>4
<1>12. \A i \in DOMAIN R : Wire!Role(R[i]) = asked.messages[R[i].text].role
  BY <1>10
<1>13. ~asked.unknown /\ asked.n = 1
  BY <1>1 DEF Wire!BadFields
<1>14. ASSUME entry.kind # "decisions"
       PROVE  /\ Wire!SettingRead(Wire!MaxNames \cup {"maxOutputTokens"})
                   = (IF asked.names = {} \/ asked.max = "null" THEN "five" ELSE asked.max)
              /\ Wire!SettingRead({"temperature"}) = asked.temperature
              /\ (asked.stop = "words") = (Wire!SettingRead(StopNames) = "words")
              /\ Wire!SettingRead({"thinkingConfig"}) = (IF entry.extra = "none" THEN "null" ELSE "low")
  <2>1. entry.kind \in {"anthropic", "openai_compat", "google"} /\ entry.extra \in {"none", "thinking"}
    BY <1>1, <1>8, <1>14 DEF AskedOk, Wire!Kinds
  <2>2. /\ request.max = (IF asked.names = {} THEN "null" ELSE asked.max)
        /\ request.temperature = asked.temperature /\ request.stop = asked.stop
    BY <1>1 DEF Wire!Parsed
  <2>3. /\ asked.max \in {"null", "five", "zero", "true"} /\ asked.temperature # "none"
        /\ asked.stop \in {"null", "words", "none", "number"}
    BY <1>1, AskedIs
  <2>4. request.max \in {"null", "five", "zero", "true"} /\ request.temperature # "none"
    BY <2>2, <2>3
  <2>5. PICK limit, stop : SettingsOk(body.settings, limit, stop, request)
    BY <1>1, <2>1, <2>4, SettingsAre
  <2>6. /\ Wire!SettingRead(Wire!MaxNames \cup {"maxOutputTokens"}) = Wire!Filled(request)
        /\ Wire!SettingRead({"temperature"}) = request.temperature
        /\ request.stop \notin {"null", "none"} => Wire!SettingRead(StopNames) = request.stop
        /\ request.stop \in {"null", "none"} => Wire!SettingRead(StopNames) = "null"
        /\ Wire!SettingRead({"thinkingConfig"}) = (IF entry.extra = "none" THEN "null" ELSE "low")
    BY <2>1, <2>5, SettingsAreRead
  <2>7. Wire!Filled(request) = (IF asked.names = {} \/ asked.max = "null" THEN "five" ELSE asked.max)
    BY <2>2 DEF Wire!Filled
  <2>8. (asked.stop = "words") = (Wire!SettingRead(StopNames) = "words")
    <3>1. CASE asked.stop \in {"null", "none"}
      BY <2>2, <2>6, <3>1
    <3>2. CASE asked.stop \notin {"null", "none"}
      BY <2>2, <2>6, <3>2
    <3>. QED
      BY <3>1, <3>2
  <2>. QED
    BY <2>2, <2>6, <2>7, <2>8
<1>. QED
  BY <1>11, <1>12, <1>13, <1>14 DEF Wire!CarriedOrRefused, StopNames, R

-----------------------------------------------------------------------------
(* What a vendor's answer becomes (VendorAnswers).                         *)

Usages  == [plain : Nat, read : Nat, written : Nat, output : Nat]
Streams == [text : Nat, usage : Usages, seen : BOOLEAN, named : BOOLEAN, error : BOOLEAN,
            events : Nat, over : BOOLEAN]

\* A vendor's answer, as it may be.
VendorOk ==
  /\ \E kind \in Answers!Kinds : \E path \in Answers!Paths(kind) :
       vendor \in [kind : {kind}, path : {path}, bill : Answers!Billed(kind), models : Answers!Models,
                   shape : IF path = "stream" THEN {"answer"} ELSE Answers!Shapes(kind, path),
                   parts : Answers!Written(kind, path),
                   ended : IF Answers!Written(kind, path) = {<<>>} THEN {"done"}
                           ELSE {"done", "cut", "filtered"}]
  /\ vendor.models.named \/ vendor.models.returned = Unset

\* The bill as an adapter is to read it.
TrueUsage ==
  [plain |-> vendor.bill.plain, read |-> vendor.bill.read, written |-> vendor.bill.written,
   output |-> vendor.bill.output + vendor.bill.thoughts]

\* Once the counts have come, so has the model's name, if there is one.
StreamNames ==
  streamed \in Streams /\ (vendor.path = "stream" /\ streamed.seen /\ vendor.models.named => streamed.named)

\* An answer that is read has the bill's counts, if it has any.
ReadTrue ==
  answerStage \in {"read", "costed", "told"} =>
    /\ Answers!HasCounts => read.usage = TrueUsage
    /\ ~Answers!HasCounts /\ vendor.path # "stream" => read.usage = Answers!NoUsage
    /\ Answers!HasCounts /\ vendor.path # "raw" /\ vendor.models.named => read.named
    /\ vendor.path \in {"whole", "batch"} =>
         /\ vendor.shape \in Answers!Reading.read \/ (vendor.path = "batch" /\ vendor.shape = "other")
         /\ vendor.shape # "other" =>
              /\ read.text = Answers!Reading.text
              /\ read.finish = (IF vendor.shape = "blocked" THEN "blocked" ELSE Answers!Reading.finish)

\* And costs what they come to.
CostTrue ==
  /\ answerStage \in {"arriving", "read", "failed", "raised"} => cost = Unset
  /\ answerStage \in {"costed", "told"} =>
       cost = IF vendor.path = "stream" /\ ~streamed.seen THEN Unset
              ELSE Answers!CostUsd(read.usage, Answers!Entry)

ToldTrue ==
  answerStage = "told" =>
    /\ vendor.path \in {"whole", "stream"}
    /\ told = [usage |-> Answers!Told(read.usage), text |-> read.text,
               finish |-> Answers!FinishReason(read.finish)]

AnswerInv ==
  /\ answerStage \in {"arriving", "read", "failed", "raised", "costed", "told"}
  /\ VendorOk /\ StreamNames /\ ReadTrue /\ CostTrue /\ ToldTrue

\* Before an answer comes nothing is counted.
LEMMA AnswersStart == Answers!Init => AnswerInv
<1>. SUFFICES ASSUME Answers!Init PROVE AnswerInv
  OBVIOUS
<1>1. VendorOk
  BY DEF Answers!Init, VendorOk
<1>2. answerStage = "arriving" /\ cost = Unset
  BY DEF Answers!Init
<1>3. streamed = [text |-> 0, usage |-> Answers!NoUsage, seen |-> FALSE, named |-> FALSE, error |-> FALSE,
                  events |-> 0, over |-> FALSE]
  BY DEF Answers!Init
<1>4. Answers!NoUsage \in Usages
  BY DEF Answers!NoUsage, Usages
<1>5. StreamNames
  BY <1>3, <1>4 DEF StreamNames, Streams
<1>6. ReadTrue /\ CostTrue /\ ToldTrue
  BY <1>2 DEF ReadTrue, CostTrue, ToldTrue
<1>. QED
  BY <1>1, <1>2, <1>5, <1>6 DEF AnswerInv

\* What a vendor says of its bill, read by its own adapter, is the bill.
LEMMA UsageIs ==
  ASSUME VendorOk
  PROVE  /\ Answers!Usage(vendor.kind, TRUE) = TrueUsage
         /\ vendor.path = "stream" => vendor.kind = "openai_compat"
         /\ TrueUsage \in Usages
         /\ vendor.bill \in Answers!Bills
<1>0. PICK kind \in Answers!Kinds : \E path \in Answers!Paths(kind) :
        /\ vendor.kind = kind /\ vendor.path = path /\ vendor.bill \in Answers!Billed(kind)
  BY DEF VendorOk
<1>1. PICK path \in Answers!Paths(kind) :
        /\ vendor.kind = kind /\ vendor.path = path /\ vendor.bill \in Answers!Billed(kind)
  BY <1>0
<1>2. PICK b \in Answers!Bills : b = vendor.bill /\ b \in Answers!Billed(kind)
  BY <1>1 DEF Answers!Billed
<1>3. b.plain \in Nat /\ b.read \in Nat /\ b.written \in Nat /\ b.output \in Nat /\ b.thoughts \in Nat
  BY DEF Answers!Bills
<1>4. /\ kind \in {"google", "decisions", "azure_docintel"} => b.written = 0
      /\ kind \in {"decisions", "azure_docintel"} => b.read = 0 /\ b.thoughts = 0
      /\ kind = "azure_docintel" => b.output = 0
  BY <1>2 DEF Answers!Billed
<1>5. Answers!Usage(kind, TRUE) = Answers!ParseUsage(kind, Answers!Said(kind, b))
  BY <1>2 DEF Answers!Usage
<1>6. kind \in {"anthropic", "openai_compat", "google", "decisions", "azure_docintel"}
  BY DEF Answers!Kinds
<1>7. Answers!ParseUsage(kind, Answers!Said(kind, b)) =
        [plain |-> b.plain, read |-> b.read, written |-> b.written, output |-> b.output + b.thoughts]
  <2>1. CASE kind = "anthropic"
    <3>1. Answers!Said(kind, b) = [input_tokens |-> b.plain, cache_read_input_tokens |-> b.read,
            cache_creation_input_tokens |-> b.written, output_tokens |-> b.output + b.thoughts]
      BY <2>1 DEF Answers!Said
    <3>. QED
      BY <2>1, <3>1 DEF Answers!ParseUsage, Answers!AnthropicUsage
  <2>2. CASE kind = "openai_compat"
    <3>1. Answers!Said(kind, b) =
            [prompt_tokens |-> b.plain + b.read + b.written, cached_tokens |-> b.read,
             cache_write_tokens |-> b.written, completion_tokens |-> b.output + b.thoughts]
      BY <2>2 DEF Answers!Said
    <3>2. Answers!Less(b.plain + b.read + b.written, b.read + b.written) = b.plain
      BY <1>3 DEF Answers!Less
    <3>. QED
      BY <2>2, <3>1, <3>2 DEF Answers!ParseUsage, Answers!OpenAIUsage
  <2>3. CASE kind = "google"
    <3>1. Answers!Said(kind, b) =
            [promptTokenCount |-> b.plain + b.read, cachedContentTokenCount |-> b.read,
             candidatesTokenCount |-> b.output, thoughtsTokenCount |-> b.thoughts]
      BY <2>3 DEF Answers!Said
    <3>2. Answers!Less(b.plain + b.read, b.read) = b.plain /\ b.written = 0
      BY <1>3, <1>4, <2>3 DEF Answers!Less
    <3>. QED
      BY <2>3, <3>1, <3>2 DEF Answers!ParseUsage, Answers!GoogleUsage
  <2>4. CASE kind = "decisions"
    <3>1. Answers!Said(kind, b) = [input_tokens |-> b.plain, output_tokens |-> b.output]
      BY <2>4 DEF Answers!Said
    <3>2. b.read = 0 /\ b.written = 0 /\ b.output + b.thoughts = b.output
      BY <1>3, <1>4, <2>4
    <3>. QED
      BY <2>4, <3>1, <3>2 DEF Answers!ParseUsage, Answers!DecisionsUsage
  <2>5. CASE kind = "azure_docintel"
    <3>1. Answers!Said(kind, b) = [pages |-> b.plain]
      BY <2>5 DEF Answers!Said
    <3>2. b.read = 0 /\ b.written = 0 /\ b.output + b.thoughts = 0
      BY <1>3, <1>4, <2>5
    <3>. QED
      BY <2>5, <3>1, <3>2 DEF Answers!ParseUsage, Answers!DocIntelUsage, Answers!NoUsage
  <2>. QED
    BY <1>6, <2>1, <2>2, <2>3, <2>4, <2>5
<1>8. TrueUsage = [plain |-> b.plain, read |-> b.read, written |-> b.written, output |-> b.output + b.thoughts]
  BY <1>2 DEF TrueUsage
<1>9. TrueUsage \in Usages
  BY <1>3, <1>8 DEF Usages
<1>10. path = "stream" => kind = "openai_compat"
  BY <1>6 DEF Answers!Paths
<1>. QED
  BY <1>1, <1>2, <1>5, <1>7, <1>8, <1>9, <1>10

\* What stays the same as long as the vendor and the reading do.
CostNow == Answers!CostUsd(read.usage, Answers!Entry)
ToldNow == [usage |-> Answers!Told(read.usage), text |-> read.text,
            finish |-> Answers!FinishReason(read.finish)]

\* What the vendor did does not change.
LEMMA VendorStays ==
  ASSUME VendorOk, vendor' = vendor
  PROVE  /\ VendorOk' /\ TrueUsage' = TrueUsage
         /\ Answers!Reading' = Answers!Reading
<1>1. VendorOk'
  BY DEF VendorOk
<1>2. TrueUsage' = TrueUsage
  BY DEF TrueUsage
<1>3. /\ Answers!AnthropicRead' = Answers!AnthropicRead
      /\ Answers!OpenAIRead' = Answers!OpenAIRead
      /\ Answers!GoogleRead' = Answers!GoogleRead
  BY DEF Answers!AnthropicRead, Answers!OpenAIRead, Answers!GoogleRead, Answers!FirstText,
         Answers!Ending
<1>4. Answers!Reading' = Answers!Reading
  BY <1>3 DEF Answers!Reading, Answers!DecisionsRead, Answers!DocIntelRead
<1>. QED
  BY <1>1, <1>2, <1>4

\* The cost and what is told are of the reading.
LEMMA ReadStays ==
  ASSUME vendor' = vendor, read' = read
  PROVE  CostNow' = CostNow /\ ToldNow' = ToldNow
<1>1. Answers!Entry' = Answers!Entry
  BY DEF Answers!Entry
<1>2. CostNow' = CostNow
  BY <1>1 DEF CostNow, Answers!CostUsd
<1>3. ToldNow' = ToldNow
  BY DEF ToldNow
<1>. QED
  BY <1>2, <1>3

\* Nothing that changes only what comes after the reading disturbs the reading.
LEMMA ReadKept ==
  ASSUME AnswerInv, vendor' = vendor, read' = read, streamed' = streamed,
         answerStage \in {"read", "costed"}
  PROVE  VendorOk' /\ StreamNames' /\ ReadTrue'
<1>1. VendorOk' /\ TrueUsage' = TrueUsage /\ Answers!Reading' = Answers!Reading
  BY VendorStays DEF AnswerInv
<1>2. StreamNames'
  BY DEF AnswerInv, StreamNames
<1>3. Answers!HasCounts' = Answers!HasCounts
  BY DEF Answers!HasCounts
<1>4. ReadTrue'
  BY <1>1, <1>3 DEF AnswerInv, ReadTrue
<1>. QED
  BY <1>1, <1>2, <1>4

\* Each step keeps the invariant: an answer read whole or from a batch,
LEMMA WholeKeeps == AnswerInv /\ Answers!Whole => AnswerInv'
<1>. SUFFICES ASSUME AnswerInv, Answers!Whole PROVE AnswerInv'
  OBVIOUS
<1>1. /\ vendor' = vendor /\ streamed' = streamed /\ cost' = cost /\ answerStage = "arriving"
      /\ vendor.path \in {"whole", "batch"}
  BY DEF Answers!Whole
<1>2. VendorOk' /\ TrueUsage' = TrueUsage /\ Answers!Reading' = Answers!Reading
  BY <1>1, VendorStays DEF AnswerInv
<1>3. StreamNames'
  BY <1>1 DEF AnswerInv, StreamNames
<1>4. cost = Unset
  BY <1>1 DEF AnswerInv, CostTrue
<1>. DEFINE taken == \/ vendor.shape \in Answers!Reading.read
                     \/ (Answers!Inline /\ vendor.shape = "other")
<1>5. CASE taken
  <2>1. answerStage' = "read"
    BY <1>5 DEF Answers!Whole
  <2>2. /\ DOMAIN read' = {"usage", "named", "text", "finish"}
        /\ read'.usage = Answers!Usage(vendor.kind, Answers!Counted)
        /\ read'.named = vendor.models.named
        /\ vendor.shape # "other" =>
             /\ read'.text = Answers!Reading.text
             /\ read'.finish = IF vendor.shape = "blocked" THEN "blocked" ELSE Answers!Reading.finish
    <3>. DEFINE finish == CASE vendor.shape = "blocked" -> "blocked"
                            [] vendor.shape = "other" -> Unset
                            [] OTHER -> Answers!Reading.finish
    <3>1. read' = [usage |-> Answers!Usage(vendor.kind, Answers!Counted), named |-> vendor.models.named,
                   text |-> IF vendor.shape = "other" THEN Unset ELSE Answers!Reading.text,
                   finish |-> finish]
      BY <1>5 DEF Answers!Whole
    <3>2. vendor.shape # "other" =>
            finish = IF vendor.shape = "blocked" THEN "blocked" ELSE Answers!Reading.finish
      OBVIOUS
    <3>. HIDE DEF finish
    <3>. QED
      BY <3>1, <3>2
  <2>3. Answers!HasCounts' = Answers!Counted
    BY <1>1 DEF Answers!HasCounts, Answers!Counted
  <2>4. Answers!Counted => Answers!Usage(vendor.kind, Answers!Counted) = TrueUsage
    <3>1. Answers!Usage(vendor.kind, TRUE) = TrueUsage
      BY UsageIs DEF AnswerInv
    <3>2. Answers!Counted => Answers!Usage(vendor.kind, Answers!Counted) = Answers!Usage(vendor.kind, TRUE)
      BY DEF Answers!Usage
    <3>. QED
      BY <3>1, <3>2
  <2>5. ~Answers!Counted => Answers!Usage(vendor.kind, Answers!Counted) = Answers!NoUsage
    BY DEF Answers!Usage
  <2>6. ReadTrue'
    BY <1>1, <1>2, <1>5, <2>2, <2>3, <2>4, <2>5 DEF ReadTrue, Answers!Inline
  <2>. QED
    BY <1>1, <1>2, <1>3, <1>4, <2>1, <2>6 DEF AnswerInv, CostTrue, ToldTrue
<1>6. CASE ~taken
  <2>1. answerStage' = "failed"
    BY <1>6 DEF Answers!Whole
  <2>. QED
    BY <1>1, <1>2, <1>3, <1>4, <2>1 DEF AnswerInv, ReadTrue, CostTrue, ToldTrue
<1>. QED
  BY <1>5, <1>6

\* one handed over as it came,
LEMMA RawKeeps == AnswerInv /\ Answers!Raw => AnswerInv'
<1>. SUFFICES ASSUME AnswerInv, Answers!Raw PROVE AnswerInv'
  OBVIOUS
<1>1. /\ vendor' = vendor /\ streamed' = streamed /\ cost' = cost /\ answerStage = "arriving"
      /\ vendor.path = "raw" /\ answerStage' = "read"
      /\ read' = [Answers!NoAnswer EXCEPT !.usage = Answers!Usage(vendor.kind, Answers!Counted),
                    !.named = vendor.models.named /\ vendor.shape # "unreadable" /\ vendor.kind # "google"]
  BY DEF Answers!Raw
<1>2. VendorOk' /\ TrueUsage' = TrueUsage
  BY <1>1, VendorStays DEF AnswerInv
<1>3. StreamNames'
  BY <1>1 DEF AnswerInv, StreamNames
<1>4. cost = Unset
  BY <1>1 DEF AnswerInv, CostTrue
<1>5. Answers!HasCounts' = Answers!Counted
  BY <1>1 DEF Answers!HasCounts, Answers!Counted
<1>6. Answers!Counted => Answers!Usage(vendor.kind, Answers!Counted) = TrueUsage
  <2>1. Answers!Usage(vendor.kind, TRUE) = TrueUsage
    BY UsageIs DEF AnswerInv
  <2>2. Answers!Counted => Answers!Usage(vendor.kind, Answers!Counted) = Answers!Usage(vendor.kind, TRUE)
    BY DEF Answers!Usage
  <2>. QED
    BY <2>1, <2>2
<1>7. read'.usage = Answers!Usage(vendor.kind, Answers!Counted)
  BY <1>1 DEF Answers!NoAnswer
<1>8. ~Answers!Counted => Answers!Usage(vendor.kind, Answers!Counted) = Answers!NoUsage
  BY DEF Answers!Usage
<1>9. ReadTrue'
  BY <1>1, <1>2, <1>5, <1>6, <1>7, <1>8 DEF ReadTrue
<1>. QED
  BY <1>1, <1>2, <1>3, <1>4, <1>9 DEF AnswerInv, CostTrue, ToldTrue

\* an event of a stream,
LEMMA FeedKeeps ==
  ASSUME AnswerInv, NEW event \in {"role", "text", "sofar", "counts", "error", "unreadable"},
         Answers!Feed(event)
  PROVE  AnswerInv'
<1>1. /\ vendor' = vendor /\ read' = read /\ cost' = cost /\ answerStage = "arriving"
      /\ answerStage' = "arriving" /\ vendor.path = "stream"
  BY DEF Answers!Feed
<1>2. VendorOk'
  BY <1>1, VendorStays DEF AnswerInv
<1>3. cost = Unset
  BY <1>1 DEF AnswerInv, CostTrue
<1>4. streamed \in Streams /\ (streamed.seen /\ vendor.models.named => streamed.named)
  BY <1>1 DEF AnswerInv, StreamNames
<1>5. Answers!Usage("openai_compat", TRUE) \in Usages
  BY <1>1, UsageIs DEF AnswerInv
<1>. DEFINE U == Answers!Usage("openai_compat", TRUE)
<1>6. [U EXCEPT !.output = 0] \in Usages
  BY <1>5 DEF Usages
<1>. DEFINE S == streamed
<1>7. streamed' =
       [streamed EXCEPT
          !.events = IF event = "unreadable" THEN @ ELSE @ + 1,
          !.over = event \in {"error", "unreadable"},
          !.error = event \in {"error", "unreadable"},
          !.named = @ \/ (vendor.models.named /\ event \notin {"error", "unreadable"}),
          !.text = IF event \in {"text", "sofar"} THEN @ + 1 ELSE @,
          !.seen = @ \/ event \in {"sofar", "counts"},
          !.usage = CASE event = "sofar" -> [U EXCEPT !.output = 0]
                      [] event = "counts" -> U
                      [] OTHER -> @]
  BY DEF Answers!Feed
<1>8. vendor.models.named \in BOOLEAN
  BY DEF AnswerInv, VendorOk, Answers!Models
<1>9. streamed' \in Streams
  <2>. DEFINE E == IF event = "unreadable" THEN streamed.events ELSE streamed.events + 1
              B == event \in {"error", "unreadable"}
              N == streamed.named \/ (vendor.models.named /\ event \notin {"error", "unreadable"})
              X == IF event \in {"text", "sofar"} THEN streamed.text + 1 ELSE streamed.text
              Y == streamed.seen \/ event \in {"sofar", "counts"}
              V == CASE event = "sofar" -> [U EXCEPT !.output = 0]
                     [] event = "counts" -> U
                     [] OTHER -> streamed.usage
  <2>1. streamed' = [streamed EXCEPT !.events = E, !.over = B, !.error = B, !.named = N, !.text = X,
                                     !.seen = Y, !.usage = V]
    <3>. HIDE DEF U
    <3>. QED
      BY <1>7
  <2>2. V \in Usages
    <3>1. U \in Usages /\ streamed.usage \in Usages
      BY <1>4, <1>5 DEF Streams
    <3>. HIDE DEF U
    <3>. QED
      BY <1>6, <3>1
  <2>3. E \in Nat /\ X \in Nat
    BY <1>4 DEF Streams
  <2>4. B \in BOOLEAN /\ N \in BOOLEAN /\ Y \in BOOLEAN
    OBVIOUS
  <2>. HIDE DEF E, B, N, X, Y, V
  <2>. QED
    BY <1>4, <2>1, <2>2, <2>3, <2>4 DEF Streams
<1>10. streamed'.seen /\ vendor.models.named => streamed'.named
  <2>1. /\ streamed'.seen = (streamed.seen \/ event \in {"sofar", "counts"})
        /\ streamed'.named = (streamed.named \/ (vendor.models.named /\ event \notin {"error", "unreadable"}))
    <3>. HIDE DEF U
    <3>. QED
      BY <1>4, <1>7 DEF Streams
  <2>. QED
    BY <1>4, <2>1
<1>11. StreamNames'
  BY <1>1, <1>9, <1>10 DEF StreamNames
<1>. QED
  BY <1>1, <1>2, <1>3, <1>11 DEF AnswerInv, ReadTrue, CostTrue, ToldTrue

\* the end of a stream,
LEMMA EndStreamKeeps == AnswerInv /\ Answers!EndStream => AnswerInv'
<1>. SUFFICES ASSUME AnswerInv, Answers!EndStream PROVE AnswerInv'
  OBVIOUS
<1>1. /\ vendor' = vendor /\ streamed' = streamed /\ cost' = cost /\ answerStage = "arriving"
      /\ vendor.path = "stream"
      /\ streamed.seen /\ ~streamed.error => streamed.usage = Answers!Usage("openai_compat", TRUE)
  BY DEF Answers!EndStream
<1>2. VendorOk' /\ TrueUsage' = TrueUsage
  BY <1>1, VendorStays DEF AnswerInv
<1>3. StreamNames'
  BY <1>1 DEF AnswerInv, StreamNames
<1>4. cost = Unset
  BY <1>1 DEF AnswerInv, CostTrue
<1>5. Answers!Usage("openai_compat", TRUE) = TrueUsage
  BY <1>1, UsageIs DEF AnswerInv
<1>6. CASE streamed.error \/ streamed.events = 0
  <2>1. answerStage' = "failed"
    BY <1>6 DEF Answers!EndStream
  <2>. QED
    BY <1>1, <1>2, <1>3, <1>4, <2>1 DEF AnswerInv, ReadTrue, CostTrue, ToldTrue
<1>7. CASE ~(streamed.error \/ streamed.events = 0)
  <2>1. /\ answerStage' = "read"
        /\ read' = [usage |-> streamed.usage, named |-> streamed.named, finish |-> "stop",
                    text |-> IF streamed.text = 0 THEN Unset ELSE streamed.text]
    BY <1>7 DEF Answers!EndStream
  <2>2. read'.usage = streamed.usage /\ read'.named = streamed.named
    BY <2>1
  <2>3. Answers!HasCounts' = streamed.seen
    BY <1>1 DEF Answers!HasCounts
  <2>4. streamed.seen /\ vendor.models.named => streamed.named
    BY <1>1 DEF AnswerInv, StreamNames
  <2>5. ReadTrue'
    BY <1>1, <1>2, <1>5, <1>7, <2>2, <2>3, <2>4 DEF ReadTrue
  <2>. QED
    BY <1>1, <1>2, <1>3, <1>4, <2>1, <2>5 DEF AnswerInv, CostTrue, ToldTrue
<1>. QED
  BY <1>6, <1>7

\* the cost of a row,
LEMMA FinishKeeps == AnswerInv /\ Answers!Finish => AnswerInv'
<1>. SUFFICES ASSUME AnswerInv, Answers!Finish PROVE AnswerInv'
  OBVIOUS
<1>1. vendor' = vendor /\ streamed' = streamed /\ read' = read /\ answerStage \in {"read", "failed"}
  BY DEF Answers!Finish
<1>2. VendorOk' /\ CostNow' = CostNow
  BY <1>1, VendorStays, ReadStays DEF AnswerInv
<1>3. StreamNames'
  BY <1>1 DEF AnswerInv, StreamNames
<1>4. CASE answerStage = "failed"
  <2>1. answerStage' = "raised" /\ cost' = Unset
    BY <1>4 DEF Answers!Finish
  <2>. QED
    BY <1>2, <1>3, <2>1 DEF AnswerInv, ReadTrue, CostTrue, ToldTrue
<1>5. CASE answerStage = "read"
  <2>1. /\ answerStage' = "costed"
        /\ cost' = IF vendor.path = "stream" /\ ~streamed.seen THEN Unset ELSE CostNow
    BY <1>5 DEF Answers!Finish, CostNow
  <2>2. ReadTrue'
    BY <1>1, <1>5, ReadKept
  <2>3. CostTrue'
    <3>1. cost' = IF vendor'.path = "stream" /\ ~streamed'.seen THEN Unset ELSE CostNow'
      BY <1>1, <1>2, <2>1
    <3>. QED
      BY <2>1, <3>1 DEF CostTrue, CostNow
  <2>. QED
    BY <1>2, <1>3, <2>1, <2>2, <2>3 DEF AnswerInv, ToldTrue
<1>. QED
  BY <1>1, <1>4, <1>5

\* and what the caller is told.
LEMMA AnswerKeeps == AnswerInv /\ Answers!Answer => AnswerInv'
<1>. SUFFICES ASSUME AnswerInv, Answers!Answer PROVE AnswerInv'
  OBVIOUS
<1>1. /\ vendor' = vendor /\ streamed' = streamed /\ read' = read /\ cost' = cost
      /\ answerStage = "costed" /\ answerStage' = "told" /\ vendor.path \in {"whole", "stream"}
      /\ told' = ToldNow
  BY DEF Answers!Answer, ToldNow
<1>2. VendorOk' /\ StreamNames' /\ ReadTrue'
  BY <1>1, ReadKept
<1>3. CostNow' = CostNow /\ ToldNow' = ToldNow
  BY <1>1, ReadStays
<1>4. CostTrue'
  <2>1. cost = IF vendor.path = "stream" /\ ~streamed.seen THEN Unset ELSE CostNow
    BY <1>1 DEF AnswerInv, CostTrue, CostNow
  <2>2. cost' = IF vendor'.path = "stream" /\ ~streamed'.seen THEN Unset ELSE CostNow'
    BY <1>1, <1>3, <2>1
  <2>. QED
    BY <1>1, <2>2 DEF CostTrue, CostNow
<1>5. ToldTrue'
  <2>1. told' = ToldNow'
    BY <1>1, <1>3
  <2>. QED
    BY <1>1, <2>1 DEF ToldTrue, ToldNow
<1>. QED
  BY <1>1, <1>2, <1>4, <1>5 DEF AnswerInv

\* So every step does.
LEMMA AnswersStep == AnswerInv /\ [Answers!Next]_answerVars => AnswerInv'
<1>. SUFFICES ASSUME AnswerInv, [Answers!Next]_answerVars PROVE AnswerInv'
  OBVIOUS
<1>1. CASE Answers!Whole
  BY <1>1, WholeKeeps
<1>2. CASE Answers!Raw
  BY <1>2, RawKeeps
<1>3. CASE Answers!EndStream
  BY <1>3, EndStreamKeeps
<1>4. CASE Answers!Finish
  BY <1>4, FinishKeeps
<1>5. CASE Answers!Answer
  BY <1>5, AnswerKeeps
<1>6. ASSUME NEW event \in {"role", "text", "sofar", "counts", "error", "unreadable"}, Answers!Feed(event)
      PROVE  AnswerInv'
  BY <1>6, FeedKeeps
<1>7. CASE UNCHANGED answerVars
  <2>1. /\ vendor' = vendor /\ answerStage' = answerStage /\ streamed' = streamed /\ read' = read
        /\ cost' = cost /\ told' = told
    BY <1>7 DEF answerVars
  <2>2. VendorOk' /\ TrueUsage' = TrueUsage /\ Answers!Reading' = Answers!Reading
    BY <2>1, VendorStays DEF AnswerInv
  <2>3. CostNow' = CostNow /\ ToldNow' = ToldNow
    BY <2>1, ReadStays
  <2>4. Answers!HasCounts' = Answers!HasCounts
    BY <2>1 DEF Answers!HasCounts
  <2>5. StreamNames' /\ ReadTrue'
    BY <2>1, <2>2, <2>4 DEF AnswerInv, StreamNames, ReadTrue
  <2>6. CostTrue'
    <3>1. /\ answerStage \in {"arriving", "read", "failed", "raised"} => cost = Unset
          /\ answerStage \in {"costed", "told"} =>
               cost = IF vendor.path = "stream" /\ ~streamed.seen THEN Unset ELSE CostNow
      BY DEF AnswerInv, CostTrue, CostNow
    <3>2. /\ answerStage' \in {"arriving", "read", "failed", "raised"} => cost' = Unset
          /\ answerStage' \in {"costed", "told"} =>
               cost' = IF vendor'.path = "stream" /\ ~streamed'.seen THEN Unset ELSE CostNow'
      BY <2>1, <2>3, <3>1
    <3>. QED
      BY <3>2 DEF CostTrue, CostNow
  <2>7. ToldTrue'
    <3>1. answerStage = "told" => vendor.path \in {"whole", "stream"} /\ told = ToldNow
      BY DEF AnswerInv, ToldTrue, ToldNow
    <3>2. answerStage' = "told" => vendor'.path \in {"whole", "stream"} /\ told' = ToldNow'
      BY <2>1, <2>3, <3>1
    <3>. QED
      BY <3>2 DEF ToldTrue, ToldNow
  <2>. QED
    BY <2>1, <2>2, <2>5, <2>6, <2>7 DEF AnswerInv
<1>. QED
  BY <1>1, <1>2, <1>3, <1>4, <1>5, <1>6, <1>7 DEF Answers!Next

\* A text that was written with an answer is what is read of it, in the vendor's own pieces.
LEMMA TextIsRead ==
  ASSUME VendorOk, vendor.path = "whole", vendor.shape # "blocked", vendor.parts # <<>>
  PROVE  vendor.parts[Answers!Reading.text] = Answers!Text
<1>0. PICK kind \in Answers!Kinds : \E path \in Answers!Paths(kind) :
        vendor.kind = kind /\ vendor.path = path /\ vendor.parts \in Answers!Written(kind, path)
  BY DEF VendorOk
<1>1. /\ vendor.kind \in {"anthropic", "openai_compat", "google"}
      /\ vendor.parts \in {<<Answers!Text>>, <<Answers!Thought, Answers!Text>>}
  BY <1>0 DEF Answers!Written, Answers!Kinds
<1>2. /\ Answers!Text.type = "text" /\ Answers!Thought.type # "text"
      /\ ~Answers!Text.thought /\ Answers!Thought.thought
  BY DEF Answers!Text, Answers!Thought
<1>. DEFINE typed == {i \in DOMAIN vendor.parts : vendor.parts[i].type = "text"}
            shown == {i \in DOMAIN vendor.parts : ~vendor.parts[i].thought}
<1>3. PICK n \in {1, 2} : typed = {n} /\ shown = {n} /\ vendor.parts[n] = Answers!Text
  <2>1. CASE vendor.parts = <<Answers!Text>>
    <3>1. DOMAIN vendor.parts = {1} /\ vendor.parts[1] = Answers!Text
      BY <2>1
    <3>. QED
      BY <1>2, <3>1
  <2>2. CASE vendor.parts = <<Answers!Thought, Answers!Text>>
    <3>1. DOMAIN vendor.parts = {1, 2} /\ vendor.parts[1] = Answers!Thought /\ vendor.parts[2] = Answers!Text
      BY <2>2
    <3>. QED
      BY <1>2, <3>1
  <2>. QED
    BY <1>1, <2>1, <2>2
<1>4. \A S : S = {n} => (IF S = {} THEN Unset ELSE CHOOSE i \in S : \A j \in S : i <= j) = n
  <2>1. \A i \in {n} : \A j \in {n} : i <= j
    OBVIOUS
  <2>. QED
    BY <2>1
<1>5. Answers!AnthropicRead.text = n
  BY <1>3, <1>4 DEF Answers!AnthropicRead, Answers!FirstText
<1>6. Answers!OpenAIRead.text = n
  BY <1>3, <1>4 DEF Answers!OpenAIRead, Answers!FirstText
<1>7. Answers!GoogleRead.text = n
  BY <1>3, <1>4 DEF Answers!GoogleRead, Answers!FirstText
<1>8. Answers!Reading.text = n
  BY <1>1, <1>5, <1>6, <1>7 DEF Answers!Reading
<1>. QED
  BY <1>3, <1>8

\* Why the vendor says an answer ended, in the caller's words.
LEMMA EndingIsTold ==
  ASSUME VendorOk, vendor.path = "whole"
  PROVE  Answers!FinishReason(Answers!Reading.finish) = Answers!Ending("openai_compat")[vendor.ended]
<1>0. PICK kind \in Answers!Kinds : \E path \in Answers!Paths(kind) :
        /\ vendor.kind = kind /\ vendor.path = path
        /\ vendor.ended \in (IF Answers!Written(kind, path) = {<<>>} THEN {"done"}
                             ELSE {"done", "cut", "filtered"})
  BY DEF VendorOk
<1>1. vendor.kind \in {"anthropic", "openai_compat", "google", "decisions"}
  BY <1>0 DEF Answers!Paths, Answers!Kinds
<1>2. vendor.ended \in {"done", "cut", "filtered"}
  BY <1>0
<1>3. vendor.kind = "decisions" => vendor.ended = "done"
  BY <1>0 DEF Answers!Written
<1>4. CASE vendor.kind = "anthropic"
  <2>1. Answers!Reading.finish = Answers!Ending("anthropic")[vendor.ended]
    BY <1>4 DEF Answers!Reading, Answers!AnthropicRead
  <2>. QED
    BY <1>2, <2>1 DEF Answers!FinishReason, Answers!Ending
<1>5. CASE vendor.kind = "openai_compat"
  <2>1. Answers!Reading.finish = Answers!Ending("openai_compat")[vendor.ended]
    BY <1>5 DEF Answers!Reading, Answers!OpenAIRead
  <2>. QED
    BY <1>2, <2>1 DEF Answers!FinishReason, Answers!Ending
<1>6. CASE vendor.kind = "google"
  <2>1. Answers!Reading.finish = Answers!Ending("google")[vendor.ended]
    BY <1>6 DEF Answers!Reading, Answers!GoogleRead
  <2>. QED
    BY <1>2, <2>1 DEF Answers!FinishReason, Answers!Ending
<1>7. CASE vendor.kind = "decisions"
  <2>1. Answers!Reading.finish = "stop"
    BY <1>7 DEF Answers!Reading, Answers!DecisionsRead
  <2>. QED
    BY <1>3, <1>7, <2>1 DEF Answers!FinishReason, Answers!Ending
<1>. QED
  BY <1>1, <1>4, <1>5, <1>6, <1>7

\* A cost that is known is the bill at the rates of the model that answered.
LEMMA CostIsCharge ==
  ASSUME AnswerInv, Answers!HasCounts, cost # Unset
  PROVE  \E priced \in {vendor.models.returned, vendor.models.requested} \ {Unset} :
           /\ Answers!HasRates(priced) /\ cost = Answers!Charge(priced)
           /\ vendor.models.returned # Unset => priced = vendor.models.returned
<1>1. answerStage \in {"costed", "told"}
  BY DEF AnswerInv, CostTrue
<1>2. vendor.path = "stream" => streamed.seen
  BY DEF Answers!HasCounts
<1>. DEFINE E == Answers!Entry
<1>3. cost = Answers!CostUsd(read.usage, E)
  BY <1>1, <1>2 DEF AnswerInv, CostTrue
<1>4. read.usage = TrueUsage
  BY <1>1 DEF AnswerInv, ReadTrue
<1>5. cost = Answers!CostUsd(TrueUsage, E)
  BY <1>3, <1>4
<1>6. vendor.models.returned # Unset => vendor.models.named
  BY DEF AnswerInv, VendorOk
<1>7. vendor.path # "raw" /\ vendor.models.named => read.named
  BY <1>1 DEF AnswerInv, ReadTrue
<1>8. E \in {vendor.models.returned, vendor.models.requested, Unset}
  BY DEF Answers!Entry
<1>9. E # Unset /\ vendor.models.returned # Unset => E = vendor.models.returned
  BY <1>6, <1>7 DEF Answers!Entry
<1>10. PICK b : b = vendor.bill
  OBVIOUS
<1>11. /\ TrueUsage.plain = b.plain /\ TrueUsage.read = b.read /\ TrueUsage.written = b.written
       /\ TrueUsage.output = b.output + b.thoughts
  BY <1>10 DEF TrueUsage
<1>12. /\ TrueUsage["plain"] = b.plain /\ TrueUsage["read"] = b.read
       /\ TrueUsage["written"] = b.written /\ TrueUsage["output"] = b.output + b.thoughts
  BY <1>11
<1>. HIDE DEF E
<1>13. /\ E # Unset
       /\ ~\E c \in {"read", "written"} : TrueUsage[c] > 0 /\ E[c] = Unset
       /\ vendor.path = "batch" => E["batch"] # Unset
  BY <1>5 DEF Answers!CostUsd
<1>14. Answers!HasRates(E)
  BY <1>10, <1>12, <1>13 DEF Answers!HasRates
<1>15. Answers!CostUsd(TrueUsage, E) = Answers!Charge(E)
  BY <1>10, <1>12, <1>13 DEF Answers!CostUsd, Answers!Charge
<1>. QED
  BY <1>5, <1>8, <1>9, <1>13, <1>14, <1>15

\* An answer without counts that was taken for one costs nothing, and a whole one has the shape
\* of an answer.
LEMMA FreeIsUncounted ==
  ASSUME AnswerInv, ~Answers!HasCounts, cost # Unset
  PROVE  cost = 0 /\ (vendor.path = "whole" => vendor.shape = "uncounted")
<1>1. answerStage \in {"costed", "told"}
  BY DEF AnswerInv, CostTrue
<1>2. vendor.path # "stream"
  BY <1>1 DEF AnswerInv, CostTrue, Answers!HasCounts
<1>. DEFINE E == Answers!Entry
<1>3. cost = Answers!CostUsd(Answers!NoUsage, E)
  BY <1>1, <1>2 DEF AnswerInv, CostTrue, ReadTrue
<1>4. E # Unset /\ (vendor.path = "batch" => E["batch"] # Unset)
  <2>. HIDE DEF E
  <2>. QED
    BY <1>3 DEF Answers!CostUsd
<1>5. E \in Rates
  <2>1. vendor.models \in Answers!Models
    BY DEF AnswerInv, VendorOk
  <2>2. vendor.models.returned \in Rates \cup {Unset} /\ vendor.models.requested \in Rates \cup {Unset}
    BY <2>1 DEF Answers!Models
  <2>. QED
    BY <1>4, <2>2 DEF Answers!Entry
<1>6. vendor.path = "batch" => E["batch"] \in Nat
  BY <1>4, <1>5, PartsAssumption DEF Answers!VendorAnswersAssumption
<1>. HIDE DEF E
<1>7. cost = 0
  <2>1. /\ Answers!NoUsage["plain"] = 0 /\ Answers!NoUsage["read"] = 0
        /\ Answers!NoUsage["written"] = 0 /\ Answers!NoUsage["output"] = 0
    BY DEF Answers!NoUsage
  <2>2. cost = IF vendor.path = "batch" THEN 0 * E["batch"] ELSE 0
    BY <1>3, <1>4, <2>1 DEF Answers!CostUsd
  <2>. QED
    BY <1>6, <2>2
<1>8. ASSUME vendor.path = "whole"
      PROVE  vendor.shape = "uncounted"
  <2>1. vendor.shape \in Answers!Reading.read
    BY <1>1, <1>8 DEF AnswerInv, ReadTrue
  <2>2. Answers!Reading.read \subseteq {"answer", "uncounted", "blocked"}
    BY DEF Answers!Reading, Answers!AnthropicRead, Answers!OpenAIRead, Answers!GoogleRead,
           Answers!DecisionsRead, Answers!DocIntelRead
  <2>. QED
    BY <1>2, <2>1, <2>2 DEF Answers!HasCounts
<1>. QED
  BY <1>7, <1>8

\* What the caller is told counts the bill.
LEMMA UsageIsTold ==
  ASSUME AnswerInv, Answers!HasCounts, answerStage = "told"
  PROVE  /\ told.usage.total_tokens = told.usage.prompt_tokens + told.usage.completion_tokens
         /\ told.usage.completion_tokens = vendor.bill.output + vendor.bill.thoughts
         /\ told.usage.prompt_tokens = vendor.bill.plain + vendor.bill.read + vendor.bill.written
         /\ Answers!OpenAIUsage(told.usage) = read.usage
<1>1. PICK b \in Answers!Bills : b = vendor.bill
  BY UsageIs DEF AnswerInv
<1>2. b.plain \in Nat /\ b.read \in Nat /\ b.written \in Nat /\ b.output \in Nat /\ b.thoughts \in Nat
  BY DEF Answers!Bills
<1>3. read.usage = [plain |-> b.plain, read |-> b.read, written |-> b.written, output |-> b.output + b.thoughts]
  BY <1>1 DEF AnswerInv, ReadTrue, TrueUsage
<1>4. told.usage = Answers!Told(read.usage)
  BY DEF AnswerInv, ToldTrue
<1>5. told.usage = [prompt_tokens |-> b.plain + b.read + b.written, cached_tokens |-> b.read,
                    cache_write_tokens |-> b.written, completion_tokens |-> b.output + b.thoughts,
                    total_tokens |-> (b.plain + b.read + b.written) + (b.output + b.thoughts)]
  BY <1>3, <1>4 DEF Answers!Told
<1>6. Answers!Less(b.plain + b.read + b.written, b.read + b.written) = b.plain
  BY <1>2 DEF Answers!Less
<1>7. Answers!OpenAIUsage(told.usage) = read.usage
  BY <1>3, <1>5, <1>6 DEF Answers!OpenAIUsage
<1>. QED
  BY <1>1, <1>5, <1>7

\* So what the vendor bills is what is costed and told.
LEMMA AnswersAreCounted == AnswerInv => Answers!BilledIsCounted
<1>. SUFFICES ASSUME AnswerInv PROVE Answers!BilledIsCounted
  OBVIOUS
<1>1. answerStage = "raised" \/ (vendor.path = "stream" /\ ~Answers!HasCounts) => cost = Unset
  BY DEF AnswerInv, CostTrue, Answers!HasCounts
<1>2. ASSUME answerStage = "told", vendor.path = "whole"
      PROVE  IF vendor.shape = "blocked" THEN told.text = Unset
             ELSE /\ vendor.parts # <<>> => vendor.parts[told.text] = Answers!Text
                  /\ told.finish = Answers!Ending("openai_compat")[vendor.ended]
  <2>0. vendor.shape # "other"
    <3>1. vendor.shape \in Answers!Reading.read
      BY <1>2 DEF AnswerInv, ReadTrue
    <3>2. "other" \notin Answers!Reading.read
      BY DEF Answers!Reading, Answers!AnthropicRead, Answers!OpenAIRead, Answers!GoogleRead,
             Answers!DecisionsRead, Answers!DocIntelRead
    <3>. QED
      BY <3>1, <3>2
  <2>1. /\ read.text = Answers!Reading.text
        /\ read.finish = (IF vendor.shape = "blocked" THEN "blocked" ELSE Answers!Reading.finish)
    BY <1>2, <2>0 DEF AnswerInv, ReadTrue
  <2>2. told.text = read.text /\ told.finish = Answers!FinishReason(read.finish)
    BY <1>2 DEF AnswerInv, ToldTrue
  <2>3. CASE vendor.shape = "blocked"
    <3>0. PICK kind \in Answers!Kinds : \E path \in Answers!Paths(kind) :
            /\ vendor.kind = kind /\ vendor.path = path
            /\ vendor.shape \in (IF path = "stream" THEN {"answer"} ELSE Answers!Shapes(kind, path))
      BY DEF AnswerInv, VendorOk
    <3>1. vendor.kind = "google"
      BY <1>2, <2>3, <3>0 DEF Answers!Shapes
    <3>2. Answers!Reading.text = Unset
      BY <2>3, <3>1 DEF Answers!Reading, Answers!GoogleRead
    <3>. QED
      BY <2>1, <2>2, <2>3, <3>2
  <2>4. CASE vendor.shape # "blocked"
    BY <1>2, <2>1, <2>2, <2>4, TextIsRead, EndingIsTold DEF AnswerInv
  <2>. QED
    BY <2>3, <2>4
<1>3. Answers!HasCounts /\ cost # Unset =>
        \E priced \in {vendor.models.returned, vendor.models.requested} \ {Unset} :
           /\ Answers!HasRates(priced) /\ cost = Answers!Charge(priced)
           /\ vendor.models.returned # Unset => priced = vendor.models.returned
  BY CostIsCharge
<1>4. answerStage = "told" /\ Answers!HasCounts =>
         /\ told.usage.total_tokens = told.usage.prompt_tokens + told.usage.completion_tokens
         /\ told.usage.completion_tokens = vendor.bill.output + vendor.bill.thoughts
         /\ told.usage.prompt_tokens = vendor.bill.plain + vendor.bill.read + vendor.bill.written
         /\ Answers!OpenAIUsage(told.usage) = read.usage
  BY UsageIsTold
<1>5. ~Answers!HasCounts /\ cost # Unset =>
         cost = 0 /\ (vendor.path = "whole" => vendor.shape = "uncounted")
  BY FreeIsUncounted
<1>. QED
  BY <1>1, <1>2, <1>3, <1>4, <1>5 DEF Answers!BilledIsCounted

\* Of every request, of any number of messages: what a provider is sent carries each of the
\* caller's texts in order under its role and each setting as it was set, or the request is
\* refused; and of every answer, in whichever words and pieces it came, the row costs what the
\* vendor bills and the caller is told its counts, its text and its end (parse_request, the
\* adapters, OpenAIStreamParser, _finish, completion_body).  What is taken for an answer without
\* counts costs nothing, be it a batch's object of any shape.
THEOREM WireIsFaithfulAlways == PartsSpec => []WireIsFaithful
<1>. DEFINE Inv == (part = "wire" => WireInv) /\ (part = "answers" => AnswerInv)
<1>1. PartsInit => Inv
  BY WireStart, AnswersStart, EachPartStarts
<1>2. Inv /\ [PartsNext]_partsVars => Inv'
  <2>1. ASSUME part = "wire" => WireInv, [PartsNext]_partsVars, part' = "wire"
        PROVE  WireInv'
    BY <2>1, OnePartActs, WireStep
  <2>2. ASSUME part = "answers" => AnswerInv, [PartsNext]_partsVars, part' = "answers"
        PROVE  AnswerInv'
    BY <2>2, OnePartActs, AnswersStep
  <2>. QED
    BY <2>1, <2>2
<1>3. Inv => WireIsFaithful
  BY RequestsAreCarried, AnswersAreCounted DEF WireIsFaithful
<1>. QED
  BY <1>1, <1>2, <1>3, PTL DEF PartsSpec
=============================================================================
