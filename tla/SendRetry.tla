------------------------------ MODULE SendRetry ------------------------------
(***************************************************************************)
(* One call of the gateway from its row to its end (boundary/gateway.py,   *)
(* boundary/transport.py): the attempts of _send_async and _stream_async   *)
(* and of their synchronous twins, the text a stream hands to on_text, and *)
(* _finish, which writes what happened before anything is raised.          *)
(*                                                                         *)
(*   ready -> waiting -> body <-> chunk;  finish -> returned | raised      *)
(*     ^----- backoff <-----/                    escaped, from waiting     *)
(*                                               and body                  *)
(*                                                                         *)
(* The host is external.  A piece of text is named by its attempt and its  *)
(* place in it.                                                            *)
(***************************************************************************)
EXTENDS Naturals, Sequences, SequencesExt

CONSTANTS
  MaxAttempts,  \* retry.max_attempts
  MaxEvents,    \* bound: events of a stream
  Faults        \* what may go wrong below HTTP: "lost", an error of TRANSPORT_ERRORS, and
                \* "protocol", any other error of httpx

ASSUME SendAssumption ==
  MaxAttempts \in Nat \ {0} /\ MaxEvents \in Nat /\ Faults \subseteq {"lost", "protocol"}

Calls == [api : {"chat", "raw", "stream"}, passthrough : BOOLEAN, stored : BOOLEAN,
          onText : BOOLEAN, strict : BOOLEAN, priced : BOOLEAN]

\* _prepare refuses a stream in pass-through; the development cache answers only standard
\* calls to chat.
Allowed(c) ==
  /\ c.passthrough => c.api # "stream" /\ ~c.stored
  /\ c.stored => c.api = "chat"
  /\ c.onText => c.api = "stream"

VARIABLES
  call,      \* the call, chosen by Init
  at,        \* where it is
  attempt,   \* the attempt
  sent,      \* requests handed to the host
  result,    \* the HttpResult's status, or "none"
  error,     \* error_type: "none", "transport", "malformed", "http"
  parser,    \* the attempt's StreamParser, SSEDecoder and _StreamState
  handed,    \* the pieces on_text was given
  held,      \* call.on_text_error: on_text raised
  row        \* the ledger row

vars == <<call, at, attempt, sent, result, error, parser, handed, held, row>>

Statuses == {"ok", "retry", "refused"}   \* 2xx, one of RETRY_STATUSES, any other

\* _stream_attempt
Fresh == [text |-> <<>>, drained |-> 0, received |-> FALSE, open |-> "none", events |-> 0,
          usage |-> FALSE, bad |-> FALSE, first |-> 0]

NewRow == [state |-> "in_flight", retries |-> 0, cost |-> "none", error |-> "none",
           first |-> 0]

Init ==
  /\ call \in {c \in Calls : Allowed(c)}
  /\ at = IF call.stored THEN "finish" ELSE "ready"
  /\ attempt = 1 /\ sent = 0
  /\ result = (IF call.stored THEN "ok" ELSE "none") /\ error = "none"
  /\ parser = Fresh /\ handed = <<>> /\ held = FALSE /\ row = NewRow

Streamed == call.api = "stream"

-----------------------------------------------------------------------------
(* Attempts                                                                *)

Send ==
  /\ at = "ready"
  /\ sent' = sent + 1
  /\ at' = "waiting"
  /\ parser' = Fresh
  /\ UNCHANGED <<call, attempt, result, error, handed, held, row>>

\* The loop goes on to its next attempt, or the call is finished with this one.
RetryOrFinish ==
  at' = IF attempt < MaxAttempts /\ ~call.passthrough THEN "backoff" ELSE "finish"

\* _backoff, and the sleep.
BackOff ==
  /\ at = "backoff"
  /\ attempt' = attempt + 1
  /\ at' = "ready"
  /\ UNCHANGED <<call, sent, result, error, parser, handed, held, row>>

\* A whole response.  A stream's body is read apart when its status is 2xx.
Respond ==
  /\ at = "waiting"
  /\ \E status \in Statuses :
       /\ result' = status
       /\ \/ Streamed /\ status = "ok" /\ at' = "body"
          \/ status = "retry" /\ RetryOrFinish
          \/ ~(Streamed /\ status = "ok") /\ status # "retry" /\ at' = "finish"
  /\ error' = "none"
  /\ UNCHANGED <<call, attempt, sent, parser, handed, held, row>>

\* Mutant of Lose: a stream that has begun is sent again.
LoseRetried ==
  /\ "lost" \in Faults /\ at \in {"waiting", "body"}
  /\ result' = "none" /\ error' = "transport"
  /\ RetryOrFinish
  /\ UNCHANGED <<call, attempt, sent, parser, handed, held, row>>

\* No response, or none to the end, by an error of TRANSPORT_ERRORS.  A stream that has begun
\* is not sent again.
Lose ==
  /\ "lost" \in Faults /\ at \in {"waiting", "body"}
  /\ result' = "none" /\ error' = "transport"
  /\ IF parser.received THEN at' = "finish" ELSE RetryOrFinish
  /\ UNCHANGED <<call, attempt, sent, parser, handed, held, row>>

\* An error of httpx that is not one of TRANSPORT_ERRORS leaves every loop.
Escape ==
  /\ "protocol" \in Faults /\ at \in {"waiting", "body"}
  /\ at' = "escaped"
  /\ UNCHANGED <<call, attempt, sent, result, error, parser, handed, held, row>>

-----------------------------------------------------------------------------
(* The body of a stream: its chunks, events and text.                      *)

Kinds == {"text", "usage", "bad", "other"}

\* StreamParser.feed of one event, and the first-token time.
Fed(p, kind) ==
  [p EXCEPT !.events = @ + 1,
            !.text = IF kind = "text" THEN Append(@, <<attempt, Len(@) + 1>>) ELSE @,
            !.usage = @ \/ kind = "usage",
            !.bad = @ \/ kind = "bad",
            !.first = IF kind = "text" /\ @ = 0 THEN attempt ELSE @]

\* _hand_text: what was fed since the last piece, until on_text raises.
Hand(p) ==
  LET piece == SubSeq(p.text, p.drained + 1, Len(p.text))
  IN  IF ~call.onText \/ held THEN parser' = p /\ UNCHANGED <<handed, held>>
      ELSE /\ parser' = [p EXCEPT !.drained = Len(p.text)]
           /\ IF piece = <<>> THEN UNCHANGED <<handed, held>>
              ELSE /\ handed' = handed \o piece
                   /\ held' \in BOOLEAN

\* A chunk: bytes of the body.
Chunk ==
  /\ at = "body"
  /\ at' = "chunk"
  /\ parser' = [parser EXCEPT !.received = TRUE]
  /\ UNCHANGED <<call, attempt, sent, result, error, handed, held, row>>

\* _feed: an event the chunk completes, first of all the one left open by the one before.
Feed ==
  /\ at = "chunk" /\ parser.events < MaxEvents
  /\ \E kind \in Kinds :
       /\ parser.open \in {"none", kind}
       /\ parser' = [Fed(parser, kind) EXCEPT !.open = "none"]
  /\ UNCHANGED <<call, at, attempt, sent, result, error, handed, held, row>>

\* The chunk's text is handed on.  What is left of it is the start of an event.
HandText ==
  /\ at = "chunk"
  /\ \E open \in Kinds \cup {"none"} :
       /\ parser.open # "none" => open = parser.open
       /\ open # "none" => parser.events < MaxEvents
       /\ Hand([parser EXCEPT !.open = open])
  /\ at' = "body"
  /\ UNCHANGED <<call, attempt, sent, result, error, row>>

\* Mutants of EndBody: the last event's text is not handed on; a body is read no further once
\* on_text has raised.
EndBodyUnhanded ==
  /\ at = "body"
  /\ parser' = IF parser.open = "none" THEN parser
               ELSE [Fed(parser, parser.open) EXCEPT !.open = "none"]
  /\ at' = "finish"
  /\ UNCHANGED <<call, attempt, sent, result, error, handed, held, row>>
EndBodyUnlessHeld ==
  /\ at = "body" /\ ~held
  /\ Hand(IF parser.open = "none" THEN parser
          ELSE [Fed(parser, parser.open) EXCEPT !.open = "none"])
  /\ at' = "finish"
  /\ UNCHANGED <<call, attempt, sent, result, error, row>>

\* The body ends: an event closed by the connection and not by a blank line is fed
\* (_stream_settle), and its text handed on.
EndBody ==
  /\ at = "body"
  /\ Hand(IF parser.open = "none" THEN parser
          ELSE [Fed(parser, parser.open) EXCEPT !.open = "none"])
  /\ at' = "finish"
  /\ UNCHANGED <<call, attempt, sent, result, error, row>>

-----------------------------------------------------------------------------
(* _finish                                                                 *)

\* StreamParser.result, parse_response: whether the 2xx response can be read.
Readable(malformed) ==
  IF Streamed THEN ~parser.bad /\ parser.events > 0 ELSE ~malformed

\* Mutant of Cost: a stream whose usage never came is priced.
CostUncounted(readable) ==
  IF call.stored THEN "zero" ELSE IF readable /\ call.priced THEN "priced" ELSE "none"

\* None where the price or the usage is not known; raw() prices what it can read.
Cost(readable) ==
  CASE call.stored -> "zero"
    [] ~call.stored /\ readable /\ call.priced /\ (Streamed => parser.usage) -> "priced"
    [] OTHER -> "none"

ErrorType(readable) ==
  CASE result = "none" -> error
    [] result = "ok"   -> IF readable \/ call.api = "raw" THEN "none" ELSE "malformed"
    [] OTHER           -> "http"

\* The row is written, and then the errors are raised in this order: an unknown price, the
\* call's failure in standard mode, the one on_text raised.
Finish ==
  /\ at = "finish"
  /\ \E malformed \in BOOLEAN :
       LET readable == result = "ok" /\ Readable(malformed)
           fails    == ErrorType(readable) # "none"
       IN  /\ row' = [state |-> "complete", retries |-> attempt - 1, cost |-> Cost(readable),
                      error |-> ErrorType(readable), first |-> parser.first]
           /\ at' = IF \/ call.api # "raw" /\ readable /\ Cost(readable) = "none" /\ call.strict
                       \/ call.api # "raw" /\ fails /\ ~call.passthrough
                       \/ held
                    THEN "raised" ELSE "returned"
  /\ UNCHANGED <<call, attempt, sent, result, error, parser, handed, held>>

-----------------------------------------------------------------------------
Step == Send \/ BackOff \/ Respond \/ HandText \/ Finish
Next == Step \/ EndBody \/ Lose \/ Escape \/ Chunk \/ Feed

\* The process runs on, and the host answers or the transport's timeouts end the wait.  A body
\* ends, since an answer is at most max_tokens long.
Spec == Init /\ [][Next]_vars /\ WF_vars(Step) /\ SF_vars(EndBody)

Ended == {"returned", "raised", "escaped"}

TypeOK ==
  /\ call \in Calls /\ Allowed(call)
  /\ at \in {"ready", "waiting", "backoff", "body", "chunk", "finish"} \cup Ended
  /\ attempt \in 1 .. MaxAttempts /\ sent \in 0 .. MaxAttempts
  /\ result \in Statuses \cup {"none"}
  /\ error \in {"none", "transport"}
  /\ parser.drained \in 0 .. Len(parser.text) /\ parser.events \in 0 .. MaxEvents
  /\ held \in BOOLEAN
  /\ row.state \in {"in_flight", "complete"} /\ row.retries \in 0 .. MaxAttempts - 1
  /\ row.cost \in {"none", "zero", "priced"}
  /\ row.error \in {"none", "transport", "malformed", "http"}

\* No request is sent after a byte of a stream's body has arrived, or a piece was handed on,
\* or on_text raised: the host may bill for what it sent (_stream_sync).
NotSentAgain ==
  [][sent' # sent => ~parser.received /\ handed = <<>> /\ ~held]_vars

\* Nothing is handed on after on_text raised.
RaisedOnce == [][held => held' /\ handed' = handed]_vars

AfterTheFirstByte == NotSentAgain /\ RaisedOnce

\* Pass-through makes exactly one attempt, any call at most max_attempts, and the row's count
\* of retries is one less than the requests sent (_send_retrying, _send_sync).
AttemptsAreCounted ==
  /\ call.passthrough => sent <= 1
  /\ row.state = "complete" => row.retries = (IF sent = 0 THEN 0 ELSE sent - 1)

\* The pieces on_text was given are the text of the attempt that is the answer, from its
\* start and in order; all of it when the call returns, and of any call that ends in a whole
\* stream unless on_text raised; and on_text is given nothing after it raised (chat_stream).
PiecesAreText ==
  call.onText =>
    /\ IsPrefix(handed, parser.text)
    /\ at = "returned" => handed = parser.text
    /\ row.state = "complete" /\ result = "ok" /\ ~held => handed = parser.text

\* A call ends with its row complete, whatever the host, the transport and on_text did.
RowIsWritten == at \in Ended => row.state = "complete"

\* A price is on a row only if its last attempt was answered and the answer could be read and
\* counted, and then the row has no error; a first-token time is the last attempt's own.
RowSaysWhatHappened ==
  row.state = "complete" =>
    /\ row.cost = "priced" => result = "ok" /\ row.error = "none" /\ (Streamed => parser.usage)
    /\ row.error = "none" => result = "ok"
    /\ row.first # 0 => row.first = attempt /\ parser.text # <<>>

\* A call that returns or raises from _finish has a complete row that says so truly; one that
\* escaped has the row it began with.
RowIsTrue ==
  /\ TypeOK /\ AttemptsAreCounted /\ RowSaysWhatHappened
  /\ at \in {"returned", "raised"} => row.state = "complete"
  /\ at = "escaped" => row = NewRow

\* Every call ends.
EveryCallEnds == <>(at \in Ended)
=============================================================================
