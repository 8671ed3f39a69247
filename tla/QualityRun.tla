------------------------------ MODULE QualityRun ------------------------------
(***************************************************************************)
(* The measurement of what redaction costs in quality                      *)
(* (boundary/redact/quality.py, its command in boundary/cli.py): collect   *)
(* asks vendors for answers and judge asks one for verdicts on them, a few *)
(* at a time, up to a sum of money, each result appended to a file as it   *)
(* comes.  Either may be killed and started again, one at a time.          *)
(*                                                                         *)
(*   idle -> collect -> idle;  idle -> judge -> idle;  Kill -> idle        *)
(*                                                                         *)
(* The vendors and 03's grading are external; each answer costs one.       *)
(***************************************************************************)
EXTENDS Naturals, Sequences, FiniteSets, SequencesExt

CONSTANTS
  Keys,         \* the answers a part needs, by answer_key
  Concurrency,
  MaxUsd,       \* --max-usd
  ChunkSize,    \* verdicts stored together
  MaxKills,     \* bound: runs that are killed or raise
  MaxErrors     \* bound: answers that fail

QualityAssumption ==
  /\ IsFiniteSet(Keys)
  /\ {Concurrency, MaxUsd, ChunkSize} \subseteq Nat \ {0}
  /\ {MaxKills, MaxErrors} \subseteq Nat

VARIABLES
  answers,   \* answers.jsonl: key and status of each line, and whether it has an output
  verdicts,  \* verdicts.jsonl: the key of each line, and the line of answers it is about
  run,       \* the process: its step, what is left to ask, what is asked, dollars spent,
             \* and judge's chunk with the replies to it, in the order they came
  asks,      \* history: how often a vendor was paid, per step and key
  lost,      \* history: how often what was paid for was lost with its process
  bad        \* history: runs lost, answers failed

vars == <<answers, verdicts, run, asks, lost, bad>>

Steps == {"collect", "judge"}
Idle == [step |-> "idle", todo |-> {}, asked |-> {}, spent |-> 0, chunk |-> {}, replies |-> <<>>]
Never == [s \in Steps |-> [k \in Keys |-> 0]]

Init ==
  /\ answers = <<>> /\ verdicts = <<>> /\ run = Idle
  /\ asks = Never /\ lost = Never
  /\ bad = [kills |-> 0, errors |-> 0]

-----------------------------------------------------------------------------
\* read_answers and read_verdicts: the last line of a key counts.
Lines(file, k) == {i \in DOMAIN file : file[i].key = k}
Stored(k) == Lines(answers, k) # {}
LineOf(k) == CHOOSE i \in Lines(answers, k) : \A j \in Lines(answers, k) : j <= i
Ok(k) == Stored(k) /\ answers[LineOf(k)].status = "200" /\ answers[LineOf(k)].output

Paid(step, k) == asks' = [asks EXCEPT ![step][k] = @ + 1]
Free == Cardinality(run.asked) < Concurrency

\* collect: what is not stored with an answer or a refusal is asked for.
AnsweredOnly(k) == Ok(k) \/ (Stored(k) /\ answers[LineOf(k)].status = "422")
Settled(k) == Stored(k) /\ answers[LineOf(k)].status \in {"200", "422"}

StartCollect ==
  /\ run.step = "idle"
  /\ run' = [Idle EXCEPT !.step = "collect", !.todo = {k \in Keys : ~Settled(k)}]
  /\ UNCHANGED <<answers, verdicts, asks, lost, bad>>

\* A job's turn: nothing more is sent once the money is spent.
Ask(k) ==
  /\ run.step = "collect" /\ k \in run.todo /\ Free
  /\ run' = [run EXCEPT !.todo = @ \ {k},
                        !.asked = IF run.spent < MaxUsd THEN @ \cup {k} ELSE @]
  /\ UNCHANGED <<answers, verdicts, asks, lost, bad>>

\* _answer: refused by the guard, failed, or answered, with or without a text.
Store(k, line) ==
  /\ run.step = "collect" /\ k \in run.asked
  /\ answers' = Append(answers, line)
Refuse(k) ==
  /\ Store(k, [key |-> k, status |-> "422", output |-> FALSE])
  /\ run' = [run EXCEPT !.asked = @ \ {k}]
  /\ UNCHANGED <<verdicts, asks, lost, bad>>
Fail(k) ==
  /\ bad.errors < MaxErrors
  /\ Store(k, [key |-> k, status |-> "error", output |-> FALSE])
  /\ run' = [run EXCEPT !.asked = @ \ {k}]
  /\ bad' = [bad EXCEPT !.errors = @ + 1]
  /\ UNCHANGED <<verdicts, asks, lost>>
Answer(k) ==
  /\ \E output \in BOOLEAN : Store(k, [key |-> k, status |-> "200", output |-> output])
  /\ run' = [run EXCEPT !.asked = @ \ {k}, !.spent = @ + 1]
  /\ Paid("collect", k)
  /\ UNCHANGED <<verdicts, lost, bad>>

EndCollect ==
  /\ run.step = "collect" /\ run.todo = {} /\ run.asked = {}
  /\ run' = Idle
  /\ UNCHANGED <<answers, verdicts, asks, lost, bad>>

-----------------------------------------------------------------------------
\* judge: the stored answers without a verdict, chunk by chunk.
Chunks(todo) == {c \in SUBSET todo : c # {} /\ Cardinality(c) = (IF Cardinality(todo) < ChunkSize
                                                            THEN Cardinality(todo) ELSE ChunkSize)}
Unjudged == {k \in Keys : Ok(k) /\ Lines(verdicts, k) = {}}

StartJudge ==
  /\ run.step = "idle" /\ Unjudged # {}
  /\ run' = [Idle EXCEPT !.step = "judge", !.todo = Unjudged]
  /\ UNCHANGED <<answers, verdicts, asks, lost, bad>>

StartChunk ==
  /\ run.step = "judge" /\ run.chunk = {} /\ run.asked = {} /\ run.replies = <<>>
  /\ \E c \in Chunks(run.todo) : run' = [run EXCEPT !.chunk = c, !.todo = @ \ c]
  /\ UNCHANGED <<answers, verdicts, asks, lost, bad>>

AskJudge(k) ==
  /\ run.step = "judge" /\ k \in run.chunk /\ Free
  /\ run' = [run EXCEPT !.chunk = @ \ {k},
                        !.asked = IF run.spent < MaxUsd THEN @ \cup {k} ELSE @]
  /\ UNCHANGED <<answers, verdicts, asks, lost, bad>>

\* A call that failed is a reply without a text, graded as it is and never asked again.
Reply(k) ==
  /\ run.step = "judge" /\ k \in run.asked
  /\ run' = [run EXCEPT !.asked = @ \ {k}, !.spent = @ + 1, !.replies = Append(@, k)]
  /\ Paid("judge", k)
  /\ UNCHANGED <<answers, verdicts, lost, bad>>

\* The verdicts come back in the order of the replies.
ChunkDone == run.step = "judge" /\ run.chunk = {} /\ run.asked = {}
StoreInOrder ==
  /\ ChunkDone /\ run.replies # <<>>
  /\ LET keys == SortSeq(run.replies, LAMBDA a, b : LineOf(a) < LineOf(b))
     IN  verdicts' = verdicts \o [i \in DOMAIN keys |->
                                    [key |-> keys[i], about |-> LineOf(run.replies[i])]]
  /\ run' = [run EXCEPT !.replies = <<>>]
  /\ UNCHANGED <<answers, asks, lost, bad>>
StoreChunk ==
  /\ ChunkDone /\ run.replies # <<>>
  /\ verdicts' = verdicts \o [i \in DOMAIN run.replies |->
                                [key |-> run.replies[i], about |-> LineOf(run.replies[i])]]
  /\ run' = [run EXCEPT !.replies = <<>>]
  /\ UNCHANGED <<answers, asks, lost, bad>>

\* The last chunk is stored, or the money was spent before a chunk began.
EndJudge ==
  /\ ChunkDone /\ run.replies = <<>> /\ (run.todo = {} \/ run.spent >= MaxUsd)
  /\ run' = Idle
  /\ UNCHANGED <<answers, verdicts, asks, lost, bad>>

-----------------------------------------------------------------------------
\* The process dies, or 03's bridge raises: what was asked is paid and not stored, and so are a
\* chunk's replies.
Kill ==
  /\ run.step # "idle" /\ bad.kills < MaxKills
  /\ bad' = [bad EXCEPT !.kills = @ + 1]
  /\ LET s == run.step
     IN  /\ asks' = [asks EXCEPT ![s] = [k \in Keys |-> @[k] + (IF k \in run.asked THEN 1 ELSE 0)]]
         /\ lost' = [lost EXCEPT ![s] =
              [k \in Keys |-> @[k] + (IF k \in run.asked \cup ToSet(run.replies) THEN 1 ELSE 0)]]
  /\ run' = Idle
  /\ UNCHANGED <<answers, verdicts>>

Next ==
  \/ StartCollect \/ EndCollect \/ StartJudge \/ StartChunk \/ StoreChunk \/ EndJudge \/ Kill
  \/ \E k \in Keys : Ask(k) \/ Refuse(k) \/ Fail(k) \/ Answer(k) \/ AskJudge(k) \/ Reply(k)

Spec == Init /\ [][Next]_vars

-----------------------------------------------------------------------------
\* A stopped run is resumed rather than repaid: a vendor is paid again only for what was lost
\* with its process, by either step, whatever failed in between (collect, judge).
ResumedNotRepaid ==
  \A s \in Steps : \A k \in Keys : asks[s][k] <= 1 + lost[s][k]

\* A verdict stands under the key of the answer it is about, which is the answer still stored
\* there, however the replies to a chunk came and however often collect ran since.
VerdictsAreOwn ==
  \A i \in DOMAIN verdicts : Ok(verdicts[i].key) /\ verdicts[i].about = LineOf(verdicts[i].key)

\* A run passes its sum by what was in flight when it was reached, and no more.
SpentIsBounded == run.spent + Cardinality(run.asked) <= MaxUsd - 1 + Concurrency

RunIsResumed == ResumedNotRepaid /\ VerdictsAreOwn /\ SpentIsBounded
=============================================================================
