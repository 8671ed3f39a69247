----------------------------- MODULE AccessToken -----------------------------
(***************************************************************************)
(* The Google access token of one provider entry, asked for by the calls   *)
(* of several threads of one gateway (boundary/credentials.py and the keys *)
(* of boundary/gateway.py).  The dictionary of token sources is checked    *)
(* and set without a lock, a source judges and refreshes its token under   *)
(* its own, and a call keeps the key it was given for every attempt.       *)
(*                                                                         *)
(*   look -> make -> enter -> refresh -> held -> look                      *)
(*                                                                         *)
(* Google's token endpoint and the clock are external.                     *)
(***************************************************************************)
EXTENDS Naturals, FiniteSets

CONSTANTS
  None,
  Threads,
  Life,       \* how long a token lives
  Skew,       \* DEFAULT_SKEW_S
  Timeout,    \* the longest one attempt waits for its answer
  MaxTime     \* bound: the clock

AccessTokenAssumption ==
  /\ None \notin Threads /\ IsFiniteSet(Threads)
  /\ {Life, Skew, Timeout, MaxTime} \subseteq Nat
  /\ Timeout < Skew /\ Skew < Life

VARIABLES
  now,
  pasted,    \* api_key_env holds a key: no source is ever asked
  current,   \* _token_sources[name]: the source, named by the thread that made it
  sources,   \* of each source: who holds its lock, the expiry of its token (0: no token)
  threads,   \* of each thread: where it is, the source it found, since when, its key's expiry
  minted     \* history: when each source's refreshes ended

vars == <<now, pasted, current, sources, threads, minted>>

Fresh == [lock |-> None, expiry |-> 0]

Init ==
  /\ now = 1 /\ pasted \in BOOLEAN /\ current = None
  /\ sources = [t \in Threads |-> Fresh]
  /\ threads = [t \in Threads |-> [at |-> "look", source |-> None, since |-> 0, key |-> 0]]
  /\ minted = [t \in Threads |-> {}]

NeedsRefresh(s) == sources[s].expiry = 0 \/ now + Skew >= sources[s].expiry

\* A call of thread t reads the dictionary, or has a pasted key, which never expires here.
Look(t) ==
  /\ threads[t].at = "look" /\ ~pasted
  /\ threads' = [threads EXCEPT ![t].at = IF current = None THEN "make" ELSE "enter",
                                ![t].source = current]
  /\ UNCHANGED <<now, pasted, current, sources, minted>>

\* Threads that found none each make one, and the last is kept.
Make(t) ==
  /\ threads[t].at = "make"
  /\ current' = t
  /\ threads' = [threads EXCEPT ![t].at = "enter", ![t].source = t]
  /\ UNCHANGED <<now, pasted, sources, minted>>

\* The call starts with the key.
Hand(t, expiry) == [threads EXCEPT ![t] = [@ EXCEPT !.at = "held", !.since = now, !.key = expiry]]

\* The token is judged, and handed out if it is good.
Judge(t) ==
  LET s == threads[t].source
  IN  /\ IF NeedsRefresh(s)
         THEN /\ sources' = [sources EXCEPT ![s].lock = t]
              /\ threads' = [threads EXCEPT ![t].at = "refresh"]
         ELSE /\ threads' = Hand(t, sources[s].expiry)
              /\ UNCHANGED sources
      /\ UNCHANGED <<now, pasted, current, minted>>

EnterUnlocked(t) == threads[t].at = "enter" /\ Judge(t)
\* token, under the source's lock.
Enter(t) == threads[t].at = "enter" /\ sources[threads[t].source].lock = None /\ Judge(t)

\* The refresh succeeds, or fails before or after it replaced the token: the call then never
\* starts, and the next one to come judges the token again.
Refresh(t) ==
  LET s == threads[t].source
  IN  /\ threads[t].at = "refresh"
      /\ \/ /\ sources' = [sources EXCEPT ![s] = [lock |-> None, expiry |-> now + Life]]
            /\ threads' = Hand(t, now + Life)
            /\ minted' = [minted EXCEPT ![s] = @ \cup {now}]
         \/ /\ \E expiry \in {0, sources[s].expiry} :
                 sources' = [sources EXCEPT ![s] = [lock |-> None, expiry |-> expiry]]
            /\ threads' = [threads EXCEPT ![t] = [@ EXCEPT !.at = "look", !.source = None]]
            /\ UNCHANGED minted
      /\ UNCHANGED <<now, pasted, current>>

\* The first attempt is answered, and the call is over or retried with the same key.
Answered(t) ==
  /\ threads[t].at = "held"
  /\ threads' = [threads EXCEPT ![t] = [at |-> "look", source |-> None, since |-> 0, key |-> 0]]
  /\ UNCHANGED <<now, pasted, current, sources, minted>>

\* The transport's timeout ends an attempt.
Tick ==
  /\ now < MaxTime
  /\ \A t \in Threads : threads[t].at = "held" => now < threads[t].since + Timeout
  /\ now' = now + 1
  /\ UNCHANGED <<pasted, current, sources, threads, minted>>

Next == Tick \/ \E t \in Threads : Look(t) \/ Make(t) \/ Enter(t) \/ Refresh(t) \/ Answered(t)

Spec == Init /\ [][Next]_vars

-----------------------------------------------------------------------------
\* However many calls wait for a token, one refresh serves them all: two that succeeded on one
\* source are a token's useful life apart.  Only threads that raced for the first make more
\* than one source, and a call's first attempt ends before its key expires (GoogleADCToken).
OneRefreshServesAll ==
  /\ \A s \in Threads : \A m, n \in minted[s] : m < n => n + Skew >= m + Life
  /\ \A t \in Threads : threads[t].at = "held" => now < threads[t].key
=============================================================================
