--------------------------- MODULE ProviderClient ---------------------------
(***************************************************************************)
(* One call of the link provider as app/executor_razorpay.py makes it,     *)
(* request by request: a POST and, when the reference id is taken, up to   *)
(* Queries GETs for the link that has it (app/execution.py), or the GETs   *)
(* alone (app/stale_recovery.py).  RecoveryExecution takes each of the two *)
(* for one step; here the provider handles a request at some moment, its   *)
(* answer is classified when it comes back, if it does, and time passes.   *)
(***************************************************************************)
EXTENDS Integers

CONSTANTS Timeout,      \* REQUEST_TIMEOUT_SECONDS: the longest wait on a socket
          SocketWaits,  \* waits of one request: connect, send, read the answer
          Queries,      \* max_attempts of the lookup
          Pause,        \* the sleep between two queries
          StaleAfter    \* execution_stale_after_seconds

RequestTime == SocketWaits * Timeout

ASSUME ProviderAssumption ==
  /\ Timeout \in Nat \ {0} /\ SocketWaits \in Nat \ {0} /\ Queries \in Nat \ {0}
  /\ Pause \in Nat /\ StaleAfter \in Nat
  /\ RequestTime + Queries * RequestTime + (Queries - 1) * Pause < StaleAfter

VARIABLES at,           \* which call the client is in
          phase,        \* waiting on a request, in the sleep, or done
          query,        \* queries sent
          answer,       \* what the provider made of the request
          wait,         \* time left to the current wait, or to the sleep
          left,         \* waits left to the request
          elapsed,      \* time since the call began, up to StaleAfter
          link, late    \* the provider's, as in RecoveryExecution

vars == <<at, phase, query, answer, wait, left, elapsed, link, late>>

\* One code of each class the client tells apart, and what a body is to it: an
\* object that is, or is not, a link, and holds no list; an error that names the
\* reference id; the list that holds the one link, others, or none; another JSON
\* value; no JSON.
Codes  == {200, 400, 404, 429, 503, 507}
Bodies == {"link", "object", "duplicate", "match", "others", "empty", "odd",
           "text"}

\* Not handled yet; and handled, with an answer that never arrives.
Pending == [code |-> 0, body |-> "pending"]
Lost    == [code |-> 0, body |-> "lost"]

Answer(codes, bodies) == [code : codes, body : bodies]

RetryCodes == {429, 500, 502, 503, 504}

\* create_payment_link: the answer as a return or an exception
PostOutcome(a) ==
  IF a.code < 400 THEN
    CASE a.body = "link" -> "created"
      [] a.body = "odd"  -> "unexpected"
      [] OTHER           -> "permanent"
  ELSE IF a.code = 400 THEN
    CASE a.body = "duplicate" -> "duplicate"
      [] a.body = "odd"       -> "unexpected"
      [] OTHER                -> "permanent"
  ELSE IF a.code \in RetryCodes \/ a.code >= 500 THEN "transient"
  ELSE "permanent"

\* Any object without a list, an error included, passes for an empty list.
ReadList(body) == CASE body = "match"  -> "found"
                    [] body = "others" -> "mismatch"
                    [] body = "odd"    -> "unexpected"
                    [] body = "text"   -> "permanent"
                    [] OTHER           -> "empty"

\* Mutant: a code that is not to be retried is not looked at, and an error body
\* holds no links.
GetOutcomeMutant(a) ==
  IF a.code \in RetryCodes THEN "transient"
  ELSE IF a.code >= 400 THEN "empty"
  ELSE ReadList(a.body)

\* reconcile_duplicate_reference: the answer to one query.  Unlike above, a 5xx
\* that is not in the list is permanent.
GetOutcome(a) ==
  IF a.code \in RetryCodes THEN "transient"
  ELSE IF a.code >= 400 THEN "permanent"
  ELSE ReadList(a.body)

Outcome == IF answer = Lost THEN "transient"
           ELSE IF at = "posting" THEN PostOutcome(answer)
           ELSE GetOutcome(answer)

\* Mutant: one query too many.
AgainMutant == answer # Pending /\ Outcome = "empty" /\ query <= Queries

\* No link yet, and queries left.
Again == answer # Pending /\ Outcome = "empty" /\ query < Queries

\* A request goes out.
Send == /\ phase' = "waiting"
        /\ answer' = Pending
        /\ wait' = Timeout
        /\ left' = SocketWaits - 1

Init == /\ at \in {"posting", "reconciling"}
        /\ phase = "waiting"
        /\ query = IF at = "posting" THEN 0 ELSE 1
        /\ answer = Pending
        /\ wait = Timeout
        /\ left = SocketWaits - 1
        /\ elapsed = 0
        /\ link \in {"none", "fresh", "visible"}
        /\ late \in BOOLEAN

------------------------------------------------------------------------------
(* The provider *)

\* The POST is handled: a link is made, whatever the client learns of it, or
\* the reference id is taken, or the request is turned down.
ServePost ==
  /\ phase = "waiting" /\ at = "posting" /\ answer = Pending
  /\ \/ /\ link = "none"
        /\ link' = "fresh"
        /\ answer' \in {Lost} \union Answer({200}, {"link", "object", "odd",
                                                   "text"})
                              \union Answer({503, 507}, {"text"})
     \/ /\ link # "none"
        /\ answer' = [code |-> 400, body |-> "duplicate"]
        /\ UNCHANGED link
     \/ /\ answer' \in {Lost} \union Answer(Codes \ {200}, {"object", "odd",
                                                          "text"})
                              \union Answer({200}, {"object", "odd", "text"})
        /\ UNCHANGED link
  /\ UNCHANGED <<at, phase, query, wait, left, elapsed, late>>

\* The GET is handled: what the index has, which a fresh link may not be in, or
\* an answer that says nothing about it.
ServeGet ==
  /\ phase = "waiting" /\ at # "posting" /\ answer = Pending
  /\ \/ link # "none" /\ answer' \in Answer({200}, {"match", "others"})
     \/ link # "visible" /\ answer' = [code |-> 200, body |-> "empty"]
     \/ answer' \in {Lost} \union Answer(Codes \ {200}, {"text"})
                           \union Answer({200}, {"object", "odd", "text"})
  /\ UNCHANGED <<at, phase, query, wait, left, elapsed, link, late>>

\* The index catches up; a request given up on arrives, or is lost.
Index == /\ link = "fresh"
         /\ link' = "visible"
         /\ UNCHANGED <<at, phase, query, answer, wait, left, elapsed, late>>

Arrive == /\ late
          /\ late' = FALSE
          /\ \/ link = "none" /\ link' = "fresh"
            \/ UNCHANGED link
          /\ UNCHANGED <<at, phase, query, answer, wait, left, elapsed>>

------------------------------------------------------------------------------
(* The client *)

\* The socket connects, or takes or brings some data: the next wait begins.
Progress ==
  /\ phase = "waiting" /\ left > 0
  /\ wait' = Timeout
  /\ left' = left - 1
  /\ UNCHANGED <<at, phase, query, answer, elapsed, link, late>>

\* The answer is read: the call returns or raises, or sleeps before it asks
\* again.
Receive ==
  /\ phase = "waiting" /\ answer \notin {Pending, Lost}
  /\ \/ Again /\ phase' = "sleeping" /\ wait' = Pause
     \/ ~ Again /\ phase' = "done" /\ UNCHANGED wait
  /\ UNCHANGED <<at, query, answer, left, elapsed, link, late>>

\* httpx raises TimeoutException or RequestError.  A request not handled by now
\* may be so later.
GiveUp ==
  /\ phase = "waiting" /\ answer \in {Pending, Lost}
  /\ phase' = "done"
  /\ answer' = Lost
  /\ \/ UNCHANGED late
     \/ answer = Pending /\ at = "posting" /\ late' = TRUE
  /\ UNCHANGED <<at, query, wait, left, elapsed, link>>

\* Mutant: the counter of the loop is not advanced.
NextQueryMutant ==
  /\ phase = "sleeping" /\ wait = 0
  /\ Send
  /\ UNCHANGED <<at, query, elapsed, link, late>>

\* The sleep is over.
NextQuery ==
  /\ phase = "sleeping" /\ wait = 0
  /\ Send
  /\ query' = query + 1
  /\ UNCHANGED <<at, elapsed, link, late>>

\* execute_recovery_decision: the reference id is taken, so look for its link.
Reconcile ==
  /\ phase = "done" /\ at = "posting" /\ Outcome = "duplicate"
  /\ at' = "looking"
  /\ query' = 1
  /\ Send
  /\ UNCHANGED <<elapsed, link, late>>

\* Mutant: no timeout is passed to the HTTP client.
TickMutant ==
  /\ phase # "done"
  /\ wait' = IF wait > 0 THEN wait - 1 ELSE 0
  /\ elapsed' = IF elapsed < StaleAfter THEN elapsed + 1 ELSE elapsed
  /\ UNCHANGED <<at, phase, query, answer, left, link, late>>

\* A second passes; the client acts when its wait is over.
Tick ==
  /\ phase # "done" /\ wait > 0
  /\ wait' = wait - 1
  /\ elapsed' = IF elapsed < StaleAfter THEN elapsed + 1 ELSE elapsed
  /\ UNCHANGED <<at, phase, query, answer, left, link, late>>

Provider == ServePost \/ ServeGet \/ Index \/ Arrive
Client   == Progress \/ Receive \/ GiveUp \/ NextQuery \/ Reconcile

Next == Provider \/ Client \/ Tick

Spec == Init /\ [][Next]_vars

\* The client runs on, its timeouts fire, and the clock runs.  The provider
\* need not answer.
Fairness == /\ WF_vars(Receive \/ NextQuery \/ Reconcile)
            /\ WF_vars(wait = 0 /\ GiveUp)
            /\ WF_vars(Tick)

FairSpec == Spec /\ Fairness
=============================================================================
