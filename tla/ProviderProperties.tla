------------------------- MODULE ProviderProperties -------------------------
(***************************************************************************)
(* What ProviderClient is checked for.                                     *)
(***************************************************************************)
EXTENDS ProviderClient

\* Every variable stays in its type; no query is sent after the last.
TypeOK == /\ at \in {"posting", "looking", "reconciling"}
          /\ phase \in {"waiting", "sleeping", "done"}
          /\ query \in 0..Queries
          /\ answer \in {Pending, Lost} \union Answer(Codes, Bodies)
          /\ wait \in 0..(Timeout + Pause)
          /\ left \in 0..(SocketWaits - 1)
          /\ elapsed \in 0..StaleAfter
          /\ link \in {"none", "fresh", "visible"}
          /\ late \in BOOLEAN

\* A thread is not in the provider client for as long as the stale threshold
\* (REQUEST_TIMEOUT_SECONDS against execution_stale_after_seconds), however
\* slowly the provider answers and however often it is asked: what
\* RecoveryExecution assumes of threads that do not stall.
HeldBriefly == elapsed < StaleAfter

\* What RecoveryExecution sees of the call: one thread that executes or recovers
\* one decision, whose answer is settled when the provider has handled the last
\* request, or cannot any more before the client gives up.
Decided == answer # Pending /\ ~ Again

EngineThread ==
  [pc       |-> IF ~ Decided THEN at
                ELSE CASE at = "posting"     -> "answered"
                       [] at = "looking"     -> "looked"
                       [] at = "reconciling" -> "reconciled",
   dec      |-> 1,
   status   |-> "EXECUTING",
   attempts |-> 1,
   same     |-> FALSE,
   batch    |-> {},
   reply    |-> IF ~ Decided THEN "none"
                ELSE IF Outcome = "empty" THEN "missing" ELSE Outcome]

EngineRow == [status |-> "EXECUTING", action |-> "SEND_PAYMENT_LINK",
              attempts |-> 1, age |-> StaleAfter + 1, wait |-> 0,
              ref |-> FALSE]

\* The last query is answered with an object that holds no list.
NoList == answer = [code |-> 200, body |-> "object"]

LookupFailed == /\ at # "posting" /\ Decided
                /\ \/ Outcome \in {"transient", "permanent", "unexpected"}
                   \/ Outcome = "empty" /\ NoList

Engine == INSTANCE RecoveryExecution WITH
  MaxAttempts <- 1, BaseDelay <- 1, MaxDelay <- 1,
  Hooks <- {"client"}, Workers <- {}, Processes <- {}, Decisions <- {1},
  Reachable <- {}, BatchSize <- 1, MaxFaults <- 1, Stalls <- TRUE,
  Unlisted <- TRUE,
  decision <- [d \in {1} |-> EngineRow],
  thread   <- [t \in {"client"} |-> EngineThread],
  link     <- [d \in {1} |-> link],
  late     <- IF late THEN {1} ELSE {},
  outreach <- {}, paid <- [d \in {1} |-> "unpaid"],
  faults   <- IF LookupFailed THEN 1 ELSE 0

\* The client gives the engine no answer it does not reckon with: through lost
\* answers, error codes, odd bodies and an index that lags behind, each call is
\* one of the steps RecoveryExecution takes for it.  In particular no link is
\* reported that does not exist, and one that the index has is denied in one
\* case only: a 200 whose object holds no list, which the client reads as an
\* empty one (executor_razorpay.py:285) and RecoveryExecution counts as a fault
\* of the lookup.  No error, other body or lost answer passes for a missing link.
AnswersAsModelled ==
  [][\/ Engine!Post("client") \/ Engine!StartLookup("client")
     \/ Engine!Lookup("client")
     \/ Engine!Arrive(1) \/ Engine!Tick]_(Engine!vars)

\* A call comes to an end even if the provider never answers: what the fairness
\* of RecoveryExecution's threads rests on.
Returned == phase = "done" /\ ~ (at = "posting" /\ Outcome = "duplicate")
EveryCallReturns == <>Returned
=============================================================================
