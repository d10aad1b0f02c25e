---------------------------- MODULE RetryPolicy ----------------------------
(***************************************************************************)
(* app/retry_policy.py: whether a failed execution is tried again, and how *)
(* long the decision waits first.  Time is in whole ticks; the jitter, a   *)
(* factor drawn from [0.8, 1.2), becomes the set of ticks it can yield.    *)
(***************************************************************************)
EXTENDS Integers

CONSTANTS MaxAttempts,   \* MAX_EXECUTION_ATTEMPTS
          BaseDelay,     \* BASE_DELAY_SECONDS, in ticks
          MaxDelay       \* MAX_DELAY_SECONDS, in ticks

ASSUME RetryPolicyAssumption ==
  /\ MaxAttempts \in Nat \ {0}
  /\ BaseDelay \in Nat \ {0}
  /\ MaxDelay \in Nat
  /\ BaseDelay <= MaxDelay

\* Mutant: the limit is passed by one.
RetryableMutant(attempt, error) == error = "transient" /\ attempt <= MaxAttempts

\* Only a TransientExecutionError is retried, and only below the limit; the
\* permanent, reconciliation and unknown errors are final at once.
Retryable(attempt, error) == error = "transient" /\ attempt < MaxAttempts

\* math.pow(2, n)
PowerOfTwo[n \in Nat] == IF n = 0 THEN 1 ELSE 2 * PowerOfTwo[n - 1]

\* Mutant: the cap is forgotten.
BackoffMutant(attempt) == BaseDelay * PowerOfTwo[attempt - 1]

\* BASE * 2^(attempt - 1), capped.
Backoff(attempt) ==
  LET delay == BaseDelay * PowerOfTwo[attempt - 1]
  IN  IF delay <= MaxDelay THEN delay ELSE MaxDelay

LongestDelay == 2 * MaxDelay

\* The waits calculate_retry may choose after attempt number `attempt`.
RetryDelays(attempt) ==
  {wait \in 0..LongestDelay : /\ 8 * Backoff(attempt) <= 10 * wait
                              /\ 10 * wait < 12 * Backoff(attempt)}
=============================================================================
