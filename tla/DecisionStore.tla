--------------------------- MODULE DecisionStore ---------------------------
(***************************************************************************)
(* One row of recovery_decisions (app/models.py) and what each function of *)
(* app/crud.py does to it.  Timestamps are kept relative to now: age is    *)
(* the time since execution_started_at, saturated just past the stale      *)
(* threshold, and wait is the time left until next_retry_at.  No query     *)
(* reads execution_started_at outside EXECUTING or next_retry_at outside   *)
(* DECIDED, so age and wait are zero there.                                *)
(***************************************************************************)
EXTENDS RetryPolicy

CONSTANT StaleAfter      \* execution_stale_after_seconds, in ticks

ASSUME StaleAfterAssumption == StaleAfter \in Nat \ {0}

Statuses == {"NONE", "PENDING_POLICY", "DECIDED", "EXECUTING", "EXECUTED",
             "FAILED", "OUTCOME_OBSERVED"}
Actions  == {"NO_ACTION", "SEND_PAYMENT_LINK"}

Ages  == 0..(StaleAfter + 1)
Waits == 0..LongestDelay

Rows == [status   : Statuses,
         action   : Actions,
         attempts : Nat,
         age      : Ages,
         wait     : Waits,
         ref      : BOOLEAN]          \* execution_reference_id stored

\* The row of an id not inserted yet.
NoRow == [status |-> "NONE", action |-> "NO_ACTION", attempts |-> 0,
          age |-> 0, wait |-> 0, ref |-> FALSE]

\* create_recovery_decision
NewRow(status, action) == [NoRow EXCEPT !.status = status, !.action = action]

\* Mutant: the filter on selected_action is gone.
EligibleMutant(row) == row.status = "DECIDED" /\ row.wait = 0

\* get_eligible_recovery_decisions: the filter of the query
Eligible(row) == /\ row.status = "DECIDED"
                 /\ row.action /= "NO_ACTION"
                 /\ row.wait = 0

\* Mutants: the WHERE clause forgets the status, or lets FAILED back in.
ClaimableMutant(row) == row.status \in {"DECIDED", "EXECUTING"}
ClaimableRevivesMutant(row) == row.status \in {"DECIDED", "FAILED"}

\* claim_decision_for_execution: the WHERE clause and the values set.  The
\* clause looks at the status alone, not at next_retry_at or the attempts.
Claimable(row) == row.status = "DECIDED"
ClaimedRow(row) == [row EXCEPT !.status = "EXECUTING", !.age = 0,
                               !.wait = 0, !.attempts = row.attempts + 1]

\* Mutant: the threshold is forgotten.
StaleMutant(row) == row.status = "EXECUTING"

\* claim_stale_execution: the candidate filter and the value set
Stale(row) == row.status = "EXECUTING" /\ row.age > StaleAfter
StaleClaimedRow(row) == [row EXCEPT !.age = 0]

\* mark_execution_successful, mark_execution_failed_retryable and
\* mark_execution_failed_permanent.  Each raises ValueError unless the status
\* the session has loaded is EXECUTING, which is the caller's guard here.
ExecutedRow(row) == [row EXCEPT !.status = "EXECUTED", !.age = 0,
                                !.ref = TRUE]
RetryRow(row, wait) == [row EXCEPT !.status = "DECIDED", !.age = 0,
                                   !.wait = wait]
FailedRow(row) == [row EXCEPT !.status = "FAILED", !.age = 0, !.wait = 0]

\* Mutant: the last failure is logged, and the row left as it was.
AfterFailureMutant(row, attempt, error) ==
  IF Retryable(attempt, error)
  THEN {RetryRow(row, wait) : wait \in RetryDelays(attempt)}
  ELSE {row}

\* The rows calculate_retry and the two mark_execution_failed functions can
\* leave after the given attempt ended with the given error.
AfterFailure(row, attempt, error) ==
  IF Retryable(attempt, error)
  THEN {RetryRow(row, wait) : wait \in RetryDelays(attempt)}
  ELSE {FailedRow(row)}

\* update_recovery_decision_outcome
ObservedRow(row) == [row EXCEPT !.status = "OUTCOME_OBSERVED", !.age = 0,
                                !.wait = 0]

Older(row) == IF row.status = "EXECUTING" /\ row.age <= StaleAfter
              THEN row.age + 1 ELSE row.age

\* Mutant: a retry that is due is counted past due.
OlderRowMutant(row) ==
  [row EXCEPT !.age = Older(row), !.wait = row.wait - 1]

\* One tick of the clock, as the stored timestamps see it.
OlderRow(row) ==
  [row EXCEPT !.age = Older(row),
              !.wait = IF row.wait > 0 THEN row.wait - 1 ELSE 0]
=============================================================================
