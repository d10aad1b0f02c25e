------------------------ MODULE RecoveryProperties -------------------------
(***************************************************************************)
(* What RecoveryExecution is checked for.                                  *)
(***************************************************************************)
EXTENDS RecoveryExecution

\* Every variable stays in its type: the row, the session and the provider
\* states are the ones the code can write.
TypeOK == /\ decision \in [Decisions -> Rows]
          /\ thread \in [Threads -> ThreadStates]
          /\ link \in [Decisions -> {"none", "fresh", "visible"}]
          /\ late \subseteq Decisions
          /\ outreach \subseteq Reachable
          /\ paid \in [Decisions -> {"unpaid", "paid", "notified"}]
          /\ faults \in 0..MaxFaults

Holds(t, d) == thread[t].pc \in HoldingPoints /\ thread[t].dec = d

\* At most one live thread executes or recovers a decision, whatever mix of
\* requests, workers, stale claims and restarts led there, and the row says
\* EXECUTING for as long as it does (claim_decision_for_execution, "atomically
\* claim a decision", against claim_stale_execution).
ExclusiveExecution ==
  \A d \in Decisions : \A t, u \in Threads :
    Holds(t, d) => /\ decision[d].status = "EXECUTING"
                   /\ Holds(u, d) => t = u

\* What a session loaded before its slow call to the provider is still what
\* the row says when it writes: mark_execution_successful and its siblings
\* check and count on the loaded copy, not on the row.
LoadedRowIsCurrent ==
  \A t \in Threads : thread[t].pc \in LoadedPoints =>
    /\ thread[t].status = decision[thread[t].dec].status
    /\ thread[t].attempts = decision[thread[t].dec].attempts

\* No decision is started more than MAX_EXECUTION_ATTEMPTS times, although
\* claiming increments the counter without looking at it: whoever puts the
\* decision back to DECIDED must have left room for another attempt.
AttemptsBounded ==
  \A d \in Decisions :
    /\ decision[d].attempts <= MaxAttempts
    /\ decision[d].action /= "NO_ACTION" /\ decision[d].status = "DECIDED" =>
         decision[d].attempts < MaxAttempts

\* A failed decision is never tried again at once, not before it could have been
\* after its first failure if it failed before, and never later than the longest
\* delay allows (calculate_retry): the delay rests on a count that others
\* increment and that was loaded before the call.
Spaced(d) ==
  LET wait == decision'[d].wait IN
  decision[d].status = "EXECUTING" /\ decision'[d].status = "DECIDED" =>
    /\ 8 * BaseDelay <= 10 * wait /\ 10 * wait < 12 * MaxDelay
    /\ decision[d].attempts > 1 =>
         12 * BaseDelay <= 10 * wait \/ 8 * MaxDelay <= 10 * wait
RetriesAreSpaced == [][\A d \in Decisions : Spaced(d)]_vars

\* A failed decision is tried again only below the limit, keeps its count, and
\* waits as calculate_retry says for the attempt that the row counts, not for an
\* older one that some session remembers (execute_recovery_decision,
\* reconcile_stale_decision).
Follows(d) ==
  decision[d].status = "EXECUTING" /\ decision'[d].status = "DECIDED" =>
    /\ decision[d].attempts < MaxAttempts
    /\ decision'[d].attempts = decision[d].attempts
    /\ decision'[d].wait \in RetryDelays(decision[d].attempts)
RetriesFollowCount == [][\A d \in Decisions : Follows(d)]_vars

\* A decision reported as executed, and a contact entered for the cooldown,
\* stand for a payment link the provider really has.
SentMeansLinked ==
  \A d \in Decisions :
    \/ decision[d].status \in {"EXECUTED", "OUTCOME_OBSERVED"}
    \/ decision[d].ref
    \/ d \in outreach
    => link[d] /= "none"

\* The reference that correlates payment_link.paid is stored exactly in the
\* decisions that count as executed.
ReferenceMeansSent ==
  \A d \in Decisions :
    decision[d].ref <=> decision[d].status \in {"EXECUTED", "OUTCOME_OBSERVED"}

\* When stale recovery finds no link for a reference there is none, so that
\* trying again cannot make a second one (app/stale_recovery.py:47): nobody is
\* still sending, and what was sent is long in the provider's index.  It takes a
\* provider that answers a lookup with a list (~ Unlisted).
StaleMissIsDefinitive ==
  \A w \in Workers :
    thread[w].pc = "reconciled" /\ thread[w].reply = "missing" =>
      link[thread[w].dec] = "none" /\ thread[w].dec \notin late

\* A decision to do nothing is never claimed by anyone.
NoActionIsLeftAlone ==
  \A d \in Decisions : decision[d].action = "NO_ACTION" =>
    decision[d].attempts = 0 /\ link[d] = "none"

\* The decision as DecisionLifecycle sees it.
StageOf(row) ==
  CASE row.status = "NONE"             -> "none"
    [] row.status = "PENDING_POLICY"   -> "declined"
    [] row.status = "DECIDED"          -> IF row.action = "NO_ACTION"
                                          THEN "declined" ELSE "pending"
    [] row.status = "EXECUTING"        -> "executing"
    [] row.status = "EXECUTED"         -> "sent"
    [] row.status = "FAILED"           -> "failed"
    [] row.status = "OUTCOME_OBSERVED" -> "observed"

Lifecycle == INSTANCE DecisionLifecycle WITH
  stage    <- [d \in Decisions |-> StageOf(decision[d])],
  attempts <- [d \in Decisions |-> decision[d].attempts],
  linked   <- {d \in Decisions : link[d] /= "none"},
  contacted <- outreach

\* The threads, timers and lost answers implement the promised lifecycle: each
\* step is one legal move of one decision, or invisible; none is undone, and a
\* contact is entered only for a decision that is sent, when it is.
KeepsLifecycle == Lifecycle!Spec

\* Every decision with an action is settled in the end, whatever crashes and
\* failed lookups it meets on the way, as long as these stop: the request, the
\* retry worker or stale recovery always has it in reach.
Settled(d) == decision[d].status \in {"EXECUTED", "FAILED", "OUTCOME_OBSERVED"}
EveryDecisionSettles ==
  \A d \in Decisions :
    decision[d].action /= "NO_ACTION" ~> Settled(d)

------------------------------------------------------------------------------
(* The inductive invariants behind the properties above *)

\* Who may come to execute a decision to do nothing: nobody.  An id not yet
\* inserted counts as one.
OnlyActionsInReach ==
  /\ \A t \in Threads :
       /\ thread[t].pc \in HoldingPoints \union {"decided", "scanned"} =>
            decision[thread[t].dec].action /= "NO_ACTION"
       /\ \A d \in thread[t].batch : decision[d].action /= "NO_ACTION"
  /\ \A d \in Decisions : decision[d].status = "NONE" =>
       decision[d].action = "NO_ACTION"
  /\ \A d \in Decisions : decision[d].action = "NO_ACTION" =>
       /\ decision[d].status \in {"NONE", "PENDING_POLICY", "DECIDED"}
       /\ ~ decision[d].ref /\ decision[d].attempts = 0
       /\ link[d] = "none" /\ d \notin late

\* A reply that claims a link is only got for a link that exists.
RepliesAreTrue ==
  \A t \in Threads :
    \/ thread[t].pc = "answered" /\ thread[t].reply = "created"
    \/ thread[t].pc \in {"looked", "reconciled"} /\ thread[t].reply = "found"
    => link[thread[t].dec] /= "none"

LinkInv == OnlyActionsInReach /\ RepliesAreTrue /\ SentMeansLinked

\* A row someone works on is EXECUTING and not yet stale; what a scan found
\* stale is so still, unless it was claimed since.
WorkIsTimely ==
  \A t \in Threads :
    /\ thread[t].pc \in HoldingPoints =>
         /\ decision[thread[t].dec].status = "EXECUTING"
         /\ decision[thread[t].dec].age <= StaleAfter
    /\ /\ thread[t].pc = "scanned" /\ thread[t].same
       /\ decision[thread[t].dec].status = "EXECUTING"
       => decision[thread[t].dec].age > StaleAfter

\* Nothing about the reference is on its way to the provider or its index.
Quiet(d) == link[d] /= "fresh" /\ d \notin late

StaleIsQuiet ==
  /\ \A d \in Decisions :
       decision[d].status = "EXECUTING" /\ decision[d].age > StaleAfter =>
         Quiet(d)
  /\ \A t \in Threads :
       thread[t].pc \in RecoveryPoints => Quiet(thread[t].dec)

MissesAreDefinitive == Unlisted \/ StaleMissIsDefinitive

ClaimInv == /\ WorkIsTimely /\ ExclusiveExecution /\ LoadedRowIsCurrent
            /\ AttemptsBounded /\ ReferenceMeansSent
            /\ StaleIsQuiet /\ MissesAreDefinitive

------------------------------------------------------------------------------
(* Statements of the repository that the runs named MC*Claim refute *)

\* tests/test_worker.py, test_run_worker_cycle_future_retry_ignored: a decision
\* whose next_retry_at lies in the future is not executed.
BackoffRespected ==
  [][\A d \in Decisions :
       /\ decision[d].status = "DECIDED"
       /\ decision'[d].status = "EXECUTING"
       => decision[d].wait = 0]_vars

\* app/event_processor.py, _handle_payment_link_paid: the webhook closes the
\* loop by setting OUTCOME_OBSERVED.
PaidIsObserved ==
  \A d \in Decisions :
    paid[d] = "notified" /\ Settled(d) =>
      decision[d].status = "OUTCOME_OBSERVED"

\* app/models.py, CustomerOutreachEvent: records each outreach action
\* dispatched to a customer.
OutreachIsRecorded ==
  \A d \in Reachable :
    decision[d].status \in {"EXECUTED", "OUTCOME_OBSERVED"} => d \in outreach
=============================================================================
