------------------------- MODULE WebhookProperties -------------------------
(***************************************************************************)
(* What WebhookIntake and the metrics read off it are checked for.         *)
(***************************************************************************)
EXTENDS DashboardMetrics

\* Every variable stays in its type.
TypeOK == /\ event \in [Events -> EventStates]
          /\ record \in [Payments -> RecordStates]
          /\ stage \in [Failures -> Lifecycle!Stages]
          /\ attempts \in [Failures -> 0..MaxAttempts]
          /\ linked \subseteq Failures
          /\ contacted \subseteq Failures
          /\ request \in [Requests -> RequestStates]
          /\ acked \subseteq Events
          /\ faults \in 0..MaxFaults

WorksOn(r, e) == request[r].pc /= "idle" /\ request[r].ev = e

\* However often and in whatever order deliveries of an event come, and even
\* after errors and restarts, one request at most processes it, and the stored
\* status says where it is (create_webhook_event, "the UNIQUE constraint").
HandledOnce ==
  \A e \in Events : \A r, s \in Requests :
    WorksOn(r, e) => /\ WorksOn(s, e) => r = s
                     /\ event[e] = IF request[r].pc = "received"
                                   THEN "RECEIVED" ELSE "PROCESSING"

\* A crash or an error never leaves half of what a payment.failed handler
\* writes: no decision before processing committed, nor for a delivery that was
\* rejected; no status without its decision; no decision to do nothing without
\* the final status; and no decision on a payment that has no record.
HandledWhole ==
  \A e \in Failures :
    /\ event[e] \in {"none", "SIGNATURE_INVALID", "RECEIVED"} => stage[e] = "none"
    /\ event[e] \in {"PROCESSING", "PROCESSED"} => stage[e] /= "none"
    /\ stage[e] = "declined" => event[e] = "PROCESSED"
    /\ stage[e] /= "none" => \A p \in Subject[e] : record[p] /= "none"

\* What an event brought about is committed: the decision that a payment.failed
\* asks for, or, of the others, all their handler writes.
Applied(e) == IF e \in Failures THEN stage[e] /= "none"
                                ELSE event[e] = "PROCESSED"
AtWork(e) == \E r \in Requests : WorksOn(r, e)

\* What became of an event.
Fate(e) == IF Applied(e) THEN "applied"
           ELSE IF AtWork(e) THEN "taken"
           ELSE IF event[e] = "none" THEN "new" ELSE "lost"

Delivery == INSTANCE EventDelivery WITH
  fate     <- [e \in Events |-> Fate(e)],
  answered <- acked,
  books    <- record

\* Requests, transactions and statuses implement the promised delivery: each
\* step takes, applies or answers one event, or is a fault, or is invisible;
\* nothing is applied twice, by halves or after it was lost.
KeepsDelivery == Delivery!Spec

\* An event answered with 200 is stored, and a stored one is applied or being
\* worked on; or an error, a restart or a rejection lost it, and then its status,
\* which is not PROCESSED or PROCESSING, tells (process_webhook_event, "FAILED";
\* create_webhook_event, SIGNATURE_INVALID).
LossIsOnRecord ==
  \A e \in Events :
    \/ event[e] = "none" /\ e \notin acked
    \/ event[e] /= "none" /\ (Applied(e) \/ AtWork(e))
    \/ faults > 0 /\ event[e] \in {"SIGNATURE_INVALID", "RECEIVED", "FAILED"}

\* Once a payment.captured event is processed the record says CAPTURED, and a
\* payment.failed that comes late, or again, does not take it back.
CaptureSticks ==
  \A e \in Captures : \A p \in Subject[e] :
    event[e] = "PROCESSED" => record[p] = "CAPTURED"

\* The experiment compares like with like: whichever payments of a customer in
\* the control group fail, and whatever workers and retries do later, no link is
\* made for them and the customer is not contacted (_handle_payment_failed,
\* "Assigned to control group").  Unknown customers count as one per payment.
InControl(p) == \/ Customer[p] /= NoCustomer /\ Customer[p] \in Control
                \/ Customer[p] = NoCustomer /\ p \in Control
ControlUntouched ==
  \A e \in Failures : \A p \in Subject[e] :
    InControl(p) => /\ stage[e] \in {"none", "declined"}
                    /\ e \notin linked \union contacted

\* What guardrail rule 2 does achieve (guardrails.py, "already decided or executed
\* an action for THIS payment"): however the failures of a payment come, it has at
\* most one decision that waits to be started for the first time.
Fresh == {e \in Failures : stage[e] = "pending" /\ attempts[e] = 0}
OneFreshDecision ==
  \A d, e \in Fresh : Subject[d] = Subject[e] => d = e

\* Every event delivered once is answered with 200 in the end, whatever errors,
\* restarts and rejections it met, so that redelivery stops; and unless there
\* was one of these it is processed then.
EveryEventServed ==
  <>[](\A e \in Events :
         event[e] /= "none" => /\ e \in acked
                               /\ event[e] = "PROCESSED" \/ faults > 0)

\* Nothing the dashboard counted or summed is ever taken back: not by events out
\* of order or again, not by errors, restarts, retries and recoveries
\* (get_live_summary, get_experiment_metrics).  The experiment's groups differ
\* by what happened to the payments, not by when they are looked at.
MetricsOnlyGrow ==
  [][/\ TotalOpportunities' >= TotalOpportunities
     /\ LinksExecuted' >= LinksExecuted
     /\ LinksPaid' >= LinksPaid
     /\ RecoveredRevenue' >= RecoveredRevenue
     /\ \A variant \in {"control", "treatment"} :
          /\ GroupSize(variant)' >= GroupSize(variant)
          /\ GroupRecovered(variant)' >= GroupRecovered(variant)
     /\ Interventions' >= Interventions]_<<stage, record>>
------------------------------------------------------------------------------
(* Statements of the repository that the runs named MC*Claim refute *)

\* app/webhooks.py, the answer to a duplicate delivery: "Event already received
\* and processed."
AckedIsProcessed ==
  \A e \in acked : event[e] = "PROCESSED" \/ \E r \in Requests : WorksOn(r, e)

\* README.md: the engine "evaluates failed Razorpay payments and decides whether
\* and how to intervene"; app/models.py, RecoveryDecision: "the recovery decision
\* made for a failed payment".
OnlyFailedPursued ==
  [][\A e \in Failures :
       stage[e] = "none" /\ stage'[e] = "pending" =>
         \A p \in Subject[e] : record'[p] = "FAILED"]_vars

\* app/guardrails.py, rule 2: no second action on a payment that was already
\* acted on.
OneLinkPerPayment ==
  \A d, e \in linked : Subject[d] = Subject[e] => d = e

\* app/guardrails.py, cooldown_hours: hours to block re-outreach to the same
\* customer identifier.  (One behaviour lies within one window.)
OneContactPerCustomer ==
  \A d, e \in contacted : \A p \in Subject[d], q \in Subject[e] :
    Customer[p] = Customer[q] => d = e

\* app/dashboard.py: "Actual gross revenue collected through recovery Payment
\* Links."
RevenueIsFromLinks ==
  RecoveredRevenue <= Revenue(Paid)
=============================================================================
