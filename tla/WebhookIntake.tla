--------------------------- MODULE WebhookIntake ---------------------------
(***************************************************************************)
(* How a webhook delivery becomes a payment record and a decision.  A      *)
(* request checks the signature and stores the event (app/webhooks.py),    *)
(* processes it in one transaction (app/event_processor.py) and answers;   *)
(* the provider delivers again until the answer is 200, and may deliver an *)
(* event twice or out of order anyway.  What requests and workers then do  *)
(* to a decision is DecisionLifecycle, which RecoveryExecution implements. *)
(*                                                                         *)
(* The first write of the processing transaction sets PROCESSING, and      *)
(* SQLite's one write lock is held from there to the commit: processing is *)
(* one step up to the commit that precedes execution.  All outreach of a   *)
(* behaviour lies within one cooldown window, and a payment keeps its      *)
(* customer.                                                               *)
(***************************************************************************)
EXTENDS Naturals

CONSTANTS Requests,     \* request threads of the server
          Events,       \* ids of the events Razorpay may deliver
          Kind,         \* Events -> EventKinds
          Payments,
          Subject,      \* event -> the payments its entities name
          Reference,    \* payment_link.paid event -> the failure it stems from
          Customer,     \* payment -> email or contact, or NoCustomer
          NoCustomer,
          Bucket,       \* assignment id -> its hash modulo 100
          ControlPercentage,  \* clamped; 0 without an experiment
          MaxAttempts,  \* MAX_EXECUTION_ATTEMPTS
          MaxFaults     \* crashes, errors and wrong signatures allowed

EventKinds == {"payment.failed", "payment.captured", "order.paid",
               "payment_link.paid", "other"}

\* Each payment.failed event leads to at most one decision, and names it here.
Failures == {e \in Events : Kind[e] = "payment.failed"}
Captures == {e \in Events : Kind[e] = "payment.captured"}

ASSUME WebhookIntakeAssumption ==
  /\ Kind \in [Events -> EventKinds]
  /\ Subject \in [Events -> SUBSET Payments]
  /\ \A e \in Failures \union Captures : \E p \in Payments : Subject[e] = {p}
  /\ \A e \in Events : Kind[e] = "payment_link.paid" => Reference[e] \in Failures
  /\ ControlPercentage \in 0..100
  /\ MaxAttempts \in Nat \ {0}
  /\ MaxFaults \in Nat

VARIABLES event,        \* webhook_events: processing_status by event_id
          record,       \* payment_records: status by razorpay_payment_id
          stage, attempts, linked,     \* the decisions, see DecisionLifecycle
          contacted,    \* those with a row in customer_outreach_events
          request,      \* what each request thread is doing
          acked,        \* events answered with 200
          faults        \* faults spent

decisions == <<stage, attempts, linked, contacted>>
vars == <<event, record, stage, attempts, linked, contacted, request, acked,
          faults>>

\* Failures of payments with an email or a contact.
Reachable == {e \in Failures : \A p \in Subject[e] : Customer[p] /= NoCustomer}

Lifecycle == INSTANCE DecisionLifecycle WITH Decisions <- Failures

EventStates   == {"none", "SIGNATURE_INVALID", "RECEIVED", "PROCESSING",
                  "PROCESSED", "FAILED"}
RecordStates  == {"none", "FAILED", "CAPTURED"}
RequestStates == [pc : {"idle", "received", "executing"},
                  ev : Events \union {"none"}]
Idle == [pc |-> "idle", ev |-> "none"]

Init == /\ event = [e \in Events |-> "none"]
        /\ record = [p \in Payments |-> "none"]
        /\ Lifecycle!Init
        /\ request = [r \in Requests |-> Idle]
        /\ acked = {}
        /\ faults = 0

------------------------------------------------------------------------------
(* Receiving a delivery *)

\* payment_link.paid is only sent for a link that exists.
Arises(e) == Kind[e] = "payment_link.paid" => Reference[e] \in linked

\* Mutant: a delivery of an event that is not PROCESSED yet is processed.
ReceiveMutant(r, e) ==
  /\ request[r] = Idle
  /\ Arises(e)
  /\ \/ /\ event[e] /= "PROCESSED"
        /\ event' = [event EXCEPT ![e] = "RECEIVED"]
        /\ request' = [request EXCEPT ![r] = [pc |-> "received", ev |-> e]]
        /\ UNCHANGED acked
     \/ /\ event[e] = "PROCESSED"
        /\ acked' = acked \union {e}
        /\ UNCHANGED <<event, request>>
  /\ UNCHANGED <<record, decisions, faults>>

\* Mutant: a duplicate is only acknowledged once the event is PROCESSED.
ReceiveRefusesMutant(r, e) ==
  /\ request[r] = Idle
  /\ Arises(e)
  /\ \/ /\ event[e] = "none"
        /\ event' = [event EXCEPT ![e] = "RECEIVED"]
        /\ request' = [request EXCEPT ![r] = [pc |-> "received", ev |-> e]]
        /\ UNCHANGED acked
     \/ /\ event[e] = "PROCESSED"
        /\ acked' = acked \union {e}
        /\ UNCHANGED <<event, request>>
  /\ UNCHANGED <<record, decisions, faults>>

\* The insert meets the UNIQUE constraint, whatever became of the event.
IsDuplicate(e) == event[e] /= "none"

\* The event is inserted and committed as RECEIVED; a duplicate is acknowledged
\* and dropped.
Receive(r, e) ==
  /\ request[r] = Idle
  /\ Arises(e)
  /\ \/ /\ ~ IsDuplicate(e)
        /\ event' = [event EXCEPT ![e] = "RECEIVED"]
        /\ request' = [request EXCEPT ![r] = [pc |-> "received", ev |-> e]]
        /\ UNCHANGED acked
     \/ /\ IsDuplicate(e)
        /\ acked' = acked \union {e}
        /\ UNCHANGED <<event, request>>
  /\ UNCHANGED <<record, decisions, faults>>

\* _persist_rejected_webhook: a rejected delivery is kept for audit under its
\* event id if that can be read and stored; the insert of an id already stored
\* changes nothing.
PersistRejected(e) == \/ /\ ~ IsDuplicate(e)
                         /\ event' = [event EXCEPT ![e] = "SIGNATURE_INVALID"]
                      \/ UNCHANGED event

\* A delivery whose signature does not verify, after a change of the secret on
\* one side, is answered with 400.
Reject(r, e) ==
  /\ request[r] = Idle
  /\ Arises(e)
  /\ faults < MaxFaults
  /\ faults' = faults + 1
  /\ PersistRejected(e)
  /\ UNCHANGED <<record, decisions, request, acked>>

\* The event of request r is one of kind k, stored and not processed yet.
Handling(r, k) == request[r].pc = "received" /\ Kind[request[r].ev] = k

\* Mutant: the status of the payment is written to the event.
ProcessedMutant(r) == /\ event' = [event EXCEPT ![request[r].ev] = "CAPTURED"]
                      /\ acked' = acked \union {request[r].ev}
                      /\ request' = [request EXCEPT ![r] = Idle]

\* PROCESSED is committed with all the handler wrote, and the answer is 200.
Processed(r) == /\ event' = [event EXCEPT ![request[r].ev] = "PROCESSED"]
                /\ acked' = acked \union {request[r].ev}
                /\ request' = [request EXCEPT ![r] = Idle]

------------------------------------------------------------------------------
(* payment.failed *)

\* Mutant: the latest event wins.
AfterFailedMutant(status) == "FAILED"

\* upsert_payment_record_from_failed never takes a status back to FAILED.
AfterFailed(status) == IF status = "CAPTURED" THEN status ELSE "FAILED"

\* Mutant: a payment of an unknown customer is assigned by the empty id.
AssignmentIdMutant(p) == Customer[p]

\* The id the experiment hashes: the customer's, or else the payment's.
AssignmentId(p) == IF Customer[p] /= NoCustomer THEN Customer[p] ELSE p

\* assign_variant: the ids that the hash puts in the control group.
Control == {id \in DOMAIN Bucket : Bucket[id] < ControlPercentage}
Variant(e) == IF \E p \in Subject[e] : AssignmentId(p) \in Control
              THEN "control" ELSE "treatment"

\* What the policy may propose: scores are abstracted to their outcome.
Proposals(e) == IF Variant(e) = "control"
                THEN {"NO_ACTION"} ELSE {"NO_ACTION", "SEND_PAYMENT_LINK"}

\* Guardrail rule 2: another decision on the payment counts while it is
\* DECIDED, EXECUTED or OUTCOME_OBSERVED.
AlreadyPursued(e) ==
  \E f \in Failures : /\ Subject[f] = Subject[e]
                      /\ stage[f] \in {"pending", "sent", "observed"}

\* A contact was entered for the customer.
RecentOutreach(customer) ==
  \E f \in contacted : \E p \in Subject[f] : Customer[p] = customer

\* Guardrail rule 3: the cooldown.  A payment without an email or a contact
\* passes.
CoolingDown(e) ==
  \E p \in Subject[e] : Customer[p] /= NoCustomer /\ RecentOutreach(Customer[p])

\* The guardrails let an action pass or turn it into doing nothing.
Evaluate(e, action) ==
  IF AlreadyPursued(e) \/ CoolingDown(e) THEN "NO_ACTION" ELSE action

\* Mutant: the outcome "do nothing" is committed before the event's status.
DeclineMutant(r, e) ==
  /\ stage' = [stage EXCEPT ![e] = "declined"]
  /\ event' = [event EXCEPT ![e] = "PROCESSING"]
  /\ request' = [request EXCEPT ![r].pc = "executing"]
  /\ UNCHANGED <<attempts, linked, contacted, acked>>

\* The decision is NO_ACTION, committed with the status of its event.
Decline(r, e) == /\ Lifecycle!Decide(e) /\ stage'[e] = "declined"
                 /\ Processed(r)

\* The decision and everything before it is committed before it is executed.
Pursue(r, e) == /\ Lifecycle!Decide(e) /\ stage'[e] = "pending"
                /\ event' = [event EXCEPT ![e] = "PROCESSING"]
                /\ request' = [request EXCEPT ![r].pc = "executing"]
                /\ UNCHANGED acked

HandleFailed(r) ==
  LET e == request[r].ev IN
  /\ Handling(r, "payment.failed")
  /\ record' = [p \in Payments |-> IF p \in Subject[e]
                                   THEN AfterFailed(record[p]) ELSE record[p]]
  /\ \E proposal \in Proposals(e) :
       \/ Evaluate(e, proposal) = "NO_ACTION" /\ Decline(r, e)
       \/ Evaluate(e, proposal) /= "NO_ACTION" /\ Pursue(r, e)
  /\ UNCHANGED faults

\* execute_recovery_decision has returned, whatever became of the decision.
Finish(r) == /\ request[r].pc = "executing"
             /\ Processed(r)
             /\ UNCHANGED <<record, decisions, faults>>

------------------------------------------------------------------------------
(* The other kinds of event *)

\* upsert_payment_record_from_captured: a record is created, or moved forward.
Captured(p) == record' = [record EXCEPT ![p] = "CAPTURED"]

HandleCaptured(r) ==
  /\ Handling(r, "payment.captured")
  /\ \E p \in Subject[request[r].ev] : Captured(p)
  /\ Processed(r)
  /\ UNCHANGED <<decisions, faults>>

\* With a payment entity S is a singleton, and the record is created if need
\* be; without one some record of the order is taken, if there is any.
OrderPaid(S) ==
  \/ \E p \in S : (record[p] /= "none" \/ S = {p}) /\ Captured(p)
  \/ (\A p \in S : record[p] = "none") /\ UNCHANGED record

HandleOrderPaid(r) ==
  /\ Handling(r, "order.paid")
  /\ OrderPaid(Subject[request[r].ev])
  /\ Processed(r)
  /\ UNCHANGED <<decisions, faults>>

\* The outcome is noted on the decision that stores the link's reference, which
\* are those executed with success; without one the event is skipped.
HandleLinkPaid(r) ==
  LET d == Reference[request[r].ev] IN
  /\ Handling(r, "payment_link.paid")
  /\ \/ Lifecycle!Observe(d)
     \/ stage[d] /= "sent" /\ UNCHANGED decisions
  /\ Processed(r)
  /\ UNCHANGED <<record, faults>>

\* An event the engine does not support, or one without its entity.
Skip(r) == /\ Handling(r, "other")
           /\ Processed(r)
           /\ UNCHANGED <<record, decisions, faults>>

------------------------------------------------------------------------------
(* Faults *)

\* Mutant: the status is set to PROCESSED whether processing raised or not.
FailMutant(r) ==
  /\ request[r].pc \in {"received", "executing"}
  /\ faults < MaxFaults
  /\ faults' = faults + 1
  /\ event' = [event EXCEPT ![request[r].ev] = "PROCESSED"]
  /\ request' = [request EXCEPT ![r] = Idle]
  /\ UNCHANGED <<record, decisions, acked>>

\* Processing raises: what is not committed is rolled back, FAILED is committed
\* unless that fails too, and the answer is 500.
Fail(r) ==
  /\ request[r].pc \in {"received", "executing"}
  /\ faults < MaxFaults
  /\ faults' = faults + 1
  /\ \/ event' = [event EXCEPT ![request[r].ev] = "FAILED"]
     \/ UNCHANGED event
  /\ request' = [request EXCEPT ![r] = Idle]
  /\ UNCHANGED <<record, decisions, acked>>

\* The server dies with all its requests, and restarts.
Crash == /\ faults < MaxFaults
         /\ \E r \in Requests : request[r] /= Idle
         /\ faults' = faults + 1
         /\ request' = [r \in Requests |-> Idle]
         /\ UNCHANGED <<event, record, decisions, acked>>

------------------------------------------------------------------------------
\* Mutant: a success is recorded without a look at the decision's status, so
\* that an executor that is late takes an outcome back.
ExecuteMutant(e) ==
  /\ \/ Lifecycle!Start(e) \/ Lifecycle!MakeLink(e)
     \/ Lifecycle!Retry(e) \/ Lifecycle!GiveUp(e)
     \/ /\ e \in linked
        /\ stage' = [stage EXCEPT ![e] = "sent"]
        /\ UNCHANGED <<attempts, linked, contacted>>
  /\ UNCHANGED <<event, record, request, acked, faults>>

\* The executors at work on the decision of e.
Execute(e) ==
  /\ \/ Lifecycle!Start(e) \/ Lifecycle!MakeLink(e) \/ Lifecycle!Retry(e)
     \/ Lifecycle!Succeed(e) \/ Lifecycle!GiveUp(e)
  /\ UNCHANGED <<event, record, request, acked, faults>>

Handle(r) == \/ HandleFailed(r) \/ HandleCaptured(r) \/ HandleOrderPaid(r)
             \/ HandleLinkPaid(r) \/ Skip(r)

Next == \/ \E r \in Requests : \/ \E e \in Events : Receive(r, e) \/ Reject(r, e)
                               \/ Handle(r) \/ Finish(r) \/ Fail(r)
        \/ \E e \in Failures : Execute(e)
        \/ Crash

Spec == Init /\ [][Next]_vars

\* Razorpay delivers an event again until it gets an answer; a request that has
\* stored its event works on and returns.
Redeliver(e) == event[e] /= "none" /\ \E r \in Requests : Receive(r, e)
Fairness == /\ \A e \in Events : WF_vars(Redeliver(e))
            /\ \A r \in Requests : WF_vars(Handle(r) \/ Finish(r))

FairSpec == Spec /\ Fairness
=============================================================================
