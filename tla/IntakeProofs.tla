---------------------------- MODULE IntakeProofs ----------------------------
(***************************************************************************)
(* The safety properties of WebhookIntake hold for every set of requests,  *)
(* events and payments and any number of attempts and faults.              *)
(***************************************************************************)
EXTENDS WebhookProperties, TLAPS

\* A busy request works on an event, and only a failure leads to execution.
RequestsKnow ==
  \A r \in Requests :
    /\ request[r].pc /= "idle" => request[r].ev \in Events
    /\ request[r].pc = "executing" => Kind[request[r].ev] = "payment.failed"

IntakeInv == TypeOK /\ RequestsKnow /\ HandledOnce /\ HandledWhole /\ CaptureSticks

\* What a step may do to the decisions once they are made.
KeepsDecisions ==
  \A d \in Failures :
    /\ stage[d] = "none" <=> stage'[d] = "none"
    /\ stage[d] = "declined" <=> stage'[d] = "declined"

\* No status of a payment is forgotten, and a capture stays.
KeepsRecords ==
  \A p \in Payments : /\ record[p] /= "none" => record'[p] /= "none"
                      /\ record[p] = "CAPTURED" => record'[p] = "CAPTURED"

\* The executors take a decision through its life and keep it in its type.
LEMMA ExecuteDecisions ==
  ASSUME TypeOK, NEW e \in Failures, Execute(e)
  PROVE  /\ stage' \in [Failures -> Lifecycle!Stages]
         /\ attempts' \in [Failures -> 0..MaxAttempts]
         /\ linked' \subseteq Failures
         /\ contacted' \subseteq Failures
         /\ KeepsDecisions
<1> USE WebhookIntakeAssumption DEF TypeOK
<1>1. CASE Lifecycle!Start(e)
  BY <1>1 DEF Lifecycle!Start, Lifecycle!Move, Lifecycle!Stages, KeepsDecisions
<1>2. CASE Lifecycle!MakeLink(e)
  BY <1>2 DEF Lifecycle!MakeLink, KeepsDecisions
<1>3. CASE Lifecycle!Retry(e)
  BY <1>3 DEF Lifecycle!Retry, Lifecycle!Move, Lifecycle!Stages, KeepsDecisions
<1>4. CASE Lifecycle!GiveUp(e)
  BY <1>4 DEF Lifecycle!GiveUp, Lifecycle!Move, Lifecycle!Stages, KeepsDecisions
<1>5. CASE Lifecycle!Succeed(e)
  BY <1>5 DEF Lifecycle!Succeed, Lifecycle!Move, Lifecycle!Stages, KeepsDecisions
<1> QED BY <1>1, <1>2, <1>3, <1>4, <1>5 DEF Execute

\* A decision is made by the request that handles its event.
LEMMA DecideMakes ==
  ASSUME TypeOK, NEW e \in Failures, Lifecycle!Decide(e)
  PROVE  /\ stage' \in [Failures -> Lifecycle!Stages]
         /\ stage'[e] /= "none"
         /\ \A d \in Failures \ {e} : stage'[d] = stage[d]
         /\ UNCHANGED <<attempts, linked, contacted>>
BY DEF TypeOK, Lifecycle!Decide, Lifecycle!Move, Lifecycle!Stages

LEMMA ObserveKeeps ==
  ASSUME TypeOK, NEW e \in Failures, Lifecycle!Observe(e)
  PROVE  /\ stage' \in [Failures -> Lifecycle!Stages]
         /\ KeepsDecisions
         /\ UNCHANGED <<attempts, linked, contacted>>
BY DEF TypeOK, KeepsDecisions, Lifecycle!Observe, Lifecycle!Move, Lifecycle!Stages

\* What every handler but that of payment.failed does: its event is answered,
\* decisions are kept, records move forward, and a capture is recorded.
HandledPlainly(r) ==
  /\ \/ request[r].pc = "received" /\ request[r].ev \notin Failures
     \/ request[r].pc = "executing"
  /\ Processed(r)
  /\ stage' \in [Failures -> Lifecycle!Stages]
  /\ record' \in [Payments -> RecordStates]
  /\ KeepsDecisions /\ KeepsRecords
  /\ request[r].ev \in Captures =>
       \A p \in Subject[request[r].ev] : record'[p] = "CAPTURED"
  /\ UNCHANGED <<attempts, linked, contacted, faults>>

LEMMA PlainHandlers ==
  ASSUME IntakeInv, NEW r \in Requests,
         \/ Finish(r) \/ HandleCaptured(r) \/ HandleOrderPaid(r)
         \/ HandleLinkPaid(r) \/ Skip(r)
  PROVE  HandledPlainly(r)
<1> USE WebhookIntakeAssumption DEF IntakeInv
<1>0. request[r].pc /= "idle" => request[r].ev \in Events
  BY DEF RequestsKnow
<1>a. UNCHANGED record => record' \in [Payments -> RecordStates] /\ KeepsRecords
  BY DEF TypeOK, KeepsRecords
<1>b. UNCHANGED decisions => /\ stage' \in [Failures -> Lifecycle!Stages]
                             /\ KeepsDecisions
                             /\ UNCHANGED <<attempts, linked, contacted>>
  BY DEF TypeOK, KeepsDecisions, decisions
<1>1. CASE Finish(r)
  <2>1. request[r].ev \notin Captures
    BY <1>1, <1>0 DEF Finish, RequestsKnow, Captures
  <2> QED BY <1>1, <1>a, <1>b, <2>1 DEF Finish, HandledPlainly
<1>2. CASE HandleCaptured(r)
  <2> DEFINE e == request[r].ev
  <2>1. e \in Captures /\ e \notin Failures /\ Subject[e] \subseteq Payments
    BY <1>2, <1>0 DEF HandleCaptured, Handling, Captures, Failures
  <2>2. /\ \E p \in Subject[e] : record' = [record EXCEPT ![p] = "CAPTURED"]
        /\ Processed(r) /\ UNCHANGED <<decisions, faults>>
        /\ request[r].pc = "received"
    BY <1>2 DEF HandleCaptured, Handling, Captured
  <2>3. record' \in [Payments -> RecordStates] /\ KeepsRecords
    BY <2>1, <2>2 DEF TypeOK, RecordStates, KeepsRecords
  <2>4. \A p \in Subject[e] : record'[p] = "CAPTURED"
    <3>1. PICK p \in Payments : Subject[e] = {p}
      BY <2>1, <1>0, <1>2 DEF HandleCaptured, Handling
    <3> QED BY <2>2, <3>1 DEF TypeOK
  <2> QED BY <2>1, <2>2, <2>3, <2>4, <1>b DEF HandledPlainly
<1>3. CASE HandleOrderPaid(r)
  <2> DEFINE S == Subject[request[r].ev]
  <2>1. /\ request[r].pc = "received"
        /\ request[r].ev \in Events /\ Kind[request[r].ev] = "order.paid"
        /\ S \subseteq Payments
    BY <1>3, <1>0 DEF HandleOrderPaid, Handling
  <2>2. request[r].ev \notin Failures /\ request[r].ev \notin Captures
    BY <2>1 DEF Captures, Failures
  <2>3. record' \in [Payments -> RecordStates] /\ KeepsRecords
    <3>1. CASE UNCHANGED record
      BY <3>1, <1>a
    <3>2. CASE \E p \in S : record' = [record EXCEPT ![p] = "CAPTURED"]
      BY <3>2, <2>1 DEF TypeOK, RecordStates, KeepsRecords
    <3> QED BY <1>3, <3>1, <3>2 DEF HandleOrderPaid, OrderPaid, Captured
  <2>4. Processed(r) /\ UNCHANGED <<decisions, faults>>
    BY <1>3 DEF HandleOrderPaid
  <2> QED BY <2>1, <2>2, <2>3, <2>4, <1>b DEF HandledPlainly
<1>4. CASE HandleLinkPaid(r)
  <2> DEFINE d == Reference[request[r].ev]
  <2>1. /\ request[r].pc = "received"
        /\ request[r].ev \in Events
        /\ Kind[request[r].ev] = "payment_link.paid"
        /\ d \in Failures
    BY <1>4, <1>0 DEF HandleLinkPaid, Handling
  <2>2. request[r].ev \notin Failures /\ request[r].ev \notin Captures
    BY <2>1 DEF Captures, Failures
  <2>3. /\ Lifecycle!Observe(d) \/ UNCHANGED decisions
        /\ Processed(r) /\ UNCHANGED <<record, faults>>
    BY <1>4 DEF HandleLinkPaid
  <2>4. /\ stage' \in [Failures -> Lifecycle!Stages] /\ KeepsDecisions
        /\ UNCHANGED <<attempts, linked, contacted>>
    BY <2>1, <2>3, <1>b, ObserveKeeps
  <2> QED BY <2>1, <2>2, <2>3, <2>4, <1>a DEF HandledPlainly
<1>5. CASE Skip(r)
  <2>1. request[r].ev \notin Failures /\ request[r].ev \notin Captures
    BY <1>5, <1>0 DEF Skip, Handling, Captures, Failures
  <2> QED BY <1>5, <1>a, <1>b, <2>1 DEF Skip, Handling, HandledPlainly
<1> QED BY <1>1, <1>2, <1>3, <1>4, <1>5

\* What the handler of payment.failed writes.
DecidedOn(r, e) ==
  /\ request[r].pc = "received" /\ request[r].ev = e /\ e \in Failures
  /\ stage' \in [Failures -> Lifecycle!Stages] /\ stage'[e] /= "none"
  /\ \A d \in Failures \ {e} : stage'[d] = stage[d]
  /\ \/ Processed(r)
     \/ /\ stage'[e] = "pending"
        /\ event' = [event EXCEPT ![e] = "PROCESSING"]
        /\ request' = [request EXCEPT ![r].pc = "executing"]
        /\ UNCHANGED acked
  /\ record' \in [Payments -> RecordStates] /\ KeepsRecords
  /\ \A p \in Subject[e] : record'[p] /= "none"
  /\ UNCHANGED <<attempts, linked, contacted, faults>>

LEMMA FailedHandler ==
  ASSUME IntakeInv, NEW r \in Requests, HandleFailed(r)
  PROVE  DecidedOn(r, request[r].ev)
<1> USE WebhookIntakeAssumption DEF IntakeInv
<1> DEFINE e == request[r].ev
<1>1. request[r].pc = "received" /\ e \in Failures /\ Subject[e] \subseteq Payments
  BY DEF HandleFailed, Handling, RequestsKnow, Failures
<1>2. /\ record' = [p \in Payments |-> IF p \in Subject[e]
                                      THEN AfterFailed(record[p]) ELSE record[p]]
      /\ Decline(r, e) \/ Pursue(r, e)
      /\ UNCHANGED faults
  BY DEF HandleFailed
<1>3. /\ record' \in [Payments -> RecordStates] /\ KeepsRecords
      /\ \A p \in Subject[e] : record'[p] /= "none"
  BY <1>1, <1>2 DEF TypeOK, RecordStates, KeepsRecords, AfterFailed
<1>4. Lifecycle!Decide(e)
  BY <1>2 DEF Decline, Pursue
<1>5. /\ stage' \in [Failures -> Lifecycle!Stages] /\ stage'[e] /= "none"
      /\ \A d \in Failures \ {e} : stage'[d] = stage[d]
      /\ UNCHANGED <<attempts, linked, contacted>>
  <2> HIDE DEF e
  <2> QED BY <1>1, <1>4, DecideMakes
<1>6. \/ Processed(r)
      \/ /\ stage'[e] = "pending"
         /\ event' = [event EXCEPT ![e] = "PROCESSING"]
         /\ request' = [request EXCEPT ![r].pc = "executing"]
         /\ UNCHANGED acked
  BY <1>2 DEF Decline, Pursue
<1> QED BY <1>1, <1>2, <1>3, <1>5, <1>6 DEF DecidedOn

------------------------------------------------------------------------------
(* Each kind of step preserves the invariant *)

LEMMA ReceiveKeeps ==
  ASSUME IntakeInv, NEW r \in Requests, NEW e \in Events, Receive(r, e)
  PROVE  IntakeInv'
<1> USE WebhookIntakeAssumption DEF IntakeInv, decisions
<1>1. CASE event[e] /= "none"
  <2>1. /\ acked' = acked \union {e}
        /\ UNCHANGED <<event, record, stage, attempts, linked, contacted,
                       request, faults>>
    BY <1>1 DEF Receive, IsDuplicate
  <2> QED BY <2>1 DEF TypeOK, RequestsKnow, HandledOnce, WorksOn, HandledWhole,
                      CaptureSticks
<1>2. CASE event[e] = "none"
  <2>1. /\ event' = [event EXCEPT ![e] = "RECEIVED"]
        /\ request' = [request EXCEPT ![r] = [pc |-> "received", ev |-> e]]
        /\ UNCHANGED <<record, stage, attempts, linked, contacted, acked, faults>>
    BY <1>2 DEF Receive, IsDuplicate
  <2>2. TypeOK'
    BY <2>1 DEF TypeOK, EventStates, RequestStates
  <2>3. RequestsKnow'
    BY <2>1 DEF TypeOK, RequestsKnow
  <2>4. HandledOnce'
    <3>1. \A s \in Requests : ~ WorksOn(s, e)
      BY <1>2 DEF HandledOnce
    <3> QED BY <2>1, <3>1 DEF TypeOK, HandledOnce, WorksOn
  <2>5. HandledWhole'
    BY <1>2, <2>1 DEF TypeOK, HandledWhole, Failures
  <2>6. CaptureSticks'
    BY <2>1 DEF TypeOK, CaptureSticks, Captures
  <2> QED BY <2>2, <2>3, <2>4, <2>5, <2>6
<1> QED BY <1>1, <1>2

\* A request that answers sets its event to PROCESSED and is idle.
LEMMA AnswerKeepsRequests ==
  ASSUME IntakeInv, NEW r \in Requests, request[r].pc /= "idle", Processed(r)
  PROVE  /\ event' \in [Events -> EventStates]
         /\ request' \in [Requests -> RequestStates]
         /\ acked' \subseteq Events
         /\ RequestsKnow' /\ HandledOnce'
<1> USE DEF IntakeInv
<1>1. request[r].ev \in Events
  BY DEF RequestsKnow
<1>2. /\ event' = [event EXCEPT ![request[r].ev] = "PROCESSED"]
      /\ acked' = acked \union {request[r].ev}
      /\ request' = [request EXCEPT ![r] = Idle]
  BY DEF Processed
<1>3. /\ event' \in [Events -> EventStates]
      /\ request' \in [Requests -> RequestStates]
      /\ acked' \subseteq Events
  BY <1>1, <1>2 DEF TypeOK, EventStates, RequestStates, Idle
<1>4. RequestsKnow'
  BY <1>2 DEF TypeOK, RequestsKnow, Idle
<1>5. HandledOnce'
  <2> SUFFICES ASSUME NEW d \in Events, NEW s \in Requests, NEW u \in Requests,
                      WorksOn(s, d)'
               PROVE  /\ WorksOn(u, d)' => s = u
                      /\ event'[d] = IF request'[s].pc = "received"
                                     THEN "RECEIVED" ELSE "PROCESSING"
    BY DEF HandledOnce
  <2>1. s /= r /\ request'[s] = request[s] /\ WorksOn(s, d)
    BY <1>2 DEF TypeOK, WorksOn, Idle
  <2>2. d /= request[r].ev
    BY <2>1, <1>1 DEF HandledOnce, WorksOn
  <2>3. event'[d] = event[d]
    BY <1>2, <2>2 DEF TypeOK
  <2>4. WorksOn(u, d)' => WorksOn(u, d)
    BY <1>2 DEF TypeOK, WorksOn, Idle
  <2> QED BY <2>1, <2>3, <2>4 DEF HandledOnce
<1> QED BY <1>3, <1>4, <1>5

LEMMA PlainKeeps ==
  ASSUME IntakeInv, NEW r \in Requests, HandledPlainly(r)
  PROVE  IntakeInv'
<1> USE WebhookIntakeAssumption DEF IntakeInv
<1> DEFINE e == request[r].ev
<1>1. request[r].pc /= "idle" /\ e \in Events /\ Processed(r)
  BY DEF HandledPlainly, RequestsKnow
<1>2. event' = [event EXCEPT ![e] = "PROCESSED"]
  BY <1>1 DEF Processed
<1>3. /\ event' \in [Events -> EventStates]
      /\ request' \in [Requests -> RequestStates]
      /\ acked' \subseteq Events
      /\ RequestsKnow' /\ HandledOnce'
  BY <1>1, AnswerKeepsRequests
<1>4. /\ stage' \in [Failures -> Lifecycle!Stages]
      /\ record' \in [Payments -> RecordStates]
      /\ KeepsDecisions /\ KeepsRecords
      /\ UNCHANGED <<attempts, linked, contacted, faults>>
  BY DEF HandledPlainly
<1>5. TypeOK'
  BY <1>3, <1>4 DEF TypeOK
<1>6. HandledWhole'
  <2> SUFFICES ASSUME NEW d \in Failures
               PROVE  /\ event'[d] \in {"none", "SIGNATURE_INVALID", "RECEIVED"} =>
                           stage'[d] = "none"
                      /\ event'[d] \in {"PROCESSING", "PROCESSED"} =>
                           stage'[d] /= "none"
                      /\ stage'[d] = "declined" => event'[d] = "PROCESSED"
                      /\ stage'[d] /= "none" =>
                           \A p \in Subject[d] : record'[p] /= "none"
    BY DEF HandledWhole
  <2>1. stage'[d] /= "none" => \A p \in Subject[d] : record'[p] /= "none"
    <3>1. Subject[d] \subseteq Payments
      BY DEF Failures
    <3> QED BY <3>1, <1>4 DEF HandledWhole, KeepsDecisions, KeepsRecords
  <2>2. CASE d /= e
    <3>1. event'[d] = event[d]
      BY <1>2, <2>2 DEF TypeOK, Failures
    <3> QED BY <3>1, <2>1, <1>4 DEF HandledWhole, KeepsDecisions
  <2>3. CASE d = e
    <3>1. request[r].pc = "executing"
      BY <2>3 DEF HandledPlainly
    <3>2. event[d] = "PROCESSING"
      BY <3>1, <2>3, <1>1 DEF HandledOnce, WorksOn
    <3>3. event'[d] = "PROCESSED"
      BY <1>1, <1>2, <2>3 DEF TypeOK
    <3>4. stage'[d] /= "none"
      BY <3>2, <1>4 DEF HandledWhole, KeepsDecisions
    <3> QED BY <2>1, <3>3, <3>4
  <2> QED BY <2>2, <2>3
<1>7. CaptureSticks'
  <2> SUFFICES ASSUME NEW c \in Captures, NEW p \in Subject[c],
                      event'[c] = "PROCESSED"
               PROVE  record'[p] = "CAPTURED"
    BY DEF CaptureSticks
  <2>1. CASE c = e
    BY <2>1 DEF HandledPlainly
  <2>2. CASE c /= e
    <3>1. event[c] = "PROCESSED"
      BY <1>2, <2>2 DEF TypeOK, Captures
    <3>2. record[p] = "CAPTURED" /\ p \in Payments
      BY <3>1 DEF CaptureSticks, Captures
    <3> QED BY <3>2, <1>4 DEF KeepsRecords
  <2> QED BY <2>1, <2>2
<1> QED BY <1>3, <1>5, <1>6, <1>7

LEMMA DecidedKeeps ==
  ASSUME IntakeInv, NEW r \in Requests, NEW e \in Failures, DecidedOn(r, e)
  PROVE  IntakeInv'
<1> USE WebhookIntakeAssumption DEF IntakeInv
<1>1. /\ request[r].pc = "received" /\ request[r].ev = e /\ e \in Events
      /\ Kind[e] = "payment.failed" /\ e \notin Captures
      /\ event[e] = "RECEIVED"
  BY DEF DecidedOn, Failures, Captures, HandledOnce, WorksOn
<1>2. /\ stage' \in [Failures -> Lifecycle!Stages] /\ stage'[e] /= "none"
      /\ \A d \in Failures \ {e} : stage'[d] = stage[d]
      /\ record' \in [Payments -> RecordStates] /\ KeepsRecords
      /\ \A p \in Subject[e] : record'[p] /= "none"
      /\ UNCHANGED <<attempts, linked, contacted, faults>>
  BY DEF DecidedOn
<1>3. /\ \A c \in Events \ {e} : event'[c] = event[c]
      /\ event'[e] \in {"PROCESSING", "PROCESSED"}
      /\ stage'[e] = "declined" => event'[e] = "PROCESSED"
      /\ event' \in [Events -> EventStates]
      /\ request' \in [Requests -> RequestStates]
      /\ acked' \subseteq Events
      /\ RequestsKnow' /\ HandledOnce'
  <2>1. CASE Processed(r)
    <3>1. event' = [event EXCEPT ![e] = "PROCESSED"]
      BY <1>1, <2>1 DEF Processed
    <3>2. /\ event' \in [Events -> EventStates]
          /\ request' \in [Requests -> RequestStates]
          /\ acked' \subseteq Events
          /\ RequestsKnow' /\ HandledOnce'
      BY <1>1, <2>1, AnswerKeepsRequests
    <3> QED BY <1>1, <3>1, <3>2 DEF TypeOK
  <2>2. CASE /\ stage'[e] = "pending"
             /\ event' = [event EXCEPT ![e] = "PROCESSING"]
             /\ request' = [request EXCEPT ![r].pc = "executing"]
             /\ UNCHANGED acked
    <3>1. /\ event' \in [Events -> EventStates]
          /\ request' \in [Requests -> RequestStates]
      BY <1>1, <2>2 DEF TypeOK, EventStates, RequestStates
    <3>2. RequestsKnow'
      BY <1>1, <2>2 DEF TypeOK, RequestsKnow, RequestStates
    <3>3. HandledOnce'
      <4>1. \A s \in Requests, c \in Events : WorksOn(s, c)' <=> WorksOn(s, c)
        BY <1>1, <2>2 DEF TypeOK, WorksOn, RequestStates
      <4>2. \A s \in Requests : WorksOn(s, e) => s = r
        BY <1>1 DEF HandledOnce, WorksOn
      <4>3. \A s \in Requests : s /= r => request'[s] = request[s]
        BY <2>2 DEF TypeOK
      <4>4. request'[r].pc = "executing" /\ request'[r].ev = e
        BY <1>1, <2>2 DEF TypeOK, RequestStates
      <4>5. event'[e] = "PROCESSING" /\ \A c \in Events \ {e} : event'[c] = event[c]
        BY <1>1, <2>2 DEF TypeOK
      <4> SUFFICES ASSUME NEW c \in Events, NEW s \in Requests, NEW u \in Requests,
                          WorksOn(s, c)'
                   PROVE  /\ WorksOn(u, c)' => s = u
                          /\ event'[c] = IF request'[s].pc = "received"
                                         THEN "RECEIVED" ELSE "PROCESSING"
        BY DEF HandledOnce
      <4>6. WorksOn(s, c)
        BY <4>1
      <4>7. WorksOn(u, c)' => s = u
        BY <4>1, <4>6 DEF HandledOnce
      <4>8. CASE s = r
        <5>1. c = e
          BY <4>4, <4>8 DEF WorksOn
        <5> QED BY <5>1, <4>4, <4>5, <4>7, <4>8
      <4>9. CASE s /= r
        <5>1. c /= e
          BY <4>2, <4>6, <4>9
        <5> QED BY <5>1, <4>3, <4>5, <4>6, <4>7, <4>9 DEF HandledOnce
      <4> QED BY <4>8, <4>9
    <3> QED BY <1>1, <2>2, <3>1, <3>2, <3>3 DEF TypeOK
  <2> QED BY <2>1, <2>2 DEF DecidedOn
<1>4. TypeOK'
  BY <1>2, <1>3 DEF TypeOK
<1>5. HandledWhole'
  <2> SUFFICES ASSUME NEW d \in Failures
               PROVE  /\ event'[d] \in {"none", "SIGNATURE_INVALID", "RECEIVED"} =>
                           stage'[d] = "none"
                      /\ event'[d] \in {"PROCESSING", "PROCESSED"} =>
                           stage'[d] /= "none"
                      /\ stage'[d] = "declined" => event'[d] = "PROCESSED"
                      /\ stage'[d] /= "none" =>
                           \A p \in Subject[d] : record'[p] /= "none"
    BY DEF HandledWhole
  <2>1. CASE d = e
    BY <2>1, <1>2, <1>3
  <2>2. CASE d /= e
    <3>1. event'[d] = event[d] /\ stage'[d] = stage[d]
      BY <1>2, <1>3, <2>2 DEF Failures
    <3>2. Subject[d] \subseteq Payments
      BY DEF Failures
    <3> QED BY <3>1, <3>2, <1>2 DEF HandledWhole, KeepsRecords
  <2> QED BY <2>1, <2>2
<1>6. CaptureSticks'
  <2> SUFFICES ASSUME NEW c \in Captures, NEW p \in Subject[c],
                      event'[c] = "PROCESSED"
               PROVE  record'[p] = "CAPTURED"
    BY DEF CaptureSticks
  <2>1. event[c] = "PROCESSED"
    BY <1>1, <1>3 DEF Captures
  <2>2. record[p] = "CAPTURED" /\ p \in Payments
    BY <2>1 DEF CaptureSticks, Captures
  <2> QED BY <2>2, <1>2 DEF KeepsRecords
<1> QED BY <1>3, <1>4, <1>5, <1>6

LEMMA RejectKeeps ==
  ASSUME IntakeInv, NEW r \in Requests, NEW e \in Events, Reject(r, e)
  PROVE  IntakeInv'
<1> USE WebhookIntakeAssumption DEF IntakeInv, decisions
<1>1. /\ faults < MaxFaults /\ faults' = faults + 1
      /\ UNCHANGED <<record, stage, attempts, linked, contacted, request, acked>>
      /\ \A c \in Events \ {e} : event'[c] = event[c]
      /\ event' \in [Events -> EventStates]
      /\ \/ event[e] = "none" /\ event'[e] = "SIGNATURE_INVALID"
         \/ event'[e] = event[e]
  BY DEF Reject, PersistRejected, IsDuplicate, TypeOK, EventStates
<1>2. TypeOK'
  BY <1>1 DEF TypeOK
<1>3. RequestsKnow'
  BY <1>1 DEF RequestsKnow
<1>4. HandledOnce'
  <2>1. \A s \in Requests, c \in Events :
          WorksOn(s, c)' => WorksOn(s, c) /\ event'[c] = event[c]
    BY <1>1 DEF HandledOnce, WorksOn
  <2> QED BY <1>1, <2>1 DEF HandledOnce
<1>5. HandledWhole' /\ CaptureSticks'
  BY <1>1 DEF HandledWhole, CaptureSticks, Failures, Captures
<1> QED BY <1>2, <1>3, <1>4, <1>5

LEMMA FailKeeps ==
  ASSUME IntakeInv, NEW r \in Requests, Fail(r)
  PROVE  IntakeInv'
<1> USE WebhookIntakeAssumption DEF IntakeInv, decisions
<1> DEFINE e == request[r].ev
<1>1. /\ request[r].pc /= "idle" /\ e \in Events
      /\ event[e] \in {"RECEIVED", "PROCESSING"}
      /\ \A s \in Requests : WorksOn(s, e) => s = r
  BY DEF Fail, RequestsKnow, HandledOnce, WorksOn
<1>2. /\ faults < MaxFaults /\ faults' = faults + 1
      /\ request' = [request EXCEPT ![r] = Idle]
      /\ UNCHANGED <<record, stage, attempts, linked, contacted, acked>>
      /\ event' = [event EXCEPT ![e] = "FAILED"] \/ UNCHANGED event
  BY DEF Fail
<1> HIDE DEF e
<1>3. /\ event' \in [Events -> EventStates]
      /\ \A c \in Events \ {e} : event'[c] = event[c]
      /\ event'[e] \in {event[e], "FAILED"}
  BY <1>1, <1>2 DEF TypeOK, EventStates
<1>4. TypeOK'
  BY <1>2, <1>3 DEF TypeOK, RequestStates, Idle
<1>5. RequestsKnow'
  BY <1>2 DEF TypeOK, RequestsKnow, Idle
<1>6. HandledOnce'
  <2>1. \A s \in Requests, c \in Events :
          WorksOn(s, c)' => /\ WorksOn(s, c) /\ s /= r
                            /\ request'[s] = request[s]
    BY <1>2 DEF TypeOK, WorksOn, Idle
  <2>2. \A s \in Requests, c \in Events : WorksOn(s, c)' => event'[c] = event[c]
    BY <2>1, <1>1, <1>3
  <2> QED BY <2>1, <2>2 DEF HandledOnce
<1>7. HandledWhole'
  BY <1>1, <1>2, <1>3 DEF HandledWhole, Failures
<1>8. CaptureSticks'
  BY <1>1, <1>2, <1>3 DEF CaptureSticks, Captures
<1> QED BY <1>4, <1>5, <1>6, <1>7, <1>8

LEMMA CrashKeeps ==
  ASSUME IntakeInv, Crash
  PROVE  IntakeInv'
<1> USE WebhookIntakeAssumption DEF IntakeInv, decisions, Crash
<1>1. TypeOK'
  BY DEF TypeOK, RequestStates, Idle
<1>2. RequestsKnow' /\ HandledOnce'
  BY DEF RequestsKnow, HandledOnce, WorksOn, Idle
<1>3. HandledWhole' /\ CaptureSticks'
  BY DEF HandledWhole, CaptureSticks
<1> QED BY <1>1, <1>2, <1>3

LEMMA ExecuteKeeps ==
  ASSUME IntakeInv, NEW e \in Failures, Execute(e)
  PROVE  IntakeInv'
<1> USE WebhookIntakeAssumption DEF IntakeInv
<1>1. /\ stage' \in [Failures -> Lifecycle!Stages]
      /\ attempts' \in [Failures -> 0..MaxAttempts]
      /\ linked' \subseteq Failures /\ contacted' \subseteq Failures
      /\ KeepsDecisions
  BY ExecuteDecisions
<1>2. UNCHANGED <<event, record, request, acked, faults>>
  BY DEF Execute
<1>3. TypeOK'
  BY <1>1, <1>2 DEF TypeOK
<1>4. RequestsKnow' /\ HandledOnce' /\ CaptureSticks'
  BY <1>2 DEF RequestsKnow, HandledOnce, WorksOn, CaptureSticks
<1>5. HandledWhole'
  BY <1>1, <1>2 DEF HandledWhole, KeepsDecisions
<1> QED BY <1>3, <1>4, <1>5

------------------------------------------------------------------------------
LEMMA IntakeInitially == Init => IntakeInv
<1> SUFFICES ASSUME Init PROVE IntakeInv
  OBVIOUS
<1> USE WebhookIntakeAssumption DEF Init, Lifecycle!Init
<1>1. TypeOK
  BY DEF TypeOK, EventStates, RecordStates, RequestStates, Idle, Lifecycle!Stages
<1>2. RequestsKnow /\ HandledOnce
  BY DEF RequestsKnow, HandledOnce, WorksOn, Idle
<1>3. HandledWhole /\ CaptureSticks
  BY DEF HandledWhole, CaptureSticks, Failures, Captures
<1> QED BY <1>1, <1>2, <1>3 DEF IntakeInv

LEMMA IntakeStep == IntakeInv /\ [Next]_vars => IntakeInv'
<1> SUFFICES ASSUME IntakeInv, [Next]_vars PROVE IntakeInv'
  OBVIOUS
<1>1. ASSUME NEW r \in Requests, NEW e \in Events, Receive(r, e) PROVE IntakeInv'
  BY <1>1, ReceiveKeeps
<1>2. ASSUME NEW r \in Requests, HandleFailed(r) PROVE IntakeInv'
  <2>1. DecidedOn(r, request[r].ev)
    BY <1>2, FailedHandler
  <2>2. request[r].ev \in Failures
    BY <2>1 DEF DecidedOn
  <2> DEFINE e == request[r].ev
  <2>3. e \in Failures /\ DecidedOn(r, e)
    BY <2>1, <2>2
  <2> HIDE DEF e
  <2> QED BY <2>3, DecidedKeeps
<1>3. ASSUME NEW r \in Requests,
             \/ Finish(r) \/ HandleCaptured(r) \/ HandleOrderPaid(r)
             \/ HandleLinkPaid(r) \/ Skip(r)
      PROVE IntakeInv'
  <2>1. HandledPlainly(r)
    BY <1>3, PlainHandlers
  <2> QED BY <2>1, PlainKeeps
<1>4. ASSUME NEW r \in Requests, Fail(r) PROVE IntakeInv'
  BY <1>4, FailKeeps
<1>8. ASSUME NEW r \in Requests, NEW e \in Events, Reject(r, e) PROVE IntakeInv'
  BY <1>8, RejectKeeps
<1>5. CASE Crash
  BY <1>5, CrashKeeps
<1>6. ASSUME NEW e \in Failures, Execute(e) PROVE IntakeInv'
  BY <1>6, ExecuteKeeps
<1>7. CASE UNCHANGED vars
  <2>1. UNCHANGED <<event, record, stage, attempts, linked, contacted, request,
                    acked, faults>>
    BY <1>7 DEF vars
  <2> QED BY <2>1 DEF IntakeInv, TypeOK, RequestsKnow, HandledOnce, WorksOn,
                      HandledWhole, CaptureSticks
<1> QED BY <1>1, <1>2, <1>3, <1>4, <1>5, <1>6, <1>7, <1>8 DEF Next, Handle

LEMMA IntakeInvariant == Spec => []IntakeInv
BY IntakeInitially, IntakeStep, PTL DEF Spec

\* Every status, record, decision and request of the intake keeps its type,
\* whatever is delivered and whatever fails.
THEOREM IntakeTypeCorrect == Spec => []TypeOK
<1>1. IntakeInv => TypeOK
  BY DEF IntakeInv
<1> QED BY <1>1, IntakeInvariant, PTL

\* One request at most processes an event, for any number of deliveries,
\* requests and restarts: the UNIQUE constraint on event_id suffices.
THEOREM ProcessedOnce == Spec => []HandledOnce
<1>1. IntakeInv => HandledOnce
  BY DEF IntakeInv
<1> QED BY <1>1, IntakeInvariant, PTL

\* No error and no restart leaves half of what the payment.failed handler
\* writes, although it commits in its middle.
THEOREM ProcessedWhole == Spec => []HandledWhole
<1>1. IntakeInv => HandledWhole
  BY DEF IntakeInv
<1> QED BY <1>1, IntakeInvariant, PTL

\* A processed capture is never taken back by the failures of the payment that
\* come after it (upsert_payment_record_from_failed).
THEOREM CapturesStay == Spec => []CaptureSticks
<1>1. IntakeInv => CaptureSticks
  BY DEF IntakeInv
<1> QED BY <1>1, IntakeInvariant, PTL

------------------------------------------------------------------------------
(* The control group *)

\* What was never pursued was never started, linked or followed by a contact.
UnpursuedUntouched ==
  \A e \in Failures : stage[e] \in {"none", "declined"} =>
    attempts[e] = 0 /\ e \notin linked /\ e \notin contacted

ControlInv == UnpursuedUntouched /\ ControlUntouched

\* A failed payment of the control group is always declined.
LEMMA ControlDeclines ==
  ASSUME IntakeInv, NEW r \in Requests, HandleFailed(r),
         NEW p \in Subject[request[r].ev], InControl(p)
  PROVE  stage'[request[r].ev] = "declined"
<1> DEFINE e == request[r].ev
<1>1. AssignmentId(p) \in Control
  BY DEF InControl, AssignmentId
<1>2. Proposals(e) = {"NO_ACTION"}
  BY <1>1 DEF Proposals, Variant
<1>3. Evaluate(e, "NO_ACTION") = "NO_ACTION"
  BY DEF Evaluate
<1>4. Decline(r, e)
  BY <1>2, <1>3 DEF HandleFailed
<1> QED BY <1>4 DEF Decline

LEMMA ControlExecute ==
  ASSUME IntakeInv, ControlInv, NEW e \in Failures, Execute(e)
  PROVE  ControlInv'
<1> USE DEF IntakeInv, TypeOK, ControlInv, UnpursuedUntouched
<1>1. stage[e] \notin {"none", "declined"}
  BY DEF Execute, Lifecycle!Start, Lifecycle!MakeLink, Lifecycle!Retry,
         Lifecycle!GiveUp, Lifecycle!Succeed, Lifecycle!Move
<1>2. /\ stage'[e] \notin {"none", "declined"}
      /\ \A d \in Failures \ {e} : stage'[d] = stage[d] /\ attempts'[d] = attempts[d]
      /\ linked' \subseteq linked \union {e}
      /\ contacted' \subseteq contacted \union {e}
  BY <1>1 DEF Execute, Lifecycle!Start, Lifecycle!MakeLink,
              Lifecycle!Retry, Lifecycle!GiveUp, Lifecycle!Succeed, Lifecycle!Move
<1>3. UnpursuedUntouched'
  BY <1>2
<1>4. \A p \in Subject[e] : ~ InControl(p)
  BY <1>1 DEF ControlUntouched
<1>5. ControlUntouched'
  BY <1>2, <1>4 DEF ControlUntouched, InControl
<1> QED BY <1>3, <1>5

LEMMA ControlStep == IntakeInv /\ ControlInv /\ [Next]_vars => ControlInv'
<1> SUFFICES ASSUME IntakeInv, ControlInv, [Next]_vars PROVE ControlInv'
  OBVIOUS
<1> USE DEF ControlInv
<1>1. ASSUME UNCHANGED <<stage, attempts, linked, contacted>> PROVE ControlInv'
  BY <1>1 DEF UnpursuedUntouched, ControlUntouched, InControl
<1>2. ASSUME NEW r \in Requests, HandleFailed(r) PROVE ControlInv'
  <2> DEFINE e == request[r].ev
  <2>1. DecidedOn(r, e)
    BY <1>2, FailedHandler
  <2>2. ASSUME NEW p \in Subject[e], InControl(p) PROVE stage'[e] = "declined"
    BY <1>2, <2>2, ControlDeclines
  <2>3. /\ e \in Failures /\ event[e] = "RECEIVED"
        /\ \A d \in Failures \ {e} : stage'[d] = stage[d]
        /\ UNCHANGED <<attempts, linked, contacted>>
    BY <2>1 DEF DecidedOn, IntakeInv, HandledOnce, WorksOn, Failures
  <2> HIDE DEF e
  <2>4. stage[e] = "none"
    BY <2>3 DEF IntakeInv, HandledWhole
  <2>5. attempts[e] = 0 /\ e \notin linked /\ e \notin contacted
    BY <2>3, <2>4 DEF UnpursuedUntouched
  <2>6. UnpursuedUntouched'
    BY <2>3, <2>5 DEF UnpursuedUntouched
  <2>7. ControlUntouched'
    BY <2>2, <2>3, <2>5 DEF ControlUntouched, InControl
  <2> QED BY <2>6, <2>7
<1>3. ASSUME NEW r \in Requests, HandleLinkPaid(r) PROVE ControlInv'
  <2> DEFINE d == Reference[request[r].ev]
  <2>1. CASE UNCHANGED decisions
    BY <1>1, <1>3, <2>1 DEF HandleLinkPaid, decisions
  <2>2. CASE Lifecycle!Observe(d)
    <3>1. /\ stage[d] = "sent" /\ stage' = [stage EXCEPT ![d] = "observed"]
          /\ UNCHANGED <<attempts, linked, contacted>>
      BY <1>3, <2>2 DEF HandleLinkPaid, Lifecycle!Observe, Lifecycle!Move
    <3> HIDE DEF d
    <3>2. UnpursuedUntouched'
      BY <3>1 DEF UnpursuedUntouched, IntakeInv, TypeOK
    <3>3. ControlUntouched'
      BY <3>1 DEF ControlUntouched, InControl, IntakeInv, TypeOK
    <3> QED BY <3>2, <3>3
  <2> QED BY <1>3, <2>1, <2>2 DEF HandleLinkPaid
<1>4. ASSUME NEW e \in Failures, Execute(e) PROVE ControlInv'
  BY <1>4, ControlExecute
<1>5. ASSUME NEW r \in Requests,
             \/ \E e \in Events : Receive(r, e) \/ Reject(r, e)
             \/ HandleCaptured(r) \/ HandleOrderPaid(r) \/ Skip(r)
             \/ Finish(r) \/ Fail(r)
      PROVE ControlInv'
  BY <1>1, <1>5 DEF Receive, Reject, HandleCaptured, HandleOrderPaid, Skip, Finish,
                    Fail, decisions
<1>6. CASE Crash
  BY <1>1, <1>6 DEF Crash, decisions
<1>7. CASE UNCHANGED vars
  BY <1>1, <1>7 DEF vars, decisions
<1> QED BY <1>2, <1>3, <1>4, <1>5, <1>6, <1>7 DEF Next, Handle

\* Nobody in the control group of the experiment is ever sent a link or contacted,
\* for any payments, customers, retries and restarts.
THEOREM ControlIsUntouched == Spec => []ControlUntouched
<1>1. Init => ControlInv
  BY WebhookIntakeAssumption DEF Init, Lifecycle!Init, ControlInv,
     UnpursuedUntouched, ControlUntouched
<1>2. ControlInv => ControlUntouched
  BY DEF ControlInv
<1> QED BY <1>1, <1>2, ControlStep, IntakeInvariant, PTL DEF Spec

------------------------------------------------------------------------------
(* What the second guardrail achieves *)

\* What is executing was started, and does not count as fresh when it is put back.
FreshInv == /\ \A e \in Failures : stage[e] = "executing" => attempts[e] > 0
            /\ OneFreshDecision

\* No step that makes no decision makes a fresh one.
LEMMA FreshShrinks ==
  ASSUME TypeOK, FreshInv, NEW e \in Failures,
         \/ Lifecycle!Start(e) \/ Lifecycle!MakeLink(e) \/ Lifecycle!Retry(e)
         \/ Lifecycle!Succeed(e) \/ Lifecycle!GiveUp(e) \/ Lifecycle!Observe(e)
  PROVE  FreshInv'
<1>1. /\ \A d \in Failures \ {e} : stage'[d] = stage[d] /\ attempts'[d] = attempts[d]
      /\ stage'[e] = "executing" => attempts'[e] > 0
      /\ stage'[e] = "pending" /\ attempts'[e] = 0 =>
           stage[e] = "pending" /\ attempts[e] = 0
  BY DEF TypeOK, FreshInv, Lifecycle!Start, Lifecycle!MakeLink, Lifecycle!Retry,
         Lifecycle!Succeed, Lifecycle!GiveUp, Lifecycle!Observe, Lifecycle!Move
<1>2. Fresh' \subseteq Fresh
  BY <1>1 DEF Fresh
<1> QED BY <1>1, <1>2 DEF FreshInv, OneFreshDecision

\* A decision passes the guardrail only while no other of its payment is pending.
LEMMA DecidedFresh ==
  ASSUME IntakeInv, FreshInv, NEW r \in Requests, HandleFailed(r)
  PROVE  FreshInv'
<1> DEFINE e == request[r].ev
<1>1. /\ e \in Failures /\ stage' \in [Failures -> Lifecycle!Stages]
      /\ \A d \in Failures \ {e} : stage'[d] = stage[d]
      /\ UNCHANGED attempts
  BY FailedHandler DEF DecidedOn
<1>2. stage'[e] \in {"pending", "declined"}
  BY <1>1, FailedHandler DEF HandleFailed, Decline, Pursue
<1>3. stage'[e] = "pending" =>
        \A d \in Failures : Subject[d] = Subject[e] => stage[d] /= "pending"
  <2>1. CASE ~ AlreadyPursued(e)
    BY <2>1 DEF AlreadyPursued
  <2>2. CASE AlreadyPursued(e)
    <3>1. \A proposal : Evaluate(e, proposal) = "NO_ACTION"
      BY <2>2 DEF Evaluate
    <3>2. stage'[e] = "declined"
      BY <3>1 DEF HandleFailed, Decline
    <3> QED BY <3>2
  <2> QED BY <2>1, <2>2
<1> HIDE DEF e
<1>4. \A d \in Failures : stage'[d] = "executing" => attempts'[d] > 0
  BY <1>1, <1>2 DEF FreshInv
<1>5. OneFreshDecision'
  <2>1. \A d \in Fresh' : d \in Failures /\ (d /= e => d \in Fresh)
    BY <1>1 DEF Fresh
  <2>2. e \in Fresh' =>
          \A d \in Fresh : Subject[d] /= Subject[e]
    BY <1>3 DEF Fresh
  <2> QED BY <2>1, <2>2 DEF FreshInv, OneFreshDecision
<1> QED BY <1>4, <1>5 DEF FreshInv

LEMMA FreshStep == IntakeInv /\ FreshInv /\ [Next]_vars => FreshInv'
<1> SUFFICES ASSUME IntakeInv, FreshInv, [Next]_vars PROVE FreshInv'
  OBVIOUS
<1>1. ASSUME UNCHANGED <<stage, attempts>> PROVE FreshInv'
  BY <1>1 DEF FreshInv, OneFreshDecision, Fresh
<1>2. ASSUME NEW r \in Requests, HandleFailed(r) PROVE FreshInv'
  BY <1>2, DecidedFresh
<1>3. ASSUME NEW r \in Requests, HandleLinkPaid(r) PROVE FreshInv'
  <2> DEFINE d == Reference[request[r].ev]
  <2>1. CASE UNCHANGED decisions
    BY <1>1, <2>1 DEF decisions
  <2>2. CASE Lifecycle!Observe(d)
    <3>1. d \in Failures
      BY <1>3, WebhookIntakeAssumption
      DEF HandleLinkPaid, Handling, IntakeInv, RequestsKnow
    <3> HIDE DEF d
    <3> QED BY <2>2, <3>1, FreshShrinks DEF IntakeInv
  <2> QED BY <1>3, <2>1, <2>2 DEF HandleLinkPaid
<1>4. ASSUME NEW e \in Failures, Execute(e) PROVE FreshInv'
  BY <1>4, FreshShrinks DEF Execute, IntakeInv
<1>5. ASSUME NEW r \in Requests,
             \/ \E e \in Events : Receive(r, e) \/ Reject(r, e)
             \/ HandleCaptured(r) \/ HandleOrderPaid(r) \/ Skip(r)
             \/ Finish(r) \/ Fail(r)
      PROVE FreshInv'
  BY <1>1, <1>5 DEF Receive, Reject, HandleCaptured, HandleOrderPaid, Skip, Finish,
                    Fail, decisions
<1>6. CASE Crash \/ UNCHANGED vars
  BY <1>1, <1>6 DEF Crash, vars, decisions
<1> QED BY <1>2, <1>3, <1>4, <1>5, <1>6 DEF Next, Handle

\* However many failures of a payment arrive, and whichever requests handle them
\* after whatever errors and restarts, it never has two decisions that wait to be
\* executed for the first time: of these the second guardrail lets one through.
THEOREM OneFresh == Spec => []OneFreshDecision
<1>1. Init => FreshInv
  BY DEF Init, Lifecycle!Init, FreshInv, OneFreshDecision, Fresh
<1>2. FreshInv => OneFreshDecision
  BY DEF FreshInv
<1> QED BY <1>1, <1>2, FreshStep, IntakeInvariant, PTL DEF Spec
=============================================================================
