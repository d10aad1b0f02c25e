--------------------------- MODULE DeliveryProofs ---------------------------
(***************************************************************************)
(* WebhookIntake implements EventDelivery: each of its steps takes,        *)
(* applies or answers one event, is a fault, or leaves all events as they  *)
(* were.  What the abstract specification keeps then holds of the intake.  *)
(***************************************************************************)
EXTENDS IntakeProofs

\* The fate of an event with respect to the stored status, the decisions and
\* the requests.
LEMMA Fates ==
  ASSUME NEW e
  PROVE  /\ Applied(e) <=> Fate(e) = "applied"
         /\ ~ Applied(e) /\ AtWork(e) <=> Fate(e) = "taken"
         /\ ~ Applied(e) /\ ~ AtWork(e) /\ event[e] = "none" <=> Fate(e) = "new"
         /\ ~ Applied(e) /\ ~ AtWork(e) /\ event[e] /= "none" <=> Fate(e) = "lost"
BY DEF Fate

LEMMA FatesNext ==
  ASSUME NEW e
  PROVE  /\ Applied(e)' <=> Fate(e)' = "applied"
         /\ ~ Applied(e)' /\ AtWork(e)' <=> Fate(e)' = "taken"
         /\ ~ Applied(e)' /\ ~ AtWork(e)' /\ event'[e] = "none"
              <=> Fate(e)' = "new"
         /\ ~ Applied(e)' /\ ~ AtWork(e)' /\ event'[e] /= "none"
              <=> Fate(e)' = "lost"
BY DEF Fate

\* An event nothing happens to.
LEMMA FateKept ==
  ASSUME NEW e, event'[e] = event[e],
         e \in Failures => (stage[e] = "none" <=> stage'[e] = "none"),
         \A r \in Requests : WorksOn(r, e)' <=> WorksOn(r, e)
  PROVE  Fate(e)' = Fate(e)
<1>1. Applied(e)' <=> Applied(e)  BY DEF Applied
<1>2. AtWork(e)' <=> AtWork(e)  BY DEF AtWork
<1>. QED  BY <1>1, <1>2 DEF Fate

\* What is stored of an event a request works on, and of one that is not stored.
LEMMA FateNow ==
  ASSUME IntakeInv, NEW e \in Events
  PROVE  /\ event[e] = "none" => Fate(e) = "new"
         /\ \A r \in Requests :
              /\ request[r].pc = "received" /\ request[r].ev = e =>
                   Fate(e) = "taken" /\ event[e] = "RECEIVED"
              /\ request[r].pc = "executing" /\ request[r].ev = e =>
                   Fate(e) = "applied" /\ e \in Failures
<1>1. ASSUME event[e] \in {"none", "RECEIVED"} PROVE ~ Applied(e)
  BY <1>1 DEF Applied, IntakeInv, HandledWhole
<1>2. ASSUME event[e] = "none" PROVE Fate(e) = "new"
  <2>1. ~ AtWork(e)  BY <1>2 DEF AtWork, WorksOn, IntakeInv, HandledOnce
  <2>. QED  BY <1>1, <1>2, <2>1, Fates
<1>3. ASSUME NEW r \in Requests, request[r].pc = "received", request[r].ev = e
      PROVE  Fate(e) = "taken" /\ event[e] = "RECEIVED"
  <2>1. event[e] = "RECEIVED"  BY <1>3 DEF WorksOn, IntakeInv, HandledOnce
  <2>2. AtWork(e)  BY <1>3 DEF AtWork, WorksOn
  <2>. QED  BY <1>1, <2>1, <2>2, Fates
<1>4. ASSUME NEW r \in Requests, request[r].pc = "executing", request[r].ev = e
      PROVE  Fate(e) = "applied" /\ e \in Failures
  <2>1. event[e] = "PROCESSING"  BY <1>4 DEF WorksOn, IntakeInv, HandledOnce
  <2>2. e \in Failures  BY <1>4 DEF IntakeInv, RequestsKnow, Failures
  <2>3. Applied(e)  BY <2>1, <2>2 DEF Applied, IntakeInv, HandledWhole
  <2>. QED  BY <2>2, <2>3, Fates
<1>. QED  BY <1>2, <1>3, <1>4

------------------------------------------------------------------------------
(* The steps of EventDelivery, seen through the mapping *)

OthersKept(e) == \A f \in Events \ {e} : Fate(f)' = Fate(f)
AllKept == \A f \in Events : Fate(f)' = Fate(f)

\* Seen is a step of EventDelivery.
Seen == [Delivery!Next]_(Delivery!vars)

\* The records change only where the event says, and never from CAPTURED.
TellsOf(e) == /\ record' \in [Payments -> RecordStates]
              /\ \A p \in Payments :
                   \/ record'[p] = record[p]
                   \/ p \in Subject[e] /\ record[p] /= "CAPTURED"

LEMMA TakeSeen ==
  ASSUME NEW e \in Events, Fate(e) = "new", Fate(e)' = "taken", OthersKept(e),
         UNCHANGED <<acked, record, faults>>
  PROVE  Seen
<1>1. [f \in Events |-> Fate(f)]' =
        [[f \in Events |-> Fate(f)] EXCEPT ![e] = "taken"]
  BY DEF OthersKept
<1>2. Delivery!Take(e)  BY <1>1 DEF Delivery!Take
<1>. QED  BY <1>2 DEF Seen, Delivery!Next

LEMMA ApplySeen ==
  ASSUME NEW e \in Events, Fate(e) = "taken", Fate(e)' = "applied",
         OthersKept(e), acked' \in {acked, acked \union {e}}, TellsOf(e),
         UNCHANGED faults
  PROVE  Seen
<1>1. [f \in Events |-> Fate(f)]' =
        [[f \in Events |-> Fate(f)] EXCEPT ![e] = "applied"]
  BY DEF OthersKept
<1>2. record' \in Delivery!Books
  BY DEF TellsOf, RecordStates, Delivery!Books
<1>3. Delivery!Apply(e)
  BY <1>1, <1>2 DEF Delivery!Apply, TellsOf
<1>. QED  BY <1>3 DEF Seen, Delivery!Next

LEMMA KeptFates ==
  ASSUME AllKept
  PROVE  [f \in Events |-> Fate(f)]' = [f \in Events |-> Fate(f)]
BY DEF AllKept

LEMMA AnswerSeen ==
  ASSUME NEW e \in Events, Fate(e) /= "new", AllKept,
         acked' = acked \union {e}, UNCHANGED <<record, faults>>
  PROVE  Seen
<1>1. Delivery!Answer(e)  BY KeptFates DEF Delivery!Answer
<1>. QED  BY <1>1 DEF Seen, Delivery!Next

LEMMA FaultSeen ==
  ASSUME NEW S \in SUBSET Events, \A e \in S : Fate(e) \in {"new", "taken"},
         \A e \in Events : Fate(e)' = IF e \in S THEN "lost" ELSE Fate(e),
         faults < MaxFaults, faults' = faults + 1, UNCHANGED <<acked, record>>
  PROVE  Seen
<1>. DEFINE fate == [e \in Events |-> Fate(e)]
<1>1. S \in SUBSET {e \in Events : fate[e] \in {"new", "taken"}}
  OBVIOUS
<1>2. [e \in Events |-> Fate(e)]' =
        [e \in Events |-> IF e \in S THEN "lost" ELSE fate[e]]
  OBVIOUS
<1>3. Delivery!Fault  BY <1>1, <1>2 DEF Delivery!Fault
<1>. QED  BY <1>3 DEF Seen, Delivery!Next

LEMMA NothingSeen ==
  ASSUME AllKept, UNCHANGED <<acked, record, faults>>
  PROVE  Seen
<1>1. UNCHANGED Delivery!vars  BY KeptFates DEF Delivery!vars
<1>. QED  BY <1>1 DEF Seen

------------------------------------------------------------------------------
(* The steps of the intake *)

LEMMA ReceiveSeen ==
  ASSUME IntakeInv, NEW r \in Requests, NEW e \in Events, Receive(r, e)
  PROVE  Seen
<1>1. CASE /\ IsDuplicate(e)
           /\ acked' = acked \union {e}
           /\ UNCHANGED <<event, record, stage, request, faults>>
  <2>1. AllKept
    BY <1>1, FateKept DEF AllKept, WorksOn
  <2>2. Fate(e) /= "new"
    BY <1>1, Fates DEF IsDuplicate
  <2>. QED  BY <1>1, <2>1, <2>2, AnswerSeen
<1>2. CASE /\ ~ IsDuplicate(e)
           /\ event' = [event EXCEPT ![e] = "RECEIVED"]
           /\ request' = [request EXCEPT ![r] = [pc |-> "received", ev |-> e]]
           /\ request[r] = Idle
           /\ UNCHANGED <<record, stage, acked, faults>>
  <2>. event \in [Events -> EventStates] /\ request \in [Requests -> RequestStates]
    BY DEF IntakeInv, TypeOK
  <2>1. Fate(e) = "new"
    BY <1>2, FateNow DEF IsDuplicate
  <2>2. Fate(e)' = "taken"
    <3>1. ~ Applied(e)  BY <2>1, Fates
    <3>2. ~ Applied(e)'  BY <1>2, <3>1 DEF Applied
    <3>3. WorksOn(r, e)'  BY <1>2 DEF WorksOn
    <3>. QED  BY <3>2, <3>3, FatesNext DEF AtWork
  <2>3. OthersKept(e)
    <3>1. ASSUME NEW f \in Events \ {e} PROVE Fate(f)' = Fate(f)
      <4>1. \A s \in Requests : WorksOn(s, f)' <=> WorksOn(s, f)
        BY <1>2 DEF WorksOn, Idle
      <4>. QED  BY <1>2, <4>1, FateKept
    <3>. QED  BY <3>1 DEF OthersKept
  <2>. QED  BY <1>2, <2>1, <2>2, <2>3, TakeSeen
<1>. QED  BY <1>1, <1>2 DEF Receive, decisions

LEMMA RejectSeen ==
  ASSUME IntakeInv, NEW r \in Requests, NEW e \in Events, Reject(r, e)
  PROVE  Seen
<1>1. /\ faults < MaxFaults /\ faults' = faults + 1
      /\ UNCHANGED <<record, stage, request, acked>>
  BY DEF Reject, decisions
<1>2. \A f \in Events, s \in Requests : WorksOn(s, f)' <=> WorksOn(s, f)
  BY <1>1 DEF WorksOn
<1>3. CASE UNCHANGED event
  <2>1. \A f \in Events : Fate(f)' = IF f \in {} THEN "lost" ELSE Fate(f)
    BY <1>1, <1>2, <1>3, FateKept
  <2>2. {} \in SUBSET Events /\ \A f \in {} : Fate(f) \in {"new", "taken"}
    OBVIOUS
  <2>. QED  BY <1>1, <2>1, <2>2, FaultSeen
<1>4. CASE ~ IsDuplicate(e) /\ event' = [event EXCEPT ![e] = "SIGNATURE_INVALID"]
  <2>. event \in [Events -> EventStates]
    BY DEF IntakeInv, TypeOK
  <2>1. Fate(e) = "new"  BY <1>4, FateNow DEF IsDuplicate
  <2>2. Fate(e)' = "lost"
    <3>1. ~ Applied(e) /\ ~ AtWork(e)  BY <2>1, Fates
    <3>2. ~ Applied(e)'  BY <1>1, <1>4, <3>1 DEF Applied
    <3>3. ~ AtWork(e)'  BY <1>2, <3>1 DEF AtWork
    <3>4. event'[e] /= "none"  BY <1>4
    <3>. QED  BY <3>2, <3>3, <3>4, FatesNext
  <2>3. \A f \in Events \ {e} : Fate(f)' = Fate(f)
    BY <1>1, <1>2, <1>4, FateKept
  <2>4. /\ {e} \in SUBSET Events /\ \A f \in {e} : Fate(f) \in {"new", "taken"}
        /\ \A f \in Events : Fate(f)' = IF f \in {e} THEN "lost" ELSE Fate(f)
    BY <2>1, <2>2, <2>3
  <2>. QED  BY <1>1, <2>4, FaultSeen
<1>. QED  BY <1>3, <1>4 DEF Reject, PersistRejected

\* The records of other payments than the event's stay.
LEMMA RecordsTold ==
  ASSUME IntakeInv, NEW r \in Requests, Handle(r),
         record' \in [Payments -> RecordStates], KeepsRecords
  PROVE  TellsOf(request[r].ev)
<1>. DEFINE e == request[r].ev
<1>1. \A p \in Payments \ Subject[e] : record'[p] = record[p]
  <2>. record \in [Payments -> RecordStates]  BY DEF IntakeInv, TypeOK
  <2>1. CASE HandleFailed(r)  BY <2>1 DEF HandleFailed
  <2>2. CASE HandleCaptured(r)  BY <2>2 DEF HandleCaptured, Captured
  <2>3. CASE HandleOrderPaid(r)
    BY <2>3 DEF HandleOrderPaid, OrderPaid, Captured
  <2>4. CASE HandleLinkPaid(r) \/ Skip(r)
    BY <2>4 DEF HandleLinkPaid, Skip
  <2>. QED  BY <2>1, <2>2, <2>3, <2>4 DEF Handle
<1>2. \A p \in Payments : record[p] = "CAPTURED" => record'[p] = record[p]
  BY DEF KeepsRecords
<1>. QED  BY <1>1, <1>2 DEF TellsOf

\* A request that works on an event goes on, returns or stops: nothing happens
\* to the other events.
LEMMA OthersWorkOn ==
  ASSUME IntakeInv, NEW r \in Requests, NEW e \in Events, request[r].ev = e,
         \/ request' = [request EXCEPT ![r] = Idle]
         \/ request' = [request EXCEPT ![r].pc = "executing"],
         NEW f \in Events \ {e}
  PROVE  \A s \in Requests : WorksOn(s, f)' <=> WorksOn(s, f)
<1>. request \in [Requests -> RequestStates]  BY DEF IntakeInv, TypeOK
<1>. QED  BY DEF WorksOn, Idle, RequestStates

LEMMA PlainSeen ==
  ASSUME IntakeInv, NEW r \in Requests, NEW e \in Events, request[r].ev = e,
         Finish(r) \/ Handle(r), HandledPlainly(r)
  PROVE  Seen
<1>. event \in [Events -> EventStates] /\ request \in [Requests -> RequestStates]
  BY DEF IntakeInv, TypeOK
<1>1. /\ request[r].pc /= "idle"
      /\ event' = [event EXCEPT ![e] = "PROCESSED"]
      /\ acked' = acked \union {e}
      /\ request' = [request EXCEPT ![r] = Idle]
      /\ KeepsDecisions /\ UNCHANGED faults
  BY DEF HandledPlainly, Processed, IntakeInv, RequestsKnow
<1>2. OthersKept(e)
  <2>1. ASSUME NEW f \in Events \ {e} PROVE Fate(f)' = Fate(f)
    <3>1. \A s \in Requests : WorksOn(s, f)' <=> WorksOn(s, f)
      BY <1>1, OthersWorkOn
    <3>2. event'[f] = event[f]  BY <1>1
    <3>3. f \in Failures => (stage[f] = "none" <=> stage'[f] = "none")
      BY <1>1 DEF KeepsDecisions
    <3>. QED  BY <3>1, <3>2, <3>3, FateKept
  <2>. QED  BY <2>1 DEF OthersKept
<1>3. CASE request[r].pc = "received" /\ e \notin Failures
  <2>1. Fate(e) = "taken"  BY <1>1, <1>3, FateNow
  <2>2. Fate(e)' = "applied"
    <3>1. Applied(e)'  BY <1>1, <1>3 DEF Applied
    <3>. QED  BY <3>1, FatesNext
  <2>3. TellsOf(e)
    <3>1. Handle(r)  BY <1>3 DEF Finish
    <3>. QED  BY <3>1, RecordsTold DEF HandledPlainly
  <2>. QED  BY <1>1, <1>2, <2>1, <2>2, <2>3, ApplySeen
<1>4. CASE request[r].pc = "executing"
  <2>1. Fate(e) = "applied" /\ e \in Failures  BY <1>1, <1>4, FateNow
  <2>2. Fate(e)' = "applied"
    <3>1. Applied(e)  BY <2>1, Fates
    <3>2. Applied(e)'  BY <1>1, <2>1, <3>1 DEF Applied, KeepsDecisions
    <3>. QED  BY <3>2, FatesNext
  <2>3. AllKept  BY <1>2, <2>1, <2>2 DEF AllKept, OthersKept
  <2>4. UNCHANGED record
    BY <1>4 DEF Finish, Handle, HandleFailed, HandleCaptured, HandleOrderPaid,
                HandleLinkPaid, Skip, Handling
  <2>. QED  BY <1>1, <2>1, <2>3, <2>4, AnswerSeen
<1>. QED  BY <1>3, <1>4 DEF HandledPlainly

LEMMA DecidedSeen ==
  ASSUME IntakeInv, NEW r \in Requests, NEW e \in Events, request[r].ev = e,
         HandleFailed(r)
  PROVE  Seen
<1>. event \in [Events -> EventStates]  BY DEF IntakeInv, TypeOK
<1>1. DecidedOn(r, e)  BY FailedHandler
<1>2. /\ request[r].pc = "received" /\ e \in Failures
      /\ stage'[e] /= "none" /\ \A d \in Failures \ {e} : stage'[d] = stage[d]
      /\ \A f \in Events \ {e} : event'[f] = event[f]
      /\ acked' \in {acked, acked \union {e}}
      /\ \/ request' = [request EXCEPT ![r] = Idle]
         \/ request' = [request EXCEPT ![r].pc = "executing"]
      /\ UNCHANGED faults
  BY <1>1 DEF DecidedOn, Processed, Failures
<1>3. TellsOf(e)
  <2>1. record' \in [Payments -> RecordStates] /\ KeepsRecords
    BY <1>1 DEF DecidedOn
  <2>. QED  BY <2>1, RecordsTold DEF Handle
<1>4. Fate(e) = "taken"  BY <1>2, FateNow
<1>5. Fate(e)' = "applied"
  <2>1. Applied(e)'  BY <1>2 DEF Applied
  <2>. QED  BY <2>1, FatesNext
<1>6. OthersKept(e)
  <2>1. ASSUME NEW f \in Events \ {e} PROVE Fate(f)' = Fate(f)
    <3>1. \A s \in Requests : WorksOn(s, f)' <=> WorksOn(s, f)
      BY <1>2, OthersWorkOn
    <3>. QED  BY <1>2, <3>1, FateKept
  <2>. QED  BY <2>1 DEF OthersKept
<1>. QED  BY <1>2, <1>3, <1>4, <1>5, <1>6, ApplySeen

LEMMA FailSeen ==
  ASSUME IntakeInv, NEW r \in Requests, NEW e \in Events, request[r].ev = e,
         Fail(r)
  PROVE  Seen
<1>. event \in [Events -> EventStates] /\ request \in [Requests -> RequestStates]
  BY DEF IntakeInv, TypeOK
<1>1. /\ request[r].pc \in {"received", "executing"}
      /\ faults < MaxFaults /\ faults' = faults + 1
      /\ event' = [event EXCEPT ![e] = "FAILED"] \/ UNCHANGED event
      /\ request' = [request EXCEPT ![r] = Idle]
      /\ UNCHANGED <<record, stage, acked>>
  BY DEF Fail, decisions, IntakeInv, RequestsKnow
<1>2. \A f \in Events \ {e} : Fate(f)' = Fate(f)
  <2>1. ASSUME NEW f \in Events \ {e} PROVE Fate(f)' = Fate(f)
    <3>1. \A s \in Requests : WorksOn(s, f)' <=> WorksOn(s, f)
      BY <1>1, OthersWorkOn
    <3>2. event'[f] = event[f]  BY <1>1
    <3>. QED  BY <1>1, <3>1, <3>2, FateKept
  <2>. QED  BY <2>1
<1>3. CASE request[r].pc = "received"
  <2>1. Fate(e) = "taken" /\ event[e] = "RECEIVED"  BY <1>1, <1>3, FateNow
  <2>2. Fate(e)' = "lost"
    <3>1. \A s \in Requests : WorksOn(s, e) => s = r
      BY <1>1, <1>3 DEF IntakeInv, HandledOnce, WorksOn
    <3>2. ~ AtWork(e)'  BY <1>1, <3>1 DEF AtWork, WorksOn, Idle
    <3>3. ~ Applied(e)  BY <2>1, Fates
    <3>4. event'[e] \in {"FAILED", "RECEIVED"}  BY <1>1, <2>1
    <3>5. ~ Applied(e)'  BY <1>1, <3>3, <3>4 DEF Applied
    <3>. QED  BY <3>2, <3>4, <3>5, FatesNext
  <2>3. /\ {e} \in SUBSET Events /\ \A f \in {e} : Fate(f) \in {"new", "taken"}
        /\ \A f \in Events : Fate(f)' = IF f \in {e} THEN "lost" ELSE Fate(f)
    BY <1>1, <1>2, <2>1, <2>2
  <2>. QED  BY <1>1, <2>3, FaultSeen
<1>4. CASE request[r].pc = "executing"
  <2>1. Fate(e) = "applied" /\ e \in Failures  BY <1>1, <1>4, FateNow
  <2>2. Fate(e)' = "applied"
    <3>1. Applied(e)  BY <2>1, Fates
    <3>2. Applied(e)'  BY <1>1, <2>1, <3>1 DEF Applied
    <3>. QED  BY <3>2, FatesNext
  <2>3. /\ {} \in SUBSET Events /\ \A f \in {} : Fate(f) \in {"new", "taken"}
        /\ \A f \in Events : Fate(f)' = IF f \in {} THEN "lost" ELSE Fate(f)
    BY <1>2, <2>1, <2>2
  <2>. QED  BY <1>1, <2>3, FaultSeen
<1>. QED  BY <1>1, <1>3, <1>4

LEMMA CrashSeen ==
  ASSUME IntakeInv, Crash
  PROVE  Seen
<1>. DEFINE S == {e \in Events : Fate(e) = "taken"}
<1>1. /\ faults < MaxFaults /\ faults' = faults + 1
      /\ request' = [r \in Requests |-> Idle]
      /\ UNCHANGED <<event, record, stage, acked>>
  BY DEF Crash, decisions
<1>2. ASSUME NEW e \in Events
      PROVE  Fate(e)' = IF e \in S THEN "lost" ELSE Fate(e)
  <2>1. ~ AtWork(e)'  BY <1>1 DEF AtWork, WorksOn, Idle
  <2>2. Applied(e)' <=> Applied(e)  BY <1>1 DEF Applied
  <2>3. AtWork(e) => event'[e] /= "none"
    BY <1>1 DEF AtWork, WorksOn, IntakeInv, HandledOnce
  <2>. QED  BY <1>1, <2>1, <2>2, <2>3 DEF Fate
<1>. HIDE DEF S
<1>3. S \in SUBSET Events /\ \A e \in S : Fate(e) \in {"new", "taken"}
  BY DEF S
<1>. QED  BY <1>1, <1>2, <1>3, FaultSeen

LEMMA ExecuteSeen ==
  ASSUME IntakeInv, NEW e \in Failures, Execute(e)
  PROVE  Seen
<1>1. KeepsDecisions  BY ExecuteDecisions DEF IntakeInv
<1>2. UNCHANGED <<event, record, request, acked, faults>>  BY DEF Execute
<1>3. AllKept
  <2>1. ASSUME NEW f \in Events PROVE Fate(f)' = Fate(f)
    <3>1. \A s \in Requests : WorksOn(s, f)' <=> WorksOn(s, f)
      BY <1>2 DEF WorksOn
    <3>. QED  BY <1>1, <1>2, <3>1, FateKept DEF KeepsDecisions
  <2>. QED  BY <2>1 DEF AllKept
<1>. QED  BY <1>2, <1>3, NothingSeen

LEMMA UnchangedSeen ==
  ASSUME UNCHANGED vars
  PROVE  Seen
<1>1. UNCHANGED <<event, record, stage, request, acked, faults>>
  BY DEF vars
<1>2. AllKept
  <2>1. ASSUME NEW f \in Events PROVE Fate(f)' = Fate(f)
    <3>1. \A s \in Requests : WorksOn(s, f)' <=> WorksOn(s, f)
      BY <1>1 DEF WorksOn
    <3>. QED  BY <1>1, <3>1, FateKept
  <2>. QED  BY <2>1 DEF AllKept
<1>. QED  BY <1>1, <1>2, NothingSeen

------------------------------------------------------------------------------
(* The refinement *)

LEMMA DeliveryInitially == Init => Delivery!Init
<1>. SUFFICES ASSUME Init PROVE Delivery!Init
  OBVIOUS
<1>1. ASSUME NEW e \in Events PROVE Fate(e) = "new"
  <2>1. ~ Applied(e)  BY DEF Applied, Init, Lifecycle!Init
  <2>2. ~ AtWork(e)  BY DEF AtWork, WorksOn, Init, Idle
  <2>3. event[e] = "none"  BY DEF Init
  <2>. QED  BY <2>1, <2>2, <2>3, Fates
<1>. QED  BY <1>1 DEF Delivery!Init, Init

LEMMA DeliveryStep == IntakeInv /\ [Next]_vars => Seen
<1>. SUFFICES ASSUME IntakeInv, [Next]_vars PROVE Seen
  OBVIOUS
<1>1. ASSUME NEW r \in Requests, NEW e \in Events, Receive(r, e) \/ Reject(r, e)
      PROVE  Seen
  BY <1>1, ReceiveSeen, RejectSeen
<1>0. ASSUME NEW r \in Requests, Handle(r) \/ Finish(r) \/ Fail(r)
      PROVE  request[r].ev \in Events
  BY <1>0 DEF Handle, HandleFailed, HandleCaptured, HandleOrderPaid,
              HandleLinkPaid, Skip, Handling, Finish, Fail, IntakeInv, RequestsKnow
<1>2. ASSUME NEW r \in Requests, Handle(r) \/ Finish(r) PROVE Seen
  <2>1. CASE HandleFailed(r)  BY <1>0, <1>2, <2>1, DecidedSeen
  <2>2. CASE \/ Finish(r) \/ HandleCaptured(r) \/ HandleOrderPaid(r)
             \/ HandleLinkPaid(r) \/ Skip(r)
    BY <1>0, <1>2, <2>2, PlainHandlers, PlainSeen
  <2>. QED  BY <1>2, <2>1, <2>2 DEF Handle
<1>3. ASSUME NEW r \in Requests, Fail(r) PROVE Seen
  BY <1>0, <1>3, FailSeen
<1>4. ASSUME NEW e \in Failures, Execute(e) PROVE Seen
  BY <1>4, ExecuteSeen
<1>5. CASE Crash  BY <1>5, CrashSeen
<1>6. CASE UNCHANGED vars  BY <1>6, UnchangedSeen
<1>. QED  BY <1>1, <1>2, <1>3, <1>4, <1>5, <1>6 DEF Next

\* The intake delivers as promised, for any number of requests, events and
\* payments and any number of errors, restarts and rejections: a delivery that
\* is repeated, late or cut short never applies an event twice or by halves.
THEOREM DeliveryKept == Spec => KeepsDelivery
<1>1. Spec => Delivery!Init  BY DeliveryInitially DEF Spec
<1>2. IntakeInv /\ [Next]_vars => [Delivery!Next]_(Delivery!vars)
  BY DeliveryStep DEF Seen
<1>. QED
  BY <1>1, <1>2, IntakeInvariant, PTL DEF Spec, KeepsDelivery, Delivery!Spec

------------------------------------------------------------------------------
(* What the abstract specification keeps, and the intake with it *)

\* An event is lost in a fault only, and nothing is answered before it is taken.
DeliveryInv == /\ faults \in Nat
               /\ \A e \in Events : Fate(e) = "lost" => faults > 0
               /\ \A e \in Events : e \in acked => Fate(e) /= "new"

LEMMA DeliveryInvInitially == Init => DeliveryInv
<1>. SUFFICES ASSUME Init PROVE DeliveryInv
  OBVIOUS
<1>1. Delivery!Init  BY DeliveryInitially
<1>2. ASSUME NEW e \in Events PROVE Fate(e) = "new"
  <2>1. [f \in Events |-> Fate(f)][e] = [f \in Events |-> "new"][e]
    BY <1>1 DEF Delivery!Init
  <2>. QED  BY <2>1
<1>. QED  BY <1>1, <1>2 DEF DeliveryInv, Delivery!Init

LEMMA DeliveryInvStep == DeliveryInv /\ Seen => DeliveryInv'
<1>. SUFFICES ASSUME DeliveryInv, Seen PROVE DeliveryInv'
  OBVIOUS
<1>. DEFINE fate == [e \in Events |-> Fate(e)]
            after == [e \in Events |-> Fate(e)']
<1>1. /\ \A e \in Events : fate[e] = "lost" => faults > 0
      /\ \A e \in Events : e \in acked => fate[e] /= "new"
      /\ faults \in Nat
  BY DEF DeliveryInv
<1>2. SUFFICES /\ \A e \in Events : after[e] = "lost" => faults' > 0
               /\ \A e \in Events : e \in acked' => after[e] /= "new"
               /\ faults' \in Nat
  BY DEF DeliveryInv
<1>3. fate \in [Events -> {fate[e] : e \in Events}]
  OBVIOUS
<1>4. CASE Delivery!Fault
  <2>1. PICK S : after = [e \in Events |-> IF e \in S THEN "lost" ELSE fate[e]]
    BY <1>4 DEF Delivery!Fault
  <2>2. faults' = faults + 1 /\ acked' = acked  BY <1>4 DEF Delivery!Fault
  <2>. HIDE DEF fate, after
  <2>. QED  BY <1>1, <2>1, <2>2
<1>5. ASSUME NEW e \in Events, Delivery!Take(e) PROVE
        /\ after = [fate EXCEPT ![e] = "taken"]
        /\ acked' = acked /\ faults' = faults
  BY <1>5 DEF Delivery!Take
<1>6. ASSUME NEW e \in Events, Delivery!Apply(e) PROVE
        /\ after = [fate EXCEPT ![e] = "applied"]
        /\ acked' \subseteq acked \union {e} /\ faults' = faults
  BY <1>6 DEF Delivery!Apply
<1>7. ASSUME NEW e \in Events, Delivery!Answer(e) PROVE
        /\ after = fate /\ fate[e] /= "new"
        /\ acked' = acked \union {e} /\ faults' = faults
  BY <1>7 DEF Delivery!Answer
<1>8. CASE UNCHANGED Delivery!vars
  <2>1. after = fate /\ acked' = acked /\ faults' = faults
    BY <1>8 DEF Delivery!vars
  <2>. HIDE DEF fate, after
  <2>. QED  BY <1>1, <2>1
<1>9. Delivery!Fault \/ UNCHANGED Delivery!vars
      \/ \E e \in Events : \/ Delivery!Take(e) \/ Delivery!Apply(e)
                           \/ Delivery!Answer(e)
  BY DEF Seen, Delivery!Next
<1>10. CASE \E e \in Events : \/ Delivery!Take(e) \/ Delivery!Apply(e)
                              \/ Delivery!Answer(e)
  <2>1. PICK e \in Events : \/ Delivery!Take(e) \/ Delivery!Apply(e)
                            \/ Delivery!Answer(e)
    BY <1>10
  <2>. HIDE DEF fate, after
  <2>2. \/ /\ after = [fate EXCEPT ![e] = "taken"]
           /\ acked' = acked /\ faults' = faults
        \/ /\ after = [fate EXCEPT ![e] = "applied"]
           /\ acked' \subseteq acked \union {e} /\ faults' = faults
        \/ /\ after = fate /\ fate[e] /= "new"
           /\ acked' = acked \union {e} /\ faults' = faults
    BY <2>1, <1>5, <1>6, <1>7
  <2>. QED  BY <1>1, <1>3, <2>2
<1>. QED  BY <1>4, <1>8, <1>9, <1>10

\* Only a failed payment is ever left at PROCESSING: the other handlers commit
\* PROCESSED with all they write.
ProcessingInv == \A e \in Events : event[e] = "PROCESSING" => e \in Failures

LEMMA ProcessingStep ==
  IntakeInv /\ ProcessingInv /\ [Next]_vars => ProcessingInv'
<1>. SUFFICES ASSUME IntakeInv, ProcessingInv, [Next]_vars PROVE ProcessingInv'
  OBVIOUS
<1>. event \in [Events -> EventStates]  BY DEF IntakeInv, TypeOK
<1>1. ASSUME NEW s, s /= "PROCESSING", NEW e, event' = [event EXCEPT ![e] = s]
      PROVE  ProcessingInv'
  BY <1>1 DEF ProcessingInv
<1>2. ASSUME UNCHANGED event PROVE ProcessingInv'
  BY <1>2 DEF ProcessingInv
<1>3. ASSUME NEW r \in Requests, HandleFailed(r) PROVE ProcessingInv'
  <2>1. DecidedOn(r, request[r].ev)  BY <1>3, FailedHandler
  <2>2. CASE Processed(r)  BY <1>1, <2>2 DEF Processed
  <2>3. CASE event' = [event EXCEPT ![request[r].ev] = "PROCESSING"]
    BY <2>1, <2>3 DEF ProcessingInv, DecidedOn
  <2>. QED  BY <2>1, <2>2, <2>3 DEF DecidedOn
<1>4. ASSUME NEW r \in Requests, Handle(r) \/ Finish(r) PROVE ProcessingInv'
  <2>1. CASE HandleFailed(r)  BY <1>3, <2>1
  <2>2. CASE ~ HandleFailed(r)
    <3>1. Processed(r)
      BY <1>4, <2>2 DEF Handle, HandleCaptured, HandleOrderPaid, HandleLinkPaid,
                        Skip, Finish
    <3>. QED  BY <1>1, <3>1 DEF Processed
  <2>. QED  BY <2>1, <2>2
<1>5. ASSUME NEW r \in Requests, NEW e \in Events, Receive(r, e) \/ Reject(r, e)
      PROVE  ProcessingInv'
  BY <1>1, <1>2, <1>5 DEF Receive, Reject, PersistRejected
<1>6. ASSUME NEW r \in Requests, Fail(r) PROVE ProcessingInv'
  BY <1>1, <1>2, <1>6 DEF Fail
<1>7. ASSUME \/ \E e \in Failures : Execute(e)
             \/ Crash
             \/ UNCHANGED vars
      PROVE  ProcessingInv'
  BY <1>2, <1>7 DEF Execute, Crash, vars
<1>. QED  BY <1>4, <1>5, <1>6, <1>7 DEF Next

LEMMA LossFollows ==
  ASSUME IntakeInv, DeliveryInv, ProcessingInv
  PROVE  LossIsOnRecord
<1>. SUFFICES ASSUME NEW e \in Events
              PROVE  \/ event[e] = "none" /\ e \notin acked
                     \/ event[e] /= "none" /\ (Applied(e) \/ AtWork(e))
                     \/ /\ faults > 0
                        /\ event[e] \in {"SIGNATURE_INVALID", "RECEIVED", "FAILED"}
  BY DEF LossIsOnRecord
<1>1. CASE event[e] = "none"
  BY <1>1, FateNow DEF DeliveryInv
<1>2. CASE event[e] /= "none" /\ ~ (Applied(e) \/ AtWork(e))
  <2>1. faults > 0  BY <1>2, Fates DEF DeliveryInv
  <2>2. event[e] \notin {"PROCESSING", "PROCESSED"}
    BY <1>2 DEF Applied, ProcessingInv, IntakeInv, HandledWhole
  <2>3. event[e] \in EventStates  BY DEF IntakeInv, TypeOK
  <2>. QED  BY <1>2, <2>1, <2>2, <2>3 DEF EventStates
<1>. QED  BY <1>1, <1>2

\* No event is lost unless something failed, and then its status says so: the
\* answer 200 to a duplicate hides no event that the table calls processed
\* (webhooks.py, "Safely acknowledge duplicate delivery").
THEOREM LossesOnRecord == Spec => []LossIsOnRecord
<1>1. Init => ProcessingInv  BY DEF Init, ProcessingInv
<1>2. IntakeInv /\ DeliveryInv /\ [Next]_vars => DeliveryInv'
  BY DeliveryStep, DeliveryInvStep
<1>3. IntakeInv /\ DeliveryInv /\ ProcessingInv => LossIsOnRecord
  BY LossFollows
<1>. QED
  BY <1>1, <1>2, <1>3, ProcessingStep, DeliveryInvInitially, IntakeInvariant, PTL
  DEF Spec
=============================================================================
