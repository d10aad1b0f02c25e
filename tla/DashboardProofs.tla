-------------------------- MODULE DashboardProofs --------------------------
(***************************************************************************)
(* The dashboard's counts never fall, for any number of events, payments,  *)
(* requests, attempts and faults.  Each is the size of a set of decisions, *)
(* and no step takes a decision out of one of these.                       *)
(***************************************************************************)
EXTENDS IntakeProofs, FiniteSetTheorems

\* What no step does to a decision: to unmake it, or to take back that it was
\* executed or paid.
DecisionsForward ==
  \A d \in Failures :
    /\ stage[d] /= "none" => stage'[d] /= "none"
    /\ stage[d] \in {"sent", "observed"} => stage'[d] \in {"sent", "observed"}
    /\ stage[d] = "observed" => stage'[d] = "observed"

LEMMA MoveForward ==
  ASSUME TypeOK, NEW e \in Failures,
         \/ Lifecycle!Decide(e) \/ Lifecycle!Start(e) \/ Lifecycle!MakeLink(e)
         \/ Lifecycle!Retry(e) \/ Lifecycle!Succeed(e) \/ Lifecycle!GiveUp(e)
         \/ Lifecycle!Observe(e)
  PROVE  DecisionsForward
BY DEF TypeOK, DecisionsForward, Lifecycle!Decide, Lifecycle!Start,
       Lifecycle!MakeLink, Lifecycle!Retry, Lifecycle!Succeed,
       Lifecycle!GiveUp, Lifecycle!Observe, Lifecycle!Move

LEMMA Forward ==
  ASSUME IntakeInv, [Next]_vars
  PROVE  DecisionsForward /\ KeepsRecords
<1>1. ASSUME UNCHANGED <<stage, record>> PROVE DecisionsForward /\ KeepsRecords
  BY <1>1 DEF DecisionsForward, KeepsRecords
<1>2. ASSUME NEW r \in Requests, HandleFailed(r)
      PROVE  DecisionsForward /\ KeepsRecords
  <2> DEFINE e == request[r].ev
  <2>1. e \in Failures /\ KeepsRecords
    BY <1>2, FailedHandler DEF DecidedOn
  <2>2. Lifecycle!Decide(e)
    BY <1>2 DEF HandleFailed, Decline, Pursue
  <2> HIDE DEF e
  <2> QED BY <2>1, <2>2, MoveForward DEF IntakeInv
<1>3. ASSUME NEW r \in Requests,
             \/ Finish(r) \/ HandleCaptured(r) \/ HandleOrderPaid(r)
             \/ HandleLinkPaid(r) \/ Skip(r)
      PROVE  DecisionsForward /\ KeepsRecords
  <2>1. KeepsRecords
    BY <1>3, PlainHandlers DEF HandledPlainly
  <2>2. CASE UNCHANGED stage
    BY <2>1, <2>2 DEF DecisionsForward
  <2>3. CASE HandleLinkPaid(r) /\ Lifecycle!Observe(Reference[request[r].ev])
    <3> DEFINE d == Reference[request[r].ev]
    <3>1. d \in Failures /\ Lifecycle!Observe(d)
      BY <2>3, WebhookIntakeAssumption
      DEF HandleLinkPaid, Handling, IntakeInv, RequestsKnow
    <3> HIDE DEF d
    <3> QED BY <2>1, <3>1, MoveForward DEF IntakeInv
  <2> QED BY <1>3, <2>2, <2>3 DEF Finish, HandleCaptured, HandleOrderPaid,
                                  HandleLinkPaid, Skip, decisions
<1>4. ASSUME NEW e \in Failures, Execute(e)
      PROVE  DecisionsForward /\ KeepsRecords
  <2>1. UNCHANGED record
    BY <1>4 DEF Execute
  <2>2. KeepsRecords
    BY <2>1 DEF KeepsRecords
  <2> QED BY <1>4, <2>2, MoveForward DEF Execute, IntakeInv
<1>5. ASSUME NEW r \in Requests,
             Fail(r) \/ \E e \in Events : Receive(r, e) \/ Reject(r, e)
      PROVE  DecisionsForward /\ KeepsRecords
  BY <1>1, <1>5 DEF Fail, Receive, Reject, decisions
<1>6. CASE Crash \/ UNCHANGED vars
  BY <1>1, <1>6 DEF Crash, vars, decisions
<1> QED BY <1>2, <1>3, <1>4, <1>5, <1>6 DEF Next, Handle

\* The sets that the dashboard counts.
LEMMA SetsGrow ==
  ASSUME TypeOK, DecisionsForward, KeepsRecords
  PROVE  /\ Decided \subseteq Decided' /\ Executed \subseteq Executed'
         /\ Paid \subseteq Paid' /\ Recovered \subseteq Recovered'
<1>1. /\ Decided \subseteq Decided' /\ Executed \subseteq Executed'
      /\ Paid \subseteq Paid'
  BY DEF DecisionsForward, Decided, Executed, Paid
<1>2. ASSUME NEW e \in Recovered PROVE e \in Recovered'
  <2>1. e \in Failures /\ e \in Decided /\ Subject[e] \subseteq Payments
    BY WebhookIntakeAssumption DEF Recovered, Decided, Failures
  <2>2. \/ stage'[e] = "observed"
        \/ \E p \in Subject[e] : record'[p] = "CAPTURED"
    BY <2>1 DEF Recovered, DecisionsForward, KeepsRecords
  <2> QED BY <1>1, <2>1, <2>2 DEF Recovered
<1> QED BY <1>1, <1>2

LEMMA GroupsGrow ==
  ASSUME NEW S, NEW T, S \subseteq T, NEW variant
  PROVE  InGroup(S, variant) \subseteq InGroup(T, variant)
BY DEF InGroup

\* A set of decisions that grows is counted higher.
LEMMA CountsGrow ==
  ASSUME NEW S, NEW T, S \subseteq T, T \subseteq Failures
  PROVE  Cardinality(T) >= Cardinality(S)
<1>1. IsFiniteSet(Failures)
  BY TablesAreFinite, FS_Subset DEF Failures
<1>2. IsFiniteSet(T)
  BY <1>1, FS_Subset
<1>3. IsFiniteSet(S) /\ Cardinality(S) <= Cardinality(T)
  BY <1>2, FS_Subset
<1>4. Cardinality(S) \in Nat /\ Cardinality(T) \in Nat
  BY <1>2, <1>3, FS_CardinalityType
<1> QED BY <1>3, <1>4

\* The units of a set of decisions are finitely many.
LEMMA UnitsAreFinite ==
  ASSUME NEW T, T \subseteq Failures
  PROVE  IsFiniteSet(UNION {Units(e) : e \in T})
<1> DEFINE sets == {Units(e) : e \in T}
           unitsOf == [e \in T |-> Units(e)]
<1>1. IsFiniteSet(T)
  BY TablesAreFinite, FS_Subset DEF Failures
<1>2. unitsOf \in Surjection(T, sets)
  BY DEF Surjection
<1>3. IsFiniteSet(sets)
  <2> HIDE DEF sets, unitsOf
  <2> QED BY <1>1, <1>2, FS_Surjection
<1>4. ASSUME NEW e \in T PROVE IsFiniteSet(Units(e))
  <2>1. AmountOf(e) \in Int
    <3>1. \E p \in Payments : Subject[e] = {p}
      BY WebhookIntakeAssumption
    <3>2. (CHOOSE p \in Payments : Subject[e] = {p}) \in Payments
      BY <3>1
    <3> QED BY <3>2, AmountAssumption DEF AmountOf
  <2>2. IsFiniteSet({e})
    BY FS_Singleton
  <2>3. 1 \in Int /\ \A n \in Int : IsFiniteSet(1..n)
    BY FS_Interval
  <2>4. IsFiniteSet(1..AmountOf(e))
    BY <2>1, <2>3
  <2> QED BY <2>2, <2>4, FS_Product DEF Units
<1>5. \A S \in sets : IsFiniteSet(S)
  BY <1>4
<1> QED BY <1>3, <1>5, FS_UNION

\* A set of decisions that grows is worth more, whatever the amounts.
LEMMA RevenueGrows ==
  ASSUME NEW S, NEW T, S \subseteq T, T \subseteq Failures
  PROVE  Revenue(T) >= Revenue(S)
<1> DEFINE few == UNION {Units(e) : e \in S}
           many == UNION {Units(e) : e \in T}
<1>1. IsFiniteSet(many)
  BY UnitsAreFinite
<1>2. few \subseteq many
  OBVIOUS
<1>3. Revenue(S) = Cardinality(few) /\ Revenue(T) = Cardinality(many)
  BY DEF Revenue
<1> HIDE DEF few, many
<1>4. IsFiniteSet(few) /\ Cardinality(few) <= Cardinality(many)
  BY <1>1, <1>2, FS_Subset
<1>5. Cardinality(few) \in Nat /\ Cardinality(many) \in Nat
  BY <1>1, <1>4, FS_CardinalityType
<1> QED BY <1>3, <1>4, <1>5

LEMMA NumbersGrow ==
  ASSUME IntakeInv, [Next]_vars
  PROVE  /\ TotalOpportunities' >= TotalOpportunities
         /\ LinksExecuted' >= LinksExecuted
         /\ LinksPaid' >= LinksPaid
         /\ RecoveredRevenue' >= RecoveredRevenue
         /\ \A variant \in {"control", "treatment"} :
              /\ GroupSize(variant)' >= GroupSize(variant)
              /\ GroupRecovered(variant)' >= GroupRecovered(variant)
         /\ Interventions' >= Interventions
<1>1. /\ Decided \subseteq Decided' /\ Executed \subseteq Executed'
      /\ Paid \subseteq Paid' /\ Recovered \subseteq Recovered'
  BY Forward, SetsGrow DEF IntakeInv
<1>2. /\ Decided' \subseteq Failures /\ Executed' \subseteq Failures
      /\ Paid' \subseteq Failures /\ Recovered' \subseteq Failures
  BY DEF Decided, Executed, Paid, Recovered
<1>3. ASSUME NEW S, NEW T, S \subseteq T, T \subseteq Failures, NEW variant
      PROVE  Cardinality(InGroup(T, variant)) >= Cardinality(InGroup(S, variant))
  <2>1. InGroup(S, variant) \subseteq InGroup(T, variant)
    BY <1>3, GroupsGrow
  <2>2. InGroup(T, variant) \subseteq Failures
    BY <1>3 DEF InGroup
  <2> QED BY <2>1, <2>2, CountsGrow
<1>4. /\ TotalOpportunities' >= TotalOpportunities
      /\ LinksExecuted' >= LinksExecuted
      /\ LinksPaid' >= LinksPaid
  BY <1>1, <1>2, CountsGrow DEF TotalOpportunities, LinksExecuted, LinksPaid
<1>7. RecoveredRevenue' >= RecoveredRevenue
  <2>1. RecoveredRevenue' = Revenue(Recovered')
    BY DEF RecoveredRevenue, Revenue, Units, AmountOf
  <2> QED BY <1>1, <1>2, <2>1, RevenueGrows DEF RecoveredRevenue
<1>5. ASSUME NEW variant \in {"control", "treatment"}
      PROVE  /\ GroupSize(variant)' >= GroupSize(variant)
             /\ GroupRecovered(variant)' >= GroupRecovered(variant)
  <2>1. /\ GroupSize(variant)' = Cardinality(InGroup(Decided', variant))
        /\ GroupRecovered(variant)' = Cardinality(InGroup(Recovered', variant))
    BY DEF GroupSize, GroupRecovered, InGroup, Variant, AssignmentId
  <2> QED BY <1>1, <1>2, <1>3, <2>1 DEF GroupSize, GroupRecovered
<1>6. Interventions' >= Interventions
  <2>1. Interventions' = Cardinality(InGroup(Executed', "treatment"))
    BY DEF Interventions, InGroup, Variant, AssignmentId
  <2> QED BY <1>1, <1>2, <1>3, <2>1 DEF Interventions
<1> QED BY <1>4, <1>5, <1>6, <1>7

\* No count of the dashboard, nor of either group of the experiment, is ever
\* taken back, by whatever events, errors, restarts and recoveries.
THEOREM CountsStay == Spec => MetricsOnlyGrow
<1>1. IntakeInv /\ [Next]_vars =>
        [/\ TotalOpportunities' >= TotalOpportunities
         /\ LinksExecuted' >= LinksExecuted
         /\ LinksPaid' >= LinksPaid
         /\ RecoveredRevenue' >= RecoveredRevenue
         /\ \A variant \in {"control", "treatment"} :
              /\ GroupSize(variant)' >= GroupSize(variant)
              /\ GroupRecovered(variant)' >= GroupRecovered(variant)
         /\ Interventions' >= Interventions]_<<stage, record>>
  BY NumbersGrow
<1> QED BY <1>1, IntakeInvariant, PTL DEF Spec, MetricsOnlyGrow
=============================================================================
