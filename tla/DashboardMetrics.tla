-------------------------- MODULE DashboardMetrics --------------------------
(***************************************************************************)
(* The numbers the dashboard reads off the tables of WebhookIntake         *)
(* (app/dashboard_metrics.py): counts and sums over recovery_decisions,    *)
(* joined with the payment of each.                                        *)
(***************************************************************************)
EXTENDS WebhookIntake, FiniteSets

CONSTANT Amount   \* payment -> its amount, which no upsert ever changes

ASSUME TablesAreFinite == IsFiniteSet(Events)
ASSUME AmountAssumption == Amount \in [Payments -> Nat]

\* Rows of recovery_decisions; those executed, and those paid through the link.
Decided  == {e \in Failures : stage[e] /= "none"}
Executed == {e \in Failures : stage[e] \in {"sent", "observed"}}
Paid     == {e \in Failures : stage[e] = "observed"}

\* is_recovered_condition, over the join: a payment counts once per decision.
Recovered == {e \in Decided : \/ stage[e] = "observed"
                              \/ \E p \in Subject[e] : record[p] = "CAPTURED"}

\* SUM(amount) over the payments of the decisions in S, counted by the unit.
AmountOf(e) == Amount[CHOOSE p \in Payments : Subject[e] = {p}]
Units(e)    == {e} \X (1..AmountOf(e))
Revenue(S)  == Cardinality(UNION {Units(e) : e \in S})

\* get_live_summary, but for the payments that are FAILED now.
TotalOpportunities == Cardinality(Decided)
LinksExecuted      == Cardinality(Executed)
LinksPaid          == Cardinality(Paid)
RecoveredRevenue   == Revenue(Recovered)

\* get_experiment_metrics: the counts its rates are made of.
InGroup(S, variant)     == {e \in S : Variant(e) = variant}
GroupSize(variant)      == Cardinality(InGroup(Decided, variant))
GroupRecovered(variant) == Cardinality(InGroup(Recovered, variant))
Interventions           == Cardinality(InGroup(Executed, "treatment"))
=============================================================================
