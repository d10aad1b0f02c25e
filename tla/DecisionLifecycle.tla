------------------------- MODULE DecisionLifecycle -------------------------
(***************************************************************************)
(* What the engine promises about a recovery decision, without threads,    *)
(* timers or lost answers: it is pending, executing or settled; it is      *)
(* started at most MaxAttempts times; it is reported as sent only when its *)
(* payment link exists; a settled decision never comes back; and its       *)
(* customer counts as contacted only once it is sent.                      *)
(***************************************************************************)
EXTENDS Naturals

CONSTANTS Decisions, MaxAttempts,
          Reachable   \* decisions whose customer can be contacted

VARIABLES stage,      \* where the decision is in its life
          attempts,   \* how often it was started
          linked,     \* decisions whose payment link exists
          contacted   \* decisions with a contact the cooldown looks for

vars == <<stage, attempts, linked, contacted>>

Stages == {"none", "declined", "pending", "executing", "sent", "failed",
           "observed"}

Init == /\ stage = [d \in Decisions |-> "none"]
        /\ attempts = [d \in Decisions |-> 0]
        /\ linked = {}
        /\ contacted = {}

Move(d, from, to) == stage[d] = from /\ stage' = [stage EXCEPT ![d] = to]

Decide(d) == /\ Move(d, "none", "pending") \/ Move(d, "none", "declined")
             /\ UNCHANGED <<attempts, linked, contacted>>

Start(d) == /\ Move(d, "pending", "executing")
            /\ attempts[d] < MaxAttempts
            /\ attempts' = [attempts EXCEPT ![d] = @ + 1]
            /\ UNCHANGED <<linked, contacted>>

\* The provider makes the link, at a moment the engine may not learn of.
MakeLink(d) == /\ attempts[d] > 0
               /\ linked' = linked \union {d}
               /\ UNCHANGED <<stage, attempts, contacted>>

Retry(d) == /\ Move(d, "executing", "pending")
            /\ attempts[d] < MaxAttempts
            /\ UNCHANGED <<attempts, linked, contacted>>

\* The contact is entered with the success, except by stale recovery.
Succeed(d) == /\ Move(d, "executing", "sent")
              /\ d \in linked
              /\ contacted' \in {contacted, contacted \union ({d} \intersect Reachable)}
              /\ UNCHANGED <<attempts, linked>>

GiveUp(d) == /\ Move(d, "executing", "failed")
             /\ UNCHANGED <<attempts, linked, contacted>>

Observe(d) == /\ Move(d, "sent", "observed")
              /\ UNCHANGED <<attempts, linked, contacted>>

Next == \E d \in Decisions : \/ Decide(d) \/ Start(d) \/ MakeLink(d)
                             \/ Retry(d) \/ Succeed(d) \/ GiveUp(d)
                             \/ Observe(d)

Spec == Init /\ [][Next]_vars
=============================================================================
