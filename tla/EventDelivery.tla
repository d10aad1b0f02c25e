--------------------------- MODULE EventDelivery ---------------------------
(***************************************************************************)
(* What the intake promises about the events the provider delivers,        *)
(* without requests, transactions or statuses: an event is applied to the  *)
(* payment records once at most and as a whole, however often it arrives;  *)
(* the records change in no other way, and a capture is never undone; and  *)
(* an event is lost only in an error, a restart or a rejection, before it  *)
(* was applied.                                                            *)
(***************************************************************************)
EXTENDS Naturals

CONSTANTS Events, Payments, Subject, MaxFaults

VARIABLES fate,       \* what became of each event
          answered,   \* events the provider need not deliver again
          books,      \* the payment records
          faults      \* errors, restarts and rejections so far

vars == <<fate, answered, books, faults>>

Fates == {"new", "taken", "applied", "lost"}
Books == [Payments -> {"none", "FAILED", "CAPTURED"}]

Init == /\ fate = [e \in Events |-> "new"]
        /\ answered = {}
        /\ books = [p \in Payments |-> "none"]
        /\ faults = 0

Take(e) == /\ fate[e] = "new"
           /\ fate' = [fate EXCEPT ![e] = "taken"]
           /\ UNCHANGED <<answered, books, faults>>

\* An event tells of its own payments only.
Apply(e) == /\ fate[e] = "taken"
            /\ fate' = [fate EXCEPT ![e] = "applied"]
            /\ answered' \in {answered, answered \union {e}}
            /\ books' \in Books
            /\ \A p \in Payments : \/ books'[p] = books[p]
                                   \/ p \in Subject[e] /\ books[p] /= "CAPTURED"
            /\ UNCHANGED faults

\* An event is answered when it is applied, or on a later delivery, even of an
\* event that was lost or is still at work.
Answer(e) == /\ fate[e] /= "new"
             /\ answered' = answered \union {e}
             /\ UNCHANGED <<fate, books, faults>>

\* A fault may lose events that are not applied yet.
Fault == /\ faults < MaxFaults
         /\ faults' = faults + 1
         /\ \E S \in SUBSET {e \in Events : fate[e] \in {"new", "taken"}} :
              fate' = [e \in Events |-> IF e \in S THEN "lost" ELSE fate[e]]
         /\ UNCHANGED <<answered, books>>

Next == \/ \E e \in Events : Take(e) \/ Apply(e) \/ Answer(e)
        \/ Fault

Spec == Init /\ [][Next]_vars
=============================================================================
