---------------------------- MODULE RetryProofs -----------------------------
(***************************************************************************)
(* The wait before a retry and the number of attempts.  Both are computed  *)
(* from a copy of the counter that a session loaded before a slow call.    *)
(* The backoff doubles with each attempt: what it is for every attempt is  *)
(* proved by induction.                                                    *)
(***************************************************************************)
EXTENDS LifecycleProofs, WellFoundedInduction

------------------------------------------------------------------------------
(* Induction, for sets of numbers *)

LEMMA Induction ==
  ASSUME NEW S \in SUBSET Nat, 0 \in S, \A n \in S : n + 1 \in S
  PROVE  S = Nat
<1>. SUFFICES ASSUME Nat \ S # {} PROVE FALSE
  OBVIOUS
<1>. DEFINE T == Nat \ S
            Below == OpToRel(<, Nat)
<1>1. IsWellFoundedOn(Below, Nat)
  BY NatLessThanWellFounded, Zenon
<1>2. \A x, y \in Nat : y < x => <<y, x>> \in Below
  BY DEF OpToRel
<1>3. T \subseteq Nat /\ T # {}
  OBVIOUS
<1>. HIDE DEF Below
<1>4. PICK x \in T : \A y \in T : ~ (<<y, x>> \in Below)
  <2>. HIDE DEF T
  <2>. QED  BY <1>1, <1>3, WFMin
<1>5. x # 0 /\ x - 1 \in Nat /\ x - 1 < x
  BY <1>4
<1>6. x - 1 \in S
  BY <1>2, <1>4, <1>5
<1>. QED  BY <1>4, <1>5, <1>6

------------------------------------------------------------------------------
(* The recursive definition of PowerOfTwo has a solution *)

\* The first n + 1 powers of two.
Starts(n) == {f \in [0..n -> Nat] :
                /\ f[0] = 1
                /\ \A i \in 1..n : f[i] = 2 * f[i - 1]}

LEMMA StartsExist == \A n \in Nat : Starts(n) # {}
<1>. DEFINE S == {n \in Nat : Starts(n) # {}}
<1>1. 0 \in S
  <2>. [i \in 0..0 |-> 1] \in Starts(0)  BY DEF Starts
  <2>. QED  OBVIOUS
<1>2. ASSUME NEW n \in S PROVE n + 1 \in S
  <2>1. PICK f \in Starts(n) : TRUE  OBVIOUS
  <2>. DEFINE g == [i \in 0..(n + 1) |-> IF i = n + 1 THEN 2 * f[n] ELSE f[i]]
  <2>2. g \in [0..(n + 1) -> Nat]  BY <2>1 DEF Starts
  <2>3. g[0] = 1  BY <2>1 DEF Starts
  <2>4. ASSUME NEW i \in 1..(n + 1) PROVE g[i] = 2 * g[i - 1]
    BY <2>1 DEF Starts
  <2>5. g \in Starts(n + 1)
    <3>. HIDE DEF g
    <3>. QED  BY <2>2, <2>3, <2>4 DEF Starts
  <2>. QED  BY <2>5
<1>3. S = Nat
  <2>. HIDE DEF S
  <2>1. S \in SUBSET Nat  BY DEF S
  <2>. QED  BY <1>1, <1>2, <2>1, Induction
<1>. QED  BY <1>3

LEMMA StartsAgree ==
  ASSUME NEW m \in Nat, NEW n \in Nat, m <= n,
         NEW f \in Starts(m), NEW g \in Starts(n)
  PROVE  f[m] = g[m]
<1>. DEFINE S == {i \in Nat : i <= m => f[i] = g[i]}
<1>1. 0 \in S  BY DEF Starts
<1>2. ASSUME NEW i \in S PROVE i + 1 \in S
  <2>1. CASE i + 1 <= m
    <3>1. i + 1 \in 1..m /\ i + 1 \in 1..n /\ (i + 1) - 1 = i  BY <2>1
    <3>2. f[i + 1] = 2 * f[i] /\ g[i + 1] = 2 * g[i]  BY <3>1 DEF Starts
    <3>. QED  BY <2>1, <3>2
  <2>. QED  BY <2>1
<1>3. S = Nat
  <2>. HIDE DEF S
  <2>1. S \in SUBSET Nat  BY DEF S
  <2>. QED  BY <1>1, <1>2, <2>1, Induction
<1>. QED  BY <1>3

LEMMA PowersExist ==
  \E F : F = [n \in Nat |-> IF n = 0 THEN 1 ELSE 2 * F[n - 1]]
<1>. DEFINE start(n) == CHOOSE f : f \in Starts(n)
            F == [n \in Nat |-> start(n)[n]]
<1>1. \A n \in Nat : start(n) \in Starts(n)
  BY StartsExist
<1>. HIDE DEF start
<1>2. F[0] = 1  BY <1>1 DEF Starts
<1>3. ASSUME NEW n \in Nat, n # 0 PROVE F[n] = 2 * F[n - 1]
  <2>1. n - 1 \in Nat /\ n - 1 <= n /\ n \in 1..n  BY <1>3
  <2>2. start(n)[n] = 2 * start(n)[n - 1]  BY <1>1, <2>1 DEF Starts
  <2>3. start(n - 1)[n - 1] = start(n)[n - 1]  BY <1>1, <2>1, StartsAgree
  <2>. QED  BY <2>1, <2>2, <2>3
<1>4. \A n \in Nat : F[n] = IF n = 0 THEN 1 ELSE 2 * F[n - 1]
  BY <1>2, <1>3
<1>5. F = [n \in Nat |-> F[n]]  OBVIOUS
<1>. HIDE DEF F
<1>6. F = [n \in Nat |-> IF n = 0 THEN 1 ELSE 2 * F[n - 1]]
  BY <1>4, <1>5
<1>. QED  BY <1>6

LEMMA PowerUnfolds ==
  \A n \in Nat : PowerOfTwo[n] = IF n = 0 THEN 1 ELSE 2 * PowerOfTwo[n - 1]
<1>1. PowerOfTwo = [n \in Nat |-> IF n = 0 THEN 1 ELSE 2 * PowerOfTwo[n - 1]]
  BY PowersExist, Zenon DEF PowerOfTwo
<1>2. \A n \in Nat :
        [i \in Nat |-> IF i = 0 THEN 1 ELSE 2 * PowerOfTwo[i - 1]][n]
          = IF n = 0 THEN 1 ELSE 2 * PowerOfTwo[n - 1]
  OBVIOUS
<1>. QED  BY <1>1, <1>2, Zenon

LEMMA PowerIsPositive == \A n \in Nat : PowerOfTwo[n] \in Nat \ {0}
<1>. DEFINE S == {n \in Nat : PowerOfTwo[n] \in Nat \ {0}}
<1>1. 0 \in S  BY PowerUnfolds
<1>2. ASSUME NEW n \in S PROVE n + 1 \in S
  <2>1. PowerOfTwo[n + 1] = 2 * PowerOfTwo[n]  BY PowerUnfolds
  <2>. QED  BY <2>1
<1>3. S = Nat
  <2>. HIDE DEF S
  <2>1. S \in SUBSET Nat  BY DEF S
  <2>. QED  BY <1>1, <1>2, <2>1, Induction
<1>. QED  BY <1>3

------------------------------------------------------------------------------
(* What calculate_retry returns *)

Numbers == Nat \ {0}

LEMMA FirstBackoff == Backoff(1) = BaseDelay
<1>1. PowerOfTwo[0] = 1  BY PowerUnfolds
<1>2. BaseDelay * PowerOfTwo[1 - 1] = BaseDelay
  BY <1>1, RetryPolicyAssumption
<1>. QED  BY <1>2, RetryPolicyAssumption DEF Backoff

\* The backoff doubles with every attempt until it meets the cap, and then
\* stays there (calculate_retry).
THEOREM BackoffDoubles ==
  ASSUME NEW n \in Numbers
  PROVE  Backoff(n + 1) = IF 2 * Backoff(n) <= MaxDelay THEN 2 * Backoff(n)
                                                       ELSE MaxDelay
<1>. DEFINE power == PowerOfTwo[n - 1]
            delay == BaseDelay * power
<1>1. power \in Nat \ {0} /\ PowerOfTwo[(n + 1) - 1] = 2 * power
  <2>1. n - 1 \in Nat /\ (n + 1) - 1 \in Nat /\ (n + 1) - 1 # 0
        /\ ((n + 1) - 1) - 1 = n - 1
    BY DEF Numbers
  <2>. QED  BY <2>1, PowerUnfolds, PowerIsPositive
<1>. HIDE DEF power
<1>2. delay \in Nat /\ BaseDelay * (2 * power) = 2 * delay
  BY <1>1, RetryPolicyAssumption
<1>3. /\ Backoff(n) = IF delay <= MaxDelay THEN delay ELSE MaxDelay
      /\ Backoff(n + 1) = IF 2 * delay <= MaxDelay THEN 2 * delay ELSE MaxDelay
  BY <1>1, <1>2 DEF Backoff, power
<1>. HIDE DEF delay
<1>. QED  BY <1>2, <1>3, RetryPolicyAssumption

\* No attempt waits less than the base delay or more than the longest one.
LEMMA BackoffBounds ==
  \A n \in Numbers : /\ Backoff(n) \in Nat
                     /\ BaseDelay <= Backoff(n) /\ Backoff(n) <= MaxDelay
<1>. DEFINE S == {n \in Nat : /\ Backoff(n + 1) \in Nat
                             /\ BaseDelay <= Backoff(n + 1)
                             /\ Backoff(n + 1) <= MaxDelay}
<1>1. 0 \in S  BY FirstBackoff, RetryPolicyAssumption
<1>2. ASSUME NEW n \in S PROVE n + 1 \in S
  <2>1. n + 1 \in Numbers  BY DEF Numbers
  <2>2. Backoff((n + 1) + 1) = IF 2 * Backoff(n + 1) <= MaxDelay
                               THEN 2 * Backoff(n + 1) ELSE MaxDelay
    BY <2>1, BackoffDoubles
  <2>3. /\ Backoff(n + 1) \in Nat
        /\ BaseDelay <= Backoff(n + 1) /\ Backoff(n + 1) <= MaxDelay
    OBVIOUS
  <2>. HIDE DEF S
  <2>4. /\ Backoff((n + 1) + 1) \in Nat
        /\ BaseDelay <= Backoff((n + 1) + 1)
        /\ Backoff((n + 1) + 1) <= MaxDelay
    BY <2>2, <2>3, RetryPolicyAssumption
  <2>. QED  BY <2>4 DEF S
<1>3. S = Nat
  <2>. HIDE DEF S
  <2>1. S \in SUBSET Nat  BY DEF S
  <2>. QED  BY <1>1, <1>2, <2>1, Induction
<1>4. ASSUME NEW n \in Numbers PROVE n - 1 \in S /\ (n - 1) + 1 = n
  <2>. HIDE DEF S
  <2>1. n - 1 \in Nat /\ (n - 1) + 1 = n  BY DEF Numbers
  <2>. QED  BY <1>3, <2>1
<1>5. ASSUME NEW m \in S
      PROVE  /\ Backoff(m + 1) \in Nat
             /\ BaseDelay <= Backoff(m + 1) /\ Backoff(m + 1) <= MaxDelay
  OBVIOUS
<1>. HIDE DEF S
<1>. QED  BY <1>4, <1>5

\* After the first attempt the base delay has doubled, or met the cap.
LEMMA LaterBackoff ==
  ASSUME NEW n \in Numbers, n > 1
  PROVE  Backoff(n) >= 2 * BaseDelay \/ Backoff(n) = MaxDelay
<1>1. n - 1 \in Numbers /\ (n - 1) + 1 = n  BY DEF Numbers
<1>2. Backoff(n) = IF 2 * Backoff(n - 1) <= MaxDelay THEN 2 * Backoff(n - 1)
                                                    ELSE MaxDelay
  BY <1>1, BackoffDoubles
<1>3. Backoff(n - 1) \in Nat /\ Backoff(n - 1) >= BaseDelay
  BY <1>1, BackoffBounds
<1>. QED  BY <1>2, <1>3, RetryPolicyAssumption

\* Whatever failed, there is a row to write: a wait exists for every attempt,
\* so that a transient failure is never left without a next try or an end
\* (calculate_retry, mark_execution_failed_retryable).
THEOREM FailureIsRecorded ==
  ASSUME NEW row, NEW attempt \in Numbers, NEW error
  PROVE  AfterFailure(row, attempt, error) # {}
<1>1. Backoff(attempt) \in RetryDelays(attempt)
  <2>1. Backoff(attempt) \in Nat /\ 1 <= Backoff(attempt)
        /\ Backoff(attempt) <= MaxDelay
    BY BackoffBounds, RetryPolicyAssumption
  <2>2. Backoff(attempt) \in 0..LongestDelay
    BY <2>1, RetryPolicyAssumption DEF LongestDelay
  <2>3. 8 * Backoff(attempt) <= 10 * Backoff(attempt)
        /\ 10 * Backoff(attempt) < 12 * Backoff(attempt)
    BY <2>1
  <2>. QED  BY <2>2, <2>3 DEF RetryDelays
<1>2. RetryRow(row, Backoff(attempt)) \in
        {RetryRow(row, wait) : wait \in RetryDelays(attempt)}
  BY <1>1
<1>. QED  BY <1>2 DEF AfterFailure

\* The same of the waits, with the jitter.
LEMMA DelayBounds ==
  ASSUME NEW n \in Numbers, NEW wait \in RetryDelays(n)
  PROVE  /\ 8 * BaseDelay <= 10 * wait /\ 10 * wait < 12 * MaxDelay
         /\ n > 1 => 12 * BaseDelay <= 10 * wait \/ 8 * MaxDelay <= 10 * wait
<1>1. wait \in Nat /\ 8 * Backoff(n) <= 10 * wait /\ 10 * wait < 12 * Backoff(n)
  BY DEF RetryDelays
<1>2. /\ Backoff(n) \in Nat
      /\ BaseDelay <= Backoff(n) /\ Backoff(n) <= MaxDelay
  BY BackoffBounds
<1>3. n > 1 => Backoff(n) >= 2 * BaseDelay \/ Backoff(n) = MaxDelay
  BY LaterBackoff
<1>. QED  BY <1>1, <1>2, <1>3, RetryPolicyAssumption

------------------------------------------------------------------------------
(* The count goes with the row *)

\* The thread that puts a decision back has the row's count.
LEMMA SettleFollows ==
  ASSUME TypeInv, ClaimInv, NEW t \in Threads, Settle(t)
  PROVE  \A d \in Decisions : Follows(d)
<1>1. thread[t].pc \in LoadedPoints /\ thread[t].pc \in HoldingPoints
  BY DEF Settle, LoadedPoints
<1>2. /\ thread[t].dec \in Decisions
      /\ thread[t].attempts = decision[thread[t].dec].attempts
  BY <1>1 DEF TypeInv, WorksOnDecision, ClaimInv, LoadedRowIsCurrent
<1>. QED  BY <1>2 DEF Settle, Follows

\* A claim leaves a decision in EXECUTING.
LEMMA TakeFollows ==
  ASSUME TypeInv, NEW t \in Threads, NEW d \in Decisions,
         Take(t, d, "claimed") \/ Take(t, d, "recovering")
  PROVE  \A e \in Decisions : Follows(e)
<1>. DEFINE claimed == ClaimedRow(decision[d])
            recovering == StaleClaimedRow(decision[d])
<1>1. /\ claimed.status = "EXECUTING"
      /\ recovering.status = decision[d].status
  BY RowFields, WriteFields
<1>2. \/ Write(d, claimed)
      \/ Write(d, recovering) /\ decision[d].status = "EXECUTING"
  BY DEF Take
<1>. HIDE DEF claimed, recovering
<1>3. /\ decision'[d].status = "EXECUTING"
      /\ \A e \in Decisions : e # d => decision'[e] = decision[e]
  BY <1>1, <1>2, WriteEffect
<1>. QED  BY <1>3 DEF Follows

LEMMA DecideFollows ==
  ASSUME TypeInv, NEW t \in Threads, NEW d \in Decisions, Decide(t, d)
  PROVE  \A e \in Decisions : Follows(e)
<1>1. PICK row : Write(d, row)  BY DEF Decide
<1>2. \A e \in Decisions : e # d => decision'[e] = decision[e]
  BY <1>1, WriteEffect
<1>3. decision[d].status = "NONE"  BY DEF Decide
<1>. QED  BY <1>2, <1>3 DEF Follows

LEMMA NotifyFollows ==
  ASSUME TypeInv, NEW d \in Decisions, NotifyPaid(d)
  PROVE  \A e \in Decisions : Follows(e)
<1>1. CASE UNCHANGED decision  BY <1>1 DEF Follows
<1>2. CASE Write(d, ObservedRow(decision[d]))
  <2>. DEFINE new == ObservedRow(decision[d])
  <2>1. new.status = "OUTCOME_OBSERVED"  BY RowFields, WriteFields
  <2>. HIDE DEF new
  <2>2. /\ decision'[d] = new
        /\ \A e \in Decisions : e # d => decision'[e] = decision[e]
    BY <1>2, WriteEffect DEF new
  <2>. QED  BY <2>1, <2>2 DEF Follows
<1>. QED  BY <1>1, <1>2 DEF NotifyPaid

LEMMA TickFollows ==
  ASSUME TypeInv, Tick
  PROVE  \A d \in Decisions : Follows(d)
<1>1. ASSUME NEW d \in Decisions
      PROVE  decision'[d].status = decision[d].status
  <2>. DEFINE new == OlderRow(decision[d])
  <2>1. new.status = decision[d].status  BY RowFields, WriteFields
  <2>2. decision'[d] = new  BY DEF Tick
  <2>. HIDE DEF new
  <2>. QED  BY <2>1, <2>2
<1>. QED  BY <1>1 DEF Follows

LEMMA StepFollows ==
  ASSUME TypeInv, LinkInv, ClaimInv, [Next]_vars
  PROVE  \A d \in Decisions : Follows(d)
<1>1. Kind  BY StepKind
<1>2. ASSUME UNCHANGED decision PROVE \A d \in Decisions : Follows(d)
  BY <1>2 DEF Follows
<1>3. ASSUME NEW S, LetGo(S) PROVE \A d \in Decisions : Follows(d)
  BY <1>2, <1>3 DEF LetGo
<1>4. ASSUME NEW t, Advance(t) PROVE \A d \in Decisions : Follows(d)
  BY <1>2, <1>4 DEF Advance
<1>5. ASSUME NEW w, NEW d, ScanStale(w, d) \/ Arrive(d)
      PROVE  \A e \in Decisions : Follows(e)
  BY <1>2, <1>5 DEF ScanStale, Arrive
<1>. QED
  BY <1>1, <1>2, <1>3, <1>4, <1>5, SettleFollows, TakeFollows, DecideFollows,
     NotifyFollows, TickFollows DEF Kind

\* However requests, retries and recoveries alternate, the backoff and the
\* limit go by the row's own count, if no thread outlives the stale threshold.
THEOREM RetriesCount ==
  ASSUME ~ Stalls
  PROVE  Spec => RetriesFollowCount
<1>1. TypeInv /\ LinkInv /\ ClaimInv /\ [Next]_vars =>
        [\A d \in Decisions : Follows(d)]_vars
  BY StepFollows
<1>. QED
  BY <1>1, LinkInvariant, ClaimInvariant, PTL DEF Spec, RetriesFollowCount

LEMMA StepSpaced ==
  ASSUME LifecycleInv, [Next]_vars
  PROVE  \A d \in Decisions : Spaced(d)
<1>. SUFFICES ASSUME NEW d \in Decisions, decision[d].status = "EXECUTING",
                     decision'[d].status = "DECIDED"
              PROVE  Spaced(d)
  BY DEF Spaced
<1>1. decision'[d].wait \in RetryDelays(decision[d].attempts)
  BY StepFollows DEF Follows, LifecycleInv
<1>2. decision[d].attempts \in Numbers
  <2>1. decision[d].attempts \in Nat  BY RowFields DEF LifecycleInv
  <2>2. decision[d].attempts > 0  BY DEF LifecycleInv, StartedInv
  <2>. QED  BY <2>1, <2>2 DEF Numbers
<1>. QED  BY <1>1, <1>2, DelayBounds DEF Spaced

\* A failed decision is never tried again at once and never put off beyond the
\* longest delay, and from the second failure on it waits longer than a first
\* failure can require (calculate_retry), whatever the delays, the limit and
\* the number of threads are.
THEOREM RetriesSpaced ==
  ASSUME ~ Stalls
  PROVE  Spec => RetriesAreSpaced
<1>1. LifecycleInv /\ [Next]_vars => [\A d \in Decisions : Spaced(d)]_vars
  BY StepSpaced
<1>. QED  BY <1>1, LifecycleInvariant, PTL DEF Spec, RetriesAreSpaced
=============================================================================
