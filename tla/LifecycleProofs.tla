-------------------------- MODULE LifecycleProofs ---------------------------
(***************************************************************************)
(* RecoveryExecution implements DecisionLifecycle: each of its steps is    *)
(* one legal move of one decision or leaves the lifecycle as it was.  The  *)
(* proof goes by the kinds of step of RecoverySafetyProofs.                *)
(***************************************************************************)
EXTENDS RecoverySafetyProofs

\* Whoever executes a decision, and whoever may still make its link, was
\* started: the guard of the lifecycle's MakeLink.
StartedInv ==
  \A d \in Decisions :
    decision[d].status = "EXECUTING" \/ d \in late => decision[d].attempts > 0

LifecycleInv == TypeInv /\ LinkInv /\ ClaimInv /\ StartedInv

\* The stage of a row, without the CASE.
LEMMA Stages ==
  ASSUME NEW row
  PROVE  /\ row.status = "NONE" => StageOf(row) = "none"
         /\ row.status = "PENDING_POLICY" => StageOf(row) = "declined"
         /\ row.status = "DECIDED" /\ row.action = "NO_ACTION" =>
              StageOf(row) = "declined"
         /\ row.status = "DECIDED" /\ row.action # "NO_ACTION" =>
              StageOf(row) = "pending"
         /\ row.status = "EXECUTING" => StageOf(row) = "executing"
         /\ row.status = "EXECUTED" => StageOf(row) = "sent"
         /\ row.status = "FAILED" => StageOf(row) = "failed"
         /\ row.status = "OUTCOME_OBSERVED" => StageOf(row) = "observed"
BY DEF StageOf

\* One decision moves, and the lifecycle sees its move.
LEMMA MoveSeen ==
  ASSUME NEW d \in Decisions,
         \A e \in Decisions : e # d => decision'[e] = decision[e],
         NEW from, NEW to,
         StageOf(decision[d]) = from, StageOf(decision'[d]) = to
  PROVE  Lifecycle!Move(d, from, to)
BY DEF Lifecycle!Move

LEMMA LinksKept ==
  ASSUME UNCHANGED link
  PROVE  {d \in Decisions : link[d] # "none"}' =
           {d \in Decisions : link[d] # "none"}
OBVIOUS

\* What the lifecycle sees of a decision, unchanged.
Unseen == /\ \A d \in Decisions :
               /\ StageOf(decision'[d]) = StageOf(decision[d])
               /\ decision'[d].attempts = decision[d].attempts
          /\ \A d \in Decisions : link'[d] = "none" <=> link[d] = "none"
          /\ UNCHANGED outreach

LEMMA UnseenStutters ==
  ASSUME Unseen
  PROVE  UNCHANGED Lifecycle!vars
<1>1. [d \in Decisions |-> StageOf(decision[d])]' =
        [d \in Decisions |-> StageOf(decision[d])]
  BY DEF Unseen
<1>2. [d \in Decisions |-> decision[d].attempts]' =
        [d \in Decisions |-> decision[d].attempts]
  BY DEF Unseen
<1>3. {d \in Decisions : link[d] # "none"}' =
        {d \in Decisions : link[d] # "none"}
  BY DEF Unseen
<1>. QED  BY <1>1, <1>2, <1>3 DEF Unseen, Lifecycle!vars

\* Seen is a step of the lifecycle.
Seen == [Lifecycle!Next]_(Lifecycle!vars)

LEMMA UnseenSeen == ASSUME Unseen PROVE Seen
BY UnseenStutters DEF Seen

------------------------------------------------------------------------------
(* The kinds of step *)

LEMMA LetGoSeen ==
  ASSUME NEW S \in SUBSET Threads, LetGo(S)
  PROVE  Seen
<1>. Unseen  BY DEF LetGo, Unseen
<1>. QED  BY UnseenSeen

\* A claim starts a decision that has attempts left; a stale claim is not seen.
LEMMA TakeSeen ==
  ASSUME LifecycleInv, NEW t \in Threads, NEW d \in Decisions,
         Take(t, d, "claimed") \/ Take(t, d, "recovering")
  PROVE  Seen
<1>0. decision[d] \in Rows /\ decision[d].action # "NO_ACTION"
  BY RowFields DEF LifecycleInv, Take
<1>1. CASE Take(t, d, "claimed")
  <2>. DEFINE new == ClaimedRow(decision[d])
  <2>1. /\ new.status = "EXECUTING"
        /\ new.attempts = decision[d].attempts + 1
    BY <1>0, WriteFields
  <2>2. /\ decision[d].status = "DECIDED" /\ UNCHANGED <<link, outreach>>
        /\ Write(d, new)
    BY <1>1 DEF Take
  <2>3. /\ decision'[d] = new
        /\ \A e \in Decisions : e # d => decision'[e] = decision[e]
    BY <2>2, WriteEffect DEF LifecycleInv
  <2>4. decision[d].attempts < MaxAttempts
    BY <1>0, <2>2 DEF LifecycleInv, ClaimInv, AttemptsBounded
  <2>. HIDE DEF new
  <2>5. Lifecycle!Move(d, "pending", "executing")
    BY <1>0, <2>1, <2>2, <2>3, Stages, MoveSeen
  <2>6. [e \in Decisions |-> decision[e].attempts]' =
          [[e \in Decisions |-> decision[e].attempts] EXCEPT
             ![d] = decision[d].attempts + 1]
    BY <2>1, <2>3
  <2>7. Lifecycle!Start(d)
    BY <2>2, <2>4, <2>5, <2>6, LinksKept DEF Lifecycle!Start
  <2>. QED  BY <2>7 DEF Seen, Lifecycle!Next
<1>2. CASE Take(t, d, "recovering")
  <2>. DEFINE new == StaleClaimedRow(decision[d])
  <2>1. /\ new.status = "EXECUTING" /\ new.attempts = decision[d].attempts
        /\ decision[d].status = "EXECUTING" /\ UNCHANGED <<link, outreach>>
        /\ Write(d, new)
    BY <1>0, <1>2, WriteFields DEF Take
  <2>2. /\ decision'[d] = new
        /\ \A e \in Decisions : e # d => decision'[e] = decision[e]
    BY <2>1, WriteEffect DEF LifecycleInv
  <2>. HIDE DEF new
  <2>3. Unseen  BY <2>1, <2>2, Stages DEF Unseen
  <2>. QED  BY <2>3, UnseenSeen
<1>. QED  BY <1>1, <1>2

\* The provider makes the link of a decision that was started.
LEMMA LinkMadeSeen ==
  ASSUME NEW d \in Decisions, decision[d].attempts > 0,
         UNCHANGED <<decision, outreach>>, link'[d] # "none",
         \A e \in Decisions : e # d => link'[e] = link[e]
  PROVE  Seen
<1>1. {e \in Decisions : link[e] # "none"}' =
        {e \in Decisions : link[e] # "none"} \union {d}
  OBVIOUS
<1>2. Lifecycle!MakeLink(d)  BY <1>1 DEF Lifecycle!MakeLink
<1>. QED  BY <1>2 DEF Seen, Lifecycle!Next

\* A thread at its work may make the link of its decision.
LEMMA AdvanceSeen ==
  ASSUME LifecycleInv, NEW t \in Threads, Advance(t)
  PROVE  Seen
<1>. DEFINE d == thread[t].dec
<1>1. d \in Decisions /\ decision[d].attempts > 0
  <2>1. thread[t].pc \in HoldingPoints  BY DEF Advance
  <2>2. d \in Decisions
    BY <2>1 DEF LifecycleInv, TypeInv, WorksOnDecision
  <2>3. decision[d].status = "EXECUTING"
    BY <2>1 DEF LifecycleInv, ClaimInv, WorkIsTimely
  <2>. QED  BY <2>2, <2>3 DEF LifecycleInv, StartedInv
<1>2. UNCHANGED <<decision, outreach>>  BY DEF Advance
<1>3. CASE link[d] = "none" /\ link'[d] # "none"
  BY <1>1, <1>2, <1>3, LinkMadeSeen DEF Advance, LifecycleInv
<1>4. CASE ~ (link[d] = "none" /\ link'[d] # "none")
  <2>1. Unseen  BY <1>2, <1>4 DEF Advance, Unseen
  <2>. QED  BY <2>1, UnseenSeen
<1>. QED  BY <1>3, <1>4

\* A decision is settled, or put back with an attempt left.
LEMMA SettleSeen ==
  ASSUME LifecycleInv, NEW t \in Threads, Settle(t)
  PROVE  Seen
<1>. DEFINE d == thread[t].dec
<1>1. thread[t].pc \in LoadedPoints /\ thread[t].pc \in HoldingPoints
  BY DEF Settle, LoadedPoints
<1>2. d \in Decisions
  BY <1>1 DEF LifecycleInv, TypeInv, WorksOnDecision
<1>3. /\ decision[d].status = "EXECUTING"
      /\ thread[t].attempts = decision[d].attempts
  BY <1>1, <1>2 DEF LifecycleInv, ClaimInv, WorkIsTimely, LoadedRowIsCurrent
<1>4. decision[d].action # "NO_ACTION"
  BY <1>1 DEF LifecycleInv, LinkInv, OnlyActionsInReach
<1>5. /\ \A e \in Decisions : e # d => decision'[e] = decision[e]
      /\ decision'[d].attempts = decision[d].attempts
      /\ decision'[d].action = decision[d].action
      /\ UNCHANGED link
  BY DEF Settle
<1>. HIDE DEF d
<1>6. StageOf(decision[d]) = "executing"  BY <1>3, Stages
<1>7. /\ [e \in Decisions |-> decision[e].attempts]' =
           [e \in Decisions |-> decision[e].attempts]
      /\ {e \in Decisions : link[e] # "none"}' =
           {e \in Decisions : link[e] # "none"}
  BY <1>5
<1>8. CASE /\ decision'[d].status = "EXECUTED" /\ link[d] # "none"
           /\ outreach' \in {outreach, outreach \union ({d} \intersect Reachable)}
  <2>1. StageOf(decision'[d]) = "sent"  BY <1>8, Stages
  <2>2. Lifecycle!Move(d, "executing", "sent")
    BY <1>2, <1>5, <1>6, <2>1, MoveSeen
  <2>3. Lifecycle!Succeed(d)
    BY <1>2, <1>7, <1>8, <2>2 DEF Lifecycle!Succeed
  <2>. QED  BY <1>2, <2>3 DEF Seen, Lifecycle!Next
<1>9. CASE decision'[d].status = "FAILED" /\ UNCHANGED outreach
  <2>1. StageOf(decision'[d]) = "failed"  BY <1>9, Stages
  <2>2. Lifecycle!Move(d, "executing", "failed")
    BY <1>2, <1>5, <1>6, <2>1, MoveSeen
  <2>3. Lifecycle!GiveUp(d)  BY <1>7, <1>9, <2>2 DEF Lifecycle!GiveUp
  <2>. QED  BY <1>2, <2>3 DEF Seen, Lifecycle!Next
<1>10. CASE /\ decision'[d].status = "DECIDED"
            /\ thread[t].attempts < MaxAttempts
            /\ UNCHANGED outreach
  <2>1. StageOf(decision'[d]) = "pending"  BY <1>4, <1>5, <1>10, Stages
  <2>2. Lifecycle!Move(d, "executing", "pending")
    BY <1>2, <1>5, <1>6, <2>1, MoveSeen
  <2>3. Lifecycle!Retry(d)
    BY <1>2, <1>3, <1>7, <1>10, <2>2 DEF Lifecycle!Retry
  <2>. QED  BY <1>2, <2>3 DEF Seen, Lifecycle!Next
<1>. QED  BY <1>8, <1>9, <1>10 DEF Settle, d

LEMMA DecideSeen ==
  ASSUME LifecycleInv, NEW t \in Threads, NEW d \in Decisions, Decide(t, d)
  PROVE  Seen
<1>1. PICK status, action : /\ Write(d, NewRow(status, action))
                            /\ status \in {"DECIDED", "PENDING_POLICY"}
                            /\ status = "DECIDED" \/ action = "NO_ACTION"
  BY DEF Decide
<1>2. decision[d].status = "NONE" /\ UNCHANGED <<link, outreach>>
  BY DEF Decide
<1>3. decision[d].attempts = 0
  BY <1>2 DEF LifecycleInv, LinkInv, OnlyActionsInReach
<1>. DEFINE new == NewRow(status, action)
<1>4. /\ decision'[d] = new
      /\ \A e \in Decisions : e # d => decision'[e] = decision[e]
  BY <1>1, WriteEffect DEF LifecycleInv
<1>5. new.status = status /\ new.attempts = 0 /\ new.action = action
  BY DEF NewRow, NoRow
<1>. HIDE DEF new
<1>6. StageOf(decision'[d]) \in {"pending", "declined"}
  BY <1>1, <1>4, <1>5, Stages
<1>7. \/ Lifecycle!Move(d, "none", "pending")
      \/ Lifecycle!Move(d, "none", "declined")
  BY <1>2, <1>4, <1>6, Stages, MoveSeen
<1>8. [e \in Decisions |-> decision[e].attempts]' =
        [e \in Decisions |-> decision[e].attempts]
  BY <1>3, <1>4, <1>5
<1>9. Lifecycle!Decide(d)
  BY <1>2, <1>7, <1>8, LinksKept DEF Lifecycle!Decide
<1>. QED  BY <1>9 DEF Seen, Lifecycle!Next

LEMMA ScanSeen ==
  ASSUME NEW w \in Threads, NEW d \in Decisions, ScanStale(w, d)
  PROVE  Seen
<1>. Unseen  BY DEF ScanStale, Unseen
<1>. QED  BY UnseenSeen

\* Only a decision that counts as executed carries the reference.
LEMMA NotifySeen ==
  ASSUME LifecycleInv, NEW d \in Decisions, NotifyPaid(d)
  PROVE  Seen
<1>1. CASE UNCHANGED decision
  <2>1. Unseen  BY <1>1 DEF NotifyPaid, Unseen
  <2>. QED  BY <2>1, UnseenSeen
<1>2. CASE decision[d].ref /\ Write(d, ObservedRow(decision[d]))
  <2>. DEFINE new == ObservedRow(decision[d])
  <2>1. /\ new.status = "OUTCOME_OBSERVED"
        /\ new.attempts = decision[d].attempts
    BY RowFields, WriteFields DEF LifecycleInv
  <2>2. /\ decision'[d] = new
        /\ \A e \in Decisions : e # d => decision'[e] = decision[e]
    BY <1>2, WriteEffect DEF LifecycleInv
  <2>3. decision[d].status \in {"EXECUTED", "OUTCOME_OBSERVED"}
    BY <1>2 DEF LifecycleInv, ClaimInv, ReferenceMeansSent
  <2>4. UNCHANGED <<link, outreach>>  BY DEF NotifyPaid
  <2>. HIDE DEF new
  <2>5. CASE decision[d].status = "EXECUTED"
    <3>1. Lifecycle!Move(d, "sent", "observed")
      BY <2>1, <2>2, <2>5, Stages, MoveSeen
    <3>2. [e \in Decisions |-> decision[e].attempts]' =
            [e \in Decisions |-> decision[e].attempts]
      BY <2>1, <2>2
    <3>3. Lifecycle!Observe(d)
      BY <2>4, <3>1, <3>2, LinksKept DEF Lifecycle!Observe
    <3>. QED  BY <3>3 DEF Seen, Lifecycle!Next
  <2>6. CASE decision[d].status = "OUTCOME_OBSERVED"
    <3>1. Unseen  BY <2>1, <2>2, <2>4, <2>6, Stages DEF Unseen
    <3>. QED  BY <3>1, UnseenSeen
  <2>. QED  BY <2>3, <2>5, <2>6
<1>. QED  BY <1>1, <1>2 DEF NotifyPaid

\* A late request makes the link of a decision that was started.
LEMMA ArriveSeen ==
  ASSUME LifecycleInv, NEW d \in Decisions, Arrive(d)
  PROVE  Seen
<1>1. decision[d].attempts > 0 /\ UNCHANGED <<decision, outreach>>
  BY DEF Arrive, LifecycleInv, StartedInv
<1>2. CASE UNCHANGED link
  <2>1. Unseen  BY <1>1, <1>2 DEF Unseen
  <2>. QED  BY <2>1, UnseenSeen
<1>3. CASE link' = [link EXCEPT ![d] = "fresh"]
  BY <1>1, <1>3, LinkMadeSeen DEF LifecycleInv, TypeInv, TypeOK
<1>. QED  BY <1>2, <1>3 DEF Arrive

LEMMA TickSeen ==
  ASSUME LifecycleInv, Tick
  PROVE  Seen
<1>1. ASSUME NEW d \in Decisions
      PROVE  /\ StageOf(decision'[d]) = StageOf(decision[d])
             /\ decision'[d].attempts = decision[d].attempts
  <2>. DEFINE new == OlderRow(decision[d])
  <2>1. decision[d] \in Rows /\ decision'[d] = new
    BY RowFields DEF LifecycleInv, Tick
  <2>2. /\ new.status = decision[d].status
        /\ new.attempts = decision[d].attempts
        /\ new.action = decision[d].action
    BY <2>1, WriteFields
  <2>3. decision[d].status \in Statuses  BY <2>1 DEF Rows
  <2>. HIDE DEF new
  <2>. QED  BY <2>1, <2>2, <2>3, Stages DEF Statuses
<1>2. /\ \A d \in Decisions : link'[d] = "none" <=> link[d] = "none"
      /\ UNCHANGED outreach
  BY DEF Tick
<1>. QED  BY <1>1, <1>2, UnseenSeen DEF Unseen

\* Every step is a step of the lifecycle, or not seen there.
LEMMA StepSeen ==
  ASSUME LifecycleInv, [Next]_vars
  PROVE  Seen
<1>1. Kind  BY StepKind DEF LifecycleInv
<1>2. ASSUME UNCHANGED <<decision, thread, link, late, outreach>> PROVE Seen
  <2>1. Unseen  BY <1>2 DEF Unseen
  <2>. QED  BY <2>1, UnseenSeen
<1>. QED
  BY <1>1, <1>2, LetGoSeen, TakeSeen, AdvanceSeen, SettleSeen, DecideSeen,
     ScanSeen, NotifySeen, ArriveSeen, TickSeen DEF Kind

------------------------------------------------------------------------------
(* The strengthening is inductive. *)

\* Attempts are never taken back, and a row comes to EXECUTING, and a request
\* under way, only by a claim.
LEMMA StartedStep ==
  ASSUME LifecycleInv, [Next]_vars
  PROVE  StartedInv'
<1>. USE DEF StartedInv
<1>0. \A d \in Decisions : decision[d].attempts \in Nat
  BY RowFields DEF LifecycleInv
<1>h. ASSUME NEW u \in Threads, thread[u].pc \in HoldingPoints
      PROVE  /\ thread[u].dec \in Decisions
             /\ decision[thread[u].dec].status = "EXECUTING"
  BY <1>h DEF LifecycleInv, TypeInv, WorksOnDecision, ClaimInv, WorkIsTimely
<1>1. ASSUME NEW S \in SUBSET Threads, LetGo(S) PROVE StartedInv'
  BY <1>1, <1>h DEF LetGo, LifecycleInv, HoldingPoints, ExecutionPoints
<1>2. ASSUME NEW t \in Threads, NEW d \in Decisions,
             Take(t, d, "claimed") \/ Take(t, d, "recovering")
      PROVE  StartedInv'
  <2>1. UNCHANGED late /\ decision[d] \in Rows
    BY <1>2, RowFields DEF Take, LifecycleInv
  <2>2. CASE Take(t, d, "claimed")
    <3>. DEFINE new == ClaimedRow(decision[d])
    <3>1. new.attempts = decision[d].attempts + 1 /\ Write(d, new)
      BY <2>1, <2>2, WriteFields DEF Take
    <3>. HIDE DEF new
    <3>2. /\ decision'[d].attempts = decision[d].attempts + 1
          /\ \A e \in Decisions : e # d => decision'[e] = decision[e]
      BY <3>1, WriteEffect DEF LifecycleInv
    <3>. QED  BY <1>0, <2>1, <3>2 DEF LifecycleInv
  <2>3. CASE Take(t, d, "recovering")
    <3>. DEFINE new == StaleClaimedRow(decision[d])
    <3>1. /\ new.attempts = decision[d].attempts /\ Write(d, new)
          /\ decision[d].status = "EXECUTING"
      BY <2>1, <2>3, WriteFields DEF Take
    <3>. HIDE DEF new
    <3>2. /\ decision'[d].attempts = decision[d].attempts
          /\ \A e \in Decisions : e # d => decision'[e] = decision[e]
      BY <3>1, WriteEffect DEF LifecycleInv
    <3>. QED  BY <2>1, <3>1, <3>2 DEF LifecycleInv
  <2>. QED  BY <1>2, <2>2, <2>3
<1>3. ASSUME NEW t \in Threads, Advance(t) PROVE StartedInv'
  BY <1>3, <1>h DEF Advance, LifecycleInv
<1>4. ASSUME NEW t \in Threads, Settle(t) PROVE StartedInv'
  <2>1. /\ thread[t].dec \in Decisions
        /\ decision[thread[t].dec].status = "EXECUTING"
    BY <1>4, <1>h DEF Settle, LoadedPoints
  <2>. QED  BY <1>4, <2>1 DEF Settle, LifecycleInv
<1>5. ASSUME NEW t \in Threads, NEW d \in Decisions, Decide(t, d)
      PROVE  StartedInv'
  <2>1. PICK status, action : /\ Write(d, NewRow(status, action))
                              /\ status \in {"DECIDED", "PENDING_POLICY"}
    BY <1>5 DEF Decide
  <2>2. d \notin late /\ UNCHANGED late
    BY <1>5 DEF Decide, LifecycleInv, LinkInv, OnlyActionsInReach
  <2>. DEFINE new == NewRow(status, action)
  <2>3. new.status = status  BY DEF NewRow, NoRow
  <2>4. /\ decision'[d] = new
        /\ \A e \in Decisions : e # d => decision'[e] = decision[e]
    BY <2>1, WriteEffect DEF LifecycleInv
  <2>. HIDE DEF new
  <2>. QED  BY <2>1, <2>2, <2>3, <2>4 DEF LifecycleInv
<1>6. ASSUME NEW t \in Threads, NEW d \in Decisions, ScanStale(t, d)
      PROVE  StartedInv'
  BY <1>6 DEF ScanStale, LifecycleInv
<1>7. ASSUME NEW d \in Decisions, NotifyPaid(d) PROVE StartedInv'
  <2>1. CASE UNCHANGED decision
    BY <1>7, <2>1 DEF NotifyPaid, LifecycleInv
  <2>2. CASE Write(d, ObservedRow(decision[d]))
    <3>. DEFINE new == ObservedRow(decision[d])
    <3>1. /\ new.status = "OUTCOME_OBSERVED"
          /\ new.attempts = decision[d].attempts
      BY RowFields, WriteFields DEF LifecycleInv
    <3>. HIDE DEF new
    <3>2. /\ decision'[d] = new
          /\ \A e \in Decisions : e # d => decision'[e] = decision[e]
      BY <2>2, WriteEffect DEF LifecycleInv, new
    <3>. QED  BY <1>7, <3>1, <3>2 DEF NotifyPaid, LifecycleInv
  <2>. QED  BY <1>7, <2>1, <2>2 DEF NotifyPaid
<1>8. ASSUME NEW d \in Decisions, Arrive(d) PROVE StartedInv'
  BY <1>8 DEF Arrive, LifecycleInv
<1>9. CASE Tick
  <2>1. ASSUME NEW d \in Decisions
        PROVE  /\ decision'[d].status = decision[d].status
               /\ decision'[d].attempts = decision[d].attempts
    <3>. DEFINE new == OlderRow(decision[d])
    <3>1. decision[d] \in Rows /\ decision'[d] = new
      BY <1>9, RowFields DEF LifecycleInv, Tick
    <3>2. /\ new.status = decision[d].status
          /\ new.attempts = decision[d].attempts
      BY <3>1, WriteFields
    <3>. HIDE DEF new
    <3>. QED  BY <3>1, <3>2
  <2>. QED  BY <1>9, <2>1 DEF Tick, LifecycleInv
<1>10. ASSUME UNCHANGED <<decision, thread, link, late, outreach>>
       PROVE  StartedInv'
  BY <1>10 DEF LifecycleInv
<1>11. Kind  BY StepKind DEF LifecycleInv
<1>. QED
  BY <1>1, <1>2, <1>3, <1>4, <1>5, <1>6, <1>7, <1>8, <1>9, <1>10, <1>11
  DEF Kind

LEMMA LifecycleInvariant ==
  ASSUME ~ Stalls
  PROVE  Spec => []LifecycleInv
<1>1. Init => StartedInv  BY DEF Init, NoRow, StartedInv
<1>2. TypeInv /\ LinkInv /\ ClaimInv /\ StartedInv /\ [Next]_vars =>
        StartedInv'
  BY StartedStep DEF LifecycleInv
<1>. QED
  BY <1>1, <1>2, LinkInvariant, ClaimInvariant, PTL DEF Spec, LifecycleInv

\* For any number of threads, processes and decisions, the engine keeps the
\* lifecycle it promises, if no thread outlives the stale threshold: no
\* interleaving of requests, retries, recoveries, crashes and late requests
\* skips a stage, takes a settled decision back, or starts one too often.
THEOREM LifecycleKept ==
  ASSUME ~ Stalls
  PROVE  Spec => KeepsLifecycle
<1>1. Init => Lifecycle!Init
  <2>1. ASSUME Init, NEW d \in Decisions
        PROVE  /\ StageOf(decision[d]) = "none" /\ decision[d].attempts = 0
               /\ link[d] = "none"
    BY <2>1, Stages DEF Init, NoRow
  <2>2. Init => outreach = {}  BY DEF Init
  <2>. QED  BY <2>1, <2>2 DEF Lifecycle!Init
<1>2. LifecycleInv /\ [Next]_vars => [Lifecycle!Next]_(Lifecycle!vars)
  BY StepSeen DEF Seen
<1>. QED
  BY <1>1, <1>2, LifecycleInvariant, PTL
  DEF Spec, KeepsLifecycle, Lifecycle!Spec
=============================================================================
