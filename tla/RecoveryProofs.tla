--------------------------- MODULE RecoveryProofs ---------------------------
(***************************************************************************)
(* The safety properties of RecoveryExecution, for any number of requests, *)
(* workers, processes, decisions, faults and attempts.                     *)
(***************************************************************************)
EXTENDS RecoveryProperties, TLAPS

\* A thread that works on a decision works on one that exists.
WorksOnDecision ==
  \A t \in Threads :
    thread[t].pc \in HoldingPoints \union {"decided", "scanned"} =>
      thread[t].dec \in Decisions

TypeInv == TypeOK /\ WorksOnDecision

------------------------------------------------------------------------------
(* The row operations keep a row a row. *)

\* Every wait that may be drawn fits the type of the column.
LEMMA DelaysBounded ==
  \A attempt : RetryDelays(attempt) \subseteq Waits
BY DEF RetryDelays, Waits

\* The values the writes use belong to the columns' types.
LEMMA ColumnValues ==
  /\ 0 \in Ages /\ 0 \in Waits
  /\ {"NONE", "PENDING_POLICY", "DECIDED", "EXECUTING", "EXECUTED", "FAILED",
      "OUTCOME_OBSERVED"} \subseteq Statuses
  /\ {"NO_ACTION", "SEND_PAYMENT_LINK"} \subseteq Actions
BY StaleAfterAssumption, RetryPolicyAssumption
DEF Ages, Waits, LongestDelay, Statuses, Actions

\* What each write of app/crud.py leaves is a row of the table.
LEMMA WritesAreRows ==
  ASSUME NEW row \in Rows
  PROVE  /\ ClaimedRow(row) \in Rows
         /\ StaleClaimedRow(row) \in Rows
         /\ ExecutedRow(row) \in Rows
         /\ ObservedRow(row) \in Rows
         /\ OlderRow(row) \in Rows
         /\ FailedRow(row) \in Rows
         /\ \A wait \in Waits : RetryRow(row, wait) \in Rows
<1>1. ClaimedRow(row) \in Rows
  <2>1. row.attempts + 1 \in Nat  BY DEF Rows
  <2>. QED  BY <2>1, ColumnValues DEF Rows, ClaimedRow
<1>2. StaleClaimedRow(row) \in Rows
  BY ColumnValues DEF Rows, StaleClaimedRow
<1>3. ExecutedRow(row) \in Rows
  BY ColumnValues DEF Rows, ExecutedRow
<1>4. ObservedRow(row) \in Rows
  BY ColumnValues DEF Rows, ObservedRow
<1>5. OlderRow(row) \in Rows
  <2>1. row.age \in Ages /\ row.wait \in Waits  BY DEF Rows
  <2>2. Older(row) \in Ages
    BY <2>1, StaleAfterAssumption DEF Ages, Older
  <2>3. (IF row.wait > 0 THEN row.wait - 1 ELSE 0) \in Waits
    BY <2>1, RetryPolicyAssumption DEF Waits, LongestDelay
  <2>. QED  BY <2>2, <2>3 DEF Rows, OlderRow
<1>6. FailedRow(row) \in Rows
  BY ColumnValues DEF Rows, FailedRow
<1>7. ASSUME NEW wait \in Waits PROVE RetryRow(row, wait) \in Rows
  BY ColumnValues DEF Rows, RetryRow
<1>. QED  BY <1>1, <1>2, <1>3, <1>4, <1>5, <1>6, <1>7

\* Whatever a failure leaves is a row: DECIDED or FAILED, not due again before
\* its wait is over, with the attempts it had.
LEMMA FailureRows ==
  ASSUME NEW row \in Rows, NEW attempt, NEW error,
         NEW new \in AfterFailure(row, attempt, error)
  PROVE  /\ new \in Rows
         /\ new.action = row.action /\ new.attempts = row.attempts
         /\ new.ref = row.ref
         /\ \/ new.status = "DECIDED" /\ Retryable(attempt, error)
                /\ new.wait \in RetryDelays(attempt)
            \/ new.status = "FAILED"
<1>1. CASE Retryable(attempt, error)
  <2>1. PICK wait \in RetryDelays(attempt) : new = RetryRow(row, wait)
    BY <1>1 DEF AfterFailure
  <2>2. new \in Rows  BY <2>1, WritesAreRows, DelaysBounded
  <2>. QED  BY <1>1, <2>1, <2>2 DEF RetryRow, Rows
<1>2. CASE ~ Retryable(attempt, error)
  BY <1>2, WritesAreRows DEF AfterFailure, FailedRow, Rows
<1>. QED  BY <1>1, <1>2

------------------------------------------------------------------------------
(* The thread states that the actions write. *)

Replies == PostReplies \union LookupReplies \union {"none"}

LEMMA ThreadStatesDef ==
  ThreadStates = [pc : Points, dec : Decisions \union {NoDecision},
                  status : Statuses, attempts : Nat, same : BOOLEAN,
                  batch : SUBSET Decisions, reply : Replies]
BY DEF ThreadStates, Replies

LEMMA Constants ==
  /\ {"idle", "decided", "scanned", "listing", "draining"} \subseteq Points
  /\ HoldingPoints \subseteq Points
  /\ "none" \in Replies /\ PostReplies \subseteq Replies
  /\ LookupReplies \subseteq Replies
  /\ NoDecision \in Int /\ NoDecision \notin Decisions
BY RecoveryExecutionAssumption
DEF Points, Replies, NoDecision

\* A thread that starts afresh, and what it then is.
LEMMA FreshStates ==
  /\ Idle \in ThreadStates /\ Idle.pc = "idle"
  /\ Listing \in ThreadStates /\ Listing.pc = "listing"
  /\ \A batch \in SUBSET Decisions :
       Draining(batch) \in ThreadStates /\ Draining(batch).pc = "draining"
<1>1. Idle \in ThreadStates /\ Idle.pc = "idle"
  BY ThreadStatesDef, Constants, ColumnValues DEF Idle
<1>2. Listing \in ThreadStates /\ Listing.pc = "listing"
  BY <1>1, ThreadStatesDef, Constants DEF Listing
<1>3. ASSUME NEW batch \in SUBSET Decisions
      PROVE Draining(batch) \in ThreadStates /\ Draining(batch).pc = "draining"
  BY <1>1, ThreadStatesDef, Constants DEF Draining
<1>. QED  BY <1>1, <1>2, <1>3

\* A thread that takes up decision d.
LEMMA TakingStates ==
  ASSUME NEW d \in Decisions
  PROVE  /\ [Idle EXCEPT !.pc = "decided", !.dec = d] \in ThreadStates
         /\ [Idle EXCEPT !.pc = "decided", !.dec = d].dec = d
         /\ [Idle EXCEPT !.pc = "decided", !.dec = d].pc = "decided"
         /\ [Idle EXCEPT !.pc = "scanned", !.dec = d, !.same = TRUE]
               \in ThreadStates
         /\ [Idle EXCEPT !.pc = "scanned", !.dec = d, !.same = TRUE].dec = d
         /\ [Idle EXCEPT !.pc = "scanned", !.dec = d, !.same = TRUE].pc = "scanned"
BY FreshStates, ThreadStatesDef, Constants

LEMMA ClaimingStates ==
  ASSUME TypeOK, NEW t \in Threads, NEW d \in Decisions,
         NEW pc \in {"claimed", "recovering"}
  PROVE  /\ Claiming(t, d, pc) \in ThreadStates
         /\ Claiming(t, d, pc).pc = pc
         /\ Claiming(t, d, pc).dec = d
<1>1. pc \in Points
  BY DEF Points, HoldingPoints, ExecutionPoints, RecoveryPoints
<1>2. thread[t].batch \ {d} \in SUBSET Decisions
  BY ThreadStatesDef DEF TypeOK
<1>. QED  BY <1>1, <1>2, FreshStates, ThreadStatesDef DEF Claiming

LEMMA LoadedStates ==
  ASSUME TypeOK, NEW t \in Threads, thread[t].dec \in Decisions,
         NEW pc \in {"posting", "looking", "reconciling"}
  PROVE  /\ Loaded(t, pc) \in ThreadStates
         /\ Loaded(t, pc).pc = pc /\ Loaded(t, pc).reply = "none"
         /\ Loaded(t, pc).dec = thread[t].dec
         /\ Loaded(t, pc).status = decision[thread[t].dec].status
         /\ Loaded(t, pc).attempts = decision[thread[t].dec].attempts
<1>1. pc \in Points
  BY DEF Points, HoldingPoints, ExecutionPoints, RecoveryPoints
<1>2. /\ decision[thread[t].dec].status \in Statuses
      /\ decision[thread[t].dec].attempts \in Nat
  BY DEF TypeOK, Rows
<1>3. thread[t] \in ThreadStates  BY DEF TypeOK
<1>. QED  BY <1>1, <1>2, <1>3, ThreadStatesDef, Constants DEF Loaded

LEMMA RepliedStates ==
  ASSUME TypeOK, NEW t \in Threads, NEW reply \in Replies,
         NEW pc \in {"answered", "looked", "reconciled"}
  PROVE  /\ Replied(t, pc, reply) \in ThreadStates
         /\ Replied(t, pc, reply).pc = pc
         /\ Replied(t, pc, reply).reply = reply
         /\ Replied(t, pc, reply).dec = thread[t].dec
         /\ Replied(t, pc, reply).status = thread[t].status
         /\ Replied(t, pc, reply).attempts = thread[t].attempts
<1>1. pc \in Points
  BY DEF Points, HoldingPoints, ExecutionPoints, RecoveryPoints
<1>2. thread[t] \in ThreadStates  BY DEF TypeOK
<1>. QED  BY <1>1, <1>2, ThreadStatesDef DEF Replied

LEMMA DoneStates ==
  ASSUME TypeOK, NEW t \in Threads
  PROVE  Done(t) \in ThreadStates /\ Done(t).pc \in {"idle", "draining"}
<1>1. thread[t].batch \in SUBSET Decisions  BY ThreadStatesDef DEF TypeOK
<1>. QED  BY <1>1, FreshStates DEF Done

LEMMA UnsameStates ==
  ASSUME TypeOK, NEW t \in Threads
  PROVE  /\ [thread[t] EXCEPT !.same = FALSE] \in ThreadStates
         /\ [thread[t] EXCEPT !.same = FALSE].same = FALSE
         /\ \A state : state = [thread[t] EXCEPT !.same = FALSE] =>
              /\ state.pc = thread[t].pc /\ state.dec = thread[t].dec
              /\ state.status = thread[t].status
              /\ state.attempts = thread[t].attempts
              /\ state.reply = thread[t].reply
<1>1. thread[t] \in ThreadStates  BY DEF TypeOK
<1>. QED  BY <1>1, ThreadStatesDef

------------------------------------------------------------------------------
(* Type correctness *)

ThreadsTyped == thread \in [Threads -> ThreadStates] /\ WorksOnDecision
RowsTyped    == decision \in [Decisions -> Rows]

LEMMA WriteTyped ==
  ASSUME TypeInv, NEW d \in Decisions, NEW row \in Rows, Write(d, row)
  PROVE  RowsTyped'
BY DEF TypeInv, TypeOK, Write, RowsTyped

LEMMA BecomeTyped ==
  ASSUME TypeInv, NEW t \in Threads, NEW state \in ThreadStates,
         Become(t, state),
         \/ state.pc \in {"idle", "listing", "draining"}
         \/ state.dec \in Decisions
  PROVE  ThreadsTyped'
<1>1. thread' \in [Threads -> ThreadStates]
  BY DEF TypeInv, TypeOK, Become
<1>2. ASSUME NEW u \in Threads,
             thread'[u].pc \in HoldingPoints \union {"decided", "scanned"}
      PROVE  thread'[u].dec \in Decisions
  <2>1. CASE u = t
    <3>1. thread'[u] = state  BY <2>1 DEF Become, TypeInv, TypeOK
    <3>. QED  BY <3>1, <1>2
         DEF HoldingPoints, ExecutionPoints, RecoveryPoints
  <2>2. CASE u # t
    <3>1. thread'[u] = thread[u]  BY <2>2 DEF Become, TypeInv, TypeOK
    <3>. QED  BY <3>1, <1>2 DEF TypeInv, WorksOnDecision
  <2>. QED  BY <2>1, <2>2
<1>. QED  BY <1>1, <1>2 DEF ThreadsTyped, WorksOnDecision

LEMMA ClaimTyped ==
  ASSUME TypeInv, NEW t \in Threads, NEW d \in Decisions,
         NEW pc \in {"claimed", "recovering"},
         thread' = ThreadsAfterClaim(t, d, pc)
  PROVE  ThreadsTyped'
<1>1. ASSUME NEW u \in Threads
      PROVE  /\ thread'[u] \in ThreadStates
             /\ \/ thread'[u].dec \in Decisions
                \/ thread'[u].pc = thread[u].pc /\ thread'[u].dec = thread[u].dec
  <2>1. CASE u = t
    BY <2>1, ClaimingStates DEF ThreadsAfterClaim, TypeInv
  <2>2. CASE u # t /\ thread[u].dec = d
    <3>1. thread'[u] = [thread[u] EXCEPT !.same = FALSE]
      BY <2>2 DEF ThreadsAfterClaim
    <3>. QED  BY <3>1, UnsameStates DEF TypeInv
  <2>3. CASE u # t /\ thread[u].dec # d
    BY <2>3 DEF ThreadsAfterClaim, TypeInv, TypeOK
  <2>. QED  BY <2>1, <2>2, <2>3
<1>2. thread' \in [Threads -> ThreadStates]
  BY <1>1 DEF ThreadsAfterClaim
<1>. QED  BY <1>1, <1>2 DEF ThreadsTyped, WorksOnDecision, TypeInv

\* The type invariant in the parts that the steps below establish.
OthersTyped == /\ link \in [Decisions -> {"none", "fresh", "visible"}]
               /\ late \subseteq Decisions
               /\ outreach \subseteq Reachable
               /\ paid \in [Decisions -> {"unpaid", "paid", "notified"}]
               /\ faults \in 0..MaxFaults

LEMMA TypeParts ==
  /\ TypeInv <=> RowsTyped /\ ThreadsTyped /\ OthersTyped
  /\ TypeInv' <=> RowsTyped' /\ ThreadsTyped' /\ OthersTyped'
BY DEF TypeInv, TypeOK, RowsTyped, ThreadsTyped, OthersTyped

LEMMA WorkingDecision ==
  ASSUME TypeInv, NEW t \in Threads,
         thread[t].pc \in {"decided", "scanned", "claimed", "posting",
                           "answered", "looking", "looked", "recovering",
                           "reconciling", "reconciled"}
  PROVE  thread[t].dec \in Decisions /\ decision[thread[t].dec] \in Rows
BY DEF TypeInv, WorksOnDecision, HoldingPoints, ExecutionPoints,
       RecoveryPoints, TypeOK

LEMMA TypeInit == Init => TypeInv
<1>. SUFFICES ASSUME Init PROVE TypeInv  OBVIOUS
<1>1. NoRow \in Rows
  BY ColumnValues DEF NoRow, Rows
<1>2. Idle \in ThreadStates /\ Idle.pc = "idle"
  BY FreshStates
<1>3. RowsTyped
  BY <1>1 DEF Init, RowsTyped
<1>4. ThreadsTyped
  BY <1>2 DEF Init, ThreadsTyped, WorksOnDecision, HoldingPoints,
              ExecutionPoints, RecoveryPoints
<1>5. faults \in 0..MaxFaults
  BY RecoveryExecutionAssumption DEF Init
<1>. QED  BY <1>3, <1>4, <1>5, TypeParts DEF OthersTyped, Init

LEMMA TypeStep == TypeInv /\ [Next]_vars => TypeInv'
<1>. SUFFICES ASSUME TypeInv, [Next]_vars PROVE TypeInv'
  OBVIOUS
<1>. USE DEF HoldingPoints, ExecutionPoints, RecoveryPoints
<1>1. ASSUME NEW h \in Hooks, ClaimOwn(h) PROVE TypeInv'
  <2>. DEFINE d == thread[h].dec
  <2>1. h \in Threads  BY DEF Threads
  <2>2. d \in Decisions /\ decision[d] \in Rows
    BY <1>1, <2>1, WorkingDecision DEF ClaimOwn
  <2>3. CASE Claimable(decision[d])
    <3>1. /\ Write(d, ClaimedRow(decision[d]))
          /\ thread' = ThreadsAfterClaim(h, d, "claimed")
      BY <1>1, <2>3 DEF ClaimOwn
    <3>2. RowsTyped'  BY <2>2, <3>1, WriteTyped, WritesAreRows
    <3>3. ThreadsTyped'  BY <2>1, <2>2, <3>1, ClaimTyped
    <3>. QED  BY <1>1, <3>2, <3>3, TypeParts DEF OthersTyped, ClaimOwn
  <2>4. CASE ~ Claimable(decision[d])
    <3>1. Become(h, Idle) /\ UNCHANGED decision
      BY <1>1, <2>4 DEF ClaimOwn
    <3>2. ThreadsTyped'  BY <2>1, <3>1, BecomeTyped, FreshStates
    <3>. QED  BY <1>1, <3>1, <3>2, TypeParts DEF OthersTyped, ClaimOwn, RowsTyped
  <2>. QED  BY <2>3, <2>4
<1>2. ASSUME NEW h \in Hooks, NEW d \in Decisions, Decide(h, d)
      PROVE TypeInv'
  <2>1. h \in Threads  BY DEF Threads
  <2>2. ASSUME NEW status \in {"DECIDED", "PENDING_POLICY"},
               NEW action \in {"NO_ACTION", "SEND_PAYMENT_LINK"}
        PROVE  NewRow(status, action) \in Rows
    BY ColumnValues DEF NewRow, NoRow, Rows
  <2>3. RowsTyped'
    <3>1. PICK row \in Rows : Write(d, row)
      BY <1>2, <2>2 DEF Decide
    <3>. QED  BY <3>1, WriteTyped
  <2>4. ThreadsTyped'
    <3>1. CASE UNCHANGED thread
      BY <3>1 DEF TypeInv, TypeOK, ThreadsTyped, WorksOnDecision
    <3>2. CASE Become(h, [Idle EXCEPT !.pc = "decided", !.dec = d])
      BY <2>1, <3>2, BecomeTyped, TakingStates
    <3>. QED  BY <1>2, <3>1, <3>2 DEF Decide
  <2>. QED  BY <1>2, <2>3, <2>4, TypeParts DEF OthersTyped, Decide
<1>3. ASSUME NEW w \in Workers, Cycle(w) PROVE TypeInv'
  <2>. DEFINE d == thread[w].dec
  <2>1. w \in Threads  BY DEF Threads
  <2>2. CASE \E e \in Decisions : ScanStale(w, e)
    <3>1. PICK e \in Decisions : ScanStale(w, e)  BY <2>2
    <3>2. ThreadsTyped'  BY <2>1, <3>1, BecomeTyped, TakingStates DEF ScanStale
    <3>. QED  BY <3>1, <3>2, TypeParts DEF OthersTyped, ScanStale, RowsTyped
  <2>3. CASE \E e \in Decisions : ClaimNext(w, e)
    <3>1. PICK e \in Decisions : ClaimNext(w, e)  BY <2>3
    <3>2. decision[e] \in Rows  BY DEF TypeInv, TypeOK
    <3>3. CASE Claimable(decision[e])
      <4>1. /\ Write(e, ClaimedRow(decision[e]))
            /\ thread' = ThreadsAfterClaim(w, e, "claimed")
        BY <3>1, <3>3 DEF ClaimNext
      <4>2. RowsTyped'  BY <3>2, <4>1, WriteTyped, WritesAreRows
      <4>3. ThreadsTyped'  BY <2>1, <4>1, ClaimTyped
      <4>. QED  BY <3>1, <4>2, <4>3, TypeParts DEF OthersTyped, ClaimNext
    <3>4. CASE ~ Claimable(decision[e])
      <4>1. /\ Become(w, Draining(thread[w].batch \ {e}))
            /\ UNCHANGED decision
        BY <3>1, <3>4 DEF ClaimNext
      <4>2. thread[w].batch \ {e} \in SUBSET Decisions
        BY <2>1, ThreadStatesDef DEF TypeInv, TypeOK
      <4>3. ThreadsTyped'  BY <2>1, <4>1, <4>2, BecomeTyped, FreshStates
      <4>. QED  BY <3>1, <4>1, <4>3, TypeParts DEF OthersTyped, ClaimNext, RowsTyped
    <3>. QED  BY <3>3, <3>4
  <2>4. CASE NothingStale(w)
    <3>1. ThreadsTyped'
      BY <2>1, <2>4, BecomeTyped, FreshStates DEF NothingStale
    <3>. QED  BY <2>4, <3>1, TypeParts DEF OthersTyped, NothingStale, RowsTyped
  <2>5. CASE ClaimStale(w)
    <3>1. d \in Decisions /\ decision[d] \in Rows
      BY <2>1, <2>5, WorkingDecision DEF ClaimStale
    <3>2. CASE /\ Write(d, StaleClaimedRow(decision[d]))
               /\ thread' = ThreadsAfterClaim(w, d, "recovering")
      <4>1. RowsTyped'  BY <3>1, <3>2, WriteTyped, WritesAreRows
      <4>2. ThreadsTyped'  BY <2>1, <3>1, <3>2, ClaimTyped
      <4>. QED  BY <2>5, <4>1, <4>2, TypeParts DEF OthersTyped, ClaimStale
    <3>3. CASE Become(w, Listing) /\ UNCHANGED decision
      <4>1. ThreadsTyped'  BY <2>1, <3>3, BecomeTyped, FreshStates
      <4>. QED  BY <2>5, <3>3, <4>1, TypeParts DEF OthersTyped, ClaimStale, RowsTyped
    <3>. QED  BY <2>5, <3>2, <3>3 DEF ClaimStale
  <2>6. CASE ListEligible(w)
    <3>1. PICK batch \in SUBSET Decisions : Become(w, Draining(batch))
      BY <2>6 DEF ListEligible, Oldest
    <3>2. ThreadsTyped'  BY <2>1, <3>1, BecomeTyped, FreshStates
    <3>. QED  BY <2>6, <3>2, TypeParts DEF OthersTyped, ListEligible, RowsTyped
  <2>7. CASE Sleep(w)
    <3>1. ThreadsTyped'  BY <2>1, <2>7, BecomeTyped, FreshStates DEF Sleep
    <3>. QED  BY <2>7, <3>1, TypeParts DEF OthersTyped, Sleep, RowsTyped
  <2>8. CASE RecoverFound(w)
    <3>1. d \in Decisions /\ decision[d] \in Rows
      BY <2>1, <2>8, WorkingDecision DEF RecoverFound
    <3>2. RowsTyped'
      BY <2>8, <3>1, WriteTyped, WritesAreRows DEF RecoverFound
    <3>3. ThreadsTyped'
      BY <2>1, <2>8, BecomeTyped, FreshStates DEF RecoverFound, ScanOn
    <3>. QED  BY <2>8, <3>2, <3>3, TypeParts DEF OthersTyped, RecoverFound
  <2>9. CASE RecoverFailed(w)
    <3>1. d \in Decisions /\ decision[d] \in Rows
      BY <2>1, <2>9, WorkingDecision DEF RecoverFailed
    <3>2. PICK row \in Rows : Write(d, row)
      BY <2>9, <3>1, FailureRows DEF RecoverFailed
    <3>3. RowsTyped'  BY <3>1, <3>2, WriteTyped
    <3>4. ThreadsTyped'
      BY <2>1, <2>9, BecomeTyped, FreshStates DEF RecoverFailed, ScanOn
    <3>. QED  BY <2>9, <3>3, <3>4, TypeParts DEF OthersTyped, RecoverFailed
  <2>10. CASE RecoverLater(w)
    <3>1. ThreadsTyped'
      BY <2>1, <2>10, BecomeTyped, FreshStates DEF RecoverLater, ScanOn
    <3>. QED  BY <2>10, <3>1, TypeParts DEF OthersTyped, RecoverLater, RowsTyped
  <2>11. CASE RecoverAborts(w)
    <3>1. ThreadsTyped'
      BY <2>1, <2>11, BecomeTyped, FreshStates DEF RecoverAborts, StopScan
    <3>. QED  BY <2>11, <3>1, TypeParts DEF OthersTyped, RecoverAborts, RowsTyped
  <2>. QED  BY <1>3, <2>2, <2>3, <2>4, <2>5, <2>6, <2>7, <2>8, <2>9, <2>10,
               <2>11 DEF Cycle
<1>4. ASSUME NEW t \in Threads, Execute(t) PROVE TypeInv'
  <2>. DEFINE d == thread[t].dec
  <2>1. CASE Load(t)
    <3>1. d \in Decisions  BY <2>1, WorkingDecision DEF Load
    <3>2. ThreadsTyped'
      BY <2>1, <3>1, BecomeTyped, LoadedStates DEF Load, TypeInv
    <3>. QED  BY <2>1, <3>2, TypeParts DEF OthersTyped, Load, RowsTyped
  <2>2. CASE Post(t)
    <3>1. d \in Decisions  BY <2>2, WorkingDecision DEF Post
    <3>2. PICK reply \in Replies : Become(t, Replied(t, "answered", reply))
      BY <2>2 DEF Post, Replies, PostReplies
    <3>3. ThreadsTyped'
      BY <3>1, <3>2, BecomeTyped, RepliedStates DEF TypeInv
    <3>4. /\ link' \in [Decisions -> {"none", "fresh", "visible"}]
          /\ late' \subseteq Decisions
      BY <2>2, <3>1, TypeParts DEF OthersTyped, Post
    <3>. QED  BY <2>2, <3>3, <3>4, TypeParts DEF OthersTyped, Post, RowsTyped
  <2>3. CASE StartLookup(t)
    <3>1. d \in Decisions  BY <2>3, WorkingDecision DEF StartLookup
    <3>2. ThreadsTyped'
      BY <2>3, <3>1, BecomeTyped, LoadedStates DEF StartLookup, TypeInv
    <3>. QED  BY <2>3, <3>2, TypeParts DEF OthersTyped, StartLookup, RowsTyped
  <2>4. CASE Lookup(t)
    <3>1. d \in Decisions  BY <2>4, WorkingDecision DEF Lookup
    <3>2. PICK reply \in Replies, pc \in {"looked", "reconciled"} :
             Become(t, Replied(t, pc, reply))
      BY <2>4 DEF Lookup, Replies, LookupReplies
    <3>3. ThreadsTyped'
      BY <3>1, <3>2, BecomeTyped, RepliedStates DEF TypeInv
    <3>4. faults' \in 0..MaxFaults
      BY <2>4, TypeParts, RecoveryExecutionAssumption DEF OthersTyped, Lookup
    <3>. QED  BY <2>4, <3>3, <3>4, TypeParts DEF OthersTyped, Lookup, RowsTyped
  <2>5. CASE RecordSuccess(t)
    <3>1. d \in Decisions /\ decision[d] \in Rows
      BY <2>5, WorkingDecision DEF RecordSuccess, Answered
    <3>2. RowsTyped'
      BY <2>5, <3>1, WriteTyped, WritesAreRows DEF RecordSuccess
    <3>3. ThreadsTyped'
      BY <2>5, BecomeTyped, DoneStates DEF RecordSuccess, TypeInv
    <3>. QED  BY <2>5, <3>2, <3>3, TypeParts DEF OthersTyped, RecordSuccess
  <2>6. CASE RecordFailure(t)
    <3>1. d \in Decisions /\ decision[d] \in Rows
      BY <2>6, WorkingDecision DEF RecordFailure, Answered
    <3>2. PICK row \in Rows : Write(d, row)
      BY <2>6, <3>1, FailureRows DEF RecordFailure
    <3>3. RowsTyped'  BY <3>1, <3>2, WriteTyped
    <3>4. ThreadsTyped'
      BY <2>6, BecomeTyped, DoneStates DEF RecordFailure, TypeInv
    <3>. QED  BY <2>6, <3>3, <3>4, TypeParts DEF OthersTyped, RecordFailure
  <2>7. CASE Abandon(t)
    <3>1. ThreadsTyped'
      BY <2>7, BecomeTyped, DoneStates DEF Abandon, TypeInv
    <3>. QED  BY <2>7, <3>1, TypeParts DEF OthersTyped, Abandon, RowsTyped
  <2>. QED  BY <1>4, <2>1, <2>2, <2>3, <2>4, <2>5, <2>6, <2>7 DEF Execute
<1>5. ASSUME NEW t \in Threads, WriteFails(t) PROVE TypeInv'
  <2>1. ThreadsTyped'
    BY <1>5, BecomeTyped, DoneStates, FreshStates
    DEF WriteFails, StopScan, TypeInv
  <2>2. faults' \in 0..MaxFaults
    BY <1>5, TypeParts, RecoveryExecutionAssumption DEF OthersTyped, WriteFails
  <2>. QED  BY <1>5, <2>1, <2>2, TypeParts DEF OthersTyped, WriteFails, RowsTyped
<1>6. ASSUME NEW P \in Processes, Crash(P) PROVE TypeInv'
  <2>1. late' \subseteq Decisions
    BY <1>6, TypeParts DEF OthersTyped, Crash
  <2>2. faults' \in 0..MaxFaults
    BY <1>6, TypeParts, RecoveryExecutionAssumption DEF OthersTyped, Crash
  <2>3. ThreadsTyped'
    <3>1. /\ thread' \in [Threads -> ThreadStates]
          /\ \A t \in Threads : thread'[t] = Idle \/ thread'[t] = thread[t]
      BY <1>6, FreshStates DEF Crash, TypeInv, TypeOK
    <3>. QED  BY <3>1, FreshStates DEF ThreadsTyped, WorksOnDecision, TypeInv
  <2>. QED  BY <1>6, <2>1, <2>2, <2>3, TypeParts DEF OthersTyped, Crash, RowsTyped
<1>7. ASSUME NEW d \in Decisions, Arrive(d) PROVE TypeInv'
  BY <1>7, TypeParts DEF OthersTyped, Arrive, RowsTyped, ThreadsTyped, WorksOnDecision
<1>8. ASSUME NEW d \in Decisions, Pay(d) PROVE TypeInv'
  BY <1>8, TypeParts DEF OthersTyped, Pay, RowsTyped, ThreadsTyped, WorksOnDecision
<1>9. ASSUME NEW d \in Decisions, NotifyPaid(d) PROVE TypeInv'
  <2>1. decision[d] \in Rows  BY DEF TypeInv, TypeOK
  <2>2. RowsTyped'
    BY <1>9, <2>1, WriteTyped, WritesAreRows, TypeParts
    DEF OthersTyped, NotifyPaid, RowsTyped
  <2>. QED  BY <1>9, <2>2, TypeParts
       DEF OthersTyped, NotifyPaid, ThreadsTyped, WorksOnDecision
<1>10. CASE Tick
  <2>1. RowsTyped'
    BY <1>10, WritesAreRows DEF Tick, TypeInv, TypeOK, RowsTyped
  <2>2. link' \in [Decisions -> {"none", "fresh", "visible"}]
    BY <1>10, TypeParts DEF OthersTyped, Tick
  <2>. QED  BY <1>10, <2>1, <2>2, TypeParts
       DEF OthersTyped, Tick, ThreadsTyped, WorksOnDecision
<1>11. CASE UNCHANGED vars
  BY <1>11, TypeParts DEF OthersTyped, vars, RowsTyped, ThreadsTyped, WorksOnDecision
<1>. QED  BY <1>1, <1>2, <1>3, <1>4, <1>5, <1>6, <1>7, <1>8, <1>9, <1>10,
             <1>11 DEF Next

LEMMA TypeInvariant == Spec => []TypeInv
BY TypeInit, TypeStep, PTL DEF Spec

\* Every variable stays in its type whatever the interleaving, so in particular
\* the attempt counter and the timers are numbers wherever they are compared.
THEOREM TypeCorrect == Spec => []TypeOK
<1>1. TypeInv => TypeOK  BY DEF TypeInv
<1>. QED  BY <1>1, TypeInvariant, PTL
=============================================================================
