------------------------ MODULE RecoverySafetyProofs ------------------------
(***************************************************************************)
(* LinkInv is inductive whatever the timing; ClaimInv is when no thread    *)
(* outlives the stale threshold.  The steps are grouped by what they do to *)
(* threads and rows: threads let go, one takes a row, one advances with    *)
(* it, one settles it.  Each kind of step keeps both invariants.           *)
(***************************************************************************)
EXTENDS RecoveryProofs

\* What each write does to the columns the invariants speak of.
LEMMA WriteFields ==
  ASSUME NEW row \in Rows
  PROVE  /\ ClaimedRow(row).status = "EXECUTING"
         /\ ClaimedRow(row).age = 0
         /\ ClaimedRow(row).attempts = row.attempts + 1
         /\ ClaimedRow(row).action = row.action
         /\ ClaimedRow(row).ref = row.ref
         /\ StaleClaimedRow(row).status = row.status
         /\ StaleClaimedRow(row).age = 0
         /\ StaleClaimedRow(row).attempts = row.attempts
         /\ StaleClaimedRow(row).action = row.action
         /\ StaleClaimedRow(row).ref = row.ref
         /\ ExecutedRow(row).status = "EXECUTED"
         /\ ExecutedRow(row).attempts = row.attempts
         /\ ExecutedRow(row).action = row.action
         /\ ExecutedRow(row).ref = TRUE
         /\ ObservedRow(row).status = "OUTCOME_OBSERVED"
         /\ ObservedRow(row).attempts = row.attempts
         /\ ObservedRow(row).action = row.action
         /\ ObservedRow(row).ref = row.ref
         /\ OlderRow(row).status = row.status
         /\ OlderRow(row).age = Older(row)
         /\ OlderRow(row).attempts = row.attempts
         /\ OlderRow(row).action = row.action
         /\ OlderRow(row).ref = row.ref
BY DEF Rows, ClaimedRow, StaleClaimedRow, ExecutedRow, ObservedRow, OlderRow

\* Only the row, and only the thread, that an operation names is changed.
LEMMA WriteEffect ==
  ASSUME TypeInv, NEW d \in Decisions, NEW row, Write(d, row)
  PROVE  /\ decision'[d] = row
         /\ \A e \in Decisions : e # d => decision'[e] = decision[e]
BY DEF TypeInv, TypeOK, Write

LEMMA BecomeEffect ==
  ASSUME TypeInv, NEW t \in Threads, NEW state, Become(t, state)
  PROVE  /\ thread'[t] = state
         /\ \A u \in Threads : u # t => thread'[u] = thread[u]
BY DEF TypeInv, TypeOK, Become

LEMMA ClaimEffect ==
  ASSUME TypeInv, NEW t \in Threads, NEW d \in Decisions,
         NEW pc \in {"claimed", "recovering"},
         thread' = ThreadsAfterClaim(t, d, pc)
  PROVE  /\ thread'[t].pc = pc /\ thread'[t].dec = d
         /\ thread'[t].batch \subseteq thread[t].batch
         /\ \A u \in Threads : u # t =>
              /\ thread'[u].pc = thread[u].pc
              /\ thread'[u].dec = thread[u].dec
              /\ thread'[u].status = thread[u].status
              /\ thread'[u].attempts = thread[u].attempts
              /\ thread'[u].reply = thread[u].reply
              /\ thread'[u].batch = thread[u].batch
              /\ thread'[u].same => thread[u].same /\ thread[u].dec # d
<1>1. /\ thread'[t].pc = pc /\ thread'[t].dec = d
      /\ thread'[t].batch \subseteq thread[t].batch
  <2>1. thread'[t] = Claiming(t, d, pc)  BY DEF ThreadsAfterClaim
  <2>2. Claiming(t, d, pc).batch = thread[t].batch \ {d}
    BY DEF Claiming, Idle
  <2>. QED  BY <2>1, <2>2, ClaimingStates DEF TypeInv
<1>2. ASSUME NEW u \in Threads, u # t
      PROVE  /\ thread'[u].pc = thread[u].pc
             /\ thread'[u].dec = thread[u].dec
             /\ thread'[u].status = thread[u].status
             /\ thread'[u].attempts = thread[u].attempts
             /\ thread'[u].reply = thread[u].reply
             /\ thread'[u].batch = thread[u].batch
             /\ thread'[u].same => thread[u].same /\ thread[u].dec # d
  <2>1. CASE thread[u].dec = d
    <3>1. thread'[u] = [thread[u] EXCEPT !.same = FALSE]
      BY <1>2, <2>1 DEF ThreadsAfterClaim
    <3>2. thread[u] \in ThreadStates  BY DEF TypeInv, TypeOK
    <3>. QED  BY <3>1, <3>2, ThreadStatesDef
  <2>2. CASE thread[u].dec # d
    BY <1>2, <2>2 DEF ThreadsAfterClaim
  <2>. QED  BY <2>1, <2>2
<1>. QED  BY <1>1, <1>2

LEMMA ThreadFields ==
  ASSUME TypeInv, NEW t \in Threads
  PROVE  /\ thread[t] \in ThreadStates
         /\ thread[t].batch \subseteq Decisions
BY ThreadStatesDef DEF TypeInv, TypeOK

LEMMA RowFields ==
  ASSUME TypeInv, NEW d \in Decisions
  PROVE  /\ decision[d] \in Rows
         /\ decision[d].attempts \in Nat
         /\ decision[d].age \in Nat
         /\ decision[d].ref \in BOOLEAN
<1>1. decision[d] \in Rows  BY DEF TypeInv, TypeOK
<1>2. decision[d].age \in Ages  BY <1>1 DEF Rows
<1>. QED  BY <1>1, <1>2, StaleAfterAssumption DEF Rows, Ages


\* A thread without a decision has no candidates but what it had.
LEMMA FreeBatches ==
  ASSUME TypeInv, NEW t \in Threads
  PROVE  /\ Idle.batch = {} /\ Listing.batch = {}
         /\ \A batch : Draining(batch).batch = batch
         /\ Done(t).batch \subseteq thread[t].batch
<1>1. Idle.batch = {} /\ Listing.batch = {}  BY DEF Idle, Listing
<1>2. \A batch : Draining(batch).batch = batch  BY DEF Idle, Draining
<1>. QED  BY <1>1, <1>2 DEF Done

------------------------------------------------------------------------------
(* The kinds of step *)

\* The threads of S, and no others, move; they end up without a decision.
Free(S) == /\ \A u \in Threads \ S : thread'[u] = thread[u]
           /\ \A u \in S : /\ thread'[u].pc \in {"idle", "listing", "draining"}
                           /\ thread'[u].batch \subseteq Decisions
                           /\ \A e \in thread'[u].batch :
                                decision[e].action # "NO_ACTION"

\* They let go, and the rows stay; a request they were sending may go on.
LetGo(S) == /\ Free(S)
            /\ UNCHANGED <<decision, link, outreach>>
            /\ \A e \in late' \ late : \E u \in S :
                 thread[u].pc = "posting" /\ thread[u].dec = e

\* Thread t takes decision d, a due one or a stale one.
Take(t, d, pc) ==
  /\ decision[d].action # "NO_ACTION"
  /\ \/ /\ pc = "claimed" /\ decision[d].status = "DECIDED"
        /\ Write(d, ClaimedRow(decision[d]))
     \/ /\ pc = "recovering" /\ decision[d].status = "EXECUTING"
        /\ thread[t].pc = "scanned" /\ thread[t].dec = d /\ thread[t].same
        /\ Write(d, StaleClaimedRow(decision[d]))
  /\ thread' = ThreadsAfterClaim(t, d, pc)
  /\ UNCHANGED <<link, late, outreach>>

\* Thread t goes on with its decision: it loads the row, or gets a reply.
Advance(t) ==
  LET d == thread[t].dec IN
  /\ thread[t].pc \in HoldingPoints /\ thread'[t].pc \in LoadedPoints
  /\ thread'[t].dec = d /\ thread'[t].batch = thread[t].batch
  /\ \A u \in Threads \ {t} : thread'[u] = thread[u]
  /\ \/ /\ thread'[t].status = decision[d].status
        /\ thread'[t].attempts = decision[d].attempts
     \/ /\ thread[t].pc \in LoadedPoints
        /\ thread'[t].status = thread[t].status
        /\ thread'[t].attempts = thread[t].attempts
  /\ thread'[t].pc \in RecoveryPoints =>
       thread[t].pc \in RecoveryPoints /\ UNCHANGED <<link, late>>
  /\ thread'[t].reply \in {"created", "found"} => link'[d] # "none"
  /\ thread'[t].pc = "reconciled" /\ thread'[t].reply = "missing" =>
       Unlisted \/ link[d] # "visible"
  /\ \A e \in Decisions : \/ link'[e] = link[e]
                          \/ e = d /\ link[e] = "none"
  /\ late \subseteq late' /\ late' \subseteq late \union {d}
  /\ UNCHANGED <<decision, outreach>>

\* Thread t records what became of its decision, and is free.
Settle(t) ==
  LET d == thread[t].dec IN
  /\ thread[t].pc \in LoadedPoints /\ Free({t})
  /\ \A e \in Decisions : e # d => decision'[e] = decision[e]
  /\ decision'[d].attempts = decision[d].attempts
  /\ decision'[d].action = decision[d].action
  /\ \/ decision'[d].status = "EXECUTED" /\ decision'[d].ref
        /\ link[d] # "none"
        /\ outreach' \in {outreach, outreach \union ({d} \intersect Reachable)}
     \/ decision'[d].status = "FAILED" /\ decision'[d].ref = decision[d].ref
        /\ UNCHANGED outreach
     \/ decision'[d].status = "DECIDED" /\ decision'[d].ref = decision[d].ref
        /\ thread[t].attempts < MaxAttempts
        /\ decision'[d].wait \in RetryDelays(thread[t].attempts)
        /\ UNCHANGED outreach
  /\ UNCHANGED <<link, late>>

\* The row a Take leaves, and what the other threads are after it.
LEMMA TakeEffect ==
  ASSUME TypeInv, NEW t \in Threads, NEW d \in Decisions, NEW pc,
         Take(t, d, pc)
  PROVE  /\ decision'[d].status = "EXECUTING" /\ decision'[d].age = 0
         /\ decision'[d].attempts \in {decision[d].attempts,
                                       decision[d].attempts + 1}
         /\ pc = "recovering" => decision'[d].attempts = decision[d].attempts
         /\ decision'[d].action = decision[d].action
         /\ decision'[d].ref = decision[d].ref
         /\ \A e \in Decisions : e # d => decision'[e] = decision[e]
         /\ pc \in {"claimed", "recovering"}
         /\ thread'[t].pc = pc /\ thread'[t].dec = d
         /\ thread'[t].batch \subseteq thread[t].batch
         /\ \A u \in Threads : u # t =>
              /\ thread'[u].pc = thread[u].pc
              /\ thread'[u].dec = thread[u].dec
              /\ thread'[u].status = thread[u].status
              /\ thread'[u].attempts = thread[u].attempts
              /\ thread'[u].reply = thread[u].reply
              /\ thread'[u].batch = thread[u].batch
              /\ thread'[u].same => thread[u].same /\ thread[u].dec # d
<1>. DEFINE new == IF pc = "claimed" THEN ClaimedRow(decision[d])
                                     ELSE StaleClaimedRow(decision[d])
<1>1. pc \in {"claimed", "recovering"}  BY DEF Take
<1>2. Write(d, new)  BY <1>1 DEF Take
<1>3. /\ decision'[d] = new
      /\ \A e \in Decisions : e # d => decision'[e] = decision[e]
  BY <1>2, WriteEffect
<1>4. /\ new.status = "EXECUTING" /\ new.age = 0
      /\ new.attempts \in {decision[d].attempts, decision[d].attempts + 1}
      /\ pc = "recovering" => new.attempts = decision[d].attempts
      /\ new.action = decision[d].action /\ new.ref = decision[d].ref
  <2>1. decision[d] \in Rows  BY RowFields
  <2>2. CASE pc = "claimed"  BY <2>1, <2>2, WriteFields
  <2>3. CASE pc = "recovering"
    <3>1. decision[d].status = "EXECUTING"  BY <2>3 DEF Take
    <3>. QED  BY <2>1, <2>3, <3>1, WriteFields
  <2>. QED  BY <1>1, <2>2, <2>3
<1>5. thread' = ThreadsAfterClaim(t, d, pc)  BY DEF Take
<1>6. /\ thread'[t].pc = pc /\ thread'[t].dec = d
      /\ thread'[t].batch \subseteq thread[t].batch
      /\ \A u \in Threads : u # t =>
           /\ thread'[u].pc = thread[u].pc
           /\ thread'[u].dec = thread[u].dec
           /\ thread'[u].status = thread[u].status
           /\ thread'[u].attempts = thread[u].attempts
           /\ thread'[u].reply = thread[u].reply
           /\ thread'[u].batch = thread[u].batch
           /\ thread'[u].same => thread[u].same /\ thread[u].dec # d
  BY <1>1, <1>5, ClaimEffect
<1>. HIDE DEF new
<1>. QED  BY <1>1, <1>3, <1>4, <1>6

------------------------------------------------------------------------------
(* One claim at a time, and a quiet provider during stale recovery *)

\* Threads that let go disturb nothing: if one of them was sending, its row is
\* still within the threshold.
LEMMA LetGoKeepsClaims ==
  ASSUME TypeInv, ClaimInv, NEW S \in SUBSET Threads, LetGo(S)
  PROVE  ClaimInv'
<1>. USE DEF HoldingPoints, ExecutionPoints, RecoveryPoints, LetGo, Free
<1>1. WorkIsTimely'  BY DEF ClaimInv, WorkIsTimely
<1>2. ExclusiveExecution'  BY DEF ClaimInv, ExclusiveExecution, Holds
<1>3. LoadedRowIsCurrent'
  BY DEF ClaimInv, LoadedRowIsCurrent, LoadedPoints
<1>4. AttemptsBounded' /\ ReferenceMeansSent'
  BY DEF ClaimInv, AttemptsBounded, ReferenceMeansSent
<1>5. ASSUME NEW e \in late', e \notin late
      PROVE  \E u \in S : Holds(u, e)
  BY <1>5 DEF Holds
<1>6. StaleIsQuiet'
  <2>1. ASSUME NEW e \in Decisions, decision[e].status = "EXECUTING",
               decision[e].age > StaleAfter
        PROVE  Quiet(e)'
    <3>1. e \notin late' \ late
      BY <1>5, <2>1, RowFields, StaleAfterAssumption
      DEF ClaimInv, WorkIsTimely, Holds
    <3>. QED  BY <2>1, <3>1 DEF ClaimInv, StaleIsQuiet, Quiet
  <2>2. ASSUME NEW u \in Threads, thread'[u].pc \in RecoveryPoints
        PROVE  Quiet(thread[u].dec)'
    <3>1. u \notin S /\ thread'[u] = thread[u]  BY <2>2
    <3>2. thread[u].dec \in Decisions /\ Holds(u, thread[u].dec)
      BY <2>2, <3>1 DEF TypeInv, WorksOnDecision, Holds
    <3>3. thread[u].dec \notin late' \ late
      BY <1>5, <3>1, <3>2 DEF ClaimInv, ExclusiveExecution
    <3>. QED  BY <2>2, <3>1, <3>3 DEF ClaimInv, StaleIsQuiet, Quiet
  <2>. QED  BY <2>1, <2>2 DEF StaleIsQuiet
<1>7. MissesAreDefinitive'
  <2>1. ASSUME ~ Unlisted, NEW w \in Workers, thread'[w].pc = "reconciled",
               thread'[w].reply = "missing"
        PROVE  link'[thread'[w].dec] = "none" /\ thread'[w].dec \notin late'
    <3>0. w \in Threads  BY DEF Threads
    <3>1. w \notin S /\ thread'[w] = thread[w]  BY <2>1, <3>0
    <3>2. Quiet(thread[w].dec)'
      BY <1>6, <2>1, <3>0 DEF StaleIsQuiet
    <3>3. link[thread[w].dec] = "none"
      BY <2>1, <3>1 DEF ClaimInv, MissesAreDefinitive, StaleMissIsDefinitive
    <3>. QED  BY <3>1, <3>2, <3>3 DEF Quiet
  <2>. QED  BY <2>1 DEF MissesAreDefinitive, StaleMissIsDefinitive
<1>. QED  BY <1>1, <1>2, <1>3, <1>4, <1>6, <1>7 DEF ClaimInv

\* A thread takes a row: no one can be working on it, since a row someone
\* works on says EXECUTING and is not stale, and the counter has room.
LEMMA TakeKeepsClaims ==
  ASSUME TypeInv, ClaimInv, NEW t \in Threads, NEW d \in Decisions, NEW pc,
         Take(t, d, pc)
  PROVE  ClaimInv'
<1>. USE TakeEffect DEF HoldingPoints, ExecutionPoints, RecoveryPoints
<1>1. \A u \in Threads : ~ Holds(u, d)
  BY RowFields, StaleAfterAssumption DEF ClaimInv, WorkIsTimely, Holds, Take
<1>2. WorkIsTimely'
  <2>1. ASSUME NEW u \in Threads, thread'[u].pc \in HoldingPoints
        PROVE  /\ decision'[thread'[u].dec].status = "EXECUTING"
               /\ decision'[thread'[u].dec].age <= StaleAfter
    <3>1. CASE u = t
      BY <3>1, StaleAfterAssumption
    <3>2. CASE u # t
      <4>1. thread[u].pc \in HoldingPoints /\ thread[u].dec # d
        BY <2>1, <3>2, <1>1 DEF Holds
      <4>2. decision'[thread'[u].dec] = decision[thread[u].dec]
        BY <3>2, <4>1 DEF TypeInv, WorksOnDecision
      <4>. QED  BY <4>1, <4>2 DEF ClaimInv, WorkIsTimely
    <3>. QED  BY <3>1, <3>2
  <2>2. ASSUME NEW u \in Threads, thread'[u].pc = "scanned", thread'[u].same,
               decision'[thread'[u].dec].status = "EXECUTING"
        PROVE  decision'[thread'[u].dec].age > StaleAfter
    <3>1. /\ thread[u].pc = "scanned" /\ thread[u].same
          /\ thread[u].dec # d /\ thread'[u].dec = thread[u].dec
      BY <2>2
    <3>2. decision'[thread'[u].dec] = decision[thread[u].dec]
      BY <3>1 DEF TypeInv, WorksOnDecision
    <3>. QED  BY <2>2, <3>1, <3>2 DEF ClaimInv, WorkIsTimely
  <2>. QED  BY <2>1, <2>2 DEF WorkIsTimely
<1>3. ExclusiveExecution'
  <2>1. ASSUME NEW e \in Decisions, NEW u \in Threads, NEW v \in Threads,
               Holds(u, e)'
        PROVE  decision'[e].status = "EXECUTING" /\ (Holds(v, e)' => u = v)
    <3>1. CASE e = d
      <4>1. ASSUME NEW x \in Threads, Holds(x, d)' PROVE x = t
        BY <4>1, <1>1 DEF Holds
      <4>. QED  BY <4>1, <2>1, <3>1
    <3>2. CASE e # d
      <4>1. ASSUME NEW x \in Threads, Holds(x, e)' PROVE Holds(x, e)
        BY <4>1, <3>2 DEF Holds
      <4>. QED  BY <4>1, <2>1, <3>2 DEF ClaimInv, ExclusiveExecution
    <3>. QED  BY <3>1, <3>2
  <2>. QED  BY <2>1 DEF ExclusiveExecution
<1>4. LoadedRowIsCurrent'
  <2>1. ASSUME NEW u \in Threads, thread'[u].pc \in LoadedPoints
        PROVE  /\ thread'[u].status = decision'[thread'[u].dec].status
               /\ thread'[u].attempts = decision'[thread'[u].dec].attempts
    <3>1. u # t /\ thread[u].pc \in LoadedPoints
      BY <2>1 DEF LoadedPoints
    <3>2. thread[u].dec \in Decisions /\ thread[u].dec # d
      BY <1>1, <3>1 DEF Holds, TypeInv, WorksOnDecision, LoadedPoints
    <3>. QED  BY <3>1, <3>2 DEF ClaimInv, LoadedRowIsCurrent
  <2>. QED  BY <2>1 DEF LoadedRowIsCurrent
<1>5. AttemptsBounded'
  <2>1. decision'[d].attempts <= MaxAttempts
    BY RowFields, RetryPolicyAssumption DEF ClaimInv, AttemptsBounded, Take
  <2>. QED  BY <2>1 DEF ClaimInv, AttemptsBounded
<1>6. ReferenceMeansSent'
  BY DEF ClaimInv, ReferenceMeansSent, Take
<1>7. StaleIsQuiet'
  <2>1. ASSUME NEW e \in Decisions, decision'[e].status = "EXECUTING",
               decision'[e].age > StaleAfter
        PROVE  Quiet(e)'
    <3>1. e # d  BY <2>1, StaleAfterAssumption
    <3>. QED  BY <2>1, <3>1 DEF ClaimInv, StaleIsQuiet, Quiet, Take
  <2>2. ASSUME NEW u \in Threads, thread'[u].pc \in RecoveryPoints
        PROVE  Quiet(thread[u].dec)'
    <3>1. CASE u = t
      <4>1. decision[d].age > StaleAfter /\ decision[d].status = "EXECUTING"
        BY <2>2, <3>1 DEF Take, ClaimInv, WorkIsTimely
      <4>2. Quiet(d)  BY <4>1 DEF ClaimInv, StaleIsQuiet
      <4>. QED  BY <3>1, <4>2 DEF Quiet, Take
    <3>2. CASE u # t
      BY <2>2, <3>2 DEF ClaimInv, StaleIsQuiet, Quiet, Take
    <3>. QED  BY <3>1, <3>2
  <2>. QED  BY <2>1, <2>2 DEF StaleIsQuiet
<1>8. MissesAreDefinitive'
  BY DEF ClaimInv, MissesAreDefinitive, StaleMissIsDefinitive, Threads, Take
<1>. QED  BY <1>2, <1>3, <1>4, <1>5, <1>6, <1>7, <1>8 DEF ClaimInv

\* A thread that goes on with its decision is alone with it, so that what it
\* sends and loads concerns no other thread.
LEMMA AdvanceKeepsClaims ==
  ASSUME TypeInv, ClaimInv, NEW t \in Threads, Advance(t)
  PROVE  ClaimInv'
<1>. USE DEF HoldingPoints, ExecutionPoints, RecoveryPoints, LoadedPoints,
             Advance
<1>. DEFINE d == thread[t].dec
<1>a. d \in Decisions /\ Holds(t, d)
  BY DEF TypeInv, WorksOnDecision, Holds
<1>b. \A u \in Threads : u # t => thread'[u] = thread[u] /\ ~ Holds(u, d)
  BY <1>a DEF ClaimInv, ExclusiveExecution
<1>1. WorkIsTimely'
  <2>1. ASSUME NEW u \in Threads, thread'[u].pc \in HoldingPoints
        PROVE  /\ decision'[thread'[u].dec].status = "EXECUTING"
               /\ decision'[thread'[u].dec].age <= StaleAfter
    <3>1. thread[u].pc \in HoldingPoints /\ thread'[u].dec = thread[u].dec
      BY <2>1, <1>b
    <3>. QED  BY <3>1 DEF ClaimInv, WorkIsTimely
  <2>2. ASSUME NEW u \in Threads, thread'[u].pc = "scanned", thread'[u].same,
               decision'[thread'[u].dec].status = "EXECUTING"
        PROVE  decision'[thread'[u].dec].age > StaleAfter
    <3>1. thread'[u] = thread[u]  BY <2>2, <1>b
    <3>. QED  BY <2>2, <3>1 DEF ClaimInv, WorkIsTimely
  <2>. QED  BY <2>1, <2>2 DEF WorkIsTimely
<1>2. ExclusiveExecution'
  <2>1. ASSUME NEW u \in Threads, NEW e \in Decisions, Holds(u, e)'
        PROVE  Holds(u, e)
    BY <2>1, <1>b DEF Holds
  <2>. QED  BY <2>1 DEF ClaimInv, ExclusiveExecution
<1>3. LoadedRowIsCurrent'
  <2>1. ASSUME NEW u \in Threads, thread'[u].pc \in LoadedPoints
        PROVE  /\ thread'[u].status = decision'[thread'[u].dec].status
               /\ thread'[u].attempts = decision'[thread'[u].dec].attempts
    <3>1. CASE u = t  BY <3>1 DEF ClaimInv, LoadedRowIsCurrent
    <3>2. CASE u # t
      BY <2>1, <3>2, <1>b DEF ClaimInv, LoadedRowIsCurrent
    <3>. QED  BY <3>1, <3>2
  <2>. QED  BY <2>1 DEF LoadedRowIsCurrent
<1>4. AttemptsBounded' /\ ReferenceMeansSent'
  BY DEF ClaimInv, AttemptsBounded, ReferenceMeansSent
<1>5. ASSUME NEW e \in Decisions, e # d, Quiet(e)
      PROVE  Quiet(e)'
  BY <1>5 DEF Quiet
<1>6. StaleIsQuiet'
  <2>1. ASSUME NEW e \in Decisions, decision'[e].status = "EXECUTING",
               decision'[e].age > StaleAfter
        PROVE  Quiet(e)'
    <3>1. e # d  BY <1>a, <2>1, RowFields, StaleAfterAssumption
                 DEF ClaimInv, WorkIsTimely, Holds
    <3>. QED  BY <1>5, <2>1, <3>1 DEF ClaimInv, StaleIsQuiet
  <2>2. ASSUME NEW u \in Threads, thread'[u].pc \in RecoveryPoints
        PROVE  Quiet(thread[u].dec)'
    <3>1. CASE u = t
      BY <2>2, <3>1 DEF ClaimInv, StaleIsQuiet, Quiet
    <3>2. CASE u # t
      <4>1. thread[u].dec \in Decisions /\ thread[u].dec # d
        BY <2>2, <3>2, <1>b DEF Holds, TypeInv, WorksOnDecision
      <4>2. Quiet(thread[u].dec)
        BY <2>2, <3>2, <1>b DEF ClaimInv, StaleIsQuiet
      <4>3. /\ link'[thread[u].dec] = link[thread[u].dec]
            /\ thread[u].dec \notin late' \ late
        BY <4>1
      <4>. QED  BY <3>2, <1>b, <4>2, <4>3 DEF Quiet
    <3>. QED  BY <3>1, <3>2
  <2>. QED  BY <2>1, <2>2 DEF StaleIsQuiet
<1>7. MissesAreDefinitive'
  <2>1. ASSUME ~ Unlisted, NEW w \in Workers, thread'[w].pc = "reconciled",
               thread'[w].reply = "missing"
        PROVE  link'[thread'[w].dec] = "none" /\ thread'[w].dec \notin late'
    <3>0. w \in Threads  BY DEF Threads
    <3>1. CASE w = t
      <4>1. Quiet(d)  BY <2>1, <3>1 DEF ClaimInv, StaleIsQuiet
      <4>2. link[d] = "none"
        BY <1>a, <2>1, <3>1, <4>1 DEF Quiet, TypeInv, TypeOK
      <4>. QED  BY <2>1, <3>1, <4>1, <4>2 DEF Quiet
    <3>2. CASE w # t
      <4>1. thread[w].dec \in Decisions /\ thread[w].dec # d
        BY <2>1, <3>0, <3>2, <1>b DEF Holds, TypeInv, WorksOnDecision
      <4>. QED  BY <2>1, <3>0, <3>2, <4>1, <1>b
                DEF ClaimInv, MissesAreDefinitive, StaleMissIsDefinitive
    <3>. QED  BY <3>1, <3>2
  <2>. QED  BY <2>1 DEF MissesAreDefinitive, StaleMissIsDefinitive
<1>. QED  BY <1>1, <1>2, <1>3, <1>4, <1>6, <1>7 DEF ClaimInv

\* A thread that settles its decision was alone with it, and the counter it
\* compared with the limit was the row's.
LEMMA SettleKeepsClaims ==
  ASSUME TypeInv, ClaimInv, NEW t \in Threads, Settle(t)
  PROVE  ClaimInv'
<1>. USE DEF HoldingPoints, ExecutionPoints, RecoveryPoints, LoadedPoints,
             Settle
<1>. DEFINE d == thread[t].dec
<1>a. d \in Decisions /\ Holds(t, d)
  BY DEF TypeInv, WorksOnDecision, Holds
<1>b. /\ \A u \in Threads : u # t => thread'[u] = thread[u] /\ ~ Holds(u, d)
      /\ thread'[t].pc \in {"idle", "listing", "draining"}
  BY <1>a DEF ClaimInv, ExclusiveExecution, Free
<1>c. /\ decision[d].status = "EXECUTING" /\ ~ decision[d].ref
      /\ thread[t].attempts = decision[d].attempts
  BY <1>a DEF ClaimInv, WorkIsTimely, LoadedRowIsCurrent, ReferenceMeansSent
<1>d. ASSUME NEW u \in Threads, thread'[u].pc \in HoldingPoints
      PROVE  /\ thread'[u] = thread[u] /\ thread[u].pc \in HoldingPoints
             /\ thread[u].dec \in Decisions
             /\ decision'[thread[u].dec] = decision[thread[u].dec]
  <2>1. u # t /\ thread'[u] = thread[u]  BY <1>b, <1>d
  <2>2. thread[u].dec \in Decisions /\ thread[u].dec # d
    BY <2>1, <1>b, <1>d DEF Holds, TypeInv, WorksOnDecision
  <2>. QED  BY <1>d, <2>1, <2>2
<1>1. WorkIsTimely'
  <2>1. ASSUME NEW u \in Threads, thread'[u].pc \in HoldingPoints
        PROVE  /\ decision'[thread'[u].dec].status = "EXECUTING"
               /\ decision'[thread'[u].dec].age <= StaleAfter
    BY <2>1, <1>d DEF ClaimInv, WorkIsTimely
  <2>2. ASSUME NEW u \in Threads, thread'[u].pc = "scanned", thread'[u].same,
               decision'[thread'[u].dec].status = "EXECUTING"
        PROVE  decision'[thread'[u].dec].age > StaleAfter
    <3>1. thread'[u] = thread[u]  BY <2>2, <1>b
    <3>2. thread[u].dec \in Decisions
      BY <2>2, <3>1 DEF TypeInv, WorksOnDecision
    <3>3. thread[u].dec # d  BY <2>2, <3>1
    <3>. QED  BY <2>2, <3>1, <3>2, <3>3 DEF ClaimInv, WorkIsTimely
  <2>. QED  BY <2>1, <2>2 DEF WorkIsTimely
<1>2. ExclusiveExecution'
  <2>1. ASSUME NEW u \in Threads, NEW e \in Decisions, Holds(u, e)'
        PROVE  Holds(u, e) /\ decision'[e] = decision[e]
    BY <2>1, <1>d DEF Holds
  <2>. QED  BY <2>1 DEF ClaimInv, ExclusiveExecution
<1>3. LoadedRowIsCurrent'
  BY <1>d DEF ClaimInv, LoadedRowIsCurrent
<1>4. AttemptsBounded'
  BY <1>a, <1>c DEF ClaimInv, AttemptsBounded
<1>5. ReferenceMeansSent'
  BY <1>a, <1>c DEF ClaimInv, ReferenceMeansSent
<1>6. StaleIsQuiet'
  <2>1. ASSUME NEW e \in Decisions, decision'[e].status = "EXECUTING",
               decision'[e].age > StaleAfter
        PROVE  Quiet(e)'
    <3>1. e # d  BY <2>1
    <3>. QED  BY <2>1, <3>1 DEF ClaimInv, StaleIsQuiet, Quiet
  <2>2. ASSUME NEW u \in Threads, thread'[u].pc \in RecoveryPoints
        PROVE  Quiet(thread[u].dec)'
    BY <2>2, <1>d DEF ClaimInv, StaleIsQuiet, Quiet
  <2>. QED  BY <2>1, <2>2 DEF StaleIsQuiet
<1>7. MissesAreDefinitive'
  BY <1>d DEF ClaimInv, MissesAreDefinitive, StaleMissIsDefinitive, Threads
<1>. QED  BY <1>1, <1>2, <1>3, <1>4, <1>5, <1>6, <1>7 DEF ClaimInv

\* A new row is nobody's, and has all its attempts left.
LEMMA DecideKeepsClaims ==
  ASSUME TypeInv, ClaimInv, NEW h \in Threads, NEW d \in Decisions,
         Decide(h, d)
  PROVE  ClaimInv'
<1>. USE DEF HoldingPoints, ExecutionPoints, RecoveryPoints, LoadedPoints
<1>a. /\ decision[d].status = "NONE" /\ decision'[d].status # "EXECUTING"
      /\ decision'[d].attempts = 0 /\ ~ decision'[d].ref
      /\ decision'[d].status \notin {"EXECUTED", "OUTCOME_OBSERVED"}
      /\ \A e \in Decisions : e # d => decision'[e] = decision[e]
      /\ UNCHANGED <<link, late>>
  <2>1. PICK status, action :
          /\ Write(d, NewRow(status, action))
          /\ status \in {"DECIDED", "PENDING_POLICY"}
    BY DEF Decide
  <2>. DEFINE new == NewRow(status, action)
  <2>2. /\ decision'[d] = new
        /\ \A e \in Decisions : e # d => decision'[e] = decision[e]
    BY <2>1, WriteEffect
  <2>3. new.status = status /\ new.attempts = 0 /\ new.ref = FALSE
    BY DEF NewRow, NoRow
  <2>. HIDE DEF new
  <2>. QED  BY <2>1, <2>2, <2>3 DEF Decide
<1>b. \A u \in Threads : \/ thread'[u] = thread[u]
                         \/ thread'[u].pc = "decided"
  <2>1. CASE UNCHANGED thread  BY <2>1
  <2>2. CASE Become(h, [Idle EXCEPT !.pc = "decided", !.dec = d])
    <3>. DEFINE state == [Idle EXCEPT !.pc = "decided", !.dec = d]
    <3>1. state.pc = "decided"  BY TakingStates
    <3>2. /\ thread'[h] = state
          /\ \A u \in Threads : u # h => thread'[u] = thread[u]
      BY <2>2, BecomeEffect
    <3>. HIDE DEF state
    <3>. QED  BY <3>1, <3>2
  <2>. QED  BY <2>1, <2>2 DEF Decide
<1>c. \A u \in Threads : ~ Holds(u, d)
  BY <1>a DEF ClaimInv, WorkIsTimely, Holds
<1>d. ASSUME NEW u \in Threads, thread'[u].pc \in HoldingPoints
      PROVE  /\ thread'[u] = thread[u] /\ thread[u].pc \in HoldingPoints
             /\ thread[u].dec \in Decisions
             /\ decision'[thread[u].dec] = decision[thread[u].dec]
  <2>1. thread'[u] = thread[u]  BY <1>b, <1>d
  <2>2. thread[u].dec \in Decisions /\ thread[u].dec # d
    BY <2>1, <1>c, <1>d DEF Holds, TypeInv, WorksOnDecision
  <2>. QED  BY <1>a, <1>d, <2>1, <2>2
<1>1. WorkIsTimely'
  <2>1. ASSUME NEW u \in Threads, thread'[u].pc = "scanned", thread'[u].same,
               decision'[thread'[u].dec].status = "EXECUTING"
        PROVE  decision'[thread'[u].dec].age > StaleAfter
    <3>1. thread'[u] = thread[u]  BY <2>1, <1>b
    <3>2. thread[u].dec \in Decisions
      BY <2>1, <3>1 DEF TypeInv, WorksOnDecision
    <3>3. thread[u].dec # d  BY <1>a, <2>1, <3>1
    <3>. QED  BY <1>a, <2>1, <3>1, <3>2, <3>3 DEF ClaimInv, WorkIsTimely
  <2>. QED  BY <2>1, <1>d DEF ClaimInv, WorkIsTimely
<1>2. ExclusiveExecution'
  <2>1. ASSUME NEW u \in Threads, NEW e \in Decisions, Holds(u, e)'
        PROVE  Holds(u, e) /\ decision'[e] = decision[e]
    BY <2>1, <1>d DEF Holds
  <2>. QED  BY <2>1 DEF ClaimInv, ExclusiveExecution
<1>3. LoadedRowIsCurrent'
  BY <1>d DEF ClaimInv, LoadedRowIsCurrent
<1>4. AttemptsBounded' /\ ReferenceMeansSent'
  BY <1>a, RetryPolicyAssumption
  DEF ClaimInv, AttemptsBounded, ReferenceMeansSent
<1>5. StaleIsQuiet'
  BY <1>a, <1>d DEF ClaimInv, StaleIsQuiet, Quiet
<1>6. MissesAreDefinitive'
  BY <1>a, <1>d
  DEF ClaimInv, MissesAreDefinitive, StaleMissIsDefinitive, Threads
<1>. QED  BY <1>1, <1>2, <1>3, <1>4, <1>5, <1>6 DEF ClaimInv

\* A scan takes note of a row that is stale, and of nothing else.
LEMMA ScanKeepsClaims ==
  ASSUME TypeInv, ClaimInv, NEW w \in Threads, NEW d \in Decisions,
         ScanStale(w, d)
  PROVE  ClaimInv'
<1>. USE DEF HoldingPoints, ExecutionPoints, RecoveryPoints, LoadedPoints
<1>a. /\ thread'[w].pc = "scanned" /\ thread'[w].dec = d
      /\ \A u \in Threads : u # w => thread'[u] = thread[u]
  <2>. DEFINE state == [Idle EXCEPT !.pc = "scanned", !.dec = d,
                                    !.same = TRUE]
  <2>1. state.pc = "scanned" /\ state.dec = d  BY TakingStates
  <2>2. Become(w, state)  BY DEF ScanStale
  <2>. HIDE DEF state
  <2>. QED  BY <2>1, <2>2, BecomeEffect
<1>b. UNCHANGED <<decision, link, late>> /\ decision[d].age > StaleAfter
  BY DEF ScanStale, Stale
<1>1. WorkIsTimely'  BY <1>a, <1>b DEF ClaimInv, WorkIsTimely
<1>2. ExclusiveExecution'
  BY <1>a, <1>b DEF ClaimInv, ExclusiveExecution, Holds
<1>3. LoadedRowIsCurrent'  BY <1>a, <1>b DEF ClaimInv, LoadedRowIsCurrent
<1>4. AttemptsBounded' /\ ReferenceMeansSent'
  BY <1>b DEF ClaimInv, AttemptsBounded, ReferenceMeansSent
<1>5. StaleIsQuiet'  BY <1>a, <1>b DEF ClaimInv, StaleIsQuiet, Quiet
<1>6. MissesAreDefinitive'
  BY <1>a, <1>b
  DEF ClaimInv, MissesAreDefinitive, StaleMissIsDefinitive, Threads
<1>. QED  BY <1>1, <1>2, <1>3, <1>4, <1>5, <1>6 DEF ClaimInv

\* A row that carries the reference is nobody's: it was EXECUTED.
LEMMA NotifyKeepsClaims ==
  ASSUME TypeInv, ClaimInv, NEW d \in Decisions, NotifyPaid(d)
  PROVE  ClaimInv'
<1>. USE DEF HoldingPoints, ExecutionPoints, RecoveryPoints, LoadedPoints
<1>a. UNCHANGED <<thread, link, late>>  BY DEF NotifyPaid
<1>1. CASE UNCHANGED decision
  BY <1>1, <1>a DEF ClaimInv, WorkIsTimely, ExclusiveExecution, Holds,
     LoadedRowIsCurrent, AttemptsBounded, ReferenceMeansSent, StaleIsQuiet,
     Quiet, MissesAreDefinitive, StaleMissIsDefinitive
<1>2. CASE decision[d].ref /\ Write(d, ObservedRow(decision[d]))
  <2>. DEFINE new == ObservedRow(decision[d])
  <2>1. /\ new.status = "OUTCOME_OBSERVED"
        /\ new.attempts = decision[d].attempts /\ new.ref = decision[d].ref
    <3>1. decision[d] \in Rows  BY RowFields
    <3>. QED  BY <3>1, WriteFields
  <2>2. /\ decision'[d] = new
        /\ \A e \in Decisions : e # d => decision'[e] = decision[e]
    BY <1>2, WriteEffect
  <2>3. decision[d].status # "EXECUTING"
    BY <1>2 DEF ClaimInv, ReferenceMeansSent
  <2>. HIDE DEF new
  <2>4. ASSUME NEW u \in Threads, thread[u].pc \in HoldingPoints
        PROVE  /\ thread[u].dec \in Decisions
               /\ decision'[thread[u].dec] = decision[thread[u].dec]
    BY <2>4, <2>2, <2>3 DEF ClaimInv, WorkIsTimely, TypeInv, WorksOnDecision
  <2>5. WorkIsTimely'
    <3>1. ASSUME NEW u \in Threads, thread[u].pc = "scanned", thread[u].same,
                 decision'[thread[u].dec].status = "EXECUTING"
          PROVE  decision'[thread[u].dec].age > StaleAfter
      <4>1. thread[u].dec \in Decisions
        BY <3>1 DEF TypeInv, WorksOnDecision
      <4>2. thread[u].dec # d  BY <2>1, <2>2, <3>1
      <4>. QED  BY <2>2, <3>1, <4>1, <4>2 DEF ClaimInv, WorkIsTimely
    <3>. QED  BY <1>a, <2>4, <3>1 DEF ClaimInv, WorkIsTimely
  <2>6. ExclusiveExecution'
    BY <1>a, <2>4 DEF ClaimInv, ExclusiveExecution, Holds
  <2>7. LoadedRowIsCurrent'
    BY <1>a, <2>4 DEF ClaimInv, LoadedRowIsCurrent
  <2>8. AttemptsBounded' /\ ReferenceMeansSent'
    BY <1>2, <2>1, <2>2 DEF ClaimInv, AttemptsBounded, ReferenceMeansSent
  <2>9. StaleIsQuiet' /\ MissesAreDefinitive'
    BY <1>a, <2>1, <2>2
    DEF ClaimInv, StaleIsQuiet, Quiet, MissesAreDefinitive,
        StaleMissIsDefinitive
  <2>. QED  BY <2>5, <2>6, <2>7, <2>8, <2>9 DEF ClaimInv
<1>. QED  BY <1>1, <1>2 DEF NotifyPaid

\* A request under way belongs to no stale row and to no row being recovered.
LEMMA ArriveKeepsClaims ==
  ASSUME TypeInv, ClaimInv, NEW d \in Decisions, Arrive(d)
  PROVE  ClaimInv'
<1>a. UNCHANGED <<decision, thread>> /\ d \in late /\ late' = late \ {d}
  BY DEF Arrive
<1>b. \A e \in Decisions : e # d => link'[e] = link[e]
  BY DEF Arrive, TypeInv, TypeOK
<1>1. /\ WorkIsTimely' /\ ExclusiveExecution' /\ LoadedRowIsCurrent'
      /\ AttemptsBounded' /\ ReferenceMeansSent'
  BY <1>a DEF ClaimInv, WorkIsTimely, ExclusiveExecution, Holds,
     LoadedRowIsCurrent, AttemptsBounded, ReferenceMeansSent
<1>2. ASSUME NEW e \in Decisions, Quiet(e) PROVE Quiet(e)'
  BY <1>2, <1>a, <1>b DEF Quiet
<1>c. \A u \in Threads : thread[u].pc \in RecoveryPoints =>
        thread[u].dec \in Decisions
  BY DEF TypeInv, WorksOnDecision, HoldingPoints
<1>3. StaleIsQuiet'  BY <1>2, <1>a, <1>c DEF ClaimInv, StaleIsQuiet
<1>4. MissesAreDefinitive'
  BY <1>a, <1>b, <1>c
  DEF ClaimInv, MissesAreDefinitive, StaleMissIsDefinitive, RecoveryPoints,
      Threads
<1>. QED  BY <1>1, <1>3, <1>4 DEF ClaimInv

\* The clock: whoever works on a row is done before it counts as stale.
LEMMA TickKeepsClaims ==
  ASSUME TypeInv, ClaimInv, ~ Stalls, Tick
  PROVE  ClaimInv'
<1>a. Timely /\ UNCHANGED <<thread, late>> /\ late = {}  BY DEF Tick, Timely
<1>b. ASSUME NEW e \in Decisions
      PROVE  /\ decision'[e].status = decision[e].status
             /\ decision'[e].age = Older(decision[e])
             /\ decision'[e].attempts = decision[e].attempts
             /\ decision'[e].action = decision[e].action
             /\ decision'[e].ref = decision[e].ref
  <2>1. decision[e] \in Rows  BY RowFields
  <2>. DEFINE new == OlderRow(decision[e])
  <2>2. decision'[e] = new  BY DEF Tick
  <2>3. /\ new.status = decision[e].status
        /\ new.age = Older(decision[e])
        /\ new.attempts = decision[e].attempts
        /\ new.action = decision[e].action /\ new.ref = decision[e].ref
    BY <2>1, WriteFields
  <2>. HIDE DEF new
  <2>. QED  BY <2>2, <2>3
<1>c. \A e \in Decisions : /\ Quiet(e)'
                           /\ link[e] = "none" => link'[e] = "none"
  BY <1>a DEF Tick, Quiet
<1>d. \A t \in Threads : thread[t].pc \in HoldingPoints =>
        thread[t].dec \in Decisions
  BY DEF TypeInv, WorksOnDecision
<1>1. WorkIsTimely'
  <2>1. ASSUME NEW t \in Threads, thread[t].pc \in HoldingPoints
        PROVE  /\ decision'[thread[t].dec].status = "EXECUTING"
               /\ decision'[thread[t].dec].age <= StaleAfter
    BY <1>a, <1>b, <1>d, <2>1, RowFields, StaleAfterAssumption
    DEF ClaimInv, WorkIsTimely, Timely, Older
  <2>2. ASSUME NEW t \in Threads, thread[t].pc = "scanned", thread[t].same,
               decision'[thread[t].dec].status = "EXECUTING"
        PROVE  decision'[thread[t].dec].age > StaleAfter
    <3>1. thread[t].dec \in Decisions
      BY <2>2 DEF TypeInv, WorksOnDecision
    <3>. QED  BY <1>b, <2>2, <3>1, RowFields, StaleAfterAssumption
              DEF ClaimInv, WorkIsTimely, Older
  <2>. QED  BY <1>a, <2>1, <2>2 DEF WorkIsTimely
<1>2. ExclusiveExecution'
  BY <1>a, <1>b DEF ClaimInv, ExclusiveExecution, Holds
<1>3. LoadedRowIsCurrent'
  BY <1>a, <1>b, <1>d DEF ClaimInv, LoadedRowIsCurrent, LoadedPoints
<1>4. AttemptsBounded' /\ ReferenceMeansSent'
  BY <1>b DEF ClaimInv, AttemptsBounded, ReferenceMeansSent
<1>5. StaleIsQuiet'
  BY <1>a, <1>c, <1>d DEF StaleIsQuiet, HoldingPoints
<1>6. MissesAreDefinitive'
  BY <1>a, <1>c, <1>d
  DEF ClaimInv, MissesAreDefinitive, StaleMissIsDefinitive, Threads,
      HoldingPoints, RecoveryPoints
<1>. QED  BY <1>1, <1>2, <1>3, <1>4, <1>5, <1>6 DEF ClaimInv

------------------------------------------------------------------------------
(* Nothing is reported that was not sent, and nothing sent without reason *)

LEMMA LetGoKeepsLinks ==
  ASSUME TypeInv, LinkInv, NEW S \in SUBSET Threads, LetGo(S)
  PROVE  LinkInv'
<1>. USE DEF HoldingPoints, ExecutionPoints, RecoveryPoints, LetGo, Free
<1>1. OnlyActionsInReach'
  <2>1. ASSUME NEW u \in Threads
        PROVE  /\ thread'[u].pc \in HoldingPoints \union {"decided", "scanned"}
                    => decision'[thread'[u].dec].action # "NO_ACTION"
               /\ \A e \in thread'[u].batch :
                    decision'[e].action # "NO_ACTION"
    <3>1. CASE u \in S  BY <3>1
    <3>2. CASE u \notin S  BY <3>2 DEF LinkInv, OnlyActionsInReach
    <3>. QED  BY <3>1, <3>2
  <2>2. ASSUME NEW e \in Decisions, decision[e].action = "NO_ACTION"
        PROVE  e \notin late'
    <3>1. \A u \in S : ~ (thread[u].pc = "posting" /\ thread[u].dec = e)
      BY <2>2 DEF LinkInv, OnlyActionsInReach
    <3>. QED  BY <2>2, <3>1 DEF LinkInv, OnlyActionsInReach
  <2>. QED  BY <2>1, <2>2 DEF LinkInv, OnlyActionsInReach
<1>2. RepliesAreTrue'  BY DEF LinkInv, RepliesAreTrue
<1>3. SentMeansLinked'  BY DEF LinkInv, SentMeansLinked
<1>. QED  BY <1>1, <1>2, <1>3 DEF LinkInv

LEMMA TakeKeepsLinks ==
  ASSUME TypeInv, LinkInv, NEW t \in Threads, NEW d \in Decisions, NEW pc,
         Take(t, d, pc)
  PROVE  LinkInv'
<1>. USE TakeEffect DEF HoldingPoints, ExecutionPoints, RecoveryPoints
<1>0. UNCHANGED <<link, late, outreach>> /\ decision[d].action # "NO_ACTION"
  BY DEF Take
<1>a. \A e \in Decisions : decision'[e].action = decision[e].action
  OBVIOUS
<1>1. OnlyActionsInReach'
  <2>1. ASSUME NEW u \in Threads,
               thread'[u].pc \in HoldingPoints \union {"decided", "scanned"}
        PROVE  decision'[thread'[u].dec].action # "NO_ACTION"
    <3>1. CASE u = t  BY <1>0, <3>1
    <3>2. CASE u # t
      <4>1. thread[u].dec \in Decisions
        BY <2>1, <3>2 DEF TypeInv, WorksOnDecision
      <4>. QED  BY <1>a, <2>1, <3>2, <4>1 DEF LinkInv, OnlyActionsInReach
    <3>. QED  BY <3>1, <3>2
  <2>2. ASSUME NEW u \in Threads, NEW e \in thread'[u].batch
        PROVE  decision'[e].action # "NO_ACTION"
    <3>1. e \in thread[u].batch /\ e \in Decisions
      BY <2>2, ThreadFields
    <3>. QED  BY <1>a, <3>1 DEF LinkInv, OnlyActionsInReach
  <2>3. ASSUME NEW e \in Decisions, decision'[e].action = "NO_ACTION"
        PROVE  decision'[e] = decision[e]
    BY <1>0, <1>a, <2>3
  <2>. QED
    BY <1>0, <1>a, <2>1, <2>2, <2>3 DEF LinkInv, OnlyActionsInReach
<1>2. RepliesAreTrue'  BY <1>0 DEF LinkInv, RepliesAreTrue
<1>3. SentMeansLinked'  BY <1>0 DEF LinkInv, SentMeansLinked
<1>. QED  BY <1>1, <1>2, <1>3 DEF LinkInv

LEMMA AdvanceKeepsLinks ==
  ASSUME TypeInv, LinkInv, NEW t \in Threads, Advance(t)
  PROVE  LinkInv'
<1>. USE DEF HoldingPoints, ExecutionPoints, RecoveryPoints, LoadedPoints,
             Advance
<1>. DEFINE d == thread[t].dec
<1>a. d \in Decisions /\ decision[d].action # "NO_ACTION"
  BY DEF TypeInv, WorksOnDecision, LinkInv, OnlyActionsInReach
<1>b. \A e \in Decisions : link[e] # "none" => link'[e] # "none"
  OBVIOUS
<1>1. OnlyActionsInReach'
  <2>1. ASSUME NEW u \in Threads
        PROVE  /\ thread'[u].pc \in HoldingPoints \union {"decided", "scanned"}
                    => decision'[thread'[u].dec].action # "NO_ACTION"
               /\ \A e \in thread'[u].batch :
                    decision'[e].action # "NO_ACTION"
    <3>1. CASE u = t  BY <1>a, <3>1 DEF LinkInv, OnlyActionsInReach
    <3>2. CASE u # t  BY <3>2 DEF LinkInv, OnlyActionsInReach
    <3>. QED  BY <3>1, <3>2
  <2>. QED  BY <1>a, <2>1 DEF LinkInv, OnlyActionsInReach
<1>2. RepliesAreTrue'
  <2>1. ASSUME NEW u \in Threads,
               \/ thread'[u].pc = "answered" /\ thread'[u].reply = "created"
               \/ thread'[u].pc \in {"looked", "reconciled"}
                    /\ thread'[u].reply = "found"
        PROVE  link'[thread'[u].dec] # "none"
    <3>1. CASE u = t  BY <2>1, <3>1
    <3>2. CASE u # t
      <4>1. thread'[u] = thread[u] /\ thread[u].dec \in Decisions
        BY <2>1, <3>2 DEF TypeInv, WorksOnDecision
      <4>. QED  BY <1>b, <2>1, <4>1 DEF LinkInv, RepliesAreTrue
    <3>. QED  BY <3>1, <3>2
  <2>. QED  BY <2>1 DEF RepliesAreTrue
<1>3. SentMeansLinked'  BY <1>b DEF LinkInv, SentMeansLinked
<1>. QED  BY <1>1, <1>2, <1>3 DEF LinkInv

LEMMA SettleKeepsLinks ==
  ASSUME TypeInv, LinkInv, NEW t \in Threads, Settle(t)
  PROVE  LinkInv'
<1>. USE DEF HoldingPoints, ExecutionPoints, RecoveryPoints, LoadedPoints,
             Settle
<1>. DEFINE d == thread[t].dec
<1>a. d \in Decisions /\ decision[d].action # "NO_ACTION"
  BY DEF TypeInv, WorksOnDecision, LinkInv, OnlyActionsInReach
<1>b. \A e \in Decisions : decision'[e].action = decision[e].action
  OBVIOUS
<1>1. OnlyActionsInReach'
  <2>1. ASSUME NEW u \in Threads,
               thread'[u].pc \in HoldingPoints \union {"decided", "scanned"}
        PROVE  decision'[thread'[u].dec].action # "NO_ACTION"
    <3>1. u # t /\ thread'[u] = thread[u]  BY <2>1 DEF Free
    <3>2. thread[u].dec \in Decisions
      BY <2>1, <3>1 DEF TypeInv, WorksOnDecision
    <3>. QED  BY <1>b, <2>1, <3>1, <3>2 DEF LinkInv, OnlyActionsInReach
  <2>2. ASSUME NEW u \in Threads, NEW e \in thread'[u].batch
        PROVE  decision'[e].action # "NO_ACTION"
    <3>1. CASE u = t  BY <1>b, <2>2, <3>1 DEF Free
    <3>2. CASE u # t
      BY <1>b, <2>2, <3>2, ThreadFields DEF Free, LinkInv, OnlyActionsInReach
    <3>. QED  BY <3>1, <3>2
  <2>3. ASSUME NEW e \in Decisions, decision'[e].action = "NO_ACTION"
        PROVE  decision'[e] = decision[e]
    BY <1>a, <1>b, <2>3
  <2>4. \A e \in Decisions :
          decision'[e].status = "NONE" => decision'[e] = decision[e]
    OBVIOUS
  <2>. QED
    BY <1>b, <2>1, <2>2, <2>3, <2>4 DEF LinkInv, OnlyActionsInReach
<1>2. RepliesAreTrue'  BY DEF LinkInv, RepliesAreTrue, Free
<1>3. SentMeansLinked'
  <2>1. ASSUME NEW e \in Decisions, e # d PROVE decision'[e] = decision[e]
    BY <2>1
  <2>2. \/ decision'[d].status \in {"EXECUTED", "OUTCOME_OBSERVED"}
        \/ decision'[d].ref
        => link[d] # "none"
    BY <1>a DEF LinkInv, SentMeansLinked
  <2>. QED  BY <2>1, <2>2 DEF LinkInv, SentMeansLinked
<1>. QED  BY <1>1, <1>2, <1>3 DEF LinkInv

LEMMA DecideKeepsLinks ==
  ASSUME TypeInv, LinkInv, NEW h \in Threads, NEW d \in Decisions,
         Decide(h, d)
  PROVE  LinkInv'
<1>. USE DEF HoldingPoints, ExecutionPoints, RecoveryPoints
<1>. DEFINE state == [Idle EXCEPT !.pc = "decided", !.dec = d]
<1>a. /\ decision[d].status = "NONE" /\ decision[d].action = "NO_ACTION"
      /\ UNCHANGED <<link, late, outreach>>
  BY DEF Decide, LinkInv, OnlyActionsInReach
<1>b. \A e \in Decisions : e # d => decision'[e] = decision[e]
  BY WriteEffect DEF Decide
<1>c. /\ decision'[d].status \in {"DECIDED", "PENDING_POLICY"}
      /\ decision'[d].attempts = 0 /\ decision'[d].ref = FALSE
      /\ \/ UNCHANGED thread
         \/ decision'[d].action # "NO_ACTION" /\ Become(h, state)
  <2>1. PICK status, action :
          /\ Write(d, NewRow(status, action))
          /\ status \in {"DECIDED", "PENDING_POLICY"}
          /\ \/ UNCHANGED thread
             \/ action = "SEND_PAYMENT_LINK" /\ Become(h, state)
    BY DEF Decide
  <2>. DEFINE new == NewRow(status, action)
  <2>2. decision'[d] = new  BY <2>1, WriteEffect
  <2>3. /\ new.status = status /\ new.action = action
        /\ new.attempts = 0 /\ new.ref = FALSE
    BY DEF NewRow, NoRow
  <2>. HIDE DEF new
  <2>. QED  BY <2>1, <2>2, <2>3
<1>d. \A u \in Threads :
        \/ thread'[u] = thread[u]
        \/ /\ thread'[u].dec = d /\ decision'[d].action # "NO_ACTION"
           /\ thread'[u].pc = "decided" /\ thread'[u].batch = {}
  <2>1. CASE UNCHANGED thread  BY <2>1
  <2>2. CASE decision'[d].action # "NO_ACTION" /\ Become(h, state)
    <3>1. state.pc = "decided" /\ state.dec = d  BY TakingStates
    <3>2. state.batch = {}  BY DEF Idle
    <3>3. /\ thread'[h] = state
          /\ \A u \in Threads : u # h => thread'[u] = thread[u]
      BY <2>2, BecomeEffect
    <3>. HIDE DEF state
    <3>. QED  BY <2>2, <3>1, <3>2, <3>3
  <2>. QED  BY <1>c, <2>1, <2>2
<1>. HIDE DEF state
<1>1. OnlyActionsInReach'
  <2>1. ASSUME NEW e \in Decisions, decision[e].action # "NO_ACTION"
        PROVE  decision'[e].action # "NO_ACTION"
    BY <2>1, <1>a, <1>b
  <2>2. ASSUME NEW u \in Threads
        PROVE  /\ thread'[u].pc \in HoldingPoints \union {"decided", "scanned"}
                    => decision'[thread'[u].dec].action # "NO_ACTION"
               /\ \A e \in thread'[u].batch :
                    decision'[e].action # "NO_ACTION"
    <3>1. CASE thread'[u] = thread[u]
      <4>1. ASSUME thread[u].pc \in HoldingPoints \union {"decided", "scanned"}
            PROVE  decision'[thread[u].dec].action # "NO_ACTION"
        <5>1. thread[u].dec \in Decisions
          BY <4>1 DEF TypeInv, WorksOnDecision
        <5>. QED  BY <2>1, <4>1, <5>1 DEF LinkInv, OnlyActionsInReach
      <4>2. ASSUME NEW e \in thread[u].batch
            PROVE  decision'[e].action # "NO_ACTION"
        BY <2>1, <4>2, ThreadFields DEF LinkInv, OnlyActionsInReach
      <4>. QED  BY <3>1, <4>1, <4>2
    <3>2. CASE thread'[u] # thread[u]  BY <3>2, <1>d
    <3>. QED  BY <3>1, <3>2
  <2>3. ASSUME NEW e \in Decisions
        PROVE  /\ decision'[e].status = "NONE" =>
                    decision'[e].action = "NO_ACTION"
               /\ decision'[e].action = "NO_ACTION" =>
                    /\ decision'[e].status \in
                         {"NONE", "PENDING_POLICY", "DECIDED"}
                    /\ ~ decision'[e].ref /\ decision'[e].attempts = 0
                    /\ link'[e] = "none" /\ e \notin late'
    <3>1. CASE e = d
      BY <1>a, <1>c, <3>1 DEF LinkInv, OnlyActionsInReach
    <3>2. CASE e # d
      BY <1>a, <1>b, <3>2 DEF LinkInv, OnlyActionsInReach
    <3>. QED  BY <3>1, <3>2
  <2>. QED  BY <2>2, <2>3 DEF OnlyActionsInReach
<1>2. RepliesAreTrue'
  BY <1>a, <1>d DEF LinkInv, RepliesAreTrue
<1>3. SentMeansLinked'
  BY <1>a, <1>b, <1>c DEF LinkInv, SentMeansLinked
<1>. QED  BY <1>1, <1>2, <1>3 DEF LinkInv

LEMMA ScanKeepsLinks ==
  ASSUME TypeInv, LinkInv, NEW w \in Threads, NEW d \in Decisions,
         ScanStale(w, d)
  PROVE  LinkInv'
<1>. USE DEF HoldingPoints, ExecutionPoints, RecoveryPoints
<1>a. /\ thread'[w].pc = "scanned" /\ thread'[w].dec = d
      /\ thread'[w].batch = {}
      /\ \A u \in Threads : u # w => thread'[u] = thread[u]
  <2>. DEFINE state == [Idle EXCEPT !.pc = "scanned", !.dec = d,
                                    !.same = TRUE]
  <2>1. state.pc = "scanned" /\ state.dec = d  BY TakingStates
  <2>2. state.batch = {}  BY DEF Idle
  <2>3. Become(w, state)  BY DEF ScanStale
  <2>. HIDE DEF state
  <2>. QED  BY <2>1, <2>2, <2>3, BecomeEffect
<1>b. /\ UNCHANGED <<decision, link, late, outreach>>
      /\ decision[d].status = "EXECUTING"
  BY DEF ScanStale, Stale
<1>1. OnlyActionsInReach'
  BY <1>a, <1>b DEF LinkInv, OnlyActionsInReach
<1>2. RepliesAreTrue'  BY <1>a, <1>b DEF LinkInv, RepliesAreTrue
<1>3. SentMeansLinked'  BY <1>b DEF LinkInv, SentMeansLinked
<1>. QED  BY <1>1, <1>2, <1>3 DEF LinkInv

LEMMA NotifyKeepsLinks ==
  ASSUME TypeInv, LinkInv, NEW d \in Decisions, NotifyPaid(d)
  PROVE  LinkInv'
<1>. USE DEF HoldingPoints, ExecutionPoints, RecoveryPoints
<1>a. UNCHANGED <<thread, link, late, outreach>>  BY DEF NotifyPaid
<1>1. CASE UNCHANGED decision
  BY <1>1, <1>a DEF LinkInv, OnlyActionsInReach, RepliesAreTrue,
                    SentMeansLinked
<1>2. CASE decision[d].ref /\ Write(d, ObservedRow(decision[d]))
  <2>. DEFINE new == ObservedRow(decision[d])
  <2>1. /\ new.status = "OUTCOME_OBSERVED" /\ new.action = decision[d].action
        /\ new.attempts = decision[d].attempts /\ new.ref = decision[d].ref
    <3>1. decision[d] \in Rows  BY RowFields
    <3>. QED  BY <3>1, WriteFields
  <2>2. /\ decision'[d] = new
        /\ \A e \in Decisions : e # d => decision'[e] = decision[e]
    BY <1>2, WriteEffect
  <2>. HIDE DEF new
  <2>3. decision[d].action # "NO_ACTION" /\ link[d] # "none"
    BY <1>2 DEF LinkInv, OnlyActionsInReach, SentMeansLinked
  <2>a. \A e \in Decisions : decision'[e].action = decision[e].action
    BY <2>1, <2>2
  <2>4. OnlyActionsInReach'
    <3>1. ASSUME NEW u \in Threads
          PROVE  /\ thread[u].pc \in HoldingPoints
                                       \union {"decided", "scanned"}
                      => decision'[thread[u].dec].action # "NO_ACTION"
                 /\ \A e \in thread[u].batch :
                      decision'[e].action # "NO_ACTION"
      BY <2>a, ThreadFields
      DEF LinkInv, OnlyActionsInReach, TypeInv, WorksOnDecision
    <3>2. ASSUME NEW e \in Decisions
          PROVE  /\ decision'[e].status = "NONE" =>
                      decision'[e].action = "NO_ACTION"
                 /\ decision'[e].action = "NO_ACTION" =>
                      decision'[e] = decision[e]
      BY <2>1, <2>2, <2>3 DEF LinkInv, OnlyActionsInReach
    <3>. QED  BY <1>a, <3>1, <3>2 DEF LinkInv, OnlyActionsInReach
  <2>5. RepliesAreTrue'  BY <1>a DEF LinkInv, RepliesAreTrue
  <2>6. SentMeansLinked'
    BY <1>a, <2>2, <2>3 DEF LinkInv, SentMeansLinked
  <2>. QED  BY <2>4, <2>5, <2>6 DEF LinkInv
<1>. QED  BY <1>1, <1>2 DEF NotifyPaid

LEMMA ArriveKeepsLinks ==
  ASSUME TypeInv, LinkInv, NEW d \in Decisions, Arrive(d)
  PROVE  LinkInv'
<1>. USE DEF HoldingPoints, ExecutionPoints, RecoveryPoints
<1>a. /\ UNCHANGED <<decision, thread, outreach>>
      /\ d \in late /\ late' = late \ {d}
  BY DEF Arrive
<1>b. decision[d].action # "NO_ACTION"
  BY <1>a DEF LinkInv, OnlyActionsInReach
<1>c. \A e \in Decisions : /\ e # d => link'[e] = link[e]
                           /\ link[e] # "none" => link'[e] # "none"
  BY DEF Arrive, TypeInv, TypeOK
<1>1. OnlyActionsInReach'
  BY <1>a, <1>b, <1>c DEF LinkInv, OnlyActionsInReach
<1>2. RepliesAreTrue'
  BY <1>a, <1>c DEF LinkInv, RepliesAreTrue, TypeInv, WorksOnDecision
<1>3. SentMeansLinked'
  BY <1>a, <1>c DEF LinkInv, SentMeansLinked
<1>. QED  BY <1>1, <1>2, <1>3 DEF LinkInv

LEMMA TickKeepsLinks ==
  ASSUME TypeInv, LinkInv, Tick
  PROVE  LinkInv'
<1>. USE DEF HoldingPoints, ExecutionPoints, RecoveryPoints
<1>a. UNCHANGED <<thread, late, outreach>>  BY DEF Tick
<1>b. ASSUME NEW e \in Decisions
      PROVE  /\ decision'[e].status = decision[e].status
             /\ decision'[e].attempts = decision[e].attempts
             /\ decision'[e].action = decision[e].action
             /\ decision'[e].ref = decision[e].ref
  <2>1. decision[e] \in Rows  BY RowFields
  <2>. DEFINE new == OlderRow(decision[e])
  <2>2. decision'[e] = new  BY DEF Tick
  <2>3. /\ new.status = decision[e].status
        /\ new.attempts = decision[e].attempts
        /\ new.action = decision[e].action /\ new.ref = decision[e].ref
    BY <2>1, WriteFields
  <2>. HIDE DEF new
  <2>. QED  BY <2>2, <2>3
<1>c. \A e \in Decisions : link'[e] = "none" <=> link[e] = "none"
  BY DEF Tick
<1>1. OnlyActionsInReach'
  <2>1. ASSUME NEW u \in Threads
        PROVE  /\ thread[u].pc \in HoldingPoints \union {"decided", "scanned"}
                    => decision'[thread[u].dec].action # "NO_ACTION"
               /\ \A e \in thread[u].batch : decision'[e].action # "NO_ACTION"
    BY <1>b, ThreadFields
    DEF LinkInv, OnlyActionsInReach, TypeInv, WorksOnDecision
  <2>. QED  BY <1>a, <1>b, <1>c, <2>1 DEF LinkInv, OnlyActionsInReach
<1>2. RepliesAreTrue'
  BY <1>a, <1>c DEF LinkInv, RepliesAreTrue, TypeInv, WorksOnDecision
<1>3. SentMeansLinked'
  BY <1>a, <1>b, <1>c DEF LinkInv, SentMeansLinked, TypeInv, TypeOK
<1>. QED  BY <1>1, <1>2, <1>3 DEF LinkInv

------------------------------------------------------------------------------
(* Every action is a step of one of these kinds. *)

Kind == \/ \E S \in SUBSET Threads : LetGo(S)
        \/ \E t \in Threads, d \in Decisions :
             \/ Take(t, d, "claimed") \/ Take(t, d, "recovering")
             \/ Decide(t, d) \/ ScanStale(t, d)
        \/ \E t \in Threads : Advance(t) \/ Settle(t)
        \/ \E d \in Decisions : NotifyPaid(d) \/ Arrive(d)
        \/ Tick
        \/ UNCHANGED <<decision, thread, link, late, outreach>>

LEMMA BecomeFree ==
  ASSUME TypeInv, NEW t \in Threads, NEW batch \in SUBSET Decisions,
         \A e \in batch : decision[e].action # "NO_ACTION",
         \/ Become(t, Idle) \/ Become(t, Listing) \/ Become(t, Draining(batch))
  PROVE  Free({t})
<1>1. PICK state \in {Idle, Listing, Draining(batch)} : Become(t, state)
  OBVIOUS
<1>2. /\ state.pc \in {"idle", "listing", "draining"}
      /\ state.batch \in {{}, batch}
  BY <1>1, FreshStates, FreeBatches
<1>3. /\ thread'[t] = state
      /\ \A u \in Threads : u # t => thread'[u] = thread[u]
  BY <1>1, BecomeEffect
<1>. QED  BY <1>2, <1>3 DEF Free

LEMMA DoneFree ==
  ASSUME TypeInv, LinkInv, NEW t \in Threads, Become(t, Done(t))
  PROVE  Free({t})
<1>1. /\ thread[t].batch \in SUBSET Decisions
      /\ \A e \in thread[t].batch : decision[e].action # "NO_ACTION"
  BY ThreadFields DEF LinkInv, OnlyActionsInReach
<1>2. Become(t, Idle) \/ Become(t, Draining(thread[t].batch))
  BY DEF Done
<1>. QED  BY <1>1, <1>2, BecomeFree

LEMMA LetGoKind ==
  ASSUME TypeInv, LinkInv, NEW t \in Threads, Free({t}),
         UNCHANGED <<decision, link, late, outreach>>
  PROVE  Kind
<1>1. {t} \in SUBSET Threads /\ LetGo({t})  BY DEF LetGo
<1>. QED  BY <1>1 DEF Kind

\* A request claims its decision, or leaves it to a worker.
LEMMA ClaimOwnKind ==
  ASSUME TypeInv, LinkInv, NEW h \in Hooks, ClaimOwn(h)
  PROVE  Kind
<1>. DEFINE d == thread[h].dec
<1>0. h \in Threads  BY DEF Threads
<1>1. d \in Decisions /\ decision[d].action # "NO_ACTION"
  BY <1>0, WorkingDecision DEF ClaimOwn, LinkInv, OnlyActionsInReach
<1>2. CASE Claimable(decision[d])
  <2>1. Take(h, d, "claimed")
    BY <1>1, <1>2 DEF ClaimOwn, Take, Claimable
  <2>. HIDE DEF d
  <2>. QED  BY <1>0, <1>1, <2>1 DEF Kind
<1>3. CASE ~ Claimable(decision[d])
  <2>1. Become(h, Idle) /\ UNCHANGED <<decision, link, late, outreach>>
    BY <1>3 DEF ClaimOwn
  <2>2. Free({h})
    <3>1. {} \in SUBSET Decisions  OBVIOUS
    <3>. QED  BY <1>0, <2>1, <3>1, BecomeFree
  <2>. QED  BY <1>0, <2>1, <2>2, LetGoKind
<1>. QED  BY <1>2, <1>3

\* Each step of a worker's cycle.
LEMMA CycleKind ==
  ASSUME TypeInv, LinkInv, NEW w \in Workers, Cycle(w)
  PROVE  Kind
<1>. USE DEF HoldingPoints, ExecutionPoints, RecoveryPoints, LoadedPoints
<1>0. w \in Threads  BY DEF Threads
<1>b. /\ thread[w].batch \in SUBSET Decisions
      /\ \A e \in thread[w].batch : decision[e].action # "NO_ACTION"
  BY <1>0, ThreadFields DEF LinkInv, OnlyActionsInReach
<1>f. ASSUME NEW batch \in SUBSET Decisions,
             \A e \in batch : decision[e].action # "NO_ACTION",
             \/ Become(w, Idle) \/ Become(w, Listing)
             \/ Become(w, Draining(batch)),
             UNCHANGED <<decision, link, late, outreach>>
      PROVE  Kind
  BY <1>0, <1>f, BecomeFree, LetGoKind
<1>e. {} \in SUBSET Decisions  OBVIOUS
<1>1. ASSUME NEW d \in Decisions, ScanStale(w, d) PROVE Kind
  BY <1>0, <1>1 DEF Kind
<1>2. ASSUME NEW d \in Decisions, ClaimNext(w, d) PROVE Kind
  <2>1. CASE Claimable(decision[d])
    <3>1. Take(w, d, "claimed")
      BY <1>b, <1>2, <2>1 DEF ClaimNext, Take, Claimable
    <3>. QED  BY <1>0, <3>1 DEF Kind
  <2>2. CASE ~ Claimable(decision[d])
    <3>. DEFINE batch == thread[w].batch \ {d}
    <3>1. /\ batch \in SUBSET Decisions
          /\ \A e \in batch : decision[e].action # "NO_ACTION"
      BY <1>b
    <3>2. /\ Become(w, Draining(batch))
          /\ UNCHANGED <<decision, link, late, outreach>>
      BY <1>2, <2>2 DEF ClaimNext
    <3>. HIDE DEF batch
    <3>. QED  BY <3>1, <3>2, <1>f
  <2>. QED  BY <2>1, <2>2
<1>3. CASE NothingStale(w)  BY <1>3, <1>e, <1>f DEF NothingStale
<1>4. CASE ClaimStale(w)
  <2>. DEFINE d == thread[w].dec
  <2>0. d \in Decisions /\ decision[d].action # "NO_ACTION"
    BY <1>0, <1>4, WorkingDecision DEF ClaimStale, LinkInv, OnlyActionsInReach
  <2>1. CASE decision[d].status = "EXECUTING" /\ thread[w].same
    <3>1. Take(w, d, "recovering")
      BY <1>4, <2>0, <2>1 DEF ClaimStale, Take
    <3>. HIDE DEF d
    <3>. QED  BY <1>0, <2>0, <3>1 DEF Kind
  <2>2. CASE ~ (decision[d].status = "EXECUTING" /\ thread[w].same)
    BY <1>4, <2>2, <1>e, <1>f DEF ClaimStale
  <2>. QED  BY <2>1, <2>2
<1>5. CASE ListEligible(w)
  <2>. DEFINE due == {d \in Decisions : Eligible(decision[d])}
              batch == Oldest(due, BatchSize)
  <2>1. /\ batch \in SUBSET Decisions
        /\ \A e \in batch : decision[e].action # "NO_ACTION"
    BY DEF Oldest, Eligible
  <2>2. /\ Become(w, Draining(batch))
        /\ UNCHANGED <<decision, link, late, outreach>>
    BY <1>5 DEF ListEligible
  <2>. HIDE DEF batch
  <2>. QED  BY <2>1, <2>2, <1>f
<1>6. CASE Sleep(w)  BY <1>6, <1>e, <1>f DEF Sleep
<1>7. CASE RecoverFound(w)
  <2>. DEFINE d == thread[w].dec
              new == ExecutedRow(decision[d])
  <2>1. d \in Decisions /\ decision[d] \in Rows
    BY <1>0, <1>7, WorkingDecision DEF RecoverFound
  <2>2. Free({w})
    BY <1>0, <1>7, <1>e, BecomeFree DEF RecoverFound, ScanOn
  <2>3. /\ new.status = "EXECUTED" /\ new.ref = TRUE
        /\ new.attempts = decision[d].attempts
        /\ new.action = decision[d].action
    BY <2>1, WriteFields
  <2>4. /\ decision'[d] = new
        /\ \A e \in Decisions : e # d => decision'[e] = decision[e]
    BY <1>7, <2>1, WriteEffect DEF RecoverFound
  <2>5. /\ thread[w].pc \in LoadedPoints /\ link[d] # "none"
        /\ UNCHANGED <<link, late, outreach>>
    BY <1>0, <1>7 DEF RecoverFound, LinkInv, RepliesAreTrue
  <2>. HIDE DEF new
  <2>6. Settle(w)  BY <2>2, <2>3, <2>4, <2>5 DEF Settle
  <2>. QED  BY <1>0, <2>6 DEF Kind
<1>8. CASE RecoverFailed(w)
  <2>. DEFINE d == thread[w].dec
  <2>1. d \in Decisions /\ decision[d] \in Rows
    BY <1>0, <1>8, WorkingDecision DEF RecoverFailed
  <2>2. Free({w})
    BY <1>0, <1>8, <1>e, BecomeFree DEF RecoverFailed, ScanOn
  <2>. DEFINE error == IF thread[w].reply = "missing" THEN "transient"
                                                      ELSE "mismatch"
  <2>3. PICK new \in AfterFailure(decision[d], thread[w].attempts, error) :
          Write(d, new)
    BY <1>8 DEF RecoverFailed
  <2>. HIDE DEF error
  <2>4. /\ new.action = decision[d].action
        /\ new.attempts = decision[d].attempts /\ new.ref = decision[d].ref
        /\ \/ new.status = "DECIDED" /\ Retryable(thread[w].attempts, error)
              /\ new.wait \in RetryDelays(thread[w].attempts)
           \/ new.status = "FAILED"
    BY <2>1, FailureRows
  <2>5. /\ decision'[d] = new
        /\ \A e \in Decisions : e # d => decision'[e] = decision[e]
    BY <2>1, <2>3, WriteEffect
  <2>6. thread[w].pc \in LoadedPoints /\ UNCHANGED <<link, late, outreach>>
    BY <1>8 DEF RecoverFailed
  <2>7. Settle(w)
    BY <2>2, <2>4, <2>5, <2>6 DEF Settle, Retryable
  <2>. QED  BY <1>0, <2>7 DEF Kind
<1>9. CASE RecoverLater(w)  BY <1>9, <1>e, <1>f DEF RecoverLater, ScanOn
<1>10. CASE RecoverAborts(w)  BY <1>10, <1>e, <1>f DEF RecoverAborts, StopScan
<1>. QED
  BY <1>1, <1>2, <1>3, <1>4, <1>5, <1>6, <1>7, <1>8, <1>9, <1>10 DEF Cycle

\* A thread that loads its row, where a LET hides nothing: Advance needs the
\* fields alone.
LEMMA LoadAdvances ==
  ASSUME TypeInv, NEW t \in Threads, NEW pc,
         \/ thread[t].pc = "claimed" /\ pc = "posting"
         \/ thread[t].pc = "answered" /\ pc = "looking"
         \/ thread[t].pc = "recovering" /\ pc = "reconciling",
         Become(t, Loaded(t, pc)),
         UNCHANGED <<decision, link, late, outreach>>
  PROVE  Advance(t)
<1>. DEFINE state == Loaded(t, pc)
<1>1. thread[t].dec \in Decisions /\ thread[t].batch = state.batch
  BY WorkingDecision DEF Loaded
<1>2. /\ state.pc = pc /\ state.reply = "none" /\ state.dec = thread[t].dec
      /\ state.status = decision[thread[t].dec].status
      /\ state.attempts = decision[thread[t].dec].attempts
  BY <1>1, LoadedStates DEF TypeInv
<1>3. /\ thread'[t] = state
      /\ \A u \in Threads : u # t => thread'[u] = thread[u]
  BY BecomeEffect
<1>. HIDE DEF state
<1>. QED
  BY <1>1, <1>2, <1>3
  DEF Advance, HoldingPoints, ExecutionPoints, RecoveryPoints, LoadedPoints

\* A thread that gets a reply, about its own reference alone.
LEMMA ReplyAdvances ==
  ASSUME TypeInv, NEW t \in Threads, NEW pc, NEW reply \in Replies,
         \/ thread[t].pc = "posting" /\ pc = "answered"
         \/ thread[t].pc = "looking" /\ pc = "looked"
         \/ thread[t].pc = "reconciling" /\ pc = "reconciled"
              /\ UNCHANGED <<link, late>>,
         Become(t, Replied(t, pc, reply)),
         reply \in {"created", "found"} => link'[thread[t].dec] # "none",
         reply = "missing" => Unlisted \/ link[thread[t].dec] # "visible",
         \A e \in Decisions : \/ link'[e] = link[e]
                              \/ e = thread[t].dec /\ link[e] = "none",
         late \subseteq late', late' \subseteq late \union {thread[t].dec},
         UNCHANGED <<decision, outreach>>
  PROVE  Advance(t)
<1>. DEFINE state == Replied(t, pc, reply)
<1>1. thread[t].batch = state.batch
  BY DEF Replied
<1>2. /\ state.pc = pc /\ state.reply = reply /\ state.dec = thread[t].dec
      /\ state.status = thread[t].status
      /\ state.attempts = thread[t].attempts
  BY RepliedStates DEF TypeInv
<1>3. /\ thread'[t] = state
      /\ \A u \in Threads : u # t => thread'[u] = thread[u]
  BY BecomeEffect
<1>. HIDE DEF state
<1>. QED
  BY <1>1, <1>2, <1>3
  DEF Advance, HoldingPoints, ExecutionPoints, RecoveryPoints, LoadedPoints

LEMMA PostKind ==
  ASSUME TypeInv, LinkInv, NEW t \in Threads, Post(t)
  PROVE  Kind
<1>. DEFINE d == thread[t].dec
<1>1. d \in Decisions /\ thread[t].pc = "posting"
  BY WorkingDecision DEF Post
<1>2. PICK reply \in PostReplies : Become(t, Replied(t, "answered", reply))
  BY DEF Post, PostReplies
<1>3. /\ \A e \in Decisions : \/ link'[e] = link[e]
                              \/ e = d /\ link[e] = "none"
      /\ late \subseteq late' /\ late' \subseteq late \union {d}
      /\ UNCHANGED <<decision, outreach>>
  BY DEF Post, TypeInv, TypeOK
<1>4. reply \in {"created", "found"} => link'[d] # "none"
  <2>1. thread'[t].reply = reply
    BY <1>2, BecomeEffect, RepliedStates DEF TypeInv, Replies
  <2>2. ASSUME NEW other \in PostReplies,
               Become(t, Replied(t, "answered", other))
        PROVE  other = reply
    BY <2>1, <2>2, BecomeEffect, RepliedStates DEF TypeInv, Replies
  <2>3. CASE link' = [link EXCEPT ![d] = "fresh"]
    BY <2>3, <1>1 DEF TypeInv, TypeOK
  <2>4. CASE Become(t, Replied(t, "answered", "duplicate"))
    BY <2>4, <2>2 DEF PostReplies
  <2>5. CASE \E other \in {"transient", "permanent", "unexpected"} :
               Become(t, Replied(t, "answered", other))
    BY <2>5, <2>2 DEF PostReplies
  <2>. QED  BY <2>3, <2>4, <2>5 DEF Post
<1>5. reply \in Replies /\ reply # "missing"
  BY <1>2 DEF Replies, PostReplies
<1>. HIDE DEF d
<1>6. Advance(t)
  BY <1>1, <1>2, <1>3, <1>4, <1>5, ReplyAdvances DEF d
<1>. QED  BY <1>6 DEF Kind

LEMMA LookupKind ==
  ASSUME TypeInv, LinkInv, NEW t \in Threads, Lookup(t)
  PROVE  Kind
<1>. DEFINE d == thread[t].dec
<1>1. PICK reply \in LookupReplies :
        /\ \/ /\ thread[t].pc = "looking"
              /\ Become(t, Replied(t, "looked", reply))
           \/ /\ thread[t].pc = "reconciling"
              /\ Become(t, Replied(t, "reconciled", reply))
        /\ reply \in {"created", "found"} => link[d] # "none"
        /\ reply = "missing" => Unlisted \/ link[d] # "visible"
  BY DEF Lookup, LookupReplies
<1>2. UNCHANGED <<decision, link, late, outreach>>  BY DEF Lookup
<1>3. reply \in Replies  BY <1>1 DEF Replies
<1>4. Advance(t)  BY <1>1, <1>2, <1>3, ReplyAdvances
<1>. QED  BY <1>4 DEF Kind

LEMMA RecordSuccessKind ==
  ASSUME TypeInv, LinkInv, NEW t \in Threads, RecordSuccess(t)
  PROVE  Kind
<1>. DEFINE d == thread[t].dec
            new == ExecutedRow(decision[d])
<1>0. thread[t].pc \in LoadedPoints /\ link[d] # "none"
  BY DEF RecordSuccess, Answered, LinkInv, RepliesAreTrue, LoadedPoints,
         HoldingPoints, ExecutionPoints, RecoveryPoints
<1>1. d \in Decisions /\ decision[d] \in Rows
  BY WorkingDecision DEF RecordSuccess, Answered
<1>2. Free({t})  BY DoneFree DEF RecordSuccess
<1>3. /\ new.status = "EXECUTED" /\ new.ref = TRUE
      /\ new.attempts = decision[d].attempts
      /\ new.action = decision[d].action
  BY <1>1, WriteFields
<1>4. /\ decision'[d] = new
      /\ \A e \in Decisions : e # d => decision'[e] = decision[e]
  BY <1>1, WriteEffect DEF RecordSuccess
<1>5. /\ UNCHANGED <<link, late>>
      /\ outreach' \in {outreach, outreach \union ({d} \intersect Reachable)}
  BY DEF RecordSuccess
<1>. HIDE DEF new
<1>6. Settle(t)  BY <1>0, <1>2, <1>3, <1>4, <1>5 DEF Settle
<1>. QED  BY <1>6 DEF Kind

LEMMA RecordFailureKind ==
  ASSUME TypeInv, LinkInv, NEW t \in Threads, RecordFailure(t)
  PROVE  Kind
<1>. DEFINE d == thread[t].dec
<1>0. thread[t].pc \in LoadedPoints
  BY DEF RecordFailure, Answered, LoadedPoints, HoldingPoints,
         ExecutionPoints, RecoveryPoints
<1>1. d \in Decisions /\ decision[d] \in Rows
  BY WorkingDecision DEF RecordFailure, Answered
<1>2. Free({t})  BY DoneFree DEF RecordFailure
<1>3. PICK new \in AfterFailure(decision[d], thread[t].attempts,
                                thread[t].reply) : Write(d, new)
  BY DEF RecordFailure
<1>4. /\ new.action = decision[d].action
      /\ new.attempts = decision[d].attempts /\ new.ref = decision[d].ref
      /\ \/ /\ new.status = "DECIDED"
            /\ Retryable(thread[t].attempts, thread[t].reply)
            /\ new.wait \in RetryDelays(thread[t].attempts)
         \/ new.status = "FAILED"
  BY <1>1, FailureRows
<1>5. /\ decision'[d] = new
      /\ \A e \in Decisions : e # d => decision'[e] = decision[e]
  BY <1>1, <1>3, WriteEffect
<1>6. UNCHANGED <<link, late, outreach>>  BY DEF RecordFailure
<1>7. Settle(t)
  BY <1>0, <1>2, <1>4, <1>5, <1>6 DEF Settle, Retryable
<1>. QED  BY <1>7 DEF Kind

\* Each step of an execution, by a request or by a worker.
LEMMA ExecuteKind ==
  ASSUME TypeInv, LinkInv, NEW t \in Threads, Execute(t)
  PROVE  Kind
<1>1. CASE Load(t)
  BY <1>1, LoadAdvances DEF Load, Kind
<1>2. CASE StartLookup(t)
  BY <1>2, LoadAdvances DEF StartLookup, Kind
<1>3. CASE Abandon(t)
  BY <1>3, DoneFree, LetGoKind DEF Abandon
<1>. QED
  BY <1>1, <1>2, <1>3, PostKind, LookupKind, RecordSuccessKind,
     RecordFailureKind DEF Execute

\* A process dies in the middle of whatever its threads were doing.
LEMMA CrashKind ==
  ASSUME TypeInv, LinkInv, NEW P \in Processes, Crash(P)
  PROVE  Kind
<1>1. P \in SUBSET Threads  BY RecoveryExecutionAssumption
<1>2. Free(P)
  BY <1>1, FreshStates, FreeBatches DEF Crash, Free, TypeInv, TypeOK
<1>3. \A e \in late' \ late : \E u \in P :
        thread[u].pc = "posting" /\ thread[u].dec = e
  BY DEF Crash
<1>4. LetGo(P)  BY <1>2, <1>3 DEF LetGo, Crash
<1>. QED  BY <1>1, <1>4 DEF Kind

LEMMA WriteFailsKind ==
  ASSUME TypeInv, LinkInv, NEW t \in Threads, WriteFails(t)
  PROVE  Kind
<1>1. CASE Become(t, Listing)
  <2>1. {} \in SUBSET Decisions  OBVIOUS
  <2>2. Free({t})  BY <1>1, <2>1, BecomeFree
  <2>. QED  BY <2>2, LetGoKind DEF WriteFails
<1>2. CASE Become(t, Done(t))
  BY <1>2, DoneFree, LetGoKind DEF WriteFails
<1>. QED  BY <1>1, <1>2 DEF WriteFails, StopScan

LEMMA StepKind ==
  ASSUME TypeInv, LinkInv, [Next]_vars
  PROVE  Kind
<1>1. ASSUME NEW h \in Hooks, NEW d \in Decisions, Decide(h, d) PROVE Kind
  <2>1. h \in Threads  BY DEF Threads
  <2>. QED  BY <1>1, <2>1 DEF Kind
<1>2. ASSUME NEW d \in Decisions, Arrive(d) \/ NotifyPaid(d) PROVE Kind
  BY <1>2 DEF Kind
<1>3. ASSUME NEW d \in Decisions, Pay(d) PROVE Kind
  BY <1>3 DEF Pay, Kind
<1>4. CASE Tick  BY <1>4 DEF Kind
<1>5. CASE UNCHANGED vars  BY <1>5 DEF vars, Kind
<1>. QED
  BY <1>1, <1>2, <1>3, <1>4, <1>5, ClaimOwnKind, CycleKind, ExecuteKind,
     WriteFailsKind, CrashKind DEF Next

------------------------------------------------------------------------------
(* Each kind keeps the invariants. *)

Kept == LinkInv' /\ (ClaimInv /\ ~ Stalls => ClaimInv')

\* The steps that touch nothing the invariants speak of.
LEMMA UnchangedKeeps ==
  ASSUME LinkInv, UNCHANGED <<decision, thread, link, late, outreach>>
  PROVE  Kept
<1>1. LinkInv'
  BY DEF LinkInv, OnlyActionsInReach, RepliesAreTrue, SentMeansLinked
<1>2. ClaimInv => ClaimInv'
  BY DEF ClaimInv, WorkIsTimely, ExclusiveExecution, Holds,
     LoadedRowIsCurrent, AttemptsBounded, ReferenceMeansSent, StaleIsQuiet,
     Quiet, MissesAreDefinitive, StaleMissIsDefinitive
<1>. QED  BY <1>1, <1>2 DEF Kept

LEMMA InvariantStep ==
  ASSUME TypeInv, LinkInv, [Next]_vars
  PROVE  Kept
<1>1. ASSUME NEW S \in SUBSET Threads, LetGo(S) PROVE Kept
  BY <1>1, LetGoKeepsClaims, LetGoKeepsLinks DEF Kept
<1>2. ASSUME NEW t \in Threads, NEW d \in Decisions,
             Take(t, d, "claimed") \/ Take(t, d, "recovering")
      PROVE  Kept
  BY <1>2, TakeKeepsClaims, TakeKeepsLinks DEF Kept
<1>3. ASSUME NEW t \in Threads, NEW d \in Decisions, Decide(t, d) PROVE Kept
  BY <1>3, DecideKeepsClaims, DecideKeepsLinks DEF Kept
<1>4. ASSUME NEW t \in Threads, NEW d \in Decisions, ScanStale(t, d)
      PROVE  Kept
  BY <1>4, ScanKeepsClaims, ScanKeepsLinks DEF Kept
<1>5. ASSUME NEW t \in Threads, Advance(t) PROVE Kept
  BY <1>5, AdvanceKeepsClaims, AdvanceKeepsLinks DEF Kept
<1>6. ASSUME NEW t \in Threads, Settle(t) PROVE Kept
  BY <1>6, SettleKeepsClaims, SettleKeepsLinks DEF Kept
<1>7. ASSUME NEW d \in Decisions, NotifyPaid(d) PROVE Kept
  BY <1>7, NotifyKeepsClaims, NotifyKeepsLinks DEF Kept
<1>8. ASSUME NEW d \in Decisions, Arrive(d) PROVE Kept
  BY <1>8, ArriveKeepsClaims, ArriveKeepsLinks DEF Kept
<1>9. CASE Tick  BY <1>9, TickKeepsClaims, TickKeepsLinks DEF Kept
<1>. QED
  BY <1>1, <1>2, <1>3, <1>4, <1>5, <1>6, <1>7, <1>8, <1>9, StepKind,
     UnchangedKeeps DEF Kind

LEMMA InvariantInit ==
  ASSUME Init
  PROVE  LinkInv /\ ClaimInv
<1>. USE DEF HoldingPoints, ExecutionPoints, RecoveryPoints
<1>1. \A d \in Decisions : /\ decision[d].status = "NONE"
                           /\ decision[d].action = "NO_ACTION"
                           /\ decision[d].attempts = 0
                           /\ decision[d].ref = FALSE
                           /\ link[d] = "none" /\ d \notin late
                           /\ d \notin outreach
  BY DEF Init, NoRow
<1>2. \A t \in Threads : thread[t].pc = "idle" /\ thread[t].batch = {}
  BY DEF Init, Idle
<1>3. LinkInv
  BY <1>1, <1>2 DEF LinkInv, OnlyActionsInReach, RepliesAreTrue,
                    SentMeansLinked
<1>4. ClaimInv
  BY <1>1, <1>2, RetryPolicyAssumption
  DEF ClaimInv, WorkIsTimely, ExclusiveExecution, Holds, LoadedPoints,
      LoadedRowIsCurrent, AttemptsBounded, ReferenceMeansSent, StaleIsQuiet,
      Quiet, MissesAreDefinitive, StaleMissIsDefinitive, Threads
<1>. QED  BY <1>3, <1>4

------------------------------------------------------------------------------
(* The theorems *)

LEMMA LinkInvariant == Spec => [](TypeInv /\ LinkInv)
<1>1. Init => TypeInv /\ LinkInv  BY TypeInit, InvariantInit
<1>2. TypeInv /\ LinkInv /\ [Next]_vars => (TypeInv /\ LinkInv)'
  BY TypeStep, InvariantStep DEF Kept
<1>. QED  BY <1>1, <1>2, PTL DEF Spec

LEMMA ClaimInvariant ==
  ASSUME ~ Stalls
  PROVE  Spec => []ClaimInv
<1>1. Init => ClaimInv  BY InvariantInit
<1>2. TypeInv /\ LinkInv /\ ClaimInv /\ [Next]_vars => ClaimInv'
  BY InvariantStep DEF Kept
<1>. QED  BY <1>1, <1>2, LinkInvariant, PTL DEF Spec

\* What is reported as executed, or entered for the cooldown, has its payment
\* link, however long a thread stalls and whatever crashes or is lost.
THEOREM SentLinked == Spec => []SentMeansLinked
<1>1. TypeInv /\ LinkInv => SentMeansLinked  BY DEF LinkInv
<1>. QED  BY <1>1, LinkInvariant, PTL

\* No execution ever starts for a decision to do nothing, and the provider is
\* never asked for a link for it.
THEOREM NoActionUntouched == Spec => []NoActionIsLeftAlone
<1>1. TypeInv /\ LinkInv => NoActionIsLeftAlone
  BY DEF LinkInv, OnlyActionsInReach, NoActionIsLeftAlone
<1>. QED  BY <1>1, LinkInvariant, PTL

\* For any number of requests, workers, processes and decisions, a decision is
\* worked on by one thread at a time, if none outlives the stale threshold.
THEOREM OneExecutor ==
  ASSUME ~ Stalls
  PROVE  Spec => []ExclusiveExecution
<1>1. ClaimInv => ExclusiveExecution  BY DEF ClaimInv
<1>. QED  BY <1>1, ClaimInvariant, PTL

\* The copy of the row a session decides by is the row, under that assumption.
THEOREM CurrentCopy ==
  ASSUME ~ Stalls
  PROVE  Spec => []LoadedRowIsCurrent
<1>1. ClaimInv => LoadedRowIsCurrent  BY DEF ClaimInv
<1>. QED  BY <1>1, ClaimInvariant, PTL

\* The attempt limit holds whatever mix of request, retries and recoveries
\* makes the attempts, under that assumption.
THEOREM BoundedAttempts ==
  ASSUME ~ Stalls
  PROVE  Spec => []AttemptsBounded
<1>1. ClaimInv => AttemptsBounded  BY DEF ClaimInv
<1>. QED  BY <1>1, ClaimInvariant, PTL

\* A decision carries the reference of its link exactly when it counts as
\* executed, under that assumption.
THEOREM ReferenceStored ==
  ASSUME ~ Stalls
  PROVE  Spec => []ReferenceMeansSent
<1>1. ClaimInv => ReferenceMeansSent  BY DEF ClaimInv
<1>. QED  BY <1>1, ClaimInvariant, PTL

\* Stale recovery's conclusion from a lookup without a match is right, under
\* that assumption and when each answer to a lookup holds a list: no link exists
\* and none is on its way.
THEOREM MissIsDefinitive ==
  ASSUME ~ Stalls, ~ Unlisted
  PROVE  Spec => []StaleMissIsDefinitive
<1>1. ClaimInv => StaleMissIsDefinitive
  BY DEF ClaimInv, MissesAreDefinitive
<1>. QED  BY <1>1, ClaimInvariant, PTL
=============================================================================
