------------------------- MODULE RecoveryExecution -------------------------
(***************************************************************************)
(* How a recovery decision becomes a payment link.  Two kinds of thread    *)
(* drive the decisions kept in the database: a webhook request that has    *)
(* just created one (app/event_processor.py) and the background workers    *)
(* (app/worker.py), which retry due decisions and recover those left in    *)
(* EXECUTING (app/stale_recovery.py).  Both call the link provider         *)
(* (app/executor_razorpay.py) between two short transactions, so other     *)
(* threads run between claiming a decision and recording what became of it.*)
(***************************************************************************)
EXTENDS DecisionStore, FiniteSets

CONSTANTS Hooks,        \* webhook request threads
          Workers,      \* background worker threads
          Processes,    \* the sets of threads that crash together
          Decisions,    \* ids, in order of created_at
          Reachable,    \* decisions whose payment has an email or a contact
          BatchSize,    \* worker_batch_size
          MaxFaults,    \* crashes, failed lookups and failed commits allowed
          Stalls,       \* may a thread stop for longer than StaleAfter?
          Unlisted      \* may a lookup be answered by no list of links?

Threads == Hooks \union Workers

ASSUME RecoveryExecutionAssumption ==
  /\ Hooks \intersect Workers = {}
  /\ Processes \subseteq SUBSET Threads
  /\ Decisions \subseteq Nat
  /\ Reachable \subseteq Decisions
  /\ BatchSize \in Nat \ {0}
  /\ MaxFaults \in Nat
  /\ Stalls \in BOOLEAN /\ Unlisted \in BOOLEAN

VARIABLES decision,     \* the recovery_decisions table
          thread,       \* where each thread is, and what its session cached
          link,         \* Razorpay: the payment link of a reference id
          late,         \* requests sent whose sender no longer waits
          outreach,     \* decisions with a row in customer_outreach_events
          paid,         \* the customer and the payment_link.paid webhook
          faults        \* faults spent

vars == <<decision, thread, link, late, outreach, paid, faults>>

\* Answers of POST /v1/payment_links and of the lookup by reference id, as
\* the exception (or the return) the executor turns them into.
PostReplies   == {"created", "duplicate", "transient", "permanent",
                  "unexpected"}
LookupReplies == {"found", "missing", "mismatch", "transient", "permanent",
                  "unexpected"}

\* A thread at these points has committed a claim on thread[t].dec.
ExecutionPoints == {"claimed", "posting", "answered", "looking", "looked"}
RecoveryPoints  == {"recovering", "reconciling", "reconciled"}
HoldingPoints   == ExecutionPoints \union RecoveryPoints
\* At these its session has loaded the row since the claim.
LoadedPoints    == HoldingPoints \ {"claimed", "recovering"}

Points == {"idle", "decided", "scanned", "listing", "draining"}
            \union HoldingPoints

NoDecision == -1

ThreadStates == [pc       : Points,
                 dec      : Decisions \union {NoDecision},
                 status   : Statuses,    \* decision_status as loaded
                 attempts : Nat,         \* execution_attempts as loaded
                 same     : BOOLEAN,     \* execution_started_at as scanned?
                 batch    : SUBSET Decisions,
                 reply    : PostReplies \union LookupReplies \union {"none"}]

Idle == [pc |-> "idle", dec |-> NoDecision, status |-> "NONE",
         attempts |-> 0, same |-> FALSE, batch |-> {}, reply |-> "none"]

\* A worker about to list the due decisions, and one working through them.
Listing == [Idle EXCEPT !.pc = "listing"]
Draining(batch) == [Idle EXCEPT !.pc = "draining", !.batch = batch]

\* The thread is done with its decision: a request answers, a worker goes on
\* with its candidate list.
Done(t) == IF t \in Hooks THEN Idle ELSE Draining(thread[t].batch)

\* The thread's session has loaded its row, or got a reply from the provider.
Loaded(t, pc) == [thread[t] EXCEPT !.pc = pc, !.reply = "none",
                    !.status = decision[thread[t].dec].status,
                    !.attempts = decision[thread[t].dec].attempts]
Replied(t, pc, reply) == [thread[t] EXCEPT !.pc = pc, !.reply = reply]

\* Thread t claims d, and moves to pc.
Claiming(t, d, pc) == [Idle EXCEPT !.pc = pc, !.dec = d,
                                   !.batch = thread[t].batch \ {d}]

\* The claim writes execution_started_at: what other threads read of it in
\* their scan no longer matches.
ThreadsAfterClaim(t, d, pc) ==
  [u \in Threads |->
     IF u = t THEN Claiming(t, d, pc)
     ELSE IF thread[u].dec = d THEN [thread[u] EXCEPT !.same = FALSE]
     ELSE thread[u]]

Write(d, row)    == decision' = [decision EXCEPT ![d] = row]
Become(t, state) == thread' = [thread EXCEPT ![t] = state]

Init == /\ decision = [d \in Decisions |-> NoRow]
        /\ thread = [t \in Threads |-> Idle]
        /\ link = [d \in Decisions |-> "none"]
        /\ late = {}
        /\ outreach = {}
        /\ paid = [d \in Decisions |-> "unpaid"]
        /\ faults = 0

------------------------------------------------------------------------------
(* The webhook request: payment.failed *)

\* The decision is inserted and committed, with the action the policy and the
\* guardrails leave; a decision to do nothing ends the request.
Decide(h, d) ==
  /\ thread[h].pc = "idle"
  /\ decision[d].status = "NONE"
  /\ \A e \in Decisions : e < d => decision[e].status /= "NONE"
  /\ \/ /\ \E status \in {"DECIDED", "PENDING_POLICY"} :
             Write(d, NewRow(status, "NO_ACTION"))
        /\ UNCHANGED thread
     \/ /\ Write(d, NewRow("DECIDED", "SEND_PAYMENT_LINK"))
        /\ Become(h, [Idle EXCEPT !.pc = "decided", !.dec = d])
  /\ UNCHANGED <<link, late, outreach, paid, faults>>

\* The request claims its own decision, unless a worker was faster.
ClaimOwn(h) ==
  LET d == thread[h].dec IN
  /\ thread[h].pc = "decided"
  /\ \/ /\ Claimable(decision[d])
        /\ Write(d, ClaimedRow(decision[d]))
        /\ thread' = ThreadsAfterClaim(h, d, "claimed")
     \/ /\ ~ Claimable(decision[d])
        /\ Become(h, Idle)
        /\ UNCHANGED decision
  /\ UNCHANGED <<link, late, outreach, paid, faults>>

------------------------------------------------------------------------------
(* The worker cycle *)

\* claim_stale_execution, first half: read one stale row.
ScanStale(w, d) ==
  /\ thread[w].pc = "idle"
  /\ Stale(decision[d])
  /\ Become(w, [Idle EXCEPT !.pc = "scanned", !.dec = d, !.same = TRUE])
  /\ UNCHANGED <<decision, link, late, outreach, paid, faults>>

\* Nothing is stale: the recovery loop ends.
NothingStale(w) ==
  /\ thread[w].pc = "idle"
  /\ \A d \in Decisions : ~ Stale(decision[d])
  /\ Become(w, Listing)
  /\ UNCHANGED <<decision, link, late, outreach, paid, faults>>

\* claim_stale_execution, second half: compare-and-set on the status and on
\* execution_started_at.  Losing the race ends the recovery loop.
ClaimStale(w) ==
  LET d == thread[w].dec
      won == decision[d].status = "EXECUTING" /\ thread[w].same
  IN
  /\ thread[w].pc = "scanned"
  /\ \/ /\ won
        /\ Write(d, StaleClaimedRow(decision[d]))
        /\ thread' = ThreadsAfterClaim(w, d, "recovering")
     \/ /\ ~ won
        /\ Become(w, Listing)
        /\ UNCHANGED decision
  /\ UNCHANGED <<link, late, outreach, paid, faults>>

\* ORDER BY created_at LIMIT n
Oldest(S, n) == {d \in S : Cardinality({e \in S : e < d}) < n}

\* The ids of the due decisions are read once and then worked through.
ListEligible(w) ==
  LET due == {d \in Decisions : Eligible(decision[d])} IN
  /\ thread[w].pc = "listing"
  /\ Become(w, Draining(Oldest(due, BatchSize)))
  /\ UNCHANGED <<decision, link, late, outreach, paid, faults>>

\* The next candidate is claimed, or skipped when it is DECIDED no longer.
ClaimNext(w, d) ==
  /\ thread[w].pc = "draining"
  /\ d \in thread[w].batch
  /\ \A e \in thread[w].batch : d <= e
  /\ \/ /\ Claimable(decision[d])
        /\ Write(d, ClaimedRow(decision[d]))
        /\ thread' = ThreadsAfterClaim(w, d, "claimed")
     \/ /\ ~ Claimable(decision[d])
        /\ Become(w, Draining(thread[w].batch \ {d}))
        /\ UNCHANGED decision
  /\ UNCHANGED <<link, late, outreach, paid, faults>>

\* The list is empty: the worker sleeps until its next poll.
Sleep(w) ==
  /\ thread[w].pc = "draining"
  /\ thread[w].batch = {}
  /\ Become(w, Idle)
  /\ UNCHANGED <<decision, link, late, outreach, paid, faults>>

------------------------------------------------------------------------------
(* Execution, by a request or by a worker *)

\* After the commit of the claim the session loads the row again; what it
\* loads here is what the code below sees until its next commit.
Load(t) ==
  /\ \/ thread[t].pc = "claimed"    /\ Become(t, Loaded(t, "posting"))
     \/ thread[t].pc = "recovering" /\ Become(t, Loaded(t, "reconciling"))
  /\ UNCHANGED <<decision, link, late, outreach, paid, faults>>

\* create_payment_link.  The provider keeps one link per reference id.  An
\* answer may be lost after the link was made (a timeout), come back without
\* the link's id (permanent) or in a shape the client does not expect; and a
\* request the client gave up on may still be under way.
Post(t) ==
  LET d == thread[t].dec
      answer(reply) == Become(t, Replied(t, "answered", reply))
  IN
  /\ thread[t].pc = "posting"
  /\ \/ /\ link[d] = "none"
        /\ link' = [link EXCEPT ![d] = "fresh"]
        /\ \E reply \in PostReplies \ {"duplicate"} : answer(reply)
        /\ UNCHANGED late
     \/ /\ link[d] /= "none"
        /\ answer("duplicate")
        /\ UNCHANGED <<link, late>>
     \/ /\ \E reply \in {"transient", "permanent", "unexpected"} :
             answer(reply)
        /\ UNCHANGED <<link, late>>
     \/ /\ answer("transient")
        /\ late' = late \union {d}
        /\ UNCHANGED link
  /\ UNCHANGED <<decision, outreach, paid, faults>>

\* DuplicateReferenceExecutionError: the audit row is committed, and the
\* session loads the decision again on its next use.
StartLookup(t) ==
  /\ thread[t].pc = "answered"
  /\ thread[t].reply = "duplicate"
  /\ Become(t, Loaded(t, "looking"))
  /\ UNCHANGED <<decision, link, late, outreach, paid, faults>>

\* reconcile_duplicate_reference: up to three queries for the reference id.
\* A fresh link may not be in the provider's index yet.  An answer that holds no
\* list is read as an empty one.
Lookup(t) ==
  LET d == thread[t].dec
      answer(reply) ==
        \/ /\ thread[t].pc = "looking"
           /\ Become(t, Replied(t, "looked", reply))
        \/ /\ thread[t].pc = "reconciling"
           /\ Become(t, Replied(t, "reconciled", reply))
  IN
  /\ thread[t].pc \in {"looking", "reconciling"}
  /\ \/ /\ link[d] /= "none"
        /\ \E reply \in {"found", "mismatch"} : answer(reply)
        /\ UNCHANGED faults
     \/ /\ link[d] /= "visible"
        /\ answer("missing")
        /\ UNCHANGED faults
     \/ /\ Unlisted /\ faults < MaxFaults
        /\ answer("missing")
        /\ faults' = faults + 1
     \/ /\ faults < MaxFaults
        /\ \E reply \in {"transient", "permanent", "unexpected"} :
             answer(reply)
        /\ faults' = faults + 1
  /\ UNCHANGED <<decision, link, late, outreach, paid>>

\* The thread holds an answer to write down; Answered(t, R) says it is in R.
Answered(t, post, lookup) ==
  \/ thread[t].pc = "answered" /\ thread[t].reply \in post
  \/ thread[t].pc = "looked"   /\ thread[t].reply \in lookup

\* Mutant: a timeout is taken for a link.
RecordSuccessMutant(t) ==
  LET d == thread[t].dec IN
  /\ Answered(t, {"created", "transient"}, {"found"})
  /\ thread[t].status = "EXECUTING"
  /\ Write(d, ExecutedRow(decision[d]))
  /\ outreach' = outreach \union ({d} \intersect Reachable)
  /\ Become(t, Done(t))
  /\ UNCHANGED <<link, late, paid, faults>>

\* The link exists: EXECUTED, the reference and the outreach row, one commit.
RecordSuccess(t) ==
  LET d == thread[t].dec IN
  /\ Answered(t, {"created"}, {"found"})
  /\ thread[t].status = "EXECUTING"
  /\ Write(d, ExecutedRow(decision[d]))
  /\ outreach' = outreach \union ({d} \intersect Reachable)
  /\ Become(t, Done(t))
  /\ UNCHANGED <<link, late, paid, faults>>

\* A transient or a permanent error, of the POST or of the lookup after it.
RecordFailure(t) ==
  LET d == thread[t].dec
      errors == {"transient", "permanent", "mismatch"}
  IN
  /\ Answered(t, errors, errors)
  /\ thread[t].status = "EXECUTING"
  /\ \E row \in AfterFailure(decision[d], thread[t].attempts,
                             thread[t].reply) :
       Write(d, row)
  /\ Become(t, Done(t))
  /\ UNCHANGED <<link, late, outreach, paid, faults>>

\* Nothing is written about the decision: an unexpected exception, a lookup
\* that finds no link (AmbiguousStateError is not caught), or ValueError
\* because the loaded status was not EXECUTING.
Abandon(t) ==
  /\ thread[t].pc \in {"answered", "looked"}
  /\ \/ Answered(t, {"unexpected"}, {"missing", "unexpected"})
     \/ thread[t].status /= "EXECUTING" /\ thread[t].reply /= "duplicate"
  /\ Become(t, Done(t))
  /\ UNCHANGED <<decision, link, late, outreach, paid, faults>>

------------------------------------------------------------------------------
(* Stale recovery: the outcome of a lookup alone *)

\* Where the worker goes from here: the recovery loop takes the next stale
\* row, unless an exception ended it.
ScanOn(w)   == Become(w, Idle)
StopScan(w) == Become(w, Listing)

\* One matching link: EXECUTED and the reference, with no outreach row.
RecoverFound(w) ==
  LET d == thread[w].dec IN
  /\ thread[w].pc = "reconciled"
  /\ thread[w].reply = "found"
  /\ thread[w].status = "EXECUTING"
  /\ Write(d, ExecutedRow(decision[d]))
  /\ ScanOn(w)
  /\ UNCHANGED <<link, late, outreach, paid, faults>>

\* No link: as after a transient error of the attempt already counted.  A
\* mismatch is permanent.
RecoverFailed(w) ==
  LET d == thread[w].dec
      error == IF thread[w].reply = "missing" THEN "transient" ELSE "mismatch"
  IN
  /\ thread[w].pc = "reconciled"
  /\ thread[w].reply \in {"missing", "mismatch"}
  /\ thread[w].status = "EXECUTING"
  /\ \E row \in AfterFailure(decision[d], thread[w].attempts, error) :
       Write(d, row)
  /\ ScanOn(w)
  /\ UNCHANGED <<link, late, outreach, paid, faults>>

\* The lookup itself failed: EXECUTING stays, to be found stale again.
RecoverLater(w) ==
  /\ thread[w].pc = "reconciled"
  /\ thread[w].reply \in {"transient", "permanent"}
  /\ ScanOn(w)
  /\ UNCHANGED <<decision, link, late, outreach, paid, faults>>

\* Any other exception, ValueError included, stops the recovery loop.
RecoverAborts(w) ==
  /\ thread[w].pc = "reconciled"
  /\ \/ thread[w].reply = "unexpected"
     \/ /\ thread[w].reply \in {"found", "missing", "mismatch"}
        /\ thread[w].status /= "EXECUTING"
  /\ StopScan(w)
  /\ UNCHANGED <<decision, link, late, outreach, paid, faults>>

------------------------------------------------------------------------------
(* payment_link.paid *)

\* The customer pays through a link that exists.
Pay(d) ==
  /\ link[d] /= "none"
  /\ paid[d] = "unpaid"
  /\ paid' = [paid EXCEPT ![d] = "paid"]
  /\ UNCHANGED <<decision, thread, link, late, outreach, faults>>

\* Mutant: correlation by the decision id alone.
NotifyPaidMutant(d) ==
  /\ paid[d] = "paid"
  /\ paid' = [paid EXCEPT ![d] = "notified"]
  /\ Write(d, ObservedRow(decision[d]))
  /\ UNCHANGED <<thread, link, late, outreach, faults>>

\* The webhook finds the decision by the reference in the link's notes and
\* sets OUTCOME_OBSERVED; when no row carries the reference it is skipped.
NotifyPaid(d) ==
  /\ paid[d] = "paid"
  /\ paid' = [paid EXCEPT ![d] = "notified"]
  /\ \/ /\ decision[d].ref
        /\ Write(d, ObservedRow(decision[d]))
     \/ ~ decision[d].ref /\ UNCHANGED decision
  /\ UNCHANGED <<thread, link, late, outreach, faults>>

------------------------------------------------------------------------------
(* Faults and time *)

\* The commit fails (a locked database, say) and the session rolls back.
WriteFails(t) ==
  /\ thread[t].pc \in {"answered", "looked", "reconciled"}
  /\ faults < MaxFaults
  /\ faults' = faults + 1
  /\ \/ thread[t].pc = "reconciled" /\ StopScan(t)
     \/ /\ thread[t].pc /= "reconciled"
        /\ Become(t, Done(t))
  /\ UNCHANGED <<decision, link, late, outreach, paid>>

\* A process dies and restarts; its sessions are gone, and of the requests it
\* was sending, some are still under way.
Crash(P) ==
  /\ faults < MaxFaults
  /\ \E t \in P : thread[t] /= Idle
  /\ faults' = faults + 1
  /\ \E sent \in SUBSET {d \in Decisions : \E t \in P :
                             thread[t].pc = "posting" /\ thread[t].dec = d} :
       late' = late \union sent
  /\ thread' = [t \in Threads |-> IF t \in P THEN Idle ELSE thread[t]]
  /\ UNCHANGED <<decision, link, outreach, paid>>

\* A request under way reaches the provider, or is lost.
Arrive(d) ==
  /\ d \in late
  /\ late' = late \ {d}
  /\ \/ link[d] = "none" /\ link' = [link EXCEPT ![d] = "fresh"]
     \/ UNCHANGED link
  /\ UNCHANGED <<decision, thread, outreach, paid, faults>>

\* Without stalls a tick of the clock finds every request settled, and every
\* thread done with its claim before the row passes the stale threshold: of what
\* a thread does meanwhile only the calls of the provider take long, and these
\* are short enough (ProviderProofs).
Timely == /\ late = {}
          /\ \A t \in Threads : thread[t].pc \in HoldingPoints =>
               decision[thread[t].dec].age < StaleAfter

Tick ==
  /\ Stalls \/ Timely
  /\ decision' = [d \in Decisions |-> OlderRow(decision[d])]
  /\ link' = [d \in Decisions |-> IF link[d] = "fresh" THEN "visible"
                                  ELSE link[d]]
  /\ UNCHANGED <<thread, late, outreach, paid, faults>>

------------------------------------------------------------------------------
Execute(t) == \/ Load(t) \/ Post(t) \/ StartLookup(t) \/ Lookup(t)
              \/ RecordSuccess(t) \/ RecordFailure(t) \/ Abandon(t)

Cycle(w) == \/ \E d \in Decisions : ScanStale(w, d) \/ ClaimNext(w, d)
            \/ NothingStale(w) \/ ClaimStale(w) \/ ListEligible(w) \/ Sleep(w)
            \/ RecoverFound(w) \/ RecoverFailed(w) \/ RecoverLater(w)
            \/ RecoverAborts(w)

Next == \/ \E h \in Hooks : ClaimOwn(h) \/ \E d \in Decisions : Decide(h, d)
        \/ \E w \in Workers : Cycle(w)
        \/ \E t \in Threads : Execute(t) \/ WriteFails(t)
        \/ \E P \in Processes : Crash(P)
        \/ \E d \in Decisions : Arrive(d) \/ Pay(d) \/ NotifyPaid(d)
        \/ Tick

Spec == Init /\ [][Next]_vars

\* Threads are scheduled, calls to the provider end within their timeout, and
\* the clock runs.  Nothing obliges a payment to fail or a customer to pay.
Fairness == /\ \A h \in Hooks : WF_vars(ClaimOwn(h))
            /\ \A w \in Workers : WF_vars(Cycle(w))
            /\ \A t \in Threads : WF_vars(Execute(t))
            /\ \A d \in Decisions : WF_vars(Arrive(d))
            /\ WF_vars(Tick)

FairSpec == Spec /\ Fairness
=============================================================================
