# Recovery Opportunity Engine: verification

TLA+ models of the Payment Recovery Opportunity Engine, TLC configurations that
check them on small instances, and TLAPS proofs of what matters most for every
size. Paths of the program are relative to the repository (`app/...`).

## 1. The system

A payment gateway (Razorpay) reports failed payments by webhook. For each the
engine decides, by a model and a few guardrails, whether to send the customer a
new payment link, sends it through the gateway's API, and learns by another
webhook that it was paid. Everything is kept in one SQLite database; the actors
are the request threads of the web server and one background worker per process.

| Component | State it keeps | Operations | Interacts with |
|---|---|---|---|
| Webhook endpoint `app/webhooks.py` | `webhook_events` | reject, receive, deduplicate, answer | event processor, in the request's session |
| Event processor `app/event_processor.py` | the transaction of one event | one handler per kind of event, failure path | crud, policy, guardrails, execution |
| Payment records `app/crud.py` | `payment_records` | three upserts | read by guardrails, features, dashboard |
| Experiment `app/experiment.py` | none | hash a customer, or else a payment, into a group | event processor |
| Guardrails `app/guardrails.py` | none (reads decisions and outreach) | `evaluate` | between the policy and the decision |
| Decision store `app/crud.py`, `app/models.py` | `recovery_decisions` | create, claim, claim stale, mark executed / retryable / failed, outcome | every executor |
| Execution `app/execution.py` | a session's copy of the decision | create link, reconcile a duplicate, record the result | decision store, Razorpay client |
| Retry worker `app/worker.py` | a list of candidates | one cycle: recover stale, list, claim, execute | decision store, execution, stale recovery |
| Stale recovery `app/stale_recovery.py` | a session's copy | look the link up, record the result | Razorpay client, decision store |
| Retry policy `app/retry_policy.py` | none | `calculate_retry` | execution, stale recovery |
| Razorpay client `app/executor_razorpay.py` | the loop of one call | POST a link, look it up by reference in up to three queries, classify the answer | the gateway |
| Dashboard metrics `app/dashboard_metrics.py` | none | counts and sums, live and by experiment group | all tables |
| Model, features, simulator, training, scripts, migrations | artifacts, schema | offline, or pure scoring | policy |

What is hard here:

* **Slow calls between short transactions.** Claiming a decision, calling the
  gateway and recording the result are separate steps; a request, workers of
  several processes and stale recovery interleave between them, and each trusts
  the copy its session loaded before the call.
* **Lost answers.** A POST may create the link and time out, or arrive after its
  sender gave up; a lookup may miss a link too fresh for the gateway's index. The
  timeout of the client is one of each wait on the socket, not of the call.
* **Crashes.** A process may die at any of these points; the only trace is a row
  in EXECUTING, found stale ten minutes later.
* **Repeated and reordered webhooks.** Events come twice, while the first copy is
  in process, late, or after an error or a rejection; processing may fail half-way.
* **Guardrails over moving state.** They look once at decisions and contacts that
  other threads are about to change.

What makes the components right: a decision is executed by one thread at a time
and a bounded number of times; what is reported as sent was sent; a retry cannot
make a second link; every decision with an action is settled in the end; an event
is processed once, whole or not at all; a capture is never taken back; who is in
the control group is left alone; a call of the gateway ends soon enough for its
decision not to look abandoned.

## 2. Modules

| Module | Models | Notes |
|---|---|---|
| `RetryPolicy` | `app/retry_policy.py` | delays in ticks; `math.pow(2, n)` is a recursive function; the jitter factor becomes the set of waits it can yield |
| `DecisionStore` | a `recovery_decisions` row and the crud functions on it | timestamps become ages and waits relative to now |
| `DecisionLifecycle` | the abstract promise about a decision | no threads, timers or lost answers |
| `RecoveryExecution` | execution, worker, stale recovery, gateway | extends `DecisionStore` |
| `RecoveryProperties` | the properties of `RecoveryExecution` | instantiates `DecisionLifecycle` |
| `RecoveryProofs`, `RecoverySafetyProofs`, `LifecycleProofs`, `RetryProofs` | theorems of `RecoveryExecution` | section 6 |
| `ProviderClient` | `app/executor_razorpay.py` and the gateway, one call request by request | refines `Post` and `Lookup` |
| `ProviderProperties` | the properties of `ProviderClient` | instantiates `RecoveryExecution` |
| `ProviderProofs` | theorems of `ProviderClient` | section 6 |
| `WebhookIntake` | endpoint, event processor, payment records, experiment, guardrails | composes with `DecisionLifecycle`, contacts included |
| `EventDelivery` | the abstract promise about an event | no requests, transactions or statuses |
| `DashboardMetrics` | `app/dashboard_metrics.py` | extends `WebhookIntake` with the counts read off its tables |
| `WebhookProperties` | the properties of `WebhookIntake` and of the metrics | instantiates `EventDelivery` |
| `IntakeProofs`, `DeliveryProofs`, `DashboardProofs` | theorems of `WebhookIntake` and of the metrics | section 6 |
| `MCRecoveryExecution`, `MCProviderClient`, `MCWebhookIntake` | instances for TLC | |

The parts are three levels of one system.

* `ProviderClient` takes a call of the gateway apart into requests, waits, sleeps
  and answers. `AnswersAsModelled` shows that each of its steps is one that
  `RecoveryExecution` takes for the thread in that call, or none.
* `RecoveryExecution` takes the execution of a decision apart into threads, claims,
  calls and commits. `KeepsLifecycle` shows that it implements `DecisionLifecycle`
  under `StageOf`.
* `WebhookIntake` uses the actions of `DecisionLifecycle`, in `Execute` and in the
  handlers, in place of the threads: what the intake relies on is what the
  executors deliver, with the contacts that the cooldown reads. `KeepsDelivery` shows
  that it implements `EventDelivery` under `Fate`.

### RecoveryExecution and the code

`decision` is the table. `thread[t]` says where a thread is and what its session
has cached: `status` and `attempts` are those of the row when it was loaded,
`same` says whether `execution_started_at` still is what the scan read, and
`batch` is the candidate list. A point of `pc` lies before each step another
thread could observe:

| `pc` | Code |
|---|---|
| `decided` | request: after the commit of the decision (event_processor.py:313) |
| `claimed`, `recovering` | after the commit of a claim, before the reload |
| `posting`, `answered` | before and after `create_payment_link` |
| `looking`, `looked` | before and after the lookup that follows a duplicate |
| `scanned` | between the SELECT and the UPDATE of `claim_stale_execution` |
| `reconciling`, `reconciled` | before and after the lookup of stale recovery |
| `listing`, `draining` | before the list of due decisions, and working through it |

`Post` and `Lookup` are the gateway: `link[d]` is `none`, `fresh` (made, perhaps
not indexed yet) or `visible`; `late` holds requests whose sender gave up. Each
class of exception of `app/executor.py` is one reply. `RecordSuccess`,
`RecordFailure` and `Abandon` are the branches of `execute_recovery_decision`, the
`Recover...` actions the cases A to D of `reconcile_stale_decision`. `WriteFails`
is a failed commit, `Crash(P)` the death of a process, `Tick` the clock. One tick
also makes fresh links visible.

`Stalls = FALSE` is the assumption the code is built on: a thread that holds a
claim is done before the row looks stale, and a request under way is settled by
then. `Timely` states it as a guard of `Tick`. With `Stalls = TRUE` a thread may
sleep through it. What the assumption rests on is the time a call of the gateway
can take: `HeldBriefly` bounds it by the client's timeouts. With a POST and three
queries of three waits each (connect, send, read) of ten seconds
(executor_razorpay.py:48) and two sleeps of a second that is 122 seconds, against
a threshold of 600.

`Unlisted = TRUE` is a gateway that may answer a lookup with a 200 whose object holds
no list, or a null one. The client reads that as an empty list
(executor_razorpay.py:285), so `Lookup` may then deny a link that the index has; it
counts as a fault, like a failed lookup. Stale recovery's conclusion
(`StaleMissIsDefinitive`) needs `Unlisted = FALSE`; nothing else does.

### ProviderClient and the code

`at` is the call, named as the thread's `pc` above: `posting` is
`create_payment_link`, `looking` the lookup after a duplicate, `reconciling` that of
stale recovery. `query` is the loop variable of `reconcile_duplicate_reference`,
`wait` the time left to the current wait or sleep, `left` the waits the request still
has, and `elapsed` the time since the call began. `answer` is what the gateway made of
the request: not handled yet (`Pending`), handled with an answer that is lost
(`Lost`), or a status code and a body. There is one code of each class the client
tells apart, and one body: among them 503 and 507, which are a retry to the POST and,
the latter, none to the lookup; an object that is neither a link nor a list; JSON of
another shape; text that is no JSON.
`PostOutcome` and `GetOutcome` are the branches of the two functions, in their order.
`ServePost`, `ServeGet`, `Index` and `Arrive` are the gateway, `Progress` a wait that
is over in time, `GiveUp` httpx's timeout or transport error. A second is one `Tick`,
which happens only while the client waits or sleeps.

### WebhookIntake and the code

`event` is the status column of `webhook_events`, `record` that of
`payment_records`. A request is `received` after the commit of RECEIVED
(webhooks.py:175) and `executing` after the commit that precedes execution
(event_processor.py:313). Between two commits a handler is one step: its first
write takes SQLite's write lock and the commit releases it. `Fail` is the failure path
(roll back, FAILED unless that fails too, 500), `Crash` a restart. `Reject` is a
delivery whose signature does not verify: `_persist_rejected_webhook` may store it as
SIGNATURE_INVALID under the event id it claims, so that the genuine delivery is a
duplicate; it counts as a fault.

`AssignmentId` is the id that the experiment hashes: the customer's, or the payment's
when there is none. `Bucket` is the hash modulo 100, a constant function; `Control` is
the ids whose bucket is below the percentage. The proposal for these is to do nothing
(`Variant`). For the others the policy may propose either action (`Proposals`), and
`Evaluate`, the guardrails, lets it pass or turns it into NO_ACTION by rules 2 and 3
(`AlreadyPursued`, `CoolingDown`). Rule 1 turns a missing prediction into NO_ACTION,
which is always among the proposals. All contacts of a behaviour lie within one
cooldown window. A payment.failed event names its decision, of which it has at most
one.

`EventDelivery` knows four fates of an event. It is `new` until it is stored, `taken`
while a request works on it, `applied` once what it asks for is committed (of a
payment.failed the decision, of the others all their handler writes), and `lost` when
a fault ended its processing, or a delivery of it was rejected, before that. `Receive`
is a `Take`, or an `Answer` if the event is stored; `Handle` is an `Apply`; `Fail`,
`Crash` and `Reject` are a `Fault` that loses at most what is not applied. `Finish`
answers, and the execution of a decision is not seen.

`DashboardMetrics` adds no step. Its operators are the queries of `get_live_summary`
and `get_experiment_metrics` over `stage` and `record`: `Decided` is `recovery_decisions`,
`Executed` and `Paid` the rows by status, `Recovered` the join with the payments under
`is_recovered_condition`. `Amount` is the amount of a payment, which a record gets when
it is created and keeps (crud.py:173, 250). `Revenue` is the SQL sum of amounts, taken
as the size of the set of all their units, so that no recursion is needed.

## 3. Runs

| Run | Instance | Shows |
|---|---|---|
| `recovery_safety` | 1 decision, 1 request + 2 workers in 2 processes, 3 attempts, 3 faults | type, exclusion, copies current, attempts bounded, retries spaced, sent means linked, refinement |
| `recovery_liveness` | 2 decisions, batch of 1, 1 request + 1 worker, 2 attempts, 1 fault, `Unlisted` | every decision with an action is settled |
| `provider` | timeout 2, 2 waits a request, 3 queries, a pause of 1, threshold 19 | a call is short, ends, and is what `RecoveryExecution` takes it for |
| `intake` | failures of both payments of an order, the capture of one, its order.paid, a paid link, an event of no interest; one payer unknown and in the control group, amounts of 2 and 3; 2 requests, 1 fault | processed once, whole, and answered; captures and metrics stick; the control group is left alone; a lost event shows in its status; refinement of `EventDelivery` |

The remaining runs end in a counterexample, each to one statement of the
repository:

| Run | Statement | Counterexample |
|---|---|---|
| `backoff_claim` | a decision whose retry lies in the future is not executed (tests/test_worker.py:65) | worker A lists it, another thread executes it and puts it back with a wait, A claims it: the claim checks the status alone |
| `outcome_claim` | payment_link.paid closes the loop (event_processor.py:482) | the webhook comes before the reference is stored, is skipped, and is a duplicate from then on |
| `outreach_claim` | each outreach is recorded (models.py:380) | stale recovery finds the link and writes no outreach row |
| `ack_claim` | "Event already received and processed." (webhooks.py:159) | the first delivery is rejected, or its processing fails with 500; the next one is a duplicate |
| `duplicate_claim` | no second action on a payment (guardrails.py:71) | the first decision is EXECUTING or FAILED when the second is made |
| `cooldown_claim` | no re-outreach within the cooldown (guardrails.py:36) | both decisions are made before either contact is entered |
| `late_claim` | the decision is made for a failed payment (models.py:250) | the capture is processed first; the failure that follows leaves CAPTURED and is pursued |
| `revenue_claim` | revenue collected through recovery links (dashboard.py:113) | a NO_ACTION payment is captured anyway |

Bounds. `MaxFaults` bounds crashes, failed lookups and failed commits together (in the
intake: crashes, errors and rejections); two suffice for a fault during the recovery
from another, and a third for one more retry of it. Decisions interact in one place
only, the batch of a worker: one decision shows the races of threads on it, two with a
batch of one show that none is starved by the other. Three attempts have a first, a
middle and a last one. In `recovery_safety` the base delay of five and the cap of six
make the second backoff one that the cap cuts, and the jitter leaves a choice in both:
four or five ticks after the first failure, five to seven after the second. A threshold
of one tick is enough for a row to be fresh or stale.

In `provider` the times of the longest call (8 for the POST's and the queries' four
requests of two waits, 2 each, and two pauses) add up to 18, so that a threshold of 19
is as tight as the assumption on the constants allows, and one more query or one
second that no timeout ends breaks it. Three queries have a first, a middle and a last
one.

In `intake` one payment has a failure, a capture and an order.paid that may come in
any order, and a customer with bucket 50, the first that is treated at a percentage of
50. The other belongs to a payer without an email or a contact; its own id has bucket
49, the last in control. One fault is the most that fits the time TLC is given, and no
payment fails twice here; the theorems hold for any number of both.

Deadlock checking is on in every run but `provider`, where a call ends.

## 4. Fairness

`RecoveryExecution!Fairness`: request and worker threads are scheduled, calls to the
gateway return within their timeout, a request under way arrives or is lost, and
the clock runs. There is none for a payment to fail, a customer to pay or a fault
to happen; faults are bounded, since a decision whose lookups fail forever stays
in EXECUTING by design (case D). That workers are scheduled takes `worker_enabled`,
which is off by default (config.py): without a worker nothing retries or recovers a
decision. `WebhookIntake!Fairness`: the provider delivers an
event again until it is answered (README.md:313), and a request that stored its
event goes on. A first delivery is not owed.

`ProviderClient!Fairness`: the client handles an answer and goes on after a sleep, its
timeouts fire, and the clock runs. The gateway owes nothing, no answer either.

## 5. What the properties are for

* `ExclusiveExecution`, `LoadedRowIsCurrent`: two mechanisms claim a decision, one by
  status and one by a timestamp, and what is written afterwards rests on a copy.
* `AttemptsBounded`: the claim increments the counter without looking at it.
* `RetriesAreSpaced`, `RetriesFollowCount`: the backoff is computed from a counter other
  threads advance, in a copy loaded before a slow call.
* `EveryDecisionSettles`: a dozen places leave a decision in EXECUTING with nobody at
  work on it.
* `StaleMissIsDefinitive`: the comment at stale_recovery.py:45 that an empty lookup
  proves there is no link. It does if the answer was a list: with `Unlisted = TRUE` TLC
  refutes the property on the instance of `recovery_safety`, by a POST whose result is
  not recorded and a later lookup that is answered without a list. The decision is then
  retried, or FAILED at the limit, although its link can be paid; the gateway's
  reference id still prevents a second link.
* `SentMeansLinked`, `ReferenceMeansSent`, `NoActionIsLeftAlone`, `KeepsLifecycle`:
  what the rows report, against what the gateway has.
* `HandledOnce`, `HandledWhole`: deduplication by a UNIQUE constraint, and
  transactions split by a commit in the middle of a handler.
* `CaptureSticks`: reordered events.
* `KeepsDelivery`: deduplication, two commits a handler, redelivery, failures and
  restarts together apply no event twice, by halves, or after it was lost, and touch no
  other payment's record.
* `LossIsOnRecord`: `ack_claim` shows that an event may be answered and never
  processed. This is what holds of it all the same: it takes a fault, and the stored
  status tells, so that the event can be found and processed by hand.
* `EveryEventServed`: redelivery stops although events fail, crash and are rejected.
* `ControlUntouched`: the group is drawn by an id that falls back to another, once per
  event, and retries and recoveries never ask again.
* `MetricsOnlyGrow`: no number shown is taken back, whatever order the events come in;
  it needs every status the queries count to be one that is not left for an uncounted
  one.
* `HeldBriefly`: the timeout is per wait, the call a loop of requests, and exclusion
  rests on their sum.
* `AnswersAsModelled`: two classifications of answers that differ (a 5xx outside the
  list is retried after a POST and not after a lookup), answers that could pass for an
  empty list, a POST handled after it was given up on. Of the bodies of a 200, those
  without a list do pass for one, and are the only answers that deny a link the index
  has; an error, a body of another shape or a lost answer is never one.
* `EveryCallReturns`: a gateway that never answers, and an index that never catches
  up.

## 6. Proofs

`Spec => []...` for every set of threads, processes, decisions and events, every
number of attempts, faults and ticks, any timeouts and any number of queries.

| Theorem | Property | Assumes |
|---|---|---|
| `RecoveryProofs!TypeCorrect` | `TypeOK` | |
| `RecoverySafetyProofs!SentLinked` | `SentMeansLinked` | |
| `RecoverySafetyProofs!NoActionUntouched` | `NoActionIsLeftAlone` | |
| `RecoverySafetyProofs!OneExecutor` | `ExclusiveExecution` | `~ Stalls` |
| `RecoverySafetyProofs!CurrentCopy` | `LoadedRowIsCurrent` | `~ Stalls` |
| `RecoverySafetyProofs!BoundedAttempts` | `AttemptsBounded` | `~ Stalls` |
| `RecoverySafetyProofs!ReferenceStored` | `ReferenceMeansSent` | `~ Stalls` |
| `RecoverySafetyProofs!MissIsDefinitive` | `StaleMissIsDefinitive` | `~ Stalls`, `~ Unlisted` |
| `LifecycleProofs!LifecycleKept` | `KeepsLifecycle` | `~ Stalls` |
| `RetryProofs!RetriesCount` | `RetriesFollowCount` | `~ Stalls` |
| `RetryProofs!RetriesSpaced` | `RetriesAreSpaced` | `~ Stalls` |
| `RetryProofs!BackoffDoubles` | about `Backoff` | |
| `RetryProofs!FailureIsRecorded` | about `AfterFailure` | |
| `ProviderProofs!CallTypeCorrect` | `TypeOK` of the client | |
| `ProviderProofs!CallsAreShort` | `HeldBriefly` | the sum of the waits is below the threshold |
| `ProviderProofs!ClientAnswersAsModelled` | `AnswersAsModelled` | |
| `IntakeProofs!IntakeTypeCorrect` | `TypeOK` of the intake | |
| `IntakeProofs!ProcessedOnce` | `HandledOnce` | |
| `IntakeProofs!ProcessedWhole` | `HandledWhole` | |
| `IntakeProofs!CapturesStay` | `CaptureSticks` | |
| `IntakeProofs!ControlIsUntouched` | `ControlUntouched` | |
| `IntakeProofs!OneFresh` | `OneFreshDecision`, of no run | |
| `DeliveryProofs!DeliveryKept` | `KeepsDelivery` | |
| `DeliveryProofs!LossesOnRecord` | `LossIsOnRecord` | |
| `DashboardProofs!CountsStay` | `MetricsOnlyGrow` | finitely many events, amounts in Nat |

`TypeCorrect` is inductive by itself. The others rest on two invariants of
`RecoveryProperties`, both also checked by TLC.

`LinkInv` needs no clock. To know that a decision to do nothing is never claimed
one must know that no thread, list or scan can lead to one (`OnlyActionsInReach`);
to know that what is sent has a link one must know that a reply that says so is
true (`RepliesAreTrue`).

`ClaimInv` is where exclusion comes from, and its parts need each other. A row
that someone works on is EXECUTING and not yet stale, and what a scan found stale
is so still unless it was claimed since (`WorkIsTimely`): so neither kind of claim
can succeed while another thread holds one. From one holder per row follows that
nobody else changes the row between load and write (`LoadedRowIsCurrent`), so that
the counter compared with the limit is the row's (`AttemptsBounded`) and the
status checked is EXECUTING (`ReferenceMeansSent`). A row that got stale has seen a
whole threshold pass, hence nothing of it is on its way (`StaleIsQuiet`), and a
lookup that misses is right (`StaleMissIsDefinitive`), unless it was answered without a
list. The other parts hold with such answers too, and so does all of `LinkInv`.

The proof sorts actions by what they do to a decision: leave it alone (`Free`), let
go of it (`LetGo`), take it (`Take`), advance its holder (`Advance`), settle it
(`Settle`), or let time pass. Each action is shown to be of its kind once, and each
invariant is shown to survive each kind.

`LifecycleKept` maps each of these kinds to one action of `DecisionLifecycle` or to a
stutter. A contact is entered by a `Settle` that settles the decision as EXECUTED, and
by nothing else, as in `Succeed`. Two cases need `ClaimInv`: a thread that records its
result changes the row it loaded, so its copy of the counter is the abstract one; and a
decision is given up or retried on the right side of the limit. One more invariant is
needed, `StartedInv`: a row in EXECUTING has been started at least once.

`RetriesCount` follows from the same kinds: only a `Settle` puts a decision back, and
its thread has the row's count (`LoadedRowIsCurrent`), from which the wait is drawn.

`RetriesSpaced` adds what that wait is. `PowerOfTwo` is defined by recursion, and the
induction needed is over a set of numbers, not a predicate: a set of naturals that has
0 and each successor is all of them, since its complement would have a least element
(`Induction`). From it follow that a function with the equations of `PowerOfTwo` exists
(`PowersExist`, pasted together from its finite beginnings, which agree), hence that
the definition unfolds (`PowerUnfolds`); that the backoff doubles until it meets the
cap (`BackoffDoubles`); and that it lies between the base delay and the cap
(`BackoffBounds`). `StartedInv` gives the attempt number its lower bound.
`FailureIsRecorded` uses the same bounds to show that the choice of a wait is never
empty: the model does not rule out a failure by leaving it no row to write.

`CallsAreShort` follows from a budget (`TimesInv`): the time elapsed and the longest
time the rest of the call can take (the current wait, the waits left, the queries and
sleeps left, and for a POST a whole lookup) never exceed the sum the constants allow.
A step of the clock moves one unit from the second to the first; every other step
takes from the second. `ClientAnswersAsModelled` needs only to know where the call is
(`AtInv`) and that a sleeping client has seen an empty list and has queries left
(`SleepInv`). Serving the last request, or giving up on it, is `Post` or `Lookup`;
serving one that is followed by another is a stutter; `Reconcile` is `StartLookup`.

For the intake `HandledOnce` is inductive with the type invariant; `HandledWhole`
and `CaptureSticks` follow with it: a status of RECEIVED or PROCESSING belongs to a
request that nobody else doubles. `ControlUntouched` follows from the stages: the
decision of a control payment is declined, and no action leaves that stage.

`DeliveryKept` maps each action of the intake to one of `EventDelivery` or to a
stutter. What is stored of an event says its fate only together with the requests
(`FateNow`): RECEIVED is an event at work, or one lost in a restart, and for this
`HandledOnce` and `HandledWhole` are needed. The action of one request leaves the fates
of all other events alone (`FateKept`, `OthersWorkOn`), since no two work on one event.
`LossesOnRecord` needs two more invariants: that nothing is lost before the first fault
and an answered event is not new (`DeliveryInv`), proved on the abstract steps alone;
and that only a payment.failed is ever left at PROCESSING (`ProcessingInv`), which then
has its decision, so that no status but the three listed can hide a loss.

`CountsStay` shows that each set counted only grows, and cites the monotony of
cardinality for finite sets; the units of the revenue are finitely many
(`UnitsAreFinite`) and grow with the set of decisions they belong to (`RevenueGrows`).

`OneFresh` is the other side of `duplicate_claim`: rule 2 does not keep a payment from
having two decisions, but from having two that wait to be executed for the first time.
It is inductive with the fact that what is executing was started (`FreshInv`), so that a
decision put back by a retry does not count as fresh. No run checks it: the instance of
`intake` has one failure of each payment. TLC finds it true on that of
`duplicate_claim`, with two faults.

Left to TLC: liveness (`EveryDecisionSettles`, `EveryEventServed`,
`EveryCallReturns`), which is beyond the provers, and the statements the claim runs
refute. Every invariant and action property of the passing runs is a theorem.

## 7. Not modelled

* Scoring (`app/ml`), training and the offline simulator: arithmetic on floats. What
  the policy chooses is free, within what it can return. `app/ml/features.py` reads a
  record and its history into a vector and changes nothing.
* Scripts, analysis, migrations, Streamlit pages: tools and layout.
* Bodies that are no event (400, nothing stored under an event id), read-only endpoints,
  audit rows, counters and logs: nothing in the program decides on them. The
  expected value and the guardrail counts of the metrics are sums of scores and audit
  rows.
* PostgreSQL, for which the handlers' serialization would have to be argued anew.
* Statuses no code writes (REFUNDED, AUTHORIZED, DUPLICATE).
* The five columns an experiment or prediction fills in a decision.
* Startup and shutdown (`app/main.py`): a stop is a crash of its threads. The join of
  ten seconds lets some of them end, which a crash that may or may not happen includes.
* An exception of the query that lists a worker's candidates, which skips a cycle.

Limits of what is modelled:

* `SocketWaits` bounds the waits of a request. httpx times each wait on the socket and
  a server that sends its answer byte by byte could have more of them.
* `HeldBriefly` is about the call of the gateway. The commits before and after it may
  wait for SQLite's lock, a few seconds each, which the distance between 122 and 600
  covers.
* All contacts lie within one cooldown window, and every event of a payment gives it the
  same customer and amount.

## 8. Plan

1. Done: `RetryPolicy`, `DecisionStore`, `RecoveryExecution`, `DecisionLifecycle`,
   `WebhookIntake`, with their runs and proofs; the proof that `RecoveryExecution`
   implements `DecisionLifecycle`.
2. Done: `ProviderClient`, its runs and the proof that it gives the replies
   `RecoveryExecution` uses, within the threshold; rejected deliveries; the draw of
   the experiment's groups; `DashboardMetrics`.
3. Done: `EventDelivery` and the proof that the intake implements it; induction over
   the attempts, and with it the waits; contacts as a part of `DecisionLifecycle`; the
   revenue for any amounts; `OneFreshDecision`.
4. Left: the intake under PostgreSQL, where handlers interleave; the expected values of
   the metrics, which are sums of scores.
