--------------------------- MODULE ProviderProofs ---------------------------
(***************************************************************************)
(* A call of the provider is over before the stale threshold, for any      *)
(* timeout, number of waits and of queries, and sleep.  The time spent and *)
(* the longest that the rest of the call may take stay within a budget.    *)
(***************************************************************************)
EXTENDS ProviderProperties, TLAPS

Budget == RequestTime + Queries * RequestTime + (Queries - 1) * Pause

\* The longest that k waits take, and n queries still to be sent with m sleeps.
Waiting(k) == k * Timeout
Ahead(n, m) == n * RequestTime + m * Pause

SleepsAhead == IF query = 0 THEN Queries - 1 ELSE Queries - query

\* The longest that the call may go on.
Rest == CASE phase = "waiting"  -> wait + Waiting(left)
                                     + Ahead(Queries - query, SleepsAhead)
          [] phase = "sleeping" -> wait + Ahead(Queries - query,
                                                Queries - query - 1)
          [] phase = "done"     -> Ahead(Queries - query, SleepsAhead)

TimesInv == /\ at = "posting" <=> query = 0
            /\ query \in 0..Queries
            /\ phase \in {"waiting", "sleeping", "done"}
            /\ phase = "sleeping" => query \in 1..(Queries - 1)
            /\ wait \in Nat /\ left \in 0..(SocketWaits - 1) /\ elapsed \in Nat
            /\ elapsed + Rest <= Budget

LEMMA Multiples ==
  ASSUME NEW c \in Nat
  PROVE  /\ \A m \in Nat : m * c \in Nat
         /\ \A m \in Nat \ {0} : c + (m - 1) * c = m * c
OBVIOUS

LEMMA Times ==
  /\ RequestTime \in Nat /\ Timeout \in Nat /\ Pause \in Nat
  /\ \A k \in Nat : Waiting(k) \in Nat
  /\ \A k \in Nat \ {0} : Waiting(k) = Timeout + Waiting(k - 1)
  /\ RequestTime = Timeout + Waiting(SocketWaits - 1)
BY ProviderAssumption, Multiples DEF RequestTime, Waiting

\* One query fewer, one sleep fewer.
LEMMA AheadLess ==
  ASSUME NEW n \in Nat, NEW m \in Nat
  PROVE  /\ Ahead(n, m) \in Nat
         /\ n > 0 => Ahead(n, m) = RequestTime + Ahead(n - 1, m)
         /\ m > 0 => Ahead(n, m) = Pause + Ahead(n, m - 1)
<1>1. n * RequestTime \in Nat /\ m * Pause \in Nat  BY Times, Multiples
<1>2. n > 0 => RequestTime + (n - 1) * RequestTime = n * RequestTime
  BY Times, Multiples
<1>3. m > 0 => Pause + (m - 1) * Pause = m * Pause  BY Times, Multiples
<1>4. n > 0 => (n - 1) * RequestTime \in Nat
  <2>1. n > 0 => n - 1 \in Nat  OBVIOUS
  <2>. QED  BY <2>1, Times, Multiples
<1>5. m > 0 => (m - 1) * Pause \in Nat
  <2>1. m > 0 => m - 1 \in Nat  OBVIOUS
  <2>. QED  BY <2>1, Times, Multiples
<1>. QED  BY <1>1, <1>2, <1>3, <1>4, <1>5, Times DEF Ahead

LEMMA BudgetParts ==
  /\ Budget = RequestTime + Ahead(Queries, Queries - 1)
  /\ Budget \in Nat /\ Budget < StaleAfter
  /\ Ahead(Queries, Queries - 1) = RequestTime + Ahead(Queries - 1, Queries - 1)
  /\ Ahead(Queries - 1, Queries - 1) \in Nat
<1>1. Queries \in Nat \ {0} /\ Queries - 1 \in Nat  BY ProviderAssumption
<1>2. Queries * RequestTime \in Nat /\ (Queries - 1) * Pause \in Nat
  BY <1>1, Times, Multiples
<1>3. Budget = RequestTime + Ahead(Queries, Queries - 1)
  BY <1>2, Times DEF Budget, Ahead
<1>4. Budget < StaleAfter  BY ProviderAssumption, Zenon DEF Budget
<1>5. /\ Ahead(Queries, Queries - 1) \in Nat
      /\ Ahead(Queries - 1, Queries - 1) \in Nat
      /\ Ahead(Queries, Queries - 1) =
           RequestTime + Ahead(Queries - 1, Queries - 1)
  BY <1>1, AheadLess
<1>. QED  BY <1>3, <1>4, <1>5, Times

\* What the steps below compute with.
LEMMA Parts ==
  ASSUME TimesInv
  PROVE  /\ Queries - query \in Nat /\ SleepsAhead \in Nat
         /\ Waiting(left) \in Nat
         /\ left > 0 => Waiting(left) = Timeout + Waiting(left - 1)
         /\ Ahead(Queries - query, SleepsAhead) \in Nat
         /\ phase = "sleeping" =>
              Ahead(Queries - query, Queries - query - 1) \in Nat
         /\ Rest \in Nat
<1>1. /\ Queries - query \in Nat /\ SleepsAhead \in Nat /\ left \in Nat
      /\ phase = "sleeping" => Queries - query - 1 \in Nat
  BY ProviderAssumption DEF TimesInv, SleepsAhead
<1>2. /\ Waiting(left) \in Nat
      /\ left > 0 => Waiting(left) = Timeout + Waiting(left - 1)
  BY <1>1, Times
<1>3. /\ Ahead(Queries - query, SleepsAhead) \in Nat
      /\ phase = "sleeping" =>
           Ahead(Queries - query, Queries - query - 1) \in Nat
  BY <1>1, AheadLess
<1>. QED  BY <1>1, <1>2, <1>3 DEF TimesInv, Rest

LEMMA TimesInit == Init => TimesInv
<1>. SUFFICES ASSUME Init PROVE TimesInv  OBVIOUS
<1>1. /\ Queries \in Nat \ {0} /\ SocketWaits - 1 \in 0..(SocketWaits - 1)
      /\ Timeout \in Nat
  BY ProviderAssumption
<1>2. query \in {0, 1} /\ (at = "posting" <=> query = 0)  BY DEF Init
<1>3. Rest <= Budget /\ Rest \in Nat
  <2>1. Rest = RequestTime + Ahead(Queries - query, SleepsAhead)
    BY Times DEF Init, Rest
  <2>2. CASE query = 0
    BY <1>1, <2>1, <2>2, BudgetParts DEF SleepsAhead
  <2>3. CASE query = 1
    BY <1>1, <2>1, <2>3, BudgetParts, Times DEF SleepsAhead
  <2>. QED  BY <1>2, <2>2, <2>3
<1>. QED  BY <1>1, <1>2, <1>3 DEF TimesInv, Init

LEMMA TimesStep == TimesInv /\ [Next]_vars => TimesInv'
<1>. SUFFICES ASSUME TimesInv, [Next]_vars PROVE TimesInv'  OBVIOUS
<1>. DEFINE n == Queries - query
<1>1. CASE ServePost \/ ServeGet \/ Index \/ Arrive \/ UNCHANGED vars
  <2>1. UNCHANGED <<at, phase, query, wait, left, elapsed>>
    BY <1>1 DEF ServePost, ServeGet, Index, Arrive, vars
  <2>. QED  BY <2>1 DEF TimesInv, Rest, SleepsAhead
<1>2. CASE Progress
  <2>1. /\ UNCHANGED <<at, phase, query, elapsed, SleepsAhead>>
        /\ phase = "waiting" /\ left > 0 /\ left' = left - 1
        /\ wait' = Timeout /\ left' \in 0..(SocketWaits - 1)
    BY <1>2, ProviderAssumption DEF Progress, TimesInv, SleepsAhead
  <2>2. Rest' <= Rest /\ Rest' \in Nat
    <3>1. left' \in Nat /\ wait' \in Nat
      BY <2>1, Times, ProviderAssumption
    <3>. QED  BY <2>1, <3>1, Parts, Times DEF TimesInv, Rest
  <2>. QED  BY <2>1, <2>2, Parts, BudgetParts, Times DEF TimesInv
<1>3. CASE Receive
  <2>1. CASE Again /\ phase' = "sleeping" /\ wait' = Pause
    <3>1. /\ UNCHANGED <<at, query, left, elapsed>> /\ phase = "waiting"
          /\ query # 0 /\ query < Queries
      <4>1. at # "posting"
        BY <2>1 DEF Again, Outcome, PostOutcome
      <4>. QED  BY <1>3, <2>1, <4>1 DEF Receive, Again, TimesInv
    <3>2. n \in Nat \ {0} /\ SleepsAhead = n /\ n - 1 \in Nat
      BY <3>1, ProviderAssumption DEF TimesInv, SleepsAhead
    <3>3. Ahead(n, n) = Pause + Ahead(n, n - 1)
      BY <3>2, AheadLess
    <3>4. Rest' = Pause + Ahead(n, n - 1)
      BY <2>1, <3>1 DEF Rest
    <3>5. Rest = wait + Waiting(left) + Ahead(n, n)
      BY <3>1, <3>2 DEF Rest
    <3>6. Rest' <= Rest /\ Rest' \in Nat
      BY <3>2, <3>3, <3>4, <3>5, AheadLess, Parts, Times DEF TimesInv
    <3>7. query' \in 1..(Queries - 1) /\ wait' \in Nat
      BY <2>1, <3>1, Times, ProviderAssumption DEF TimesInv
    <3>. QED
      BY <2>1, <3>1, <3>6, <3>7, Parts, BudgetParts DEF TimesInv
  <2>2. CASE phase' = "done" /\ UNCHANGED wait
    <3>1. /\ UNCHANGED <<at, query, left, elapsed, wait, SleepsAhead>>
          /\ phase = "waiting"
      BY <1>3, <2>2 DEF Receive, SleepsAhead
    <3>2. Rest' <= Rest /\ Rest' \in Nat
      BY <2>2, <3>1, Parts DEF Rest, TimesInv
    <3>. QED  BY <2>2, <3>1, <3>2, Parts, BudgetParts DEF TimesInv
  <2>. QED  BY <1>3, <2>1, <2>2 DEF Receive
<1>4. CASE GiveUp
  <2>1. /\ UNCHANGED <<at, query, left, elapsed, wait, SleepsAhead>>
        /\ phase = "waiting" /\ phase' = "done"
    BY <1>4 DEF GiveUp, SleepsAhead
  <2>2. Rest' <= Rest /\ Rest' \in Nat
    BY <2>1, Parts DEF Rest, TimesInv
  <2>. QED  BY <2>1, <2>2, Parts, BudgetParts DEF TimesInv
<1>5. CASE NextQuery
  <2>1. /\ n \in Nat \ {0} /\ n - 1 \in Nat /\ query \in 1..(Queries - 1)
        /\ phase = "sleeping" /\ wait = 0 /\ phase' = "waiting"
        /\ UNCHANGED <<at, elapsed>> /\ query' = query + 1
        /\ wait' = Timeout /\ left' = SocketWaits - 1
    BY <1>5, ProviderAssumption DEF NextQuery, Send, TimesInv
  <2>2. Ahead(n, n - 1) = RequestTime + Ahead(n - 1, n - 1)
    BY <2>1, AheadLess
  <2>3. Queries - query' = n - 1 /\ SleepsAhead' = n - 1 /\ query' # 0
    BY <2>1, ProviderAssumption DEF SleepsAhead
  <2>4. Rest' = RequestTime + Ahead(n - 1, n - 1)
    BY <2>1, <2>3, Times DEF Rest
  <2>5. Rest = Ahead(n, n - 1)  BY <2>1, Parts DEF Rest
  <2>6. query' \in 1..Queries /\ left' \in 0..(SocketWaits - 1) /\ wait' \in Nat
    BY <2>1, ProviderAssumption
  <2>. QED
    BY <2>1, <2>2, <2>3, <2>4, <2>5, <2>6 DEF TimesInv
<1>6. CASE Reconcile
  <2>1. /\ query = 0 /\ phase = "done" /\ phase' = "waiting" /\ query' = 1
        /\ UNCHANGED elapsed /\ at' # "posting"
        /\ wait' = Timeout /\ left' = SocketWaits - 1
    BY <1>6 DEF Reconcile, Send, TimesInv
  <2>2. SleepsAhead = Queries - 1 /\ SleepsAhead' = Queries - 1
    BY <2>1 DEF SleepsAhead
  <2>3. Rest = Ahead(Queries, Queries - 1)
    BY <2>1, <2>2, ProviderAssumption DEF Rest
  <2>4. Rest' = RequestTime + Ahead(Queries - 1, Queries - 1)
    BY <2>1, <2>2, Times DEF Rest
  <2>5. query' \in 1..Queries /\ left' \in 0..(SocketWaits - 1) /\ wait' \in Nat
    BY <2>1, ProviderAssumption
  <2>. QED
    BY <2>1, <2>3, <2>4, <2>5, BudgetParts DEF TimesInv
<1>7. CASE Tick
  <2>1. /\ UNCHANGED <<at, phase, query, left, SleepsAhead>>
        /\ phase # "done" /\ wait > 0 /\ wait' = wait - 1
        /\ elapsed' \in {elapsed, elapsed + 1}
    BY <1>7 DEF Tick, SleepsAhead
  <2>2. Rest' = Rest - 1
    BY <2>1, Parts DEF Rest, TimesInv
  <2>. QED  BY <2>1, <2>2, Parts, BudgetParts DEF TimesInv
<1>. QED
  BY <1>1, <1>2, <1>3, <1>4, <1>5, <1>6, <1>7 DEF Next, Provider, Client

\* No call of the provider lasts as long as the stale threshold, whatever the
\* provider does and whichever requests the call consists of.
THEOREM CallsAreShort == Spec => []HeldBriefly
<1>1. TimesInv => HeldBriefly
  BY Parts, BudgetParts, ProviderAssumption DEF TimesInv, HeldBriefly
<1>. QED  BY <1>1, TimesInit, TimesStep, PTL DEF Spec

------------------------------------------------------------------------------
(* Types *)

LEMMA TypeConstants ==
  /\ Timeout \in 0..(Timeout + Pause) /\ Pause \in 0..(Timeout + Pause)
  /\ SocketWaits - 1 \in 0..(SocketWaits - 1)
  /\ 0 \in 0..Queries /\ 1 \in 0..Queries /\ 0 \in 0..StaleAfter
  /\ Pending \in {Pending, Lost} \union Answer(Codes, Bodies)
BY ProviderAssumption

LEMMA TypeInit == Init => TypeOK
BY TypeConstants DEF Init, TypeOK

\* What the provider answers is an answer.
LEMMA AnswersTyped ==
  /\ \A codes \in SUBSET Codes, bodies \in SUBSET Bodies :
       Answer(codes, bodies) \subseteq Answer(Codes, Bodies)
  /\ {200} \subseteq Codes /\ {503, 507} \subseteq Codes
  /\ [code |-> 400, body |-> "duplicate"] \in Answer(Codes, Bodies)
  /\ [code |-> 200, body |-> "empty"] \in Answer(Codes, Bodies)
<1>1. \A codes \in SUBSET Codes, bodies \in SUBSET Bodies :
        Answer(codes, bodies) \subseteq Answer(Codes, Bodies)
  BY DEF Answer
<1>2. /\ {200} \subseteq Codes /\ {503, 507} \subseteq Codes
      /\ 400 \in Codes /\ 200 \in Codes
      /\ "duplicate" \in Bodies /\ "empty" \in Bodies
  BY DEF Codes, Bodies
<1>. QED  BY <1>1, <1>2 DEF Answer

LEMMA ServeTyped ==
  ASSUME ServePost \/ ServeGet
  PROVE  answer' \in {Pending, Lost} \union Answer(Codes, Bodies)
<1>1. CASE ServePost
  BY <1>1, AnswersTyped DEF ServePost, Bodies
<1>2. CASE ServeGet
  BY <1>2, AnswersTyped DEF ServeGet, Bodies
<1>. QED  BY <1>1, <1>2

LEMMA TypeStep == TypeOK /\ TimesInv /\ [Next]_vars => TypeOK'
<1>. SUFFICES ASSUME TypeOK, TimesInv, [Next]_vars PROVE TypeOK'  OBVIOUS
<1>. USE DEF TypeOK
<1>1. CASE ServePost
  <2>1. link' \in {"none", "fresh", "visible"}
    BY <1>1 DEF ServePost
  <2>. QED  BY <1>1, <2>1, ServeTyped DEF ServePost
<1>2. CASE ServeGet
  BY <1>2, ServeTyped DEF ServeGet
<1>3. CASE Index \/ Arrive \/ UNCHANGED vars
  BY <1>3 DEF Index, Arrive, vars
<1>4. CASE Progress
  <2>1. left' \in 0..(SocketWaits - 1)
    BY <1>4, ProviderAssumption DEF Progress
  <2>. QED  BY <1>4, <2>1, TypeConstants DEF Progress
<1>5. CASE Receive
  BY <1>5, TypeConstants DEF Receive
<1>6. CASE GiveUp
  BY <1>6 DEF GiveUp
<1>7. CASE NextQuery
  <2>1. query' \in 0..Queries
    BY <1>7, ProviderAssumption DEF NextQuery, TimesInv
  <2>. QED  BY <1>7, <2>1, TypeConstants DEF NextQuery, Send
<1>8. CASE Reconcile
  BY <1>8, TypeConstants DEF Reconcile, Send
<1>9. CASE Tick
  <2>1. wait' \in 0..(Timeout + Pause) /\ elapsed' \in 0..StaleAfter
    BY <1>9, ProviderAssumption DEF Tick
  <2>. QED  BY <1>9, <2>1 DEF Tick
<1>. QED
  BY <1>1, <1>2, <1>3, <1>4, <1>5, <1>6, <1>7, <1>8, <1>9
  DEF Next, Provider, Client

\* Every variable of the call keeps its type, for any times and queries.
THEOREM CallTypeCorrect == Spec => []TypeOK
BY TypeInit, TypeStep, TimesInit, TimesStep, PTL DEF Spec

------------------------------------------------------------------------------
(* The call as RecoveryExecution sees it *)

\* The client sleeps only after an empty list, with queries left.
SleepInv == phase = "sleeping" => Again

LEMMA NotPending ==
  /\ Pending # Lost
  /\ \A codes, bodies : /\ 0 \notin codes =>
                             /\ Pending \notin Answer(codes, bodies)
                             /\ Lost \notin Answer(codes, bodies)
BY DEF Pending, Lost, Answer

LEMMA SleepStep == SleepInv /\ [Next]_vars => SleepInv'
<1>. SUFFICES ASSUME SleepInv, [Next]_vars, phase' = "sleeping" PROVE Again'
  BY DEF SleepInv
<1>1. CASE Receive
  BY <1>1 DEF Receive, Again, Outcome
<1>2. CASE Tick \/ Index \/ Arrive \/ UNCHANGED vars
  BY <1>2 DEF Tick, Index, Arrive, vars, Again, Outcome, SleepInv
<1>. QED
  BY <1>1, <1>2
  DEF Next, Provider, Client, ServePost, ServeGet, Progress, GiveUp,
      NextQuery, Reconcile, Send

\* What the engine's thread, its row and its reply are.
EngineAt(pc, reply) ==
  [pc |-> pc, dec |-> 1, status |-> "EXECUTING", attempts |-> 1,
   same |-> FALSE, batch |-> {}, reply |-> reply]

LEMMA Undecided ==
  ASSUME ~ Decided
  PROVE  EngineThread = EngineAt(at, "none") /\ ~ LookupFailed
BY DEF EngineThread, EngineAt, LookupFailed

\* The thread is the engine's only one.
LEMMA BecomeClient ==
  ASSUME NEW state, EngineThread' = state
  PROVE  Engine!Become("client", state)
BY DEF Engine!Become

LEMMA ReadClient ==
  [t \in {"client"} |-> EngineThread]["client"] = EngineThread
OBVIOUS

LEMMA RepliedClient ==
  ASSUME NEW pc, NEW pc0, NEW reply, EngineThread = EngineAt(pc0, "none")
  PROVE  Engine!Replied("client", pc, reply) = EngineAt(pc, reply)
<1>1. Engine!Replied("client", pc, reply) =
        [EngineThread EXCEPT !.pc = pc, !.reply = reply]
  BY ReadClient DEF Engine!Replied
<1>. QED  BY <1>1 DEF EngineAt

\* The engine's step for a POST, from what the step does to the reply, the link
\* and the late request.
LEMMA PostStep ==
  ASSUME at = "posting", UNCHANGED at, ~ Decided, Decided',
         NEW reply, Outcome' = reply, reply # "empty",
         \/ /\ link = "none" /\ link' = "fresh" /\ UNCHANGED late
            /\ reply \in {"created", "transient", "permanent", "unexpected"}
         \/ link # "none" /\ reply = "duplicate" /\ UNCHANGED <<link, late>>
         \/ /\ reply \in {"transient", "permanent", "unexpected"}
            /\ UNCHANGED <<link, late>>
         \/ reply = "transient" /\ late' = TRUE /\ UNCHANGED link
  PROVE  Engine!Post("client")
<1>1. EngineThread = EngineAt("posting", "none") /\ ~ LookupFailed
  BY Undecided
<1>2. EngineThread' = EngineAt("answered", reply) /\ ~ LookupFailed'
  BY DEF EngineThread, EngineAt, LookupFailed
<1>3. Engine!Become("client", Engine!Replied("client", "answered", reply))
  BY <1>1, <1>2, RepliedClient, BecomeClient
<1>4. /\ [t \in {"client"} |-> EngineThread]["client"].pc = "posting"
      /\ [t \in {"client"} |-> EngineThread]["client"].dec = 1
  BY <1>1, ReadClient DEF EngineAt
<1>5. UNCHANGED <<[d \in {1} |-> EngineRow], {}, [d \in {1} |-> "unpaid"],
                  IF LookupFailed THEN 1 ELSE 0>>
  BY <1>1, <1>2 DEF EngineRow
<1>. QED
  BY <1>3, <1>4, <1>5 DEF Engine!Post, Engine!PostReplies

\* The same for a lookup, which is settled by its last query.
LEMMA LookupStep ==
  ASSUME at \in {"looking", "reconciling"}, UNCHANGED at, ~ Decided, Decided',
         NEW reply,
         Outcome' = IF reply = "missing" THEN "empty" ELSE reply,
         reply # "empty",
         \/ link # "none" /\ reply \in {"found", "mismatch"}
         \/ link # "visible" /\ reply = "missing"
         \/ NoList' /\ reply = "missing"
         \/ reply \in {"transient", "permanent", "unexpected"},
         UNCHANGED <<link, late>>
  PROVE  Engine!Lookup("client")
<1>. DEFINE pc == IF at = "looking" THEN "looked" ELSE "reconciled"
            failed == \/ reply \in {"transient", "permanent", "unexpected"}
                      \/ reply = "missing" /\ NoList'
<1>1. EngineThread = EngineAt(at, "none") /\ ~ LookupFailed
  BY Undecided
<1>2. /\ EngineThread' = EngineAt(pc, reply)
      /\ LookupFailed' <=> failed
  BY DEF EngineThread, EngineAt, LookupFailed
<1>3. Engine!Become("client", Engine!Replied("client", pc, reply))
  BY <1>1, <1>2, RepliedClient, BecomeClient
<1>4. /\ [t \in {"client"} |-> EngineThread]["client"].pc = at
      /\ [t \in {"client"} |-> EngineThread]["client"].dec = 1
  BY <1>1, ReadClient DEF EngineAt
<1>5. UNCHANGED <<[d \in {1} |-> EngineRow], [d \in {1} |-> link],
                  IF late THEN {1} ELSE {}, {}, [d \in {1} |-> "unpaid"]>>
  BY DEF EngineRow
<1>6. /\ (IF LookupFailed THEN 1 ELSE 0) = 0
      /\ (IF LookupFailed THEN 1 ELSE 0)' = IF failed THEN 1 ELSE 0
  BY <1>1, <1>2
<1>7. \/ at = "looking" /\ pc = "looked"
      \/ at = "reconciling" /\ pc = "reconciled"
  OBVIOUS
<1>8. \/ ~ failed /\ link # "none" /\ reply \in {"found", "mismatch"}
      \/ ~ failed /\ link # "visible" /\ reply = "missing"
      \/ failed /\ reply = "missing"
      \/ failed /\ reply \in {"transient", "permanent", "unexpected"}
  OBVIOUS
<1>. HIDE DEF pc, failed
<1>. QED
  BY <1>3, <1>4, <1>5, <1>6, <1>7, <1>8 DEF Engine!Lookup

\* The engine goes from a taken reference id to the lookup.
LEMMA ReconcileStep ==
  ASSUME Reconcile, Decided
  PROVE  Engine!StartLookup("client")
<1>1. EngineThread = EngineAt("answered", "duplicate") /\ ~ LookupFailed
  BY DEF EngineThread, EngineAt, LookupFailed, Reconcile
<1>2. ~ Decided'  BY DEF Reconcile, Send, Decided
<1>3. EngineThread' = EngineAt("looking", "none") /\ ~ LookupFailed'
  BY <1>2 DEF EngineThread, EngineAt, LookupFailed, Reconcile
<1>4. Engine!Loaded("client", "looking") = EngineAt("looking", "none")
  <2>1. [d \in {1} |-> EngineRow][1] = EngineRow  OBVIOUS
  <2>2. Engine!Loaded("client", "looking") =
          [EngineThread EXCEPT !.pc = "looking", !.reply = "none",
             !.status = [d \in {1} |-> EngineRow][EngineThread.dec].status,
             !.attempts = [d \in {1} |-> EngineRow][EngineThread.dec].attempts]
    BY ReadClient DEF Engine!Loaded
  <2>. QED  BY <1>1, <2>1, <2>2 DEF EngineAt, EngineRow
<1>5. Engine!Become("client", Engine!Loaded("client", "looking"))
  BY <1>3, <1>4, BecomeClient
<1>6. /\ [t \in {"client"} |-> EngineThread]["client"].pc = "answered"
      /\ [t \in {"client"} |-> EngineThread]["client"].reply = "duplicate"
  BY <1>1, ReadClient DEF EngineAt
<1>. QED
  BY <1>1, <1>3, <1>5, <1>6 DEF Engine!StartLookup, Reconcile, EngineRow

\* The index catches up with a tick of the engine's clock.
LEMMA IndexStep ==
  ASSUME Index
  PROVE  Engine!Tick
<1>1. Engine!OlderRow(EngineRow) = EngineRow
  <2>1. StaleAfter \in Nat  BY ProviderAssumption
  <2>2. EngineRow.age = StaleAfter + 1 /\ EngineRow.wait = 0  BY DEF EngineRow
  <2>3. Engine!Older(EngineRow) = EngineRow.age
    BY <2>1, <2>2 DEF Engine!Older
  <2>4. Engine!OlderRow(EngineRow) =
          [EngineRow EXCEPT !.age = EngineRow.age, !.wait = 0]
    BY <2>2, <2>3 DEF Engine!OlderRow
  <2>. QED  BY <2>2, <2>4 DEF EngineRow
<1>2. UNCHANGED <<EngineThread, LookupFailed>>
  BY DEF Index, EngineThread, LookupFailed, NoList, Decided, Again, Outcome
<1>3. [d \in {1} |-> EngineRow]' =
        [d \in {1} |-> Engine!OlderRow([e \in {1} |-> EngineRow][d])]
  BY <1>1 DEF EngineRow
<1>. QED  BY <1>2, <1>3 DEF Engine!Tick, Index

LEMMA ArriveStep ==
  ASSUME Arrive
  PROVE  Engine!Arrive(1)
<1>1. UNCHANGED <<EngineThread, LookupFailed>>
  BY DEF Arrive, EngineThread, LookupFailed, NoList, Decided, Again, Outcome
<1>. QED  BY <1>1 DEF Engine!Arrive, Arrive, EngineRow

Failures == {"transient", "permanent", "unexpected"}

\* What the provider may answer to a POST, as the client reads it.
LEMMA PostOutcomes ==
  /\ \A a \in Answer({200}, {"link", "object", "odd", "text"}) :
       PostOutcome(a) \in Failures \union {"created"}
  /\ \A a \in Answer({503, 507}, {"text"}) : PostOutcome(a) = "transient"
  /\ PostOutcome([code |-> 400, body |-> "duplicate"]) = "duplicate"
  /\ \A a \in Answer(Codes \ {200}, {"object", "odd", "text"}) :
       PostOutcome(a) \in Failures
  /\ \A a \in Answer({200}, {"object", "odd", "text"}) :
       PostOutcome(a) \in Failures
<1>1. ASSUME NEW a \in Answer({200}, {"link", "object", "odd", "text"})
      PROVE  /\ PostOutcome(a) \in Failures \union {"created"}
             /\ a.body # "link" => PostOutcome(a) \in Failures
  <2>1. a.code < 400 /\ a.body \in {"link", "object", "odd", "text"}
    BY DEF Answer
  <2>. QED  BY <2>1 DEF PostOutcome, Failures
<1>2. ASSUME NEW a \in Answer({503, 507}, {"text"})
      PROVE  PostOutcome(a) = "transient"
  <2>1. ~ (a.code < 400) /\ a.code # 400 /\ a.code >= 500  BY DEF Answer
  <2>. QED  BY <2>1 DEF PostOutcome
<1>3. PostOutcome([code |-> 400, body |-> "duplicate"]) = "duplicate"
  BY DEF PostOutcome
<1>4. ASSUME NEW a \in Answer(Codes \ {200}, {"object", "odd", "text"})
      PROVE  PostOutcome(a) \in Failures
  <2>1. ~ (a.code < 400) /\ a.body \in {"object", "odd", "text"}
    BY DEF Answer, Codes
  <2>. QED  BY <2>1 DEF PostOutcome, Failures
<1>5. \A a \in Answer({200}, {"object", "odd", "text"}) :
        PostOutcome(a) \in Failures
  BY <1>1 DEF Answer
<1>. QED  BY <1>1, <1>2, <1>3, <1>4, <1>5

\* The same for a GET.
LEMMA GetOutcomes ==
  /\ \A a \in Answer({200}, {"match", "others"}) :
       GetOutcome(a) \in {"found", "mismatch"}
  /\ GetOutcome([code |-> 200, body |-> "empty"]) = "empty"
  /\ GetOutcome([code |-> 200, body |-> "object"]) = "empty"
  /\ \A a \in Answer(Codes \ {200}, {"text"}) : GetOutcome(a) \in Failures
  /\ \A a \in Answer({200}, {"odd", "text"}) : GetOutcome(a) \in Failures
<1>1. ASSUME NEW a \in Answer({200}, {"match", "others"})
      PROVE  GetOutcome(a) \in {"found", "mismatch"}
  <2>1. a.code \notin RetryCodes /\ ~ (a.code >= 400)
        /\ a.body \in {"match", "others"}
    BY DEF Answer, RetryCodes
  <2>. QED  BY <2>1 DEF GetOutcome, ReadList
<1>2. /\ GetOutcome([code |-> 200, body |-> "empty"]) = "empty"
      /\ GetOutcome([code |-> 200, body |-> "object"]) = "empty"
  BY DEF GetOutcome, ReadList, RetryCodes
<1>3. ASSUME NEW a \in Answer(Codes \ {200}, {"text"})
      PROVE  GetOutcome(a) \in Failures
  <2>1. a.code >= 400  BY DEF Answer, Codes
  <2>. QED  BY <2>1 DEF GetOutcome, Failures
<1>4. ASSUME NEW a \in Answer({200}, {"odd", "text"})
      PROVE  GetOutcome(a) \in Failures
  <2>1. a.code \notin RetryCodes /\ ~ (a.code >= 400)
        /\ a.body \in {"odd", "text"}
    BY DEF Answer, RetryCodes
  <2>. QED  BY <2>1 DEF GetOutcome, ReadList, Failures
<1>. QED  BY <1>1, <1>2, <1>3, <1>4

LEMMA ServePostStep ==
  ASSUME ServePost
  PROVE  Engine!Post("client")
<1>1. /\ at = "posting" /\ UNCHANGED <<at, late>> /\ ~ Decided
  BY DEF ServePost, Decided
<1>2. Outcome' = IF answer' = Lost THEN "transient" ELSE PostOutcome(answer')
  BY <1>1 DEF Outcome
<1>3. /\ answer' # Pending /\ Outcome' # "empty"
      /\ \/ /\ link = "none" /\ link' = "fresh"
            /\ Outcome' \in Failures \union {"created"}
         \/ link # "none" /\ Outcome' = "duplicate" /\ UNCHANGED link
         \/ Outcome' \in Failures /\ UNCHANGED link
  <2>1. CASE /\ link = "none" /\ link' = "fresh"
             /\ answer' \in {Lost} \union Answer({200}, {"link", "object",
                                                         "odd", "text"})
                                   \union Answer({503, 507}, {"text"})
    <3>1. Outcome' \in Failures \union {"created"}
      BY <1>2, <2>1, PostOutcomes DEF Failures
    <3>2. answer' # Pending  BY <2>1, NotPending
    <3>. QED  BY <2>1, <3>1, <3>2 DEF Failures
  <2>2. CASE /\ link # "none" /\ UNCHANGED link
             /\ answer' = [code |-> 400, body |-> "duplicate"]
    <3>1. answer' # Pending /\ answer' # Lost  BY <2>2 DEF Pending, Lost
    <3>. QED  BY <1>2, <2>2, <3>1, PostOutcomes
  <2>3. CASE /\ UNCHANGED link
             /\ answer' \in {Lost} \union Answer(Codes \ {200}, {"object",
                                                         "odd", "text"})
                                   \union Answer({200}, {"object", "odd",
                                                         "text"})
    <3>1. Outcome' \in Failures
      BY <1>2, <2>3, PostOutcomes DEF Failures
    <3>2. 0 \notin Codes \ {200} /\ 0 \notin {200}  BY DEF Codes
    <3>3. answer' # Pending  BY <2>3, <3>2, NotPending
    <3>. QED  BY <2>3, <3>1, <3>3 DEF Failures
  <2>. QED  BY <2>1, <2>2, <2>3 DEF ServePost
<1>4. Decided'  BY <1>3 DEF Decided, Again
<1>. QED  BY <1>1, <1>3, <1>4, PostStep DEF Failures

LEMMA SameView ==
  ASSUME UNCHANGED <<EngineThread, link, late>>, LookupFailed' <=> LookupFailed
  PROVE  UNCHANGED Engine!vars
BY DEF Engine!vars, EngineRow

LEMMA SameSight ==
  ASSUME UNCHANGED <<at, query, answer, link, late>>
  PROVE  UNCHANGED Engine!vars
<1>1. UNCHANGED <<EngineThread, LookupFailed>>
  BY DEF EngineThread, LookupFailed, NoList, Decided, Again, Outcome
<1>. QED  BY <1>1, SameView

LEMMA StillUndecided ==
  ASSUME UNCHANGED <<at, link, late>>, ~ Decided, ~ Decided'
  PROVE  UNCHANGED Engine!vars
<1>1. EngineThread = EngineAt(at, "none") /\ ~ LookupFailed
  BY Undecided
<1>2. EngineThread' = EngineAt(at, "none") /\ ~ LookupFailed'
  BY DEF EngineThread, EngineAt, LookupFailed
<1>. QED  BY <1>1, <1>2, SameView

AtInv == at \in {"posting", "looking", "reconciling"}

LEMMA AtStep == AtInv /\ [Next]_vars => AtInv'
BY DEF AtInv, Next, Provider, Client, ServePost, ServeGet, Index, Arrive,
       Progress, Receive, GiveUp, NextQuery, Reconcile, Send, Tick, vars

LEMMA ServeGetStep ==
  ASSUME AtInv, ServeGet
  PROVE  Engine!Lookup("client") \/ UNCHANGED Engine!vars
<1>1. /\ at \in {"looking", "reconciling"} /\ UNCHANGED <<at, link, late>>
      /\ ~ Decided
  BY DEF AtInv, ServeGet, Decided
<1>2. Outcome' = IF answer' = Lost THEN "transient" ELSE GetOutcome(answer')
  BY <1>1 DEF Outcome
<1>3. /\ answer' # Pending
      /\ \/ link # "none" /\ Outcome' \in {"found", "mismatch"}
         \/ (link # "visible" \/ NoList') /\ Outcome' = "empty"
         \/ Outcome' \in Failures
  <2>1. CASE link # "none" /\ answer' \in Answer({200}, {"match", "others"})
    <3>1. answer' # Pending /\ answer' # Lost  BY <2>1, NotPending
    <3>. QED  BY <1>2, <2>1, <3>1, GetOutcomes
  <2>2. CASE link # "visible" /\ answer' = [code |-> 200, body |-> "empty"]
    <3>1. answer' # Pending /\ answer' # Lost  BY <2>2 DEF Pending, Lost
    <3>. QED  BY <1>2, <2>2, <3>1, GetOutcomes
  <2>3. CASE answer' = [code |-> 200, body |-> "object"]
    <3>1. answer' # Pending /\ answer' # Lost  BY <2>3 DEF Pending, Lost
    <3>. QED  BY <1>2, <2>3, <3>1, GetOutcomes DEF NoList
  <2>4. CASE answer' \in {Lost} \union Answer(Codes \ {200}, {"text"})
                                \union Answer({200}, {"odd", "text"})
    <3>1. Outcome' \in Failures
      BY <1>2, <2>4, GetOutcomes DEF Failures
    <3>2. 0 \notin Codes \ {200} /\ 0 \notin {200}  BY DEF Codes
    <3>3. answer' # Pending  BY <2>4, <3>2, NotPending
    <3>. QED  BY <3>1, <3>3
  <2>5. ASSUME NEW a \in Answer({200}, {"object", "odd", "text"})
        PROVE  \/ a = [code |-> 200, body |-> "object"]
               \/ a \in Answer({200}, {"odd", "text"})
    <3>1. a.code = 200 /\ a = [code |-> a.code, body |-> a.body]
      BY DEF Answer
    <3>2. a.body = "object" \/ a.body \in {"odd", "text"}  BY DEF Answer
    <3>. QED  BY <3>1, <3>2 DEF Answer
  <2>. QED  BY <2>1, <2>2, <2>3, <2>4, <2>5 DEF ServeGet
<1>4. CASE ~ Decided'
  BY <1>1, <1>4, StillUndecided
<1>5. CASE Decided' /\ Outcome' = "empty"
  <2>1. link # "visible" \/ NoList'  BY <1>3, <1>5 DEF Failures
  <2>. QED  BY <1>1, <1>5, <2>1, LookupStep
<1>6. CASE Decided' /\ Outcome' # "empty"
  <2>. DEFINE reply == Outcome'
  <2>1. /\ reply # "empty" /\ reply # "missing"
        /\ \/ link # "none" /\ reply \in {"found", "mismatch"}
           \/ reply \in Failures
    BY <1>3, <1>6 DEF Failures
  <2>. QED  BY <1>1, <1>6, <2>1, LookupStep DEF Failures
<1>. QED  BY <1>4, <1>5, <1>6

LEMMA GiveUpStep ==
  ASSUME AtInv, GiveUp
  PROVE  \/ Engine!Post("client") \/ Engine!Lookup("client")
         \/ UNCHANGED Engine!vars
<1>1. UNCHANGED <<at, query, link>> /\ answer' = Lost  BY DEF GiveUp
<1>2. CASE answer = Lost
  <2>1. UNCHANGED <<answer, late>>
    BY <1>1, <1>2, NotPending DEF GiveUp
  <2>. QED  BY <1>1, <2>1, SameSight
<1>3. CASE answer = Pending
  <2>1. /\ ~ Decided /\ Decided' /\ Outcome' = "transient"
    BY <1>1, <1>3, NotPending DEF Decided, Again, Outcome
  <2>2. CASE at = "posting"
    <3>1. UNCHANGED late \/ late' = TRUE  BY DEF GiveUp
    <3>. QED  BY <1>1, <2>1, <2>2, <3>1, PostStep
  <2>3. CASE at # "posting"
    <3>1. UNCHANGED late  BY <2>3 DEF GiveUp
    <3>2. at \in {"looking", "reconciling"}  BY <2>3 DEF AtInv
    <3>. QED  BY <1>1, <2>1, <3>1, <3>2, LookupStep
  <2>. QED  BY <2>2, <2>3
<1>. QED  BY <1>2, <1>3 DEF GiveUp

LEMMA ReconcileIsLookup ==
  ASSUME Reconcile
  PROVE  Engine!StartLookup("client")
<1>1. Outcome = "duplicate" /\ at = "posting"  BY DEF Reconcile
<1>2. answer # Pending
  <2>1. SUFFICES ASSUME answer = Pending PROVE FALSE  OBVIOUS
  <2>2. Outcome = PostOutcome(Pending)
    BY <1>1, <2>1, NotPending DEF Outcome
  <2>3. PostOutcome(Pending) = "permanent"  BY DEF PostOutcome, Pending
  <2>. QED  BY <1>1, <2>2, <2>3
<1>3. Decided  BY <1>1, <1>2 DEF Decided, Again
<1>. QED  BY <1>3, ReconcileStep

\* Each step of the client and the provider is one of the engine's, or none.
LEMMA EngineStep ==
  ASSUME AtInv, SleepInv, [Next]_vars
  PROVE  \/ Engine!Post("client") \/ Engine!StartLookup("client")
         \/ Engine!Lookup("client") \/ Engine!Arrive(1) \/ Engine!Tick
         \/ UNCHANGED Engine!vars
<1>1. CASE Progress \/ Receive \/ Tick \/ UNCHANGED vars
  <2>1. UNCHANGED <<at, query, answer, link, late>>
    BY <1>1 DEF Progress, Receive, Tick, vars
  <2>. QED  BY <2>1, SameSight
<1>2. CASE NextQuery
  <2>1. UNCHANGED <<at, link, late>> /\ ~ Decided /\ ~ Decided'
    BY <1>2 DEF NextQuery, Send, SleepInv, Decided
  <2>. QED  BY <2>1, StillUndecided
<1>. QED
  BY <1>1, <1>2, ServePostStep, ServeGetStep, GiveUpStep, ReconcileIsLookup,
     IndexStep, ArriveStep
  DEF Next, Provider, Client

\* Through lost answers, error codes, odd bodies and an index that lags, each
\* call of the client is the one step RecoveryExecution takes for it, for any
\* timeout and any number of queries: only an answer without a list denies a
\* link that the index has.
THEOREM ClientAnswersAsModelled == Spec => AnswersAsModelled
<1>1. Init => AtInv /\ SleepInv  BY DEF Init, AtInv, SleepInv
<1>2. AtInv /\ SleepInv /\ [Next]_vars => AtInv' /\ SleepInv'
  BY AtStep, SleepStep
<1>3. AtInv /\ SleepInv /\ [Next]_vars =>
        [\/ Engine!Post("client") \/ Engine!StartLookup("client")
         \/ Engine!Lookup("client")
         \/ Engine!Arrive(1) \/ Engine!Tick]_(Engine!vars)
  BY EngineStep
<1>. QED  BY <1>1, <1>2, <1>3, PTL DEF Spec, AnswersAsModelled
=============================================================================
