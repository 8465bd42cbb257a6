------------------------------ MODULE Recovery ------------------------------
(***************************************************************************)
(* The recovery pipeline of reclaim/runner.py with the conversation, the   *)
(* promises and the settlement it calls, run by one batch thread, beside   *)
(* the webhook endpoint of the same process (module Webhooks).             *)
(*                                                                         *)
(* A tick loads a snapshot of the records, resolves the promises that fell *)
(* due, then takes the records of the snapshot one at a time: decide, gate *)
(* and act.  In dry run it then settles what is pending with the           *)
(* simulator and reads the replies.  A session that reads a record and     *)
(* writes it at its commit is two steps, as its reads hold no lock.        *)
(*                                                                         *)
(* The guardrails that read the record, its promise, its attempts and its  *)
(* keys are modelled; the verdict of the others, and whether a scheduled   *)
(* action is due yet, is any member of Verdicts.                           *)
(***************************************************************************)
EXTENDS Webhooks, FiniteSets

CONSTANTS
  ContactActions,  \* the actions that reach the customer, not only the bank
  Ladder,          \* Ladder[r]: the policy row of r's diagnosis, step by step
  StalledLadder,   \* the steps of a record whose promise was just broken
  OptedOut,        \* records of customers opted out in the fixture
  Verdicts,        \* outcomes of the other guardrails and of the schedule
  Replies,         \* readings of a reply
  Live,            \* whether the batch writes to Razorpay or stubs it
  Failures,        \* whether a write may end in a RazorpayError
  Crashes          \* whether the process may die

Steps == Actions \union {"ESCALATE", "NO_ACTION"}

ASSUME RecoveryAssumption ==
  /\ ContactActions \subseteq Actions
  /\ Ladder \in [Records -> Seq(Steps)]
  /\ StalledLadder \in Seq(Steps)
  /\ OptedOut \subseteq Records
  /\ Verdicts \subseteq {"pass", "defer", "human", "close"}
  /\ Replies \subseteq {"promise", "human", "stop"}
  /\ {Live, Failures, Crashes} \subseteq BOOLEAN

VARIABLES
  stage,     \* the statement of run_batch the batch thread is at
  todo,      \* the tick's records: record |-> what was read of it, and whether
             \* it was worked
  task,      \* the session or call the batch thread is inside
  broken,    \* records whose promise this tick found broken
  pending,   \* interventions this tick still has to settle
  replied,   \* records whose reply this tick still has to read
  claimed,   \* interventions in executed_actions
  promise,   \* promise[r]: r's latest promise
  date,      \* date[r]: where the clock is against the promised date
  stopped,   \* records whose customer asked us to stop
  alone      \* whether this is a visitor's batch, over one record

batch == <<stage, todo, task, broken, pending, replied, claimed, promise, date,
           stopped, alone>>
vars == <<books, hooks, batch>>

Nothing == [do |-> "nothing"]
NoRecordsRead == [r \in {} |-> Nothing]
NoPromise == [is |-> "none", no |-> 0]
Dates == {"before", "grace", "past"}

Init ==
  /\ BooksInit
  /\ HooksInit
  /\ stage = "idle"
  /\ todo = NoRecordsRead
  /\ task = Nothing
  /\ broken = {}
  /\ pending = {}
  /\ replied = {}
  /\ claimed = {}
  /\ promise = [r \in Records |-> NoPromise]
  /\ date = [r \in Records |-> "before"]
  /\ stopped = {}
  /\ alone = FALSE

At(s) == stage = s /\ task = Nothing /\ Free("batch")

Go(s) == stage' = s

-----------------------------------------------------------------------------
\* run_batch: the records the agent owns, or, when it owns none, the freshly
\* generated fixture in which every record is at risk and untried.
Read(st, n) == [state |-> st, attempts |-> n, worked |-> FALSE]

Snapshot(rs) == [r \in rs |-> Read(state[r], attempts[r])]

\* Mutation: the fixture keeps the counters of the database.
FixtureCounted == [r \in Records |-> Read("AT_RISK", attempts[r])]

Fixture == [r \in Records |-> Read("AT_RISK", 0)]

BeginTick ==
  LET own == {r \in Records : state[r] \in Owned}
  IN  /\ At("idle")
      /\ todo' = IF own # {} THEN Snapshot(own) ELSE Fixture
      /\ broken' = {}
      /\ Go("promises")
      /\ UNCHANGED <<books, hooks, task, pending, replied, claimed, promise,
                     date, stopped, alone>>

\* A visitor commits a record: the batch of it alone, settled by _settle_one.  A
\* record nothing was begun for yet stands for the one that is saved.
BeginOnly(r) ==
  /\ At("idle")
  /\ state[r] = "AT_RISK" /\ \A i \in claimed : RecordOf(i) # r
  /\ todo' = Snapshot({r})
  /\ broken' = {}
  /\ alone' = TRUE
  /\ Go("promises")
  /\ UNCHANGED <<books, hooks, task, pending, replied, claimed, promise, date,
                 stopped>>

Begin == BeginTick \/ \E r \in Records : BeginOnly(r)

Due == {r \in Records : promise[r].is = "OPEN" /\ date[r] # "before"}

\* settle_promises: a buyer who kept the promise pays the newest link we sent.  A
\* visitor's batch leaves this out and resolves the promises all the same.
SettlePromise(r) ==
  /\ At("promises")
  /\ ~alone
  /\ r \in Due
  /\ rows[r] # <<>>
  /\ Receive("batch", LinkPaid(LastSent(r), <<"promise", promise[r].no>>))
  /\ UNCHANGED batch

\* settle_due reads every promise that fell due and the state of its record ...
ReadDue ==
  /\ At("promises")
  /\ IF Due = {} THEN Go("work") /\ UNCHANGED task
     ELSE /\ task' = [do |-> "due", saw |-> [r \in Due |-> state[r]]]
          /\ UNCHANGED stage
  /\ UNCHANGED <<books, hooks, todo, broken, pending, replied, claimed, promise,
                 date, stopped, alone>>

\* ... and then resolves them: kept if the money was there, else broken, which
\* wakes the record up.
ResolveDue ==
  /\ task.do = "due"
  /\ broken' = {r \in DOMAIN task.saw : task.saw[r] # "RECOVERED"}
  /\ promise' = [r \in Records |->
       IF r \notin DOMAIN task.saw THEN promise[r]
       ELSE [promise[r] EXCEPT !.is = IF r \in broken' THEN "BROKEN" ELSE "KEPT"]]
  /\ state' = [r \in Records |->
       IF r \in broken' /\ task.saw[r] = "PROMISED" THEN "AT_RISK" ELSE state[r]]
  /\ task' = Nothing
  /\ Go("refresh")
  /\ UNCHANGED <<attempts, queued, rows, result, hooks, todo, pending, replied,
                 claimed, date, stopped, alone>>

Refresh ==
  /\ At("refresh")
  /\ todo' = Snapshot(DOMAIN todo)
  /\ Go("work")
  /\ UNCHANGED <<books, hooks, task, broken, pending, replied, claimed, promise,
                 date, stopped, alone>>

-----------------------------------------------------------------------------
\* decide(), on the snapshot: the step of the ladder for the next attempt.
\* Mutation: attempts are numbered by what was sent, not by what was answered.
NextAttemptBySent(r) == Len(rows[r]) + 1

NextAttempt(r) == todo[r].attempts + 1

Decide(r) ==
  LET ladder == IF r \in broken THEN StalledLadder ELSE Ladder[r]
  IN  IF NextAttempt(r) > Len(ladder) THEN "NO_ACTION"
      ELSE ladder[NextAttempt(r)]

Proposal(r) == <<r, NextAttempt(r), Decide(r)>>

\* Mutation: the cap is off by one.
ClosingLate(r, verdict) ==
  \/ verdict = "close"
  \/ NextAttempt(r) > HardCap + 1
  \/ (r \in OptedOut /\ Decide(r) \in ContactActions)

\* The guardrails.  All of them run; the ones that close a record come apart.
Closing(r, verdict) ==
  \/ verdict = "close"
  \/ NextAttempt(r) > HardCap
  \/ (r \in OptedOut /\ Decide(r) \in ContactActions)

\* Mutation: no promise window.
BlockingWithoutWindow(r, verdict) ==
  \/ verdict # "pass"
  \/ Closing(r, verdict)
  \/ todo[r].state \notin Owned
  \/ Proposal(r) \in claimed

Blocking(r, verdict) ==
  \/ verdict # "pass"
  \/ Closing(r, verdict)
  \/ todo[r].state \notin Owned
  \/ Proposal(r) \in claimed
  \/ (promise[r].is = "OPEN" /\ Decide(r) \in ContactActions)

Worked(r) == todo' = [todo EXCEPT ![r].worked = TRUE]

\* Refused for now, or not due yet: nothing happens to the record.
Leave(r) ==
  /\ Worked(r)
  /\ UNCHANGED <<books, linked, claimed, task>>

\* _queue_for_human reads the record and its open row ...
HandOver(r) ==
  /\ Worked(r)
  /\ task' = IF state[r] \in Terminal THEN Nothing
             ELSE [do |-> "queue", rec |-> r, saw |-> state[r],
                   open |-> queued[r] > 0]
  /\ UNCHANGED <<books, linked, claimed>>

\* _close reads the record ...
Stop(r) ==
  /\ Worked(r)
  /\ task' = IF state[r] \in Owned THEN [do |-> "close", rec |-> r] ELSE Nothing
  /\ UNCHANGED <<books, linked, claimed>>

\* execute() claims the key and makes the link or order (module Execution); its
\* intervention row is a transaction of its own.  A request that failed in the end
\* may have landed at Razorpay all the same.
Execute(r) ==
  /\ Worked(r)
  /\ claimed' = claimed \union {Proposal(r)}
  /\ \/ /\ task' = [do |-> "record", iv |-> Proposal(r)]
        /\ linked' = IF Live THEN linked \union {Proposal(r)} ELSE linked
     \/ /\ Failures
        /\ linked' = linked \/ (Live /\ linked' = linked \union {Proposal(r)})
        /\ UNCHANGED task
  /\ UNCHANGED books

Work(r) ==
  /\ At("work")
  /\ r \in DOMAIN todo
  /\ ~todo[r].worked
  /\ \E verdict \in Verdicts :
       LET blocked == Blocking(r, verdict)
           step == Decide(r)
       IN  \/ /\ verdict = "human" \/ (~blocked /\ step = "ESCALATE")
              /\ HandOver(r)
           \/ /\ verdict # "human"
              /\ Closing(r, verdict) \/ (~blocked /\ step = "NO_ACTION")
              /\ Stop(r)
           \/ /\ blocked /\ verdict # "human"
              /\ verdict = "defer" \/ ~Closing(r, verdict)
              /\ Leave(r)
           \/ /\ ~blocked /\ step \in Actions
              /\ Execute(r)
  /\ UNCHANGED <<stage, broken, pending, replied, promise, date, stopped,
                 alone, emitted, inbox, hand>>

-----------------------------------------------------------------------------
\* The second halves: what the sessions above write at their commit.
\* Mutation: a row is raised at every escalation.
QueueAnotherRow(r, open) == queued' = [queued EXCEPT ![r] = @ + 1]

QueueRow(r, open) ==
  queued' = IF open THEN queued ELSE [queued EXCEPT ![r] = @ + 1]

PutInQueue ==
  /\ task.do = "queue"
  /\ QueueRow(task.rec, task.open)
  /\ state' = IF task.saw \in Owned THEN [state EXCEPT ![task.rec] = "ESCALATED"]
              ELSE state
  /\ UNCHANGED <<attempts, rows, result, promise, date>>

Close ==
  /\ task.do = "close"
  /\ state' = [state EXCEPT ![task.rec] = "CLOSED"]
  /\ Resolve(task.rec)
  /\ UNCHANGED <<attempts, rows, result, promise, date>>

\* Mutation: the attempt is counted when it is sent as well.
RecordRowAndCount ==
  /\ task.do = "record"
  /\ rows' = [rows EXCEPT ![RecordOf(task.iv)] = Append(@, task.iv)]
  /\ attempts' = [attempts EXCEPT ![RecordOf(task.iv)] = @ + 1]
  /\ UNCHANGED <<state, queued, result, promise, date>>

RecordRow ==
  /\ task.do = "record"
  /\ rows' = [rows EXCEPT ![RecordOf(task.iv)] = Append(@, task.iv)]
  /\ UNCHANGED <<state, attempts, queued, result, promise, date>>

\* _to_human, for a reply the agent may not act on.
ReplyToHuman ==
  /\ task.do = "human"
  /\ QueueRow(task.rec, task.open)
  /\ SetState(task.rec, task.saw, "ESCALATED")
  /\ UNCHANGED <<attempts, rows, result, promise, date>>

\* Mutation: a settled record is not spared.
RecordAnyPromise ==
  LET r == task.rec
  IN  /\ task.do = "promise"
      /\ promise' = [promise EXCEPT ![r] = [is |-> "OPEN", no |-> attempts[r]]]
      /\ date' = [date EXCEPT ![r] = "before"]
      /\ SetState(r, task.saw, "PROMISED")
      /\ UNCHANGED <<attempts, queued, rows, result>>

\* record_promise: a later promise supersedes an open one.
RecordPromise ==
  LET r == task.rec
  IN  /\ task.do = "promise"
      /\ promise' = [promise EXCEPT ![r] = [is |-> "OPEN", no |-> attempts[r]]]
      /\ date' = [date EXCEPT ![r] = "before"]
      /\ IF task.saw \in Terminal THEN UNCHANGED state
         ELSE SetState(r, task.saw, "PROMISED")
      /\ UNCHANGED <<attempts, queued, rows, result>>

Commit ==
  /\ PutInQueue \/ Close \/ RecordRow \/ ReplyToHuman \/ RecordPromise
  /\ task' = Nothing
  /\ UNCHANGED <<hooks, stage, todo, broken, pending, replied, claimed, stopped,
                 alone>>

-----------------------------------------------------------------------------
\* settle(): the interventions still unanswered.  A link that exists at Razorpay is
\* Razorpay's to settle; the simulator decides only for the stubs it minted.
Unanswered == {i \in UNION {SentTo(r) : r \in Records} : result[i] = "none"}

BeginSettle ==
  /\ At("work")
  /\ \A r \in DOMAIN todo : todo[r].worked
  /\ pending' = {i \in Unanswered \ linked : alone => RecordOf(i) \in DOMAIN todo}
  /\ Go("settle")
  /\ UNCHANGED <<books, hooks, todo, task, broken, replied, claimed, promise,
                 date, stopped, alone>>

\* The simulator draws the outcome; any is possible, also after a crash.
SettlePaid(i) == Receive("batch", LinkPaid(i, <<"settle", 0>>)) /\ UNCHANGED replied

SettleFailed(i) ==
  /\ i[3] \notin ContactActions
  /\ Receive("batch", Failed(i, "ref", <<"settle", 0>>))
  /\ UNCHANGED replied

\* A reply is read only if its record is one of the tick's; a visitor's batch reads
\* none.
SettleSilence(i) ==
  /\ i[3] \in ContactActions
  /\ MarkNoResponse(i)
  /\ \/ UNCHANGED replied
     \/ /\ ~alone
        /\ replied' = replied \union ({RecordOf(i)} \intersect DOMAIN todo)
  /\ UNCHANGED hooks

Settle(i) ==
  /\ At("settle")
  /\ i \in pending
  /\ pending' = pending \ {i}
  /\ SettlePaid(i) \/ SettleFailed(i) \/ SettleSilence(i)
  /\ UNCHANGED <<stage, todo, task, broken, claimed, promise, date, stopped, alone>>

\* A customer who was always going to pay does, once the rest is settled, also in
\* a live run.
SelfCure(r) ==
  /\ At("settle")
  /\ ~alone
  /\ pending = {}
  /\ state[r] \notin Terminal
  /\ Receive("batch", PaidUnprompted(r, <<"cure", 0>>))
  /\ UNCHANGED batch

EndSettle ==
  /\ At("settle")
  /\ pending = {}
  /\ Go("replies")
  /\ UNCHANGED <<books, hooks, todo, task, broken, pending, replied, claimed,
                 promise, date, stopped, alone>>

\* apply_reading: one effect per reply; "human" stands for every intent that
\* reaches a person, a low confidence and an unusable date included.
ReadReply(r) ==
  /\ At("replies")
  /\ r \in replied
  /\ replied' = replied \ {r}
  /\ \E reply \in Replies :
       \/ /\ reply = "promise"
          /\ task' = [do |-> "promise", rec |-> r, saw |-> state[r]]
          /\ UNCHANGED stopped
       \/ /\ reply = "human"
          /\ task' = IF state[r] \in Terminal THEN Nothing
                     ELSE [do |-> "human", rec |-> r, saw |-> state[r],
                           open |-> queued[r] > 0]
          /\ UNCHANGED stopped
       \/ /\ reply = "stop"
          /\ stopped' = stopped \union {r}
          /\ UNCHANGED task
  /\ UNCHANGED <<books, hooks, stage, todo, broken, pending, claimed, promise,
                 date, alone>>

EndTick ==
  /\ At("replies")
  /\ replied = {}
  /\ Go("idle")
  /\ todo' = NoRecordsRead
  /\ alone' = FALSE
  /\ UNCHANGED <<books, hooks, task, broken, pending, replied, claimed,
                 promise, date, stopped>>

-----------------------------------------------------------------------------
\* clock.advance, between ticks: a promised date comes, then its grace ends.
AdvanceClock(r) ==
  /\ At("idle")
  /\ promise[r].is # "none"
  /\ date[r] # "past"
  /\ date' = [date EXCEPT ![r] = IF @ = "before" THEN "grace" ELSE "past"]
  /\ UNCHANGED <<books, hooks, stage, todo, task, broken, pending, replied,
                 claimed, promise, stopped, alone>>

\* The process dies, and with it the snapshot and both hands.
Crash ==
  /\ Crashes
  /\ stage # "idle" \/ ~Free("server")
  /\ stage' = "idle"
  /\ todo' = NoRecordsRead
  /\ task' = Nothing
  /\ broken' = {} /\ pending' = {} /\ replied' = {}
  /\ alone' = FALSE
  /\ hand' = [h \in Hands |-> Idle]
  /\ UNCHANGED <<books, linked, emitted, inbox, claimed, promise, date, stopped>>

TickStep ==
  \/ ReadDue \/ ResolveDue \/ Refresh
  \/ \E r \in Records : SettlePromise(r) \/ Work(r) \/ ReadReply(r) \/ SelfCure(r)
  \/ Commit
  \/ BeginSettle
  \/ \E i \in pending : Settle(i)
  \/ EndSettle \/ EndTick
  \/ HandleStep("batch") /\ UNCHANGED batch

Deliver(e) == e \in emitted /\ Receive("server", e) /\ UNCHANGED batch

ServerStep == HandleStep("server") /\ UNCHANGED batch

Customer ==
  /\ \/ \E i \in Interventions : CustomerPays(i)
     \/ \E e \in RealEvents : CustomerFails(e)
     \/ \E r \in Records : CustomerPaysUnprompted(r)
  /\ UNCHANGED batch

Next ==
  \/ Begin
  \/ TickStep
  \/ \E e \in RealEvents : Deliver(e)
  \/ ServerStep
  \/ Customer
  \/ \E r \in Records : AdvanceClock(r)
  \/ Crash

Spec == Init /\ [][Next]_vars

\* Threads run, Razorpay delivers until it is answered, somebody keeps ticking
\* and, between ticks, time passes (strong fairness: the clock can move only when
\* no tick is running, and a tick begins again and again).  Nobody has to pay, to
\* reply or to crash.
FairSpec ==
  /\ Spec
  /\ WF_vars(BeginTick)
  /\ WF_vars(TickStep)
  /\ WF_vars(ServerStep)
  /\ \A e \in RealEvents : WF_vars(Deliver(e))
  /\ \A r \in Records : SF_vars(AdvanceClock(r))

-----------------------------------------------------------------------------
Tasks ==
  {Nothing}
    \union [do : {"record"}, iv : Interventions]
    \union [do : {"close"}, rec : Records]
    \union [do : {"promise"}, rec : Records, saw : States]
    \union [do : {"queue", "human"}, rec : Records, saw : States, open : BOOLEAN]
    \union [do : {"due"}, saw : UNION {[rs -> States] : rs \in SUBSET Records}]

BatchTypeOK ==
  /\ stage \in {"idle", "promises", "refresh", "work", "settle", "replies"}
  /\ DOMAIN todo \subseteq Records
  /\ \A r \in DOMAIN todo : todo[r] \in [state : States, attempts : Nat, worked : BOOLEAN]
  /\ task \in Tasks
  /\ broken \subseteq Records
  /\ pending \subseteq Interventions
  /\ replied \subseteq Records
  /\ claimed \subseteq Interventions
  /\ promise \in [Records -> [is : {"none", "OPEN", "KEPT", "BROKEN"}, no : Nat]]
  /\ date \in [Records -> Dates]
  /\ stopped \subseteq Records
  /\ alone \in BOOLEAN

TypeOK == BooksTypeOK /\ HooksTypeOK /\ BatchTypeOK

\* r's executed interventions that ended in one of these results.
SentWith(r, outcomes) == {i \in SentTo(r) : result[i] \in outcomes}

\* A record that closed, recovered or has had a payment credited is on nobody's
\* desk, and a record that was escalated is on exactly one: no row of the human
\* queue is forgotten and none is doubled.
SettledIsNobodysWork ==
  \A r \in Records :
    state[r] \in Terminal \/ SentWith(r, {"RECOVERED"}) # {} => queued[r] = 0

EscalatedIsSomebodysWork ==
  \A r \in Records : state[r] = "ESCALATED" => queued[r] = 1

\* A record whose money arrived stays recovered, whatever is read, promised,
\* queued or closed after that.
RecoveredIsFinal ==
  [][\A r \in Records : state[r] = "RECOVERED" => state'[r] = "RECOVERED"]_vars

\* The attempt counter, which the cap is checked against, counts reality: every
\* attempt that resolved without money, and none that is still unanswered.
AttemptsAreReal ==
  \A r \in Records :
    /\ Cardinality(SentWith(r, {"FAILED_AGAIN", "NO_RESPONSE"})) <= attempts[r]
    /\ attempts[r] <= Cardinality(SentWith(r, Results \ {"none"}))

\* The agent waits for an answer before it tries again, and never tries more
\* often than the global hard cap, over all ticks, crashes and promises.
OneUnanswered == \A r \in Records : Cardinality(SentWith(r, {"none"})) <= 1

CapHolds == \A r \in Records : Len(rows[r]) <= HardCap

\* A link goes to nobody whose promise is still standing.
Started == claimed' \ claimed

PromiseIsRespected ==
  [][\A i \in Started :
       i[3] \in ContactActions => promise[RecordOf(i)].is # "OPEN"]_vars

\* Money once counted stays counted, whatever is delivered late or twice.
CreditIsPermanent ==
  [][\A i \in Interventions : result[i] = "RECOVERED" => result'[i] = "RECOVERED"]_vars

\* The agent is credited with no more recoveries than the customer made payments
\* on its links, whatever mix of events reports them.
PaidLinks(r) == {e.link : e \in {x \in emitted : x.ok /\ x.rec = r}} \ {NoLink}

OneCreditPerPayment ==
  \A r \in Records :
    Cardinality(SentWith(r, {"RECOVERED"})) <= Cardinality(PaidLinks(r))

\* A customer who asked us to stop is not contacted again.
OptOutIsFinal ==
  [][\A i \in Started : i[3] \in ContactActions => RecordOf(i) \notin stopped]_vars

\* Once a key of a record was claimed, the agent starts something new for it only
\* while the record is its own: it chases no money it already has, and nobody
\* who was handed to a person, however stale what the tick works from.
LetGoIsLeftAlone ==
  [][\A i \in Started : \A j \in claimed :
       RecordOf(j) = RecordOf(i) => state[RecordOf(i)] \in Owned]_vars

\* A dry run implements RecordLife: whatever a tick reads, falls back on or
\* forgets, each record is owned by one party at a time, changes hands as it may,
\* and its money is credited once, to something that was tried for it.
Whose(s) ==
  CASE s \in Owned -> "agent"
    [] s = "ESCALATED" -> "person"
    [] s = "CLOSED" -> "nobody"
    [] s = "RECOVERED" -> "paid"

OwnerOf == [r \in Records |-> Whose(state[r])]
OnDesk == {r \in Records : queued[r] > 0}
CreditedTries == {i \in Interventions : result[i] = "RECOVERED"}

Life ==
  INSTANCE RecordLife WITH Tries <- Interventions, owner <- OwnerOf, desk <- OnDesk,
                           tried <- claimed, credited <- CreditedTries

RecordLifeSpec == Life!Spec

\* Every record ends recovered, closed or with a person.
EveryRecordSettles ==
  \A r \in Records : <>(state[r] \in Terminal \union {"ESCALATED"})

\* A record whose call to Razorpay failed is parked with a person: its key stays
\* claimed, so nothing else will move it.
FailedCallIsParked ==
  \A i \in Interventions :
    LET r == RecordOf(i)
    IN  (task = Nothing /\ i \in claimed \ SentTo(r))
          ~> (queued[r] > 0 \/ state[r] \in Terminal)

\* A payment on a link whose row is in the books when it arrives is credited to
\* that link, though other deliveries come before it, late and more than once;
\* all that can lose it is a death of the process while it is being handled.
Abandoned(e) ==
  /\ e \in DOMAIN inbox /\ inbox[e] = "RECEIVED"
  /\ \A h \in Hands : Free(h) \/ hand[h].ev # e

PaymentIsBooked ==
  \A e \in RealEvents :
    e.ok /\ e.by = "ref" =>
      ((e \in emitted \ DOMAIN inbox /\ e.link \in SentTo(e.rec))
         ~> (result[e.link] = "RECOVERED" \/ Abandoned(e)))

\* The same, with nothing lost: Razorpay delivers until it is answered, so even
\* a death of the process is made good by the next delivery.
NoPaymentIsLost ==
  \A e \in RealEvents :
    e.ok /\ e.by = "ref" =>
      ((e \in emitted \ DOMAIN inbox /\ e.link \in SentTo(e.rec))
         ~> result[e.link] = "RECOVERED")
=============================================================================
