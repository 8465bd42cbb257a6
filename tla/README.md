# ReclaimAI: a TLA+ model of the recovery pipeline and its dashboard

ReclaimAI is an agent that recovers failed payments. On every *tick* it loads the
records at risk, resolves the promises that fell due, and for each record decides the
next step of a policy ladder, runs it past guardrails and acts: a silent retry (a
Razorpay order), a payment link sent over a channel, an escalation to a person, or
nothing. Results come back as Razorpay webhooks, or, in a dry run, from a settlement
simulator that sends the same events through the same handler. A dashboard, one page
of React under `src/ui/`, shows the books, edits the rules and lets a visitor try the
agent out.

These modules specify the parts of `src/reclaim/` in which actors race, processes
die or messages repeat, and the parts of `src/ui/src/` in which requests cross, fail,
come late or are answered after the screen has moved on. They are checked on small
instances with TLC; the executor, the recovery pipeline, the rules store's locking and
caching, and the dashboard's page and screens are proved for all instances with TLAPS.

## 1. Inventory

| Component | State it keeps | Operations | What makes it correct |
|---|---|---|---|
| Executor `execute/actions.py` | `executed_actions` (claims), `interventions` | `claim`, `execute`, `_record` | one charge and one message per key, whoever races or resumes; a ledger that tells the truth |
| Razorpay client `execute/razorpay_client.py` | none; entities live at Razorpay | `create_order`, `create_payment_link`, lookups | a retried write creates one entity |
| Channels `execute/channels.py`, `messages.py` | none | send a message | sent or not, never for a missing link |
| Batch runner `runner.py`, `repository.py` | records, human queue | `run_batch`, `tick`, `_close`, `_queue_for_human`, `_refresh` | every record ends with money, closed or with a person; settled records are left alone |
| Attribution `measure/webhooks/attribution.py` | `webhook_events`, intervention results, attempt counters | `handle`, `mark_no_response` | a payment is credited, once, and stays credited; attempts count reality |
| Webhook door `receiver.py`, `events.py`, `signature.py` | none | verify, parse, hand over | one effect per delivery |
| Settlement `measure/settlement.py` | settlements to come | `settle`, `settle_promises`, self-cures | nothing sent stays unanswered in a dry run |
| Promises `measure/promises.py` | promises | `record_promise`, `settle_due`, `promise_window` | silence while one stands, waking when it breaks |
| Replies `diagnose/conversation/handler.py` | replies, `opted_out` | `apply_reading` | a STOP is final; what cannot be read reaches a person |
| Gate and rails `guardrails/` | in-batch tallies | fourteen guardrails, `gate.run` | cap, consent, budget, window, idempotency |
| Policy `decide/engine.py`, `schedule.py` | none | `decide`, the schedule | next step of the ladder at the right hour |
| Human queue `decide/human_queue.py` | queue rows | open, resolve, rank | one open row per escalated record, none for a settled one |
| Rules store `rules/` | cache, generation, editable rules | `policies`, `guardrail_config`, `reload`, edit, reset | the rule served is the rule stored, from the first read after a write |
| What-if `measure/whatif.py`, `use_database` in `db.py` | the handle of the process, a scratch database | `replay`, `parse_overrides` | the replay leaves no trace; its two sides differ by the override alone |
| Kill switch `guardrails/killswitch.py` | one flag | engage, release | read once per batch |
| Clock `clock.py` | offset | `now`, `advance` | moves forward only |
| API `api/app.py` | seed lock, sandbox state | ticks in a background thread, webhooks on the event loop | one batch at a time in the process |
| Scoreboard `measure/scoreboard.py` | none | read | the books balance |
| Page shell `ui/src/app/page.tsx` | numbers, health, banner, one poll timer, the busy button | `refresh`, the poll effect, `act`, `setTab`, `drill` | it never stops asking while it waits, never looks settled over half a batch, and its buttons come back |
| API client `ui/src/lib/api.ts` | the token of the tab | `request`: token, 401 and second attempt, time limit | nothing a click starts is done twice |
| Rules form `ui/src/components/RulesStudio.tsx` | rules as loaded, drafts over them | load, type, replay, apply section by section, reset | what is shown is in force; only what was typed is changed; a draft is cleared when it is saved |
| Try-it labs `TryIt.tsx`, `ReplyLab.tsx`, `Guardrails.tsx` | a form or dials, the last answer | preview, commit, wipe; ask about a text or a set of dials | the answer on screen is to the last question |
| Checkout lab `CheckoutLab.tsx` | phase, script, order, the window | `pay`, `loadCheckout`, three callbacks, `importFailure` | the phase is the one the payment is in |
| Trace strip `Trace.tsx`, with `sandbox.py` | none | stages, headline | it names who decided |
| Views: `Dashboard.tsx`, `charts.tsx`, `Queue.tsx`, `Promises.tsx`, `Evidence.tsx`, `AuditTrail.tsx` | filter, search, one request each | drill, search, filter, open, load | the latest answer, or that there is none; a card opens what it counted |
| Sandbox, snapshot, verify, generators, diagnosis, audit, CLI | mostly none | | see section 7 |

**How they interact.** The runner calls the others synchronously. The executor and
the attribution each use several short database transactions; nothing spans a
tick. The webhook endpoint is an `async` handler that blocks the event loop while it
handles a delivery, so deliveries are serial among themselves, while the batch runs in
a background thread under `_seed_lock` (`api/app.py:63-119`). A CLI run is another
process on the same database. The dashboard only talks HTTP: its page shell polls the
numbers and the health and owns the buttons that start jobs; its screens are mounted
and unmounted by the page's tabs, each with state of its own, and call `refresh` of the
page when a write of theirs was taken.

**What is hard.**
* Sessions that read a row and write it at commit, with no lock in between: SQLite
  through SQLAlchemy opens its transaction at the first write, so another thread can
  commit between the read and the write.
* At-least-once webhooks: twice, late, out of order, and several event kinds for one
  payment.
* A process that dies between a claim and its effect, in the executor and in the
  webhook handler.
* Requests that time out and land anyway.
* A rules cache filled outside its lock, over a database handle that is one for the
  whole process and that a replay swaps while other threads go on reading.
* Per-record state that spans ticks: attempts, ladder, promise, queue.
* On the page: parallel requests that see different moments of the server; effects that
  run only when something they depend on changes; an abort that says nothing about
  whether the server did the write; a loop of writes that stops half-way; answers that
  overtake each other; callbacks of a third party's window in an order of its own; a
  screen that is left while its request is on its way.

`PROJECT.json` lists each hazard at its line with the property that would catch it.

## 2. Modules

```
OncePerKey  <--implements--  Execution  --EXTENDS-->  RazorpayClient
                             ExecutionProofs (theorems), MCExecution
Attribution  <--EXTENDS--  Webhooks  <--EXTENDS--  Recovery  <--  RecoveryProofs, TickProofs (theorems), MCRecovery
RecordLife   <--implements--  Recovery (in a dry run)
RulesCache   <--EXTENDS--  RulesStudio  <--  RulesProofs (theorems), MCRules

ApiCall  <--EXTENDS--  Console  <--  ConsoleProofs (theorems), MCConsole
ApiCall  <--EXTENDS--  RulesForm, TryIt (with Trace), CheckoutLab
RulesForm, TryIt, CheckoutLab, Views  <--EXTENDS--  Tabs  <--  TabsProofs (theorems), MCTabs
Views  <--EXTENDS--  ViewsProofs (lemmas)  <--EXTENDS--  TabsProofs
ApiCall  <--EXTENDS--  ApiCallProofs (lemmas)  <--EXTENDS--  ConsoleProofs, TabsProofs
```

**RazorpayClient**: `_write`/`_with_retry` for any number of callers. `pc[c]` is the
place in the retry loop: `send` a request, `lookup` before a resend, `refused` as a
duplicate. Razorpay, external, is `entities[k]` (links or orders under a key) and
`inflight[k]` (requests whose sender gave up). It refuses a second link with the same
`reference_id` and never refuses an order. A request that failed may have landed
(`SendFails`) and, for keys in `LateKeys`, may land later (`LateRequest`).

**Execution**: `claim`, `execute` and `_record` for workers that run batches on one
database. Each worker is a batch process: the API's thread, a CLI run, a restart after a crash.
`claimed` is `executed_actions` with its UNIQUE key; `executed[k]` and `failed[k]`
count intervention rows. `BeginBatch` reads `executed_keys()` once, as `run_batch`
does, so the gate's guard is stale by design and only the claim keeps workers apart.

**OncePerKey** is the promise of the module docstring of `actions.py` in three
variables: a key is claimed, charged at most once, contacted at most once.

**Attribution** holds the books: `state`, `attempts`, `queued`, `rows`, `result`, and
what one transaction of the attribution does to them (`Credit`, `FailAgain`,
`Unprompted`, `MarkNoResponse`). An intervention is `<<record, attempt, action>>`, the
idempotency key.

**Webhooks**: `handle()` run by two *hands*: the server and the batch thread, as the
simulator delivers through the same function. A hand claims the delivery (`Receive`), looks
the record and intervention up (`Look`), decides (`Decided`), applies
(`Apply`) and settles the event row (`SettleEventRow`); the other hand, or a crash, can come
between any two. Razorpay keeps every event in `emitted` and may deliver it again at
any time.

**Recovery**: the tick. `stage` is the statement of `run_batch`, `todo` the snapshot
(with the state and attempts as they were read), `task` a session the thread is inside.
`HandOver`/`PutInQueue` are the read and the commit of `_queue_for_human`,
`Stop`/`Close` those of `_close`, `Execute`/`RecordRow` the claim and the row of
`execute()`, `ReadDue`/`ResolveDue` those of `settle_due`, `ReadReply`/`Commit` those of
`apply_reading`. The rails on consent, attempts, idempotency, state and promises are
written out; the verdict of the others is a member of `Verdicts` (a promise is
`before` its date, inside its `grace`, or `past`). `BeginOnly` is the batch that the sandbox runs
over one record when a visitor commits it (`sandbox.py:271-292`): `alone` holds till its end,
no promise is paid before the promises are resolved, only that record is settled, and nobody's
reply is read. It takes the same lock as a tick, so the two never overlap. The records are a
constant: one that nothing was begun for stands for the one that the commit saves.

**RecordLife** is what a dry run of Recovery promises of each record, in four variables
and no mention of ticks, sessions or threads: who has to do with it (the agent, a
person, nobody, or it is paid), whether it lies on a person's desk, what was tried for
it and which tries were credited. The owner is read off `state` (`Whose`), the desk
off the open rows of `human_queue`, the tries are `executed_actions`, the credits the
interventions `RECOVERED`. Its actions are a try, the three hand-overs that the code
makes (`_queue_for_human`, `record_promise`, `_close`) and the two kinds of payment.

**RulesCache**: `_cached()` and what it reads. `Look` is its first critical section,
`Build` the build between the two, `Fill` the second; a thread inside a read is
`read[t]`. `stored[d]` is the rule tables of database `d`, `handle` the database the
process is pointed at, and a table without rows yields the shipped defaults
(`InForce`). A rule is named by the edit that made it. `born` is a history field: the
generation in which the build of an entry began, which the code does not keep.

**RulesStudio**: who uses them. Editors run `set_policy`, `set_guardrail` and `reset`
statement by statement (the count, the seeding, the read of the value before, the commit, the
reloads) and take no lock. The count and the insert of `seed_from_yaml` are two steps of
one session, which stays with the database it first read (`saved`): the handle may move
in between, and an insert of rows that another session put there first fails. Runners hold `_seed_lock` for a batch, which may start by emptying the
database without a reload. Replayers parse their override, take the lock, and twice open a scratch
database (`Open` is `use_database`), copy the rules into it (`Copy`, `Plant`), read
rules as the arc does, put the handle back (`Close`) and reload (`FinishSide`).

**ApiCall**: `request()` of `api.ts` for any callers. `call[c]` is the write a
component waits for: on its `first` attempt, or `again` after a 401 was answered with
the admin token. A caller that gives up (`GivesUp`: the time limit, a broken
connection) leaves the write in `stray` if the server had not answered it, where it may still be
done or be lost. `took[c]` is a history variable, the number of times the server did the last
write. What the server answers, and does, is said by the modules that extend it.

**Console**: the page shell beside the server. `reads[s]` is a refresh in flight and
what each of its parallel GETs has read; `job` is the lock of the server with the flag
that the health reports (`app.py:83-98` sets and clears one after the other; they are one
here). `Rearm` is the poll effect: it runs when `beat`, `connected` or `seeding`
changed and sets the one timer while there is a reason to. `Click`, `ActAccepted`,
`ActBusy`, `ActFails` are `act()` around its `await`s. Other people start jobs too
(`OthersJob`) and every job ends (`EndJob`).

**RulesForm**: a *section* is a guardrail with one threshold that the form offers
(`tuned`) and the fields it does not (`rest`). `snap` is what was loaded, `draft` what
was typed, `live` what the server has. `PostSection`/`SectionTaken`/`ApplyStops` is the loop of
`applyAll`, which sends each section whole; `LoadReads`/`LoadDone` the reload after
a write. Others edit as well (`OthersEdit`).

**TryIt** has the classify form (`Press`, `PressAnswered`) and a lab with dials
(`Turn`, `Preset`, `AskNow`, `LabAnswered`), where a preset may ask while an answer is on
its way. **Trace** has the stages as `sandbox.py` lists them and the headline that
`Trace.tsx` tells from them.

**CheckoutLab**: `Pay` posts the order and loads the script, `OpenCheckout` opens the
window when both are there; a script that loaded without `window.Razorpay` is `hollow`, and then
every click ends in `NothingToOpen`. `PaymentSucceeds`, `PaymentFails` and `Dismissed` are the
callbacks of Checkout, external, in any order it may choose.

**Views**: the read-only tabs. `seen` is what the page's last refresh read; `loads` and
`got` are the request of the view that is up and its answer; the money of the scoreboard
is computed over the books, record by record (`OpenMoney`, `Balances`).

**Tabs** puts the screens on one page: `Open` mounts one anew, `Leave` takes one down
while what it started goes on. A screen's state is kept after it was left for what it
still has to do.

## 3. Runs

| Run | Checks | Instance |
|---|---|---|
| `execution_crash` | `IInv`, `NoDoubleCharge`, `NoDoubleContact`, `LedgerIsTruthful`, `OncePerKeySpec`, `ClaimIsRecorded` | 2 workers; a link, an order, an escalation; crashes; the link may land late |
| `recovery_dry` | `TypeOK`, queue, attempts, cap, promises, credits, `RecordLifeSpec`, `LetGoIsLeftAlone` | 1 record, cap 2, ladder of 3 links; ticks and visitors' batches, every verdict and reply, failures, crashes; 28,600 states |
| `recovery_settles` | `EveryRecordSettles` | 2 records (one opted out), both action kinds, fair, no faults |
| `recovery_live` | `CreditIsPermanent`, `PaymentIsBooked` | 1 record, its events late, doubled and out of order, calls that seem to fail, crashes, fair; 169,000 states |
| `rules_studio` | `IInv`, `HandleIsLent`, `OnlyStraddlersGoStale`, `ReplayWritesNothing` | 1 editor (1 edit or reset), 1 replay, 1 runner whose batches may wipe; two rule sources; 2,450,000 states |
| `console` | `TypeOK`, `NeverDeaf`, `SettledLookIsSettled`, `WriteAtMostOnce`, `BusyEnds`, `PollingEnds` | the page with two refreshes at once, one poll, one stray write, both kinds of button; 613,000 states |
| `tabs` | `TypeOK`, `ShownIsLive`, `NothingElseChanges`, `ClearedMeansSaved`, `AnswersTheQuestion`, `HeadlineIsTrue`, `PhaseIsReal`, `LatestAnswerIsShown`, `BalanceFlagIsRight`, `DrillShowsTheCard`, `ButtonsComeBack` | every screen; two sections, subjects, questions in flight and records; one edit of others, one stray write; 669,000 states |
| `double_credit`, `lost_payment`, `failed_call`, `opt_out`, `replay_rules` | one property each, violated | section 5 |

What the runs of the dashboard say, in words: the page is never waiting with no timer set
and no refresh in flight, but for the polls that ran out (`NeverDeaf`); without the banner the
numbers shown are none that their own refresh knew to be partial
(`SettledLookIsSettled`); the rules screen at rest shows the rules in force unless
somebody else edited them, or it gave up on a write or failed to load
(`ShownIsLive`); an apply changes no field that was not typed (`NothingElseChanges`) and
clears the drafts only when all of them are in force (`ClearedMeansSaved`); an answer is to the last
question unless two crossed (`AnswersTheQuestion`); the scoreboard's balance
flag fails exactly when some record was credited beyond its amount
(`BalanceFlagIsRight`); a button that was pressed comes back even if its screen was left
(`BusyEnds`, `ButtonsComeBack`); a page nobody touches falls silent (`PollingEnds`).

**Bounds, and why they suffice.**
* Two workers: the races in `execute()` are between the holder of a key and
  another proposer. Three keys: one of each kind (refused as a duplicate, never
  refused, calls nobody); keys do not interact but through `seen`.
* `MaxAttempts` is the code's 3: one send, one lookup, one resend already takes
  every branch.
* `LateKeys` is the link only. See section 4 for orders.
* One record for the safety runs of Recovery: records share no row. The interaction
  between records is the order in which the tick takes them, which
  `recovery_settles` covers with two.
* `HardCap` 2 with a ladder of 3 makes both the end of the ladder and the cap
  bite. Every promise can be superseded, kept or broken.
* The event sets are those one record can meet: two failures, then one
  success that two events report, and a payment on the merchant's own order.
* One edit and one replay (`MaxEdits`, `MaxReplays`) suffice for the rules: an entry is stale or not relative to
  the last write, a replay already opens the scratch database twice, and batches are
  unbounded. Generations are bounded by the reloads those allow. A second editor or
  replay adds only waiting: the theorems cover any number.
* Two refreshes in flight (`Slots`): every pair of them can overlap, and what a third
  does depends on the last to end only. `MaxPolls` 1 reaches the poll that is counted and
  the one that is not made. One write at most is on its way unawaited (`MaxStrays`): a
  second one of the same screen would need a first still on its way, about which
  nothing is claimed but what `WriteAtMostOnce` is proved of for any number.
* Two sections make an apply that stops half-way; two subjects a question that is not the
  last one; two records a card with some of the rows. `MaxOthers` 1: the properties about
  others ask whether anybody edited, not how often.
* One visitor uses the screens of one of the sets in `Visits`: the rules form, the
  classify form, the other labs with Checkout, or the views. In `Tabs` a screen opens when nothing else is
  under way, so that screens share no write; what two screens could do to
  each other is the server's locking, which `Console` and `RulesStudio` have.
* State is otherwise finite without a state constraint: attempts and promises are bounded by the
  cap, deliveries by the set of events.

**Fairness.** Threads run: a tick that started, and a delivery being handled, goes
on (`WF` on `TickStep`, `ServerStep`): their loops and timeouts are bounded. Razorpay retries a delivery until
it is answered (`WF` on each `Deliver(e)`). Somebody keeps ticking, the scheduler or the
operator (`WF` on `BeginTick`); no visitor has to come. Time passes between ticks (`SF` on `AdvanceClock`: it is disabled
while a tick runs and enabled again after). No fairness is assumed of customers,
replies or crashes. The executor and the rules have safety and action properties only, and
no fairness. On the page every request ends, as `api.ts` sets a time limit on each and the browser
reports a broken connection, and a timer fires: `WF` on `RefreshFails(s)` (which an answer disables),
on `Poll`, on the ends of `act()`, and, in `Tabs`, on `Answers`, the ends of everything a
screen waits for. That a job of the server ends is `WF` on `EndJob`: `_end()` is in a
`finally`. Nobody is assumed to click, no write to succeed, and no customer to close
Checkout: while its window is open the button waits for a person, and no property says for how long.

Each property was also seen to fail when the code is changed the way a plausible bug
would change it; the changed definitions stand beside the originals under the comment
`Mutation:` and `PROJECT.json` says which breaks which.

## 4. Proofs

`ExecutionProofs` holds, for every set of workers and keys and every retry bound:

| Theorem | Assumes | Says |
|---|---|---|
| `TypeCorrect` | nothing | `Spec => []TypeOK` |
| `Inductive` | nothing | `Spec => []IInv` |
| `OneContactPerKey` | nothing | `Spec => []NoDoubleContact` |
| `TruthfulLedger` | nothing | `Spec => []LedgerIsTruthful` |
| `ClaimsAreRecorded` | nothing | `Spec => ClaimIsRecorded` |
| `ImplementsOncePerKey` | nothing | `Spec => OncePerKeySpec` |
| `OneChargePerSureKey` | nothing | `Spec => []OneEach` |
| `OneChargePerKey` | `OrdersLandInTime` | `Spec => []NoDoubleCharge` |

*The argument.* `NoDoubleCharge` is not inductive: nothing in it says that a worker
about to send an order finds none there. `IInv` adds it. `ClaimedByOne`: at most one
living worker is between the claim and the row of a key (the UNIQUE constraint gives a key to one
worker, and a crash forgets it for good). `HeldKey`: what that worker's place says of the
key; in `send` for an order, that no entity exists, because it is the first
send or because the lookup found nothing. `UnclaimedIsUntouched`: nothing outside
exists for a key nobody claimed, so that a crash can leave a claim without a charge and never
a charge without a claim. `OneEach`, in place of `NoDoubleCharge`: one entity at most for each of the `SureKeys`, those
for which no request that was given up on can charge, because Razorpay does not process it late
or refuses it as it does a second link. From these each step preserves the rest. A message
goes with a link and a row with an answer, so that the other theorems speak of all keys, and the
refinement of the sure ones.

*The assumption.* `OrdersLandInTime` is `LateKeys \subseteq LinkKeys`, and then all keys are sure: an order request
that was given up on is not processed by Razorpay after the lookup that found
nothing. The code cannot discharge it: an order's `receipt` is not unique at Razorpay, so an
order that appears after the lookup would be a second one. Links need no such assumption, and no other theorem does.

`RulesProofs` holds, for every number of editors, replays, batches, edits and resets:

| Theorem | Says |
|---|---|
| `TypeCorrect` | `Spec => []TypeOK` |
| `Inductive` | `Spec => []IInv` |
| `HandleIsOnlyLent` | `Spec => []HandleIsLent` |
| `OnlyStraddlers` | `Spec => []OnlyStraddlersGoStale` |
| `ReplaysWriteNothing` | `Spec => ReplayWritesNothing` |

They rest on `ThreadsAssumption` and `StudioAssumption` only, which say that no thread
is called `live` or `nobody`.

*The argument.* `HandleIsLent` needs to know who may move the handle. `LockedByOne`:
whoever is in a batch or a replay holds the lock. `HandleFollows`: the handle is a
replay's exactly while that replay is between `Open` and `Close`, and what it will
put back is the merchant's database. For the cache, the rules are `Settled` when every
write was followed by its reload and the process is on its own database. A step that
unsettles them needs nothing; a step that settles them begins a generation, in
which, by `GenerationsPast`, nothing was read or stored yet; while they are
settled no step writes, so what is built in this generation is right
(`NoStaleBuild`), and so is what is stored from such a build (`OnlyStraddlersGoStale`).
The build that straddles a reload is what the argument has to leave out; section 6
names it.

`RecoveryProofs` holds, for every set of records and actions, any ladders, any cap, with
failed calls and crashes:

| Theorem | Assumes | Says |
|---|---|---|
| `TypeCorrect` | nothing | `Spec => []TypeOK` |
| `PromiseRespected` | nothing | `Spec => PromiseIsRespected` |
| `AttemptsCounted` | nothing | `Spec => []AttemptsAreReal` |
| `CreditPermanent` | nothing | `Spec => CreditIsPermanent` |
| `HandledCredited` | nothing | `Spec => []HandledIsCredited` |
| `OneIsUnanswered` | `OneLadder` | `Spec => []OneUnanswered` |
| `CapIsHeld` | `OneLadder` | `Spec => []CapHolds` |
| `RecoveredStays` | `DryRun` | `Spec => RecoveredIsFinal` |
| `SettledLeavesTheDesk` | `DryRun` | `Spec => []SettledIsNobodysWork` |
| `EscalatedIsOnOneDesk` | `DryRun` | `Spec => []EscalatedIsSomebodysWork` |
| `CreditsArePaid` | `DryRun` | `Spec => []OneCreditPerPayment` |

`TickProofs`, which extends it, follows a record through a tick:

| Theorem | Assumes | Says |
|---|---|---|
| `LetGoStaysAlone` | `DryRun` | `Spec => LetGoIsLeftAlone` |
| `ImplementsLife` | `DryRun` | `Spec => RecordLifeSpec` |
| `CapIsHeldInOneGo` | `Calm` | `Spec => []CapHolds` |
| `OneIsUnansweredInOneGo` | `Calm` | `Spec => []OneUnanswered` |

*The assumptions.* `DryRun` is a dry run to which Razorpay sends nothing; section 6 names what
a server beside the batch does to the theorems that need it. `OneLadder` is a live run, in
which no promise is ever broken, or one whose record ladders and stall ladder take the same
action at an attempt that both have. The shipped ladders do not. For them there is `Calm`:
a dry run in which the process does not die, for any ladders. With neither, the two
properties are false, and section 6 tells how.

*The argument*, in layers, each an invariant over one before.
* `TypeInv`: the types of the books, the hands and the batch. It is enough for
  `PromiseRespected`, as the promise is read in the step that sends.
* `CountInv`, of both hands at once: one of them at most has a link's event (`Quiet`). Live, every link a
  row was written for exists at Razorpay (`LinksLanded`), so the batch settles none and nobody
  replies, and all it raises are the payments on the merchant's own orders; in a dry
  run no link exists at Razorpay, so all the server can be told of is a payment on the
  merchant's own order, or an event that the simulator has already claimed. So what
  a hand read is still so when it writes (`HandsFresh`), what is pending was sent (`PendingSent`), only what was sent has a result
  (`SentResolve`), and what was sent is finite (`SentFinite`), so that it can be counted.
* `InboxInv`, over it: a payment that `webhook_events` calls `PROCESSED` or
  `ALREADY_ATTRIBUTED` has a credited intervention of its record (`HandledIsCredited`, the
  safety half of `PaymentIsBooked`, of any payment and not only of one that names its link).
  It takes the same of what a hand has decided and not yet written, and that a hand looked up an
  intervention of its event's own record (`HandCredits`).
* `NumberInv`, given `OneLadder`: one number of one record is one intervention.
  `CapHolds` is not inductive, since it counts rows and the gate counts resolved
  attempts. `OnLadder`: a claim is the step of its number. `UnansweredIsLast`: an
  attempt without an answer has the next number. `NumberClaimed` and `TodoBehind`: a number proposed from
  a snapshot that lags was claimed before, and the claim is refused; `HeldRow` carries that to
  the row. `RowsClimb`: the number of the n-th row is n or more, so there are no more rows than the
  cap lets numbers be.
* `DeskInv`, given `DryRun`: what a session of the batch read still stands at its
  commit (`TaskFresh`), because the hand is the only other writer and belongs to the same
  thread (`HandKnows`); the events are those of links that were sent (`EventsKnown`); a
  link that was credited has its own payment, and its record is recovered (`Credited`); a settled
  record is on no desk, an escalated one on one (`Desk`).
* `TickInv`, over both: the batch is inside `handle()` only while promises are due or it settles
  (`HandInTick`), and its sessions write to records that were worked (`TaskInTick`); so a record
  read as the agent's own still is when its turn comes, unless it was read from the
  fixture (`SeenInTick`). From there it would be attempt 1 of its own ladder, for a promise is broken only
  by a customer who was reached; and by `ClaimInv` that is the first claim of
  any record that has one (`FirstClaim`), so the key is taken.
* `ImplementsLife` is a simulation over these: a claim is a `Try` of a record that is the agent's
  own or was never tried; a commit is the hand-over its session read for, since what it read
  stands, or writes what is there already; a credit is the first for its try, which was
  claimed; and what the hand found unprompted is still open when it is booked
  (`UnpromptedOpen`). Every other step is a stutter. `RecoveredStays` and the theorems on the desk
  and the credits are about single sides of this; it says how they fit.
* `CalmInv`, given `Calm`: what is unanswered was sent by this tick and waits for it to be settled
  (`AllAnswered`, and `InboxAnswered` for the events that do it), so a record is worked only when all
  it was sent has been answered, and then its counter is the length of its rows (`Counted`), unless
  money came. What is sent next is numbered above its rows, under whichever ladder (`HeldNext`). So
  `RowsClimb` holds again, and the last row alone can be unanswered (`OnlyLast`).

`ApiCallProofs` has lemmas, one for each operator of `ApiCall`, for any set of callers and
any set `W` of writes: each keeps `CallInv(W)`, which says where a write can be and what
that tells of how often the server did it (`OnceEach`): the answer in hand says whether it was
done; once its caller gave up it was not done while it may still arrive; and it may arrive
once. The two modules below instantiate `W`.

`ConsoleProofs`, for any number of polls, refreshes in flight and strays:

| Theorem | Says |
|---|---|
| `Inductive` | `Spec => [](PageInv /\ CallInv(Writes))` |
| `TypeCorrect` | `Spec => []TypeOK` |
| `PageIsNeverDeaf` | `Spec => []NeverDeaf` |
| `SettledLook` | `Spec => []SettledLookIsSettled` |
| `EachWriteOnce` | `Spec => []WriteAtMostOnce` |

*The argument.* `PageInv` makes what the run checks inductive. A timer that is set leaves a
poll to make, which bounds `polls.current`; and `PartialIsKnown`: a refresh in flight
that has read numbers of a job's middle has seen the job in its health, or still will, as
numbers of which neither holds count as torn. `NeverDeaf` is kept because every step that ends a refresh, and every
one that begins to wait, runs the poll effect.

`TabsProofs`, for any records and books, subjects, sections, edits of others, questions
in flight and strays:

| Theorem | Says |
|---|---|
| `Inductive` | `Spec => [](TabInv /\ CallInv(TabWrites))` |
| `TypeCorrect` | `Spec => []TypeOK` |
| `FormShowsLive` | `Spec => []ShownIsLive` |
| `NothingElse` | `Spec => []NothingElseChanges` |
| `ClearedIsSaved` | `Spec => []ClearedMeansSaved` |
| `CheckoutPhase` | `Spec => []PhaseIsReal` |
| `AnswersQuestion` | `Spec => []AnswersTheQuestion` |
| `LatestAnswer` | `Spec => []LatestAnswerIsShown` |
| `DrillShows` | `Spec => []DrillShowsTheCard` |
| `FlagIsRight` | `Spec => []BalanceFlagIsRight` |
| `HeadlineTrue` | `Spec => []HeadlineIsTrue` |
| `EachWriteOnce` | `Spec => []WriteAtMostOnce` |

*The argument.* All screens share one write in flight, so the proofs first say whose it is.
`Owner`: one screen at a time has something under way. `Answerable`: the kind of the write in
flight is that of what is under way, so no answer reaches the wrong
screen. Then the form: `AllPlain` carries the fields nobody typed in from the load through
the write, given up on or not, to the server. `UpToDate` says when the form has
the rules in force, between actions, during a replay, and in an apply of which nothing was taken.
`Saved` is the loop's invariant: what the apply has been through is in force. Its end needs
that a loop with no next section has been through all, which is that a set of numbers has a
least one (`LeastOf`, from the well-foundedness of `<`). `Sections` must not hold 0, the
place before the first: the assumption says so.

The sums of the scoreboard have no induction in them: a sum is the number of its rupees,
pairs of a record and a number (`Views.Total`), so `ViewsProofs` proves with facts about finite
sets what `FlagIsRight` needs. Of the rupees a set of records owes, those a part payment leaves
unpaid are matched one to one with those it is short of (`MissingIsUnpaid`); paid and unpaid
together are all that is owed and all that was credited beyond it, so the two sides are equal
exactly when there is nothing beyond (`PartsMakeTheWhole`). `ViewsAssumption` says that the
records are finitely many. `HeadlineTrue` needs that a trace on screen is an answer of the server
(`TraceIsAnAnswer`), and then goes through its stages.

*Only model-checked.* Liveness (`EveryRecordSettles`, `PaymentIsBooked`, `BusyEnds`,
`PollingEnds`, `ButtonsComeBack`), which TLAPS cannot do. That the executor's loops end is not
stated as a property: they are bounded by `MaxAttempts`.

## 5. Where the code and its words differ

Each is a run that TLC ends with a counterexample.

* **double_credit.** `payment.captured` names the record, `payment_link.paid` the link.
  If the customer pays the *first* of two links, `_find_intervention`
  credits the newest intervention for one event and the first for the other. "Single-attribution"
  (`attribution.py:19-21`) is per intervention, not per payment.
* **lost_payment.** The delivery's row is committed before its effect. If the process dies in
  between, every redelivery is `DUPLICATE` and the money is never booked. Without
  crashes the property holds, and `PaymentIsBooked` shows that a death
  during the handling is the only way to lose it.
* **failed_call.** After a `RazorpayError` the key stays claimed and the record stays
  as it was, so each later tick proposes the same key and is refused. "Parked for
  review" (`actions.py:132-135`) is only a FAILED row; no one is told.
* **opt_out.** A STOP reply sets `opted_out` in the database; the runner gives the gate
  the customers of the generated fixture, whose flag never changes.
* **replay_rules.** `_seed_rules` (`whatif.py:268-287`) reads the live rules after the
  process was pointed at the scratch database, relying on the cache to still have
  them. The second side comes after the first one's reloads: its read misses, finds
  the scratch database empty, and gets the shipped defaults. So one side of the
  diff has the merchant's edits and the other does not, which the comment at `whatif.py:246-249` says
  must not happen. One thread with nothing else running is enough.

## 6. Known limits of what holds

**The pipeline.**

* A payment can be credited between the read and the commit of `_queue_for_human`
  (`runner.py:388-414`) or `_close` (`368-385`): `RECOVERED` becomes `ESCALATED`, with a
  queue row, or `CLOSED`. `SettledIsNobodysWork` is checked where the batch is alone.
* `_cached` (`rules/__init__.py:66-75`) stores what it built under the generation of the
  moment it stores. A read that missed before an edit and is stored after the edit's
  `reload()` makes the old rule current again, until the next write.
  `OnlyStraddlersGoStale` shows that this is the only way, with the wipe named below.
* `PaymentIsBooked` speaks of payments whose intervention row exists when they arrive. A payment
  in the instant between the link's creation and the row's commit is recorded
  `UNATTRIBUTED`, and later deliveries of that event are duplicates.
* `EveryRecordSettles` is for dry runs. In live mode nothing calls an unpaid link
  silent, so its attempt never resolves and its ladder never climbs.
* The ladder of a broken promise applies for the one tick that resolves the promise
  (`runner.py:154-158`); nothing stores the new diagnosis. If the stall step is not due on that
  tick (`PAYMENT_STALLED` waits seven days at attempt 2), the next tick is back on
  the old ladder, though the record "now belongs on" the stall ladder. And if the tick
  sends and dies before it settles, a later one numbers the attempt the same from the old
  ladder: where the two name different actions at that number (`AWAITING_APPROVAL` and
  `PAYMENT_STALLED` do at 2) the keys differ, both are sent, and the record has one message more than the
  cap. `OneUnanswered` and `CapHolds` are checked, and
  proved, for ladders that agree, and proved for any where nothing dies in between.
* A visitor's commit resolves every promise that fell due, of any record, but leaves out
  `settle_promises` (`runner.py:146`, `settle=False` from `sandbox.py:290`): a buyer who would have
  kept the promise is given no chance to have paid, and the promise is booked as broken. The
  records that wake so are not in that batch, so that the stall ladder (`runner.py:154-158`)
  never applies to them. `EveryRecordSettles` and `RecordLifeSpec` hold all the same.
* The grace period of `promise_window` never bites: `settle_due` resolves a
  promise at its date, so no promise is open during its grace.
* A tick that finds no record of the agent's works the generated fixture, in which every
  record is untried (`runner.py:108-126`). A record with a claim is kept safe by its
  key (`LetGoIsLeftAlone`). One that was paid, closed or escalated before its first claim
  has none, and the state the rails see is the fixture's: it is sent a link, against the comment above that
  line.
* `OnlyStraddlersGoStale` excuses the time after `reset_database()`
  (`api/app.py:136`): it drops the edited rules and no reload follows, so the
  cache goes on serving them until the next write.
* A batch may read the rule before an edit for one record and the rule after it for the
  next: edits do not wait for batches, and each read asks the cache.
* An edit that commits while a replay has the handle is written to the scratch
  database and lost, or makes the replay's inserts fail; a webhook handled then is credited there
  and lost too (webhooks are not in RulesStudio). `ReplayWritesNothing`
  says only that the replay's own steps keep off the merchant's rules.
* A database error while building yields the shipped defaults, cached
  (`rules/__init__.py:100-105`); builds do not fail in the model.

**The page shell.**

* A refresh whose GETs straddle the end, or the start, of a job is torn: numbers from one side, health
  from the other. The page then looks settled over half a batch until the next
  refresh; the comment at `page.tsx:125-131` tells of the same look at boot. `SettledLookIsSettled` leaves it out.
* A 409 after the polls ran out resets `polls.current` (`page.tsx:215`) but changes nothing the
  poll effect depends on when the banner is already up: "Refreshing automatically."
  (`page.tsx:668`) is then not so, and the buttons stay disabled.
* The error of a failed `act()` (`page.tsx:426-428`) is wiped by the next refresh that
  succeeds (`page.tsx:155`), an overlapping one included.
* The kill switch is disabled while a job runs (`page.tsx:298`).
* The badge of the human tab counts all items; the card counts the tiers below 3.
* A 403, when the server has no `ADMIN_TOKEN`, is one of the `denied` answers.

**The rules form.**

* What is typed during an apply is wiped when it ends (`RulesStudio.tsx:201`).
* After an apply that stopped half-way the banner says the rule "was not saved"
  (`RulesStudio.tsx:305`), though its first sections were.
* An apply writes each section as the form loaded it, and so over what somebody else has
  changed in it since (`RulesStudio.tsx:198`).
* A first load that fails leaves the skeletons (`RulesStudio.tsx:229`).
* A 409 to a replay is worded as "Still replaying" (`RulesStudio.tsx:175-183`), whoever holds the lock.

**The labs.**

* When the import of a failed payment fails, its id is lost (`CheckoutLab.tsx:93`).
* A window of Checkout that is still closing is waited for before the next `Pay`; the code would open
  another beside it.
* A trace may come back when the form already says something else, and the card
  above it then shows the amount of the form (`TryIt.tsx:131`, `380`).
* A committed record whose diagnosis was the fallback's has no stage of its own for layer 2, and
  the strip says that layer 1 resolved it by lookup (`Trace.tsx:242-244`). "No model was
  reachable" is also shown when the model was switched off. `HeadlineIsTrue` leaves the first out.

**The views.**

* The dashboard's `failed` is never reset while it is mounted, and its other cards are drawn from a
  comparison that a later failure has outdated.
* Money that came by itself is in none of the three segments of the band, against
  `Dashboard.tsx:243` and `286`; and `MoneySplit` divides by the sum of its own
  segments, so that it never "looks short" (`charts.tsx:131-133`).
* The chip for invoices counts none (`Queue.tsx:68-73`). The cards for open and for written-off
  records open a filter that shows fewer rows than they count; `DrillShowsTheCard` is about the others.
* Promises and evidence show a request that failed as an empty list (`Promises.tsx:58-60`,
  `Evidence.tsx:279`); the evidence of a pending attempt has a cross.
* The two GETs of the audit trail can tear, their effect has no clean-up, and its error view
  no way back. The trail lists nothing to click, so that a record is never replaced by another in it.

## 7. Not modelled

Rendering and wording, recipients, SMTP; signature arithmetic and JSON shapes; amounts; the
language models and cohort statistics of the diagnosis (Recovery takes the ladder of
a record as a constant, so any diagnosis that does not change between
ticks is covered); generators and baselines, whose draws are nondeterministic choices
here; databases that a dry run and a live one have both worked (`Live` is a constant; the code would
settle the stubs of the one in the other, as it goes by the id of the link); export, verification and presentation; the schema upgrade; the validation of rules, the change log and the diff of a
replay. Of the dashboard: layout, icons, the theme, the charts that only draw what they are
given, the formatters of money and dates, the paging and two filters of the queue, and the
wording of banners, except where a property is about it. Deliveries are taken
as verified. Back-off delays are left out: a lookup may come at any time. `MarkNoResponse`
(`attribution.py:344-360`) is one step, although it reads before it commits: it answers stubs only,
of which no webhook tells, so that nothing can come in between.

## 8. Plan

1. Proofs: the desk with the server beside the batch, less the two races that section 6 names.
2. `Gate`: the fourteen rails and the in-batch tallies as operators on a proposal and a
   context, checked for order-independence, budget and frequency over two batches at
   once; `decide`, the schedule and the kill switch as its inputs. It then replaces
   `Verdicts` in Recovery.
3. `HumanQueue`: ranking against a reference order; resolve from the two sessions that
   can do it.
4. `Api`: reseeding over existing claims, and a replay beside webhooks,
   composed of RulesStudio's handle and Webhooks' hands; builds that fail; the page's writes
   over the locks of RulesStudio in place of the answers that Tabs takes for possible.
