# Formal model of drvowa-autoresponse

TLA+ specifications of the parts of this WhatsApp auto-responder in which
several processes, retries, leases and money meet; TLC configurations that
check them on small instances; and TLAPS proofs that hold for every instance.
Paths below are relative to the repository, whose application code is under
`src/`.

## 1. The system

A business connects a WhatsApp account. A separate *runtime* process (not in
this repository) speaks to WhatsApp: it posts inbound messages and observed
outbound messages to the web application and executes send requests, each under
an idempotency key. The web application stores everything in SQL Server.
`scripts/ai-worker.ts`, of which several may run, answers customers, sends
campaign messages, hold messages and owner notifications. A second script
delivers financial events to a hub.

The parts share state only through the database: rows claimed with tokens and
leases, status columns, counters and unique indexes. There are no in-memory
locks between processes, so every `await` between two statements is a point
where anybody else may act. That is what the models are about.

| part | state | operations | correct when |
|---|---|---|---|
| **AI reply pipeline** (`modules/ai/orchestrator.ts`, `jobs-repository.ts`) | `TblAiReplyJob` with token, lease, text, ambiguity count | schedule, claim, reclaim, the steps of `processAiReplyJob`, fenced completions | one text per job reaches the customer; SENT is all or nothing; one job per conversation at a time; every job settles |
| **Conversation AI state** (`conversation-state-repository.ts`, `inbox-ai-service.ts`, `observation-service.ts`, `human-ownership*.ts`) | mode, pause reason, resume and takeover times | pause, resume, catch-up, takeover, daily resume, gates | a safety pause is lifted only by a person; nothing is answered twice, nor after a person; a quiet conversation returns |
| **AI worker process** (`worker-runner.ts`, `scripts/ai-worker.ts`) | map of active tasks, loop phase | claim, run, heartbeat, shutdown, drain | no ghost entry; bounded load; every job is done |
| **Usage ledger** (`billing/entitlements.ts`, `subscription-entitlement-lifecycle.ts`, `pricing/free-trial*`) | reservations, monthly counters, plan, trial, lots | reserve, consume, release, mark uncertain, settle a lapsed period | counters are commitments; lots conserve units; overflow is funded; the trial ends |
| **Campaign delivery** (`messaging/campaign-*.ts`) | runs, items, throttle, consent | launch, pause, resume, cancel, the tick | at most one message per recipient and day; STOP holds; the cap holds; verdicts are true |
| **Escalations** (`modules/escalations`) | escalation with hold claim and alert status | open, repair, acknowledge, resolve, hold tick, alert tick, follow up | one hold message per case; the record is true and paid for; every claim ends |
| **Manual payments, subscriptions** (`billing/manual-payment-*`, `admin-operations.ts`, `scheduled-changes.ts`, `renewal-worker.ts`) | payment request, invoice, receipt, refund, subscription, pending change | intent, confirm, approve, reject, discount, refund, cancel, expire, renew | one open request, one subscription; the four books of a payment agree; a refund ends its own service |
| **Financial outbox** (`billing/saas-financial-*`) | event rows with leases | capture, claim, post, settle | ACCEPTED is booked; verdicts are final; every event gets one |
| Pricing (`modules/pricing`) | add-on orders, credit, discounts | quote, order, review | a payment grants once |
| WhatsApp channel (`modules/channels`) | connection status, account key | connect, QR, disconnect, map state | the status follows the runtime |
| Knowledge (`modules/knowledge*`) | documents, analysis runs, candidates | analyse, apply | a candidate is applied once |
| Inbound and synchronisation (`modules/messaging/service.ts`, …) | conversations, messages, labels | receive, merge, sync | a message is stored once |
| Auth, pulse, audit, onboarding, administration, web UI | sessions, reports, records | — | see `PROJECT.json` |

Interactions: the inbound webhook schedules a job; the job's task calls the
ledger (two reservations), the model provider, the gates of the conversation
state, the runtime, and opens escalations; escalations pause the conversation;
the campaign tick calls the ledger and the runtime; hold messages use the ledger
too; payments change the plan the ledger limits by and capture the events that
the outbox delivers. `PROJECT.json` lists every component, with the reason
where it is not modelled, and under `hazards` the places where the code is hard
to test, each with the properties that watch it.

## 2. Modules

| module | models |
|---|---|
| `Reservation` | abstract: the life of one quota row |
| `ReplyDelivery` | abstract: what the pipeline promises about one reply |
| `AiReplyPipeline` | jobs, tasks, leases, both quota rows, runtime, people |
| `WorkerRunner` | the worker process around the tasks |
| `QuotaLedger` | the ledger of one business, in full detail |
| `CampaignDelivery` | campaigns of one WhatsApp account |
| `EscalationCare` | the hold message and the owner's alert of a case |
| `ConversationOwnership` | who answers a conversation, by the times of what happened |
| `FinancialOutbox` | delivery of financial events to the Hub |
| `ManualPayment` | billing of one business, composed with the outbox |
| `…_proofs` | one for each component: its inductive invariant, lemmas, theorems and their TLAPS proofs |
| `MC…` | instances for TLC: constants and symmetry |

`QuotaLedger`, whose rows are written as the SQL writes them, implements
`Reservation`, and so do the quota rows of `CampaignDelivery`. `AiReplyPipeline`
and `EscalationCare` take what a ledger call does to a row from `Reservation`:
they see of the ledger exactly what the ledger is checked to provide.
`AiReplyPipeline` implements `ReplyDelivery`. `ManualPayment` extends
`FinancialOutbox` and implements its `OutboxSpec`.

### AiReplyPipeline

`job[j]` is a row of `TblAiReplyJob`. A *slot* is one task a worker may run;
since every claim draws a fresh lease token, the slot's name serves as the
token, and a token left in a row by a task that ended becomes `Orphan`.
`task[s]` holds the local variables of `processAiReplyJob`; its `pc` is named
for the code that comes next. Every action is the code between two awaits that
touch shared state. Functions of the code and actions of the model:

- `scheduleOrCoalesceJob` — `Schedule`. Coalescing onto a pending row changes
  only its due time and trigger, which are not modelled: a stutter.
- `claimNextJob` — `Claim`, with the ordering that puts expired PROCESSING rows
  before PENDING ones and the condition that no other job of the conversation
  is processed.
- the lease — one fact per row, `live` or `expired`. A running task beats, so
  expiry under a task is a *stall*, bounded by `MaxStalls`.
- `LIVE_LEASE_FENCE` — `Owns`; any fenced step without it is `LeaseLost`.
- `requireLiveLease`, reservation, generation, `persistGeneratedReply`, the
  setting and conversation gates, the final check, the second reservation, the
  send, and the four ways it ends — one action each, in the order of the code.
- `keepQuotasUncertain`, `releaseWaQuota`, `releaseAiQuota` — one action per
  ledger call, *not* fenced, as in the code. What a task knows of a reservation
  (`aiHeld`, `aiReleaseEligible`) is its `GripOn` it: it may give back only what
  it reserved itself.
- `recordAmbiguousOutbound` and `handleAmbiguousOutbound` — `DeferUnknown`
  below the limit, `GiveUpUnknown` at it, which pauses for safety in the same
  transaction.
- the final transaction — `FinalizeSent`, or `FinalizeThrows` when a
  reservation cannot be consumed.
- people — takeover, manual pause, resume, resume with catch-up, resolution of
  an escalation, the switch of the auto-reply setting. A takeover echo that is
  older than the last resume changes nothing and is a stutter.

The activation and resume watermarks are the sets `preEnable` and `preResume`
of jobs created before them. The runtime is external: it delivers at most one
payload per key, an answer may be lost, and a request may be executed after its
caller has timed out (`late`). `COALESCED` is declared as a job status but
never written by the code, so it is not a status here.

### WorkerRunner

The loop (`polling`, `claiming`, `starting`, `sleeping`, `draining`, `closed`),
the `active` map keyed by job, the tasks themselves with their `lost` flag, and
the row's lease. JavaScript runs one callback at a time: a step is the code
between two awaits. A claim commits in the database before its answer arrives,
so a crash or shutdown may fall in between. The work of a task is abstract; it
ends by completing the row if it owns it, or by leaving it.

### QuotaLedger

Each ledger call is one serialised transaction, hence one step; only the month,
computed before the transaction, is carried in (`call`). `resv` and `booked`
are the reservation row, `counter` the monthly commitments, `lots` and `alloc`
the purchased replies. A paid period that has ended is settled by the next call
that looks (`SettleSubscription`, `SettleLapse`), and the settlement rolls back
with a refused reservation. Quantities are 1, as every caller's are.

### CampaignDelivery

`processNextCampaignDelivery` is a chain of separate statements; each is an
action, so two workers and the owner interleave between any two: expiry sweep,
its quota fencing, discard of ineligible recipients, completion of runs, the
claim with throttle and cap, account check, the two rechecks around the
reservation, send, finish, circuit breaker, settlement. `Dies` ends a tick
anywhere. `current` stands for "the draft is still approved with the run's text
and its label exists"; `heard` records what a contact's phone got. "Within 24
hours" is "today", and `DayPasses` separates the days.

### EscalationCare

`case[c]` is the row of `TblHumanEscalation` as the two interval timers of a
worker see it: hold step, whether a hold is due, the age of the hold's claim,
the status of the alert and the age of its claim. Neither claim has a token, so
that after ten minutes a sweep gives it up while its sender may still be at
work. `hold[h]` is `deliverNextCustomerHoldMessage` cut at its awaits: look for
a person's message (`HoldLook`), reserve, send with its three endings
(`HoldSent`, `HoldNotReady`, `HoldUncertain`), release, and the unconditional
updates `HoldRetry` and `HoldStop`; the final transaction is `HoldRecord`.
`alert[a]` is `deliverNextEscalationNotification`; its `finalize` is fenced by
the status alone. People (`createEscalation` and its repair branch,
acknowledgement, resolution, answers, confirmations, settings) act on the same
row between any two steps. The key of a send is the hold step that the tick read
when it claimed, whatever the row says by then. `heard` (the keys), `alerted` and `noted` record what reached
the customer, the owner and `TblMessage`.

### ConversationOwnership

One conversation on a logical clock: every act of a person that the code dates
takes the next value. A message has two times, as in the code: when it was
written, which the conversation's times take, and when the runtime received it,
which the schedule gate and the follow-up look at. A reply from the inbox is
dated when it has been sent (`manual-reply-service.ts:202`) and recorded with
that date by a later transaction, anything happening in between. `state` is the row of `TblConversationAiState` with its mode,
reason, hand-back watermark and last human reply; `thread` has the times of the
conversation row and of its newest outbound messages. A reply on the phone is
*given* at one time and *observed* later, perhaps after messages and hand-backs
that came after it. `Inbound` is the transaction of the webhook; the case of a
request for a person and the follow-up of a confirmation come after its commit
and may fail (`RequestDies`). `Resumes` is the hand-back with catch-up,
`ResumesAll` the bulk one, `ResumeDue` the sweep of quiet conversations.
A job is `pending`, then `active`; `Passes` is its last gate before the send.

### FinancialOutbox and ManualPayment

`FinancialOutbox` has the rows of `TblSaasFinancialOutbox`, the workers that
lease and post them, and the Hub (external: it books an event once and refuses
a refund whose payment it has not booked). Every class of answer is an action:
acknowledged, too early, uncertain (429, 5xx, lost; the Hub may have booked it)
and refused. `Settle` writes under the lease or not at all.

`ManualPayment` has the requests of one business with invoice, receipt and
refund, the subscription each bought, the pending change and the coupon. Every
operation is one transaction under the business lock, as in the code, except
the two that the code makes of several: an intent that replaces a stale one
(`Begin`, `CancelStale`, `Create`) and the stale sweep (`SweepVoid`,
`SweepCancel`). Dates are ticks left until them.

Billing captures events and otherwise reads of the outbox only whether a row
exists (a refund asks for its payment's event), which no worker changes.
`Spec`, which TLC checks, therefore leaves the workers out (`Posters = {}` in
its cfg); `ComposedSpec` has them. That this loses nothing is proved:
`MoneyInvariance`, `ServiceInvariance` and `RequestInvariance` are theorems of
`ComposedSpec`,
`SpecIsComposed` says every behaviour of `Spec` is one of it, and
`BillingImplementsOutbox` says the composed system obeys `OutboxSpec`, so that
the properties checked and proved of the outbox hold in it.

## 3. What is checked

Each passing run finishes within three minutes on two cores. Every property of a
passing run is paired in `PROJECT.json` with a *mutant*: a faulty variant of one
definition (written beside it in the module) under which TLC finds the property
violated, so that each of them depends on what the code does at that place.

| run | shows |
|---|---|
| `AiReplyPipeline_job` | one job, all its retries: `TypeOK`, `WireIsDurableText`, `SentIsBacked`, `DeliveryIsMetered` (what was delivered or may still be keeps its units, while no lease ran out under a task), `UnknownIsBounded`, `ClosedIsFinal`, `SafetyPauseHolds`; `ImplementsDelivery` (refinement of `ReplyDelivery`) |
| `AiReplyPipeline_settles` | two jobs of one conversation: `OneJobAtATime`, liveness `EveryJobSettles` |
| `QuotaLedger` | `CounterIsCommitments`, `LotConservation` (with no unit stranded), `OverflowIsFunded`, `TrialCeiling`, `TrialStaysOver`, refinement `ReservationLife` |
| `WorkerRunner` | `EntriesRun` (with the load bounded), liveness `EveryJobIsDone` |
| `CampaignDelivery_account` | `HeardOnce` (per recipient of a run, and per day), `AccountStaysUnderCap`, `VerdictIsTrue`, `DeliveryIsMetered` |
| `CampaignDelivery_days` | `StopIsHonoured`, liveness `ItemsSettle` |
| `EscalationCare` | `OneHoldMessage`, `HoldIsAccounted`, `AlertVerdictIsTrue`, liveness `CareSettles` |
| `ManualPayment` | `OneOfEach`, `ChangeBindsCurrent`, `MoneyAgrees`, `RefundedIsNotServed`, `RefundSparesOthers` |
| `FinancialOutbox` | `AcceptedIsBooked`, `VerdictIsFinal`, liveness `EventsSettle` |
| `ConversationOwnership` | `AnsweredOnce`, `NoAnswerAfterDesk`, `HandbackIsAnswered`, liveness `QuietReturns` |

Every module states a `TypeOK`; it is a property of a run only where a theorem
is about it. Elsewhere types are part of an inductive invariant or are implied
by what TLC explores.

Two runs are expected to fail; each contradicts a sentence of the repository,
quoted in `PROJECT.json`:

| run | property | disagreement |
|---|---|---|
| `EscalationCare_answer` | `HoldStopsAtAnswer` | a person's reply from the phone has no `TblMessage` row; a send that is answered NOT_READY around it arms the hold again, and the customer is told to wait after having been answered |
| `ConversationOwnership_fresh` | `FreshMessageIsServable` | a message received after a hand-back coalesces onto a job from before it and is thrown away with that job |

Further disagreements, each with a property in its module and, where named, a
configuration kept beside the others to be run by hand; TLC finds each
violated:

- `AiReplyPipeline_ack.cfg`, `AcknowledgedLands`: recovery of an acknowledged
  send passes the gates again (`orchestrator.ts:625`) and may close the job as
  SKIPPED or FAILED; `docs/AI_WORKER_RECOVERY_RUNBOOK.md:67-69` has it land
  once under the new owner.
- `AiReplyPipeline_meter.cfg`, `AcknowledgedIsMetered`: quota releases are not
  fenced (`orchestrator.ts:306`), so a stale task gives back the reservation of
  a reply the new owner has delivered; the same runbook, line 62.
  `DeliveryIsMetered` holds because it asks for no stall.
- `WorkerRunner_drain.cfg`, `CleanDrainIsIdle`: the active map is keyed by job
  id (`worker-runner.ts:176`); after a lost lease and a reclaim by the same
  worker the first task's end removes the second's entry, and the drain is
  called clean while it runs.
- `CampaignDelivery_pause.cfg`, `SkippedIsSuppressed`: a pause between claim
  and check drops an eligible recipient for good
  (`campaign-delivery-worker.ts:357`).
- `ManualPayment_sweep.cfg`, `ConfirmedKeepsInvoice`: the stale sweep
  (`renewal-worker.ts:18-23`) voids invoices and cancels requests in two
  statements without the business lock, which `docs/BILLING_V2.md:36` has it
  take. A confirmation in between leaves a request under review whose invoice
  is void, and `documents.ts:57` refuses to approve it for ever.
- `ConversationOwnership`, the second disjunct of `NoAnswerAfterDesk`: an inbox
  reply is dated before the transaction that records it
  (`manual-reply-service.ts:202`, `:205-273`). A hand-back with catch-up that
  commits in between sees the customer's message unanswered and queues a job for
  it; the record's takeover, older than the new watermark, is then ignored
  (`conversation-state-repository.ts:127-128`), and the assistant answers what
  the desk has answered. Without that disjunct TLC finds this in eight states.
- `ConversationOwnership`, `NoAnswerAfterPerson`: catch-up knows messages that
  are in `TblMessage` only (`inbox-ai-service.ts:107-108`); a tail that was
  answered on the phone is answered again. To see it, name the property in the
  cfg.
- `ConversationOwnership` with `Reorder = TRUE`, `HandbackIsAnswered`: when
  messages are posted out of order, `touchConversationInbound`
  (`messaging/repository.ts:864-893`) overwrites `LastInboundAtUtc` with the
  older time, and the sweep takes an unanswered conversation for answered.
- `docs/RELIABILITY_ENGINE_V1.md:9,27` and a comment in
  `scripts/ai-worker.ts:122` have the quiet interval at 30 minutes,
  `human-ownership-policy.ts:6` has 90. The model's `Quiet` is a constant.

### Bounds

Counters that would grow for ever are cut by named constants in the guards.

- `MaxStalls`, `MaxAborts`, `MaxMoves`, `MaxUnknown` (pipeline): two task slots
  and two lost leases give every overlap of two stale tasks and an owner; three
  ambiguous outcomes are the code's own limit. A second job is needed only for
  what concerns a conversation, and there one stall makes a stale task.
- `MaxTasks`, `MaxFaults`, `MaxExits` (runner): two faults suffice to overwrite
  an entry and to exceed the concurrency; three jobs exceed the capacity of two.
- `LastMonth`, `MaxPlanChanges`, `NumLots`, `LotSize`, `TrialCap` (ledger): one
  end of month separates the booked month from the calendar's; two keys fill a
  plan of one and overflow to a lot; two lots let a released key return to
  another one.
- `DailyCap`, `MaxDays`, `MaxFaults`, `MaxOwner`, `MaxWords` (campaigns): the
  cap is below the number of messages that two runs of two contacts want; two
  workers with one death give every overlap of a tick and the sweep.

- `MaxMishaps`, `MaxOwner` (escalations): two ticks of each kind and two
  mishaps let a stalled sender, the sweep and a second sender meet on one case,
  with a change of settings.
- `NumMsgs`, `LastAct`, `LastTick`, `Quiet`, `MaxOwner` (ownership): two
  messages, one reply on the phone and two acts of operators give a message
  before and one after every takeover and hand-back; the clock runs on after
  the last act for as long as the quiet interval. One inbox reply is under way
  at a time. `Reorder = FALSE` is a precondition of `HandbackIsAnswered`:
  messages are posted as written.
- `MaxTrouble` (outbox): two workers and three troubles let a lost answer, a
  lost lease and a second delivery fall on one event, of a payment or of its
  refund.
- `Wants`, `Tabs`, `Month`, `Grace`, `Window`, `MaxRedemptions` (payments): two
  payments are an upgrade, a downgrade or a renewal of one by the other, two
  tabs race for one open request, and a period of two ticks, with a grace and
  a window of one, has an inside, a renewal window, an end and a time past it.

The theorems of section 4 hold for every value of these constants, so that for
safety, action and refinement properties the bounds serve TLC only.

Symmetry is used on interchangeable slots, texts, workers and keys in safety
runs only. Runs set `CHECK_DEADLOCK FALSE` where the system stops because all
work is done and the bounds are spent.

### Fairness

- Pipeline: the poll loop repeats for ever, so a job that stays claimable is
  claimed; a task runs to its end (each external call has a timeout); time
  passes over a lease nobody extends. No fairness for people, stalls or deaths.
- Runner: the loop, the tasks and the expiry of leases that nobody beats, and a
  supervisor that restarts an exited worker.
- Campaigns: the interval timer keeps ticking and time passes over a claim.
- Escalations: both timers of a worker keep ticking, every call of a tick
  returns, and claims grow old.
- Outbox: every worker's loop goes on, a lease nobody works under runs out, and
  claims are strongly fair for each event, as the claim takes the row with the
  earliest `NextAttemptAtUtc`. `EventsSettle` excepts what the code excepts: a
  refund whose payment the Hub refused for good is tried for ever.
- Ownership: the sweep runs every minute and time passes. No fairness for
  people, the webhook or the jobs.

Deaths and stalls are finitely many in every run. The code has no cap on
attempts, so with infinitely many a job would indeed never settle.

## 4. What is proved

Every invariant, action property and refinement of the passing runs is a theorem
of its specification, for every number of jobs, keys, workers, messages,
payments and so on, and every bound. Only liveness is left to TLC. Each
`…_proofs` module defines an inductive invariant, which TLC checked on the
module's instances before it was proved, and shows the same three facts: it holds
initially, every action preserves it, it implies the properties. What a step does
to one part of the state is stated once (`…Moves`, `…Step`, frame lemmas) and
cited by each conjunct that reads this part.

Assumptions are only the named `ASSUME`s of the modules: constants are natural
numbers, tables have their shape, and the null values (`NoText`, `NoCase`,
`Nobody`, `NoPlan`) are not members of the sets they complete. Two theorems have
a hypothesis besides: `LotsAreConserved` and `SweepsHandBackAnswered`, explained
below.

### The pipeline

| `AiReplyPipeline_proofs` | statement |
|---|---|
| `Invariance` | `Spec => []IInv` |
| `TypeCorrect` | `Spec => []TypeOK` |
| `OneTextPerJob` | `Spec => []WireIsDurableText` |
| `SentIsMetered` | `Spec => []SentIsBacked` |
| `OneJobPerConversation` | `Spec => []OneJobAtATime` |
| `ClosedForGood` | `Spec => ClosedIsFinal` |
| `UnknownsAreBounded` | `Spec => UnknownIsBounded` |
| `SafetyPausesHold` | `Spec => SafetyPauseHolds` |
| `DeliveriesAreMetered` | `Spec => []DeliveryIsMetered` |
| `DeliveryImplemented` | `Spec => ImplementsDelivery` (the pipeline implements `ReplyDelivery`) |

`OneTextPerJob`, `SentIsMetered` and `ClosedForGood` do not follow from
their own statement. `WireIsDurableText` says nothing of a task
that is about to send, so `TextIsDurable` adds that from the send gate on every
task, *stale or not*, carries the text of its job's row. That survives because
a text once written is never changed, and because `SnapshotIsCurrent` says that
a task whose token is in the row either found the text at its claim or found
none and generates: so the fenced persist writes only where there is none, and
only the owner goes on from it. A stale task that generated another text is
stopped at the persist, which is fenced. `SentIsBacked` needs
`LeaseDiscipline` (a token in a row is that of a slot still at work on this
job, and a closed row has neither token nor lease), so that `Owns` excludes a
job closed by someone else, and it needs that a consumed reservation is never
released. `ClosingIsDecided` says that a task on its way to a terminal status
knows which. `ClosedForGood` is an action property: every statement that writes
a row asks for a status, a token or a lease that a closed row lacks, by
`LeaseDiscipline`. The proof groups the actions by what they write (`LocalStep`,
`QuotaStep`, `SendStep`, `LeaveStep`, `RowStep`, `OuterStep`); each conjunct of
`IInv` has a lemma with a step for each group, and under it one for each action
that may disturb it.

The refinements map each step of the pipeline to one step of the abstract
specification or to a stutter: the fenced persist is `Choose`, an execution by
the runtime, in time or late, is `Deliver` because of `WireIsDurableText`, and a
terminal status is `Answer` or `Close`.

`DeliveriesAreMetered` needs `MeterInv`. While no lease ran out under a task, a
job has one task at work (`OneTaskPerJob`), so only that task can give a unit
back, and it may give back only what it reserved (`GripOn`). `CommitmentsKept`
says that once a request of the job is on the wire or a reply delivered, no task
may release: one that comes after a death finds the commitment in the ledger and
only holds it, and the one that sends gives up its grips when the outcome is
unknown. The condition cannot be dropped: with a stalled task it is false, as
`AiReplyPipeline_meter.cfg` shows.

### The usage ledger

| `QuotaLedger_proofs` | statement |
|---|---|
| `LedgerInvariance` | `Spec => []LedgerInv` |
| `LedgerTyped` | `Spec => []TypeOK` |
| `CountersAreExact` | `Spec => []CounterIsCommitments` |
| `OverflowIsPaid` | `Spec => []OverflowIsFunded` |
| `TrialIsCapped` | `Spec => []TrialCeiling` |
| `LotsAreConserved` | `FlagsAgree /\ Spec => []LotConservation` |
| `TrialDoesNotReopen` | `Spec => TrialStaysOver` |
| `RowsLiveAsReservations` | `Spec => ReservationLife` (implements `Reservation`) |

The properties count over sets, and the set of all keys may be infinite. The
invariant has therefore that only finitely many keys were used, and with it a
committed row that comes or goes changes the count of its month by one. That a
counter is its month's commitments is what keeps a release from meeting a counter
at zero, so the type invariant needs it. `OverflowIsFunded` and `TrialCeiling`
rest on the tests of the reservation and on the fact that a plan once held stays
in `held`. For lots, `LotsBalance` adds that a lot which pays for a reply was
bought. `FlagsAgree` says that all processes run with the same setting of the
add-on flag, as they do when it is not changed under load; TLC checks
`LotConservation` under it as well. With both settings a release may leave an
allocation behind (`entitlements.ts:904`, listed as a hazard); all
other theorems hold with any mixture of flags.

### The worker process

| `WorkerRunner_proofs` | statement |
|---|---|
| `RunnerInvariance` | `Spec => []RunnerInv` |
| `EntriesAlwaysRun` | `Spec => []EntriesRun` |

The part of `EntriesRun` that bounds the load is the difficult one: entries of
the active map are overwritten when a worker reclaims its own job and deleted by
whichever task ends first, so that more tasks may run than the concurrency. The
invariant counts *strays*, tasks that lost their lease or beats or have no entry
of their own, and says that there are no more than faults so far. A task that
ends without an entry of its own deletes that of another, which becomes a stray
in its place: the count stays. `Room` and `ClaimAlone` say that a claim in flight
keeps the place that it was started for and is the worker's only one.

### Campaigns

| `CampaignDelivery_proofs` | statement |
|---|---|
| `CampaignInvariance` | `Spec => []CampaignInv` |
| `CampaignTyped` | `Spec => []TypeOK` |
| `NobodyHearsTwice` | `Spec => []HeardOnce` |
| `StopsAreHonoured` | `Spec => []StopIsHonoured` |
| `VerdictsAreTrue` | `Spec => []VerdictIsTrue` |
| `DeliveriesArePaid` | `Spec => []DeliveryIsMetered` |
| `CapHolds` | `Spec => []AccountStaysUnderCap` |
| `CampaignsKeepReservations` | `Spec => Ledger!Spec` (the quota rows of campaigns implement `Reservation`) |

The claim is fenced by a token, the send is not: a tick whose row has expired
still sends. What makes this safe is the row (`RowKept`): from the claim to the
end of the tick it is in flight or unknown and counts as a message of today, so
that no other tick gets the recipient, or the phone in another run
(`TicksApart`), and the tick's phone has got nothing yet (`Unheard`). The cap is
tested by the claims; `Counted` carries it to the sends by charging each request
to a claim of today that no tick waits with. The theorems keep one restriction of
the model: no tick stalls from one day to the next.

### Escalations

| `EscalationCare_proofs` | statement |
|---|---|
| `CareInvariance`, `CareTyped` | `Spec => []CareInv`, `Spec => []TypeInv` |
| `OneHold` | `Spec => []OneHoldMessage` |
| `HoldsAccounted` | `Spec => []HoldIsAccounted` |
| `AlertsTold` | `Spec => []AlertVerdictIsTrue` |

Neither claim has a token, so the proofs do not rest on who holds it. For the
hold message they rest on the key of the send, which is the step that the tick
read, on the check that a step at the limit sends nothing, and on the
reservation. For the
alert they rest on the one way out of PENDING (`AlertIsAlone`): a tick past its
claim finds SENDING, or UNKNOWN from the sweep, so nobody else can have claimed
the row since, and a finalize that is fenced by the status alone settles what its
own tick knows (`AlertKnows`).

### Who answers a conversation

| `ConversationOwnership_proofs` | statement |
|---|---|
| `OwnershipInvariance` | `Spec => []OwnershipInv` |
| `NobodyIsAnsweredTwice` | `Spec => []AnsweredOnce` |
| `DeskHasTheLastWord` | `Spec => NoAnswerAfterDesk` |
| `SweepsHandBackAnswered` | `~Reorder /\ Spec => HandbackIsAnswered` |

`AnsweredOnce` becomes inductive as `StandsOnce`: the pending job, the active job
and the answers stand for different messages. Catch-up keeps it because it asks
for any reply under way. `NoAnswerAfterDesk` needs that the watermark of a
conversation on AUTO is not before the date of the last inbox reply on record,
and that a job *made after that record* was asked for by a message received after
the reply (`JobAfterDesk`): a job that coalesces keeps its creation time, but what
it takes on has passed the schedule gate. A job made before the record passes the
send gate only if the watermark is not after its creation; the watermark then
lies between the reply and its record, which is the exception that the property
names. `HandbackIsAnswered` needs two facts of different kinds. The date
of a takeover is that of something a person said (`PersonHeard`), which holds
always; and `LastInboundAtUtc` is the date of the newest stored message
(`OrderInv`), which holds only where messages are posted in the order they were
written. Hence the hypothesis; section 3 has what happens without it.

### The outbox

`FinancialOutbox_proofs` assumes nothing of the constants.

| `FinancialOutbox_proofs` | statement |
|---|---|
| `OutboxInvariance` | `OutboxSpec => []OutboxInv` |
| `Booked` | `OutboxSpec => []AcceptedIsBooked` |
| `VerdictForGood` | `OutboxSpec => VerdictIsFinal` |

`AcceptedIsBooked` is not inductive: the row that a worker is about to settle
must be about an event the Hub has booked when the answer was an
acknowledgement (`AckIsBooked`), also when its lease is gone; and a worker at
work must have a captured event (`BusyOnRow`), or the Hub could book one that
has no row. `VerdictIsFinal` needs that only a leased row has a live lease
(`LiveIsLeased`): a settlement asks for one, so it finds no verdict to change.

### Manual billing

From `BillingAssumption` (wants are plans with or without the coupon, lengths of
time are naturals, the null value is no payment), for any number of payments,
tabs and workers:

| `ManualPayment_proofs` | statement |
|---|---|
| `MoneyInvariance` | `ComposedSpec => []MoneyInv` |
| `SpecIsComposed` | `Spec => ComposedSpec` |
| `BooksBalance` | `Spec => []MoneyAgrees` |
| `BillingImplementsOutbox` | `ComposedSpec => CapturesInOrder` (the `OutboxSpec`) |
| `ComposedBooksHold` | `ComposedSpec => []AcceptedIsBooked /\ VerdictIsFinal` |
| `ServiceInvariance` | `ComposedSpec => []ServiceInv` |
| `ChangeAlwaysApplies` | `Spec => []ChangeBindsCurrent` |
| `NoServiceAfterRefund` | `Spec => []RefundedIsNotServed` |
| `RefundsSpareOthers` | `Spec => RefundSparesOthers` |
| `OneCurrentSubscription` | `Spec => []OneSubscription` |
| `RequestInvariance` | `ComposedSpec => []RequestInv` |
| `OneOfEachHolds` | `Spec => []OneOfEach` |

`MoneyInv` is types, `OutboxInv`, and for each payment that its books agree and
that a request has an invoice and the other way round. An approval captures the
event because no event is there yet, which is what `MoneyAgrees` says of a
request that is not approved; so each step of billing is one capture in the
order the outbox allows, or leaves the outbox alone, and the refinement needs
no mapping.

`ServiceInv` adds the link from a payment to its subscription (`LinkOK`): a
payment that started a subscription names it, and one that names another waits
for the downgrade it paid for, or was refunded. Without it neither
`RefundedIsNotServed` nor `RefundSparesOthers` is inductive, as a refund decides
by that link what to end. `OneLive` makes "the current subscription" one, and
`ChangeShape` says that only a downgrade is paid for. That an expiry keeps
`ChangeBindsCurrent` rests on the order of maintenance and on grace not being
negative: a change is due before the subscription it is bound to can expire.

`RequestInv` states the counts of `OneOfEach` as equalities of members, which a
step of three transactions keeps because the insert looks again.

### Model-checked only

- Liveness: `EveryJobSettles`, `EveryJobIsDone`, `ItemsSettle`, `CareSettles`,
  `EventsSettle`, `QuietReturns`. Proofs under fairness need `ENABLED` and
  induction over a well-founded order, which the prover does not offer.
- The two properties that TLC refutes.

Induction over data and recursive operators are out of the prover's reach as
well; no module here declares a recursive operator.

## 5. What is not modelled

- Contents: prompts, texts, formatting, languages, the loop guard's history
  (its verdict is nondeterministic), report layouts.
- Wall-clock values: leases, watermarks, "24 hours" are the facts the code
  derives from them. The exact due time of a job is not in the state.
- Connector calls during generation (bookings).
- The worker's own status heartbeat, and the pool that closes under a side timer
  still running.
- The quota of WhatsApp sends in the ledger run: those keys take the same
  transaction without trial and lots, and the pipeline checks their protocol.
- Escalations: the second hold step, which `MAX_HOLD_STEPS = 1` makes
  unreachable; the reply to a waiting customer who writes again
  (`maybeSendCustomerHoldAbsorbOnInbound`), which nothing calls; the copy of an
  alert in the bot's own chat.
- Ownership: the early returns of catch-up for a switched-off assistant, a tail
  older than a day or the loop guard; open Pulse tasks, which only put the
  sweep off; the reopening of a case by an explicitly reported recurrence
  (`messaging/service.ts:262-282`); `resumePreviousDayConversations`,
  which nothing calls.
- Payments: the financial capture is enabled and every payment is past its
  cutoff, so that an approval for cash always captures an event
  (`saas-financial-outbox.ts:36-50`) and the refund of a payment without one
  (`saas-financial-refund-outbox.ts:29-41`) does not occur. A change that is
  applied more than a whole period late, and expires at once, is modelled: the
  clock of a change runs down to a period and a grace past its date. The annual
  interval, which makes the period longer; customers' requests for refunds and
  their rejection, which change no money; legacy invoice reconciliation;
  renewal e-mails; add-on transfer orders and the credit ledger; the state of a
  billing provider's webhook, which no provider posts to.
- Ledger: the free-trial flag is on in all processes; who is enrolled is
  fixed at the start.
- Outbox: retry delays, the building and hashing of payloads; the
  reconciliation runner and the group-finance export read both books and change
  neither.
- The components marked `not_modelled` in `PROJECT.json`.

## 6. Plan

Written so far, in order of importance: the pipeline with its abstract
specifications, the ledger, the worker, the campaigns, the care of escalations,
ownership of a conversation, and manual billing composed with the outbox; and
proofs of the safety of all of them. Next:

1. `ReplySchedule`: due time and the race of coalescing with the claim.
2. `ChannelLifecycle`: connect, QR, disconnect and the runtime's status reports.
3. `PasswordReset`: its separate statements; `KnowledgeApply`: a candidate
   applied once.
4. Add-on transfers and the credit ledger, beside `ManualPayment`.
5. The reconciliation comparison as a pure function against a set definition.

Proofs left: that the composition of two components keeps what each promises
where they meet (a campaign's and a reply's keys in one ledger), and the safety
halves of the liveness properties, as bounds on what a job can still do.

## 7. Running

    tlc -config AiReplyPipeline_job.cfg MCAiReplyPipeline
    tlc -config ManualPayment_sweep.cfg MCManualPayment
    tlapm AiReplyPipeline_proofs.tla
    tlapm ManualPayment_proofs.tla

`PROJECT.json` pairs every configuration with its module and lists the map from
definitions to source lines.
