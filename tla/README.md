# AurexV4 — TLA+ models, checks and proofs

AurexV4 is a carbon-credit platform: an Express/Prisma API, a React client and
a few shared packages. This directory holds TLA+ models of the parts whose
correctness depends on the order in which several actors act, the TLC runs that
check them on small instances, and TLAPS proofs of what holds for every instance.

The paths below are relative to the repository; `api/` is `apps/api/src/`.

## The system

| Component | State it keeps | Operations | Interacts with | Status |
|---|---|---|---|---|
| Events worker (`api/workers/aurigraph-events.worker.ts`) | module variables `timer`, `inFlight`, `activeDeps`, `stopRequested`; rows `AurigraphEventCursor`, `AurigraphProcessedEvent` | start, stop, tick (read the ledger, forward burns, move the cursor) | chain ledger, registry, `Issuance`, `DelistRequest` | modelled, proved |
| BioCarbon Registry adapter (`api/services/registries/bcr`) | maps of VCCs and locks | lock, confirm, notifyMint, unlock, retire | called by tokenization and the worker | modelled as used |
| Tokenization (`api/services/tokenization.service.ts`) | `Issuance.tokenizationStatus`, `tokenizationContractId`, `bcrSerialId`, `bcrLockId` | `tokenizeIssuance` | registry, chain adapter | modelled |
| Retirement (`api/services/retirement.service.ts`) | `Retirement` rows, unique on (issuance, kyc) | `retireToken` | chain adapter; the worker finishes it | modelled |
| Delist (`api/services/delist.service.ts`) | `DelistRequest` row | `delistIssuance` | chain adapter; the worker finishes it | modelled |
| Chain adapter (`api/services/chains/aurigraph-dlt-adapter.ts`) | none (call log) | deploy, burn, ledger, with retry on 5xx | outside chain | modelled as used |
| Billing (`api/services/billing`, renewal worker) | `Subscription`, `RazorpayOrder`, `RazorpayWebhookEvent`, `RenewalAttempt`, `Invoice` | checkout, confirm, webhook, refund, renew (by the tick or by "Renew now"), expire, cancel | payment provider, e-mail | modelled but for amounts, TRIAL, the scheduler's start and stop and its page size |
| Credit ledger (`issuance`, `transaction`, `reversal`, `ca-events`, `host-authorization` services, `routes/corresponding-adjustments.ts`) | `Issuance`, `CreditUnitBlock`, `Transaction`, `CorrespondingAdjustmentEvent`, letter of authorization | request, approve and mint, reject, transfer, retire, draw the buffer, emit and link events, export a BTR, revoke the letter | activity, verification | modelled |
| Activity cycle (`activity`, `pdd`, `verification`, `monitoring`, `host-authorization` services) | `Activity.status`, documents, reports, `MonitoringPeriod`, letter | document, submit, validate, authorize, register, monitor, verify, anchor | issuance reads what it leaves | modelled but for methodologies and questionnaires |
| Baseline scenarios (`baseline-scenario.service.ts`) | versions with a status | create, submit, approve (supersedes), reject | — | modelled |
| SDK offline queue (`packages/aurigraph-dlt-sdk/src/queue.ts`, `client.ts`) | an array of operations, a `flushing` flag, a store | enqueue, flush, clear, restore | the network | queue modelled; of the client what it puts in and replays |
| Approvals (`approval`, `workflow-recipe` services) | `ApprovalRequest`, `ApprovalVote` | enable a recipe, submit, vote | — | modelled |
| Coupons (`coupon.service.ts`) | `SignupCoupon` with a counter, `CouponRedemption` | redeem, update, convert | registration | redemption modelled; quotas not |
| Retention and archival (`archival.service.ts`, nightly worker) | datapoints, `DatapointArchive`, blobs | archive, restore | monitoring | modelled |
| Authentication (`auth`, `password-reset`, `security` services) | password, `Session`, `PasswordReset` | log in, refresh, log out, reset, change, revoke | — | sessions modelled |
| KYC (`kyc.service.ts`) | `KycVerification` beside the vendor's record | start, refresh, name a beneficiary, revoke | retirement reads it | modelled against the vendor `kyc-adapter.ts` describes |
| AWD2 handoff (`routes/awd2-handoff.ts`, `awd2-import.service.ts`) | `Awd2Handoff`, `Issuance`, `Activity` | receive, check, import, fail | the AWD2 registry | modelled but for signatures |
| Organisations, emissions and reporting, data protection, research, e-mail, other routes, web client, scripts | rows with role-guarded CRUD, documents | — | — | not modelled |

`PROJECT.json` gives the files of each component and the reason where a
component is left out, and lists the hazards of the code at their lines.

### How the modelled parts interact

A verified carbon credit (VCC) exists at the BioCarbon Registry (BCR). An
issuance is tokenized by locking the VCC at the registry, deploying a contract
on the Aurigraph chain and telling the registry. Later the token is burnt, for
retirement or to delist it. The request handlers only burn; it is the events
worker that reads the burn on the public ledger, calls `retireVCC` or
`unlockVCC`, and mirrors the outcome in `Issuance` and `DelistRequest`. Requests
run concurrently, the worker runs beside them in the same process, and the
database, the chain and the registry are updated by separate calls with no
transaction around them.

### What makes it hard, and what must be true

* A tick may die between any two awaits; the next one must redo exactly what is not
  done. The cursor must never pass an open burn (`CursorSafe`), burns are settled in
  order, once, for good (`ImplementsBurnSettlement`), and every burn is settled in
  the end (`EveryBurnSettled`).
* A burn the registry keeps refusing must not block the others for ever, nor be
  given up early (`RetryBudget`).
* Start, stop, timer and the end of a tick interleave (`OneTickAtATime`,
  `StopIsQuiet`).
* The registry is the authority: our rows may not run ahead of it (`RegistryFirst`,
  `UnlockedIsBurnt`, `RetiredStaysRetired`).
* Concurrent tokenizations, retirements and delists of one issuance share its rows
  (`MintedIsBacked`, `OneBurnPerRetirement`).
* A payment reaches billing twice, by the browser's callback and by a webhook that
  may come again, late, out of order or never, beside a daily tick that renews and
  expires and a customer who renews by hand, also after the lapse: service must be
  granted for payments and nothing else (`PeriodsArePaid`, `ActiveHasInvoice`), and
  nobody may be cut off early (`NoEarlyLapse`) or ride free (`FreeRideEnds`).
* A VCC must not be free at the registry while its token is live
  (`LiveTokenIsLocked`): this is the double-counting rule of the bridge.
* Nearly every handler outside billing reads and checks, awaits, and then writes
  what follows from the read without looking again. What such a race may break and
  what it must not is the subject of the ledger and of the services: units are
  minted once and split without loss (`MintIsSplit`, `MintedOnce`), a retired unit
  is not used again (`RetiredIsFinal`), every use has its adjustment event
  (`UseIsReported`), no event is marked exported that no export has read
  (`ExportedWasListed`), the history explains the holder (`HolderIsLastRow`); no
  status without its evidence (`StatusHasEvidence`), one baseline (`OneBaseline`),
  no decision without its votes (`QuorumIsReal`), no redemption beyond the cap
  (`CapHolds`), no session of an old password (`OldSessionsEnd`), no retirement on a
  revoked verification (`RevocationSticks`).
* Data that lives in two places, with a crash between the writes: the queue and its
  store (`PendingIsStored`; nothing lost and the order kept, `ImplementsOutbox`), a
  period's rows and its blob (`DatapointsKept`), the handoff's row, its issuance and
  what the emitter was told (`CreditImportedOnce`).
* The queue must drain though the network fails (`QueueDrains`).

## Modules

| Module | Contents |
|---|---|
| `BcrRegistry` | The registry: VCC status and locks, one operator per accepted call. |
| `BurnSettlement` | Abstract specification: a ledger of burns, each settled in order, once. |
| `EventsWorker` | The worker over `BcrRegistry`, with an environment that stands for the chain and all handlers. `SafetySpec` and, with fairness, `Spec`. |
| `EventsWorkerProofs` | Theorems about `EventsWorker!SafetySpec`. |
| `BiocarbonBridge` | The handlers interleaved with the worker; extends `EventsWorker`. |
| `Billing` | Subscriptions, orders, renewal attempts and invoices under concurrent routes and the renewal tick; stands alone. |
| `CreditLedger` | Issuances, blocks, adjustment events and their export, of one registered activity. |
| `ActivityCycle`, `BaselineScenarios` | How the activity got registered and its periods verified; the baseline versions. |
| `Outbox` | Abstract specification: operations delivered in order, each delivered or announced. |
| `OfflineQueue` | The SDK's queue, with fairness; implements `Outbox`. |
| `Approvals`, `Coupons`, `Archival`, `Sessions`, `KycChecks`, `Awd2Handoff` | One service each. |
| `MC_EventsWorker`, `MC_BiocarbonBridge`, `MC_Billing`, `MC_CreditLedger` | Instances for TLC (the other cfgs of `Billing`, and those of `Approvals` and `Archival`, need none). |
| `MC_Services` | Composes `ActivityCycle` to `Awd2Handoff`, and `Billing` with one handler, for one run, one of them per behaviour. |
| `BiocarbonBridgeProofs` | Theorems about `BiocarbonBridge`; extends `EventsWorkerProofs`. |
| `BillingProofs`, `CreditLedgerProofs`, `OfflineQueueProofs` | Theorems about the module of that name. |
| `LifecycleProofs` | Theorems about `ActivityCycle`, `BaselineScenarios` and `KycChecks`. |
| `ServicesProofs` | Theorems about `Approvals`, `Coupons`, `Archival`, `Sessions` and `Awd2Handoff`. |
| `MC_ServicesProofs` | The services together: their invariants hold in the composition. |

### Correspondence

*Grain.* One action is the code between two awaits whose interleaving matters.
Reading the cursor, fetching the ledger and extracting the burns are one action
(`Poll`), since no other code writes the cursor and a ledger read later can only
be longer. The writes after the registry's answer are separate actions
(`FlipDelist`, `ApplyIssuanceStateTransition`, `MarkProcessed`), since a crash
may fall between them.

*The worker.* `pc` is where `processTick`/`processSingleEvent` stand; `pc #
"idle"` is `inFlight !== null`. `timer` is `"none"`, `"armed"` or `"fired"`:
the code never resets the handle when the timer fires, and
`startAurigraphEventsWorker` reads it. `active` is `activeDeps !== null`.
`batch`, `event` and `lastAdvanced` are the tick's locals. A position in the
ledger stands for a `txHash`, and 0 for a null cursor. `bcrAccepted` is history.
`Crash` loses everything but the database, the chain and the registry;
`TickThrows` is an exception out of a database or ledger call: the `catch` of
the timer callback ends the tick and `finally` schedules the next one.

*The retry budget.* `nextRetry > maxRetries` parks a burn at its
`MaxRetries + 1`-th failure; the header of the worker (l.57) reads as if it were
the `MaxRetries`-th. The worker's tests agree with the code.

*The registry.* `MockBcrAdapter` refuses to unlock a *tokenized* VCC, so with it
every delist of a minted token ends parked. The end-to-end test wraps it so that
the unlock is accepted. The constant `UnlocksTokenized` chooses; the runs use
`TRUE`, the registry for which the delist flow is written, and `ForwardFails`
covers refusals in general. The proofs hold for both.

*The handlers.* `req[r]` holds the program counter and the locals of one call.
`tokenizeIssuance` draws a fresh serial and receives a fresh lock, always used
as a pair, so the request that drew them stands for both. A contract is the
attempt (of `callWithRetry`) that deployed it, since a retried call may have been
applied before. A lost reply (`DeployReplyLost`, `BurnReplyLost`) is a call the
chain applied and answered by an error. Nothing in this repository makes the chain
refuse to burn a contract twice, so the model lets it.

*What the ledger lists.* A delist burn carries its metadata. A retirement burn
puts its fields into `reason` as JSON: the model takes the ledger to list them
as metadata, as the chain of the end-to-end test does. `retireToken` has, at this
commit, no route; its tests and the end-to-end test call it.

*Billing.* `sub`, `order`, `attempt`, `invoice` and `events` are the rows of the
five tables; invoices are counted by status, since the code never relates an invoice
to an order. `gateway` is what happened to an order's money and `inbox` the calls
about it that may be delivered by now, each any number of times: the confirmation
sent by the browser and three kinds of webhook. `handler[h]` is one execution of the
confirm, webhook or renewal checkout route. Of the first two, the reads before the
transaction are `ReceiveCallback` or `ReceiveWebhook`; `applyRenewalCapture` reads
the attempt inside the transaction but before it waits for the row lock, which is
`ReadAttempt`; then the transaction is one action (`CaptureRenewal`,
`CaptureByCallback`, `CaptureByWebhook`, `RecordFailure`, `ApplyRefund`).
`HandlerThrows` is any error, with the transaction rolled back: a database error or
an invoice number (`count + 1`) that another transaction took.
`startRenewalCheckout` has two callers, which run beside one another: the tick
(`ReadSubscription`, `ReadWindow`, `PersistRenewal`) and `POST
/renewal-attempts/:id/checkout` (`RequestRenewal`, `ReadRequestedWindow`,
`PersistRequested`), which the customer may call at any time and also for an
`EXPIRED` subscription, as l.770 of the service allows. Each reads the subscription,
then the attempt of its window, and then creates the attempt or uses it again,
whatever it has become meanwhile. The provider's `createOrder` has no effect the
database or the customer sees before the rows are written, so it is one action with
them (`StartCheckout`, `PersistAttempt`) or it fails (`RenewalFails`,
`HandlerThrows`). `worker.pc` is the position in `processRenewalTick`, `worker.todo`
the result of its scans. A unit of the clock is longer than the provider's 24 hours
of retries and than any handler or tick, so calls not delivered before the clock
moves are lost. Customers are taken to send the confirmation while their browser is
open, not units later.

*The ledger.* `block` holds the `CreditUnitBlock` rows, named by the approval that
minted them and their kind, so a second mint of an issuance would be seen.
`call[c]` is one execution of a handler: `pc` is the await it waits for and the
other fields are what it has read. An interactive transaction (`MintBlocks`,
`Transfer`, `Retire`, `CancelDrawn`) is one action, the checks before it another
(`BeginApprove`, `BeginTransfer`, ...); the adjustment event is created after the
transaction (`Emit`) and linked to its row last (`Link`). A transaction that throws
has been rolled back: its call is dropped (`Drop`). `Init` is an activity as
`ActivityCycle` leaves it, for each scope of the letter, with and without removals.
Issuances that the AWD2 import creates (`ISSUED`, without blocks) are in `Awd2Handoff`;
`MintedOnce` is about those requested here.
`linked`, `listed`, `dropped` and `raced` are history, or rows nobody reads.

*The services.* Each has an array of concurrent calls, like `CreditLedger`, and a
`Drop` action for an await that throws or a process that dies. `ActivityCycle`:
`transition` is called with the status to write after the guards were passed and
after another read; `Move` writes it whatever the status is by then.
`BaselineScenarios`: `Supersede` and `Decide` are the two writes of one approval.
`OfflineQueue`: JavaScript interrupts `flush` only at its await, so `StartFlush`
puts the head on the wire and `Sent` or `NotSent` is what happens after; `shift`
takes whatever is the head then. `refused` are operations the server always answers
by a 4xx. `Approvals`: `BeginVote` reads the request, `CastVote` creates the vote,
`UpdateRequest` writes the count read before plus one; `overlapped` and `untallied`
(a call that ended between its vote and its tally) are history. `Coupons`: a row
that is updated is locked until commit, and `CountRedemption` waits for it; its
guard `BelowCap` is evaluated on the committed counter but with the cap read before.
`Archival`: the read of the rows, the upload and the transaction that deletes are
three actions. A blob's key is the millisecond after the read (`Date.now()`), so two
runs may share one and the later upload then replaces the earlier; an upload is
taken to last longer than a millisecond, so a later run has another key. A restore
compares the blob with the archive's checksum first. `Sessions`: a session is known
by what identifies its row, a refresh token by its rotation number. `KycChecks`: the
vendor answers, then the row is written. `Awd2Handoff`: `Store` creates the row
(unique on the nonce), and the five stages of the import follow one another with
awaits between them; `Emit` and `told` are the registry on the other side, which
hands a credit over again when it was told of a failure.

*One run for nine services.* They share no state, so their product says nothing
more than each by itself; `Billing` is a tenth there, for its liveness. `focus` picks,
in the initial state, the one whose actions a behaviour takes; the others stay as they
began.

## Runs

| Run | Instance | Shows |
|---|---|---|
| `events_worker` | 1 issuance, 1 serial, 1 lock; 4 kinds of entry; `MaxRetries = 1`, 2 entries, 1 forgotten, 1 fault | all properties of `EventsWorker` (130,136 states) |
| `accepted_never_parked` | the same | violated: an accepted burn can be parked |
| `biocarbon_bridge` | 3 calls, 1 issuance, 1 kyc id; 2 burns, `MaxRetries = 1`, 2 chain attempts, 1 lost reply, 1 exception, 1 crash | all properties of `BiocarbonBridge` (783,714 states up to symmetry) |
| `one_live_token` | 3 calls, no faults | violated: two live tokens for one issuance |
| `delist_reconciled` | 3 calls, no faults | violated: a delist stays `CHAIN_BURNED` |
| `failed_means_not_burnt` | 3 calls, 1 lost reply | violated: `FAILED` although burnt |
| `billing` | 1 subscription, 2 orders, 2 handlers, a year of 2 units opened 2 ahead, no grace, clock up to 3, 1 trouble | the safety properties of `Billing` (2,539,455 states up to symmetry) |
| `paid_is_not_expired` | as `billing` | violated: a paid renewal is expired |
| `credit_ledger` | 1 issuance, 2 calls; 50 t verified, 20% buffer; letters for NDC and OIMP or for mitigation contribution; 2 owned accounts; retirements for NDC and voluntary; draws of 1 and 10; 2 transaction rows | all properties of `CreditLedger` (about 899,000 states up to symmetry) |
| `services` | 2 calls of each service; 1 period, 3 opinions; 3 baseline versions; queue of 2, 3 operations, 1 key, 1 restart; 2 approvers, quorum 1 to 3; 3 e-mails, caps 1, 2 and none; 2 datapoints, 2 runs, 2 milliseconds; 2 sessions, 1 rotation each, 2 passwords, 2 resets; 2 verifications; 2 credits, 3 nonces; `Billing` as above with 1 handler | the properties of the nine services, and that nobody rides free for ever (503,424 states) |
| `votes_decide` | 2 approvers, 2 calls, quorum 1 or 2 | violated: an approval in flight overwrites a rejection |
| `never_purged` | `Archival` as in `services` | violated: a datapoint is deleted that is in no blob |

*Bounds, and why they are enough.* Two entries are the least with an order
between burns, with one behind a refused one, and with a cursor in the middle;
the same VCC may be burnt by both, which makes the registry refuse the second.
`MaxRetries = 1` has all three outcomes (retry, last retry, parked). One fault
lets a tick die once at every place and resume. Three calls are the least for
"tokenize, then two burns that race" and for "two tokenizations that race, then
a burn". `MaxLedger`, `MaxForgotten`, `MaxFaults`, `MaxLost` and `MaxThrows` bound
counters that are unbounded in the code; `MaxRetries` and `MaxAttempts` are
its own constants. Deadlock is checked in every passing run but `services`: the
workers' timers are always armed again, and requests keep coming, so those systems
never stop; a coupon that is used up or a credit that was imported has nothing left
to do.
In `Billing`, a year of two units has a moment before, at and after the end of a
period; three units reach a lapse, and a renewal paid early, late or not at all;
two orders are a first payment and a renewal, or (after a free first year) two
renewals, or a renewal and its retry by hand; two handlers are the least that race.
Symmetry does not go with liveness, so `FreeRideEnds` is checked in `services`, with one
handler beside the tick: that the tick ends the ride needs no race of two handlers.
`MaxTroubles` bounds together cancellations, failed payments, refunds, refused
calls, exceptions and crashes.
In `CreditLedger` two calls are the least that race, and each may be followed by
others; 50 t give levies of 2 and 1 with a remainder lost to flooring (5% is 2.5), a
buffer of 9 for removals, and a draw of 10 that the buffer cannot cover beside one
it can; two rows are a transfer and a retirement, or two moves that overtake one
another. In the services, two calls race, a third credit, e-mail or version is the
one that comes after the race, a queue of two overflows at the third operation, and
a quorum of three is one the two approvers cannot meet. `MaxRows`, `MaxOps`,
`MaxRestarts`, `MaxVersion`, `MaxSessions`, `MaxRotations`, `MaxPasswords` and
`MaxResets` bound counters that are unbounded in the code.

*Fairness.* Only the worker's own steps are fair (`TickStep`, `TimerFires`,
`StopReturns`): they are callbacks the event loop runs when due and awaits that
resolve or reject. `StartWorker` is fair since a process that died is started again
and starts its worker. Nothing is assumed of the chain, the handlers or the
registry's answers: a registry that refuses for ever parks the burn.
`EveryBurnSettled` excepts a burn the ledger endpoint drops before it is seen, and a
cursor whose entry is dropped: then the worker sees no burn any more (disagreement 2
below). No property of the bridge needs fairness. In `Billing` the renewal tick
alone is fair: `setTimeout` arms it again after every tick, also one that threw
(`TickFocus` in `services`). `FreeRideEnds` assumes nothing of customers, the
provider or the handlers.

In `OfflineQueue` the interval timer calls `flush` for as long as the client lives
(WF on `StartFlush`), a request on the wire is answered or fails (WF on `Sent` or
`NotSent`), and one that is tried for ever gets through in the end (SF on `Sent`):
that is the network the queue is written for, and without it nothing could drain.

*Conditions in properties.* `LiveTokenIsLocked` and `OneBurnPerRetirement` are
stated for executions in which no reply was lost (`lost = 0`): with a lost reply
they do not hold, as `failed_means_not_burnt` shows for the burn. Refused calls,
exceptions and the crash are in both cases included.

The models of the ledger and the services carry a few history variables, and the
properties say exactly in which case the code does not keep what it otherwise
keeps. Each case is in the model, and each is narrow:

| Property | Excepts | Where the code then fails |
|---|---|---|
| `MintedOnce` | `raced`: two decisions on one issuance overlapped | both read `REQUESTED` (`issuance:179`): it is minted twice, or minted and rejected |
| `UseIsReported` | `dropped`: the call stopped between its commit and the event | nothing creates the event later (`transaction:131`) |
| `OneBaseline` | `contested`: decisions overlapped; `unfinished`: an approval stopped between its writes | two versions approved, or none (`baseline-scenario:160`) |
| `NeverLost`, `ImplementsOutbox` | `overtaken`: the head was removed while on the wire; `storageFailed` | `shift` takes the next operation, which was never sent (`queue:118`) |
| `QueueDrains` | `refused`: the server refuses an operation for ever | the operations behind it wait (`queue:122`) |
| `CapHolds` | a lowered cap | a redemption compares with the cap it read (`coupon:288`) |
| `QuorumIsReal`, its exact tally | `overlapped`: a call began while another ran; `untallied`: one stopped between its vote and its tally | votes are lost or a decision is overwritten (`approval:222`) |
| `DatapointsKept` | `late`: added between a run's read and its delete | deleted without being in the blob (`archival:220`) |
| `OldSessionsEnd` | `late`: the login compared the old password before; `interrupted`: a change stopped before it deleted the sessions | the session survives the change |
| `RevocationSticks` | `crossed`: a refresh held the older answer; `swallowed`: the write of the row failed | the row stays `APPROVED`, and a second revocation is refused by the vendor (`kyc:404`) |

In two of these cases the comments promise more than the code does: `QuorumIsReal`
and `DatapointsKept` say what it keeps, and what is promised beyond them is
disagreements 8 and 9 below, each with a run. In the others no document, comment or
test of the repository promises more.

## Where the code and its documentation disagree

1. *An accepted burn can be parked* (`worker:485`). Between the registry's answer
   and `PROCESSED` lie two writes. When the tick dies there, the burn is
   forwarded again, refused (`already retired`, `unknown lock`), retried and
   parked. The schema calls re-processing a no-op.
2. *A cursor the ledger no longer lists* (`worker:570`) hides every burn; the
   comment says that then all entries are returned (`AbsentCursorReturnsAll`, checked
   in place of `AcceptedNeverParked`, gives the trace; no run keeps it).
3. *Two tokens for one issuance* (`tokenization:267`): the idempotency check and
   the write it relies on are far apart.
4. *A delist that is never reconciled* (`delist:279`): the worker may settle the
   burn before the initiator stores its row.
5. *`FAILED` although burnt* (`retirement:644`): an error of the chain call does not
   mean that the chain did not move; `burnAsset` also keeps the retry on 5xx that the
   adapter's comment advises against for burns.
6. *A paid subscription is expired* (`subscription.service:1087`): the check that
   the attempt is unpaid is made outside the transaction that sets `FAILED` and
   `EXPIRED`, which repeats only the check of the subscription's status. Likewise
   `startRenewalCheckout`, from the tick or from "Renew now", may turn a `PAID` attempt
   back to `PENDING` (l.845) and so hand it to the grace pass.
7. *Two invoices for one payment* (`subscription.service:596`): so is the check
   that the payment was processed (`OneInvoicePerPayment`, checked in place of
   `PaidIsNotExpired`, gives the trace; no run keeps it).
8. *Overlapping votes* (`approval.service:222`): a vote reads the request, awaits twice
   and updates it by id. The header says that the lifecycle is one-way from `PENDING`,
   that any rejection fails the quorum and that reaching it flips the request
   (l.11, 20-23, 139): once all votes are tallied, they decide (`VotesDecide`). In the
   trace an approval in flight turns `REJECTED` into `APPROVED`. In other orders a
   rejection in flight does the reverse, or of two approvals one tally is lost: the
   request stays `PENDING` although its quorum has voted, and nobody may vote twice.
9. *Purged datapoints* (`archival.service:220`): the delete takes every row of the period,
   and a row added after the run's read is in no blob (`NeverPurged`). The header of the
   service (l.14-17) and the schema (l.1608) say that data is moved rather than deleted,
   and never purged.

## Proofs

`EventsWorkerProofs` proves, for all sets, all bounds and both kinds of registry,
from `BcrAssumption` and `WorkerAssumption` (numbers are natural, the "no value"
constants are not values, ledger entries have the entry type):

* `TypeCorrect`, `CursorIsSafe`, `RetryBudgetHolds`, `RegistryGoesFirst`,
  `TicksDoNotOverlap`: `SafetySpec` implies always the invariant of that name;
* `StoppedIsQuiet`: the action property `StopIsQuiet`;
* `Refinement`: `SafetySpec` implies `Settlement!Spec`, the instance of
  `BurnSettlement`.

The argument is one inductive invariant (`Invariance`). `CursorSafe` alone is not
inductive: `PersistCursor` stores `lastAdvanced`, a local of the tick. So
`FrontierInv` says that during a tick every listed burn that is neither settled
nor the current one, and lies before what the tick has still to take up, does
not exist: what is settled is a prefix up to `lastAdvanced`, then the current
event, then the batch. `TickInv` ties `pc`, `event` and `batch` together,
`LoopInv` the timer and `active`; `RetryBudget` is inductive with the former; and
`AcceptedInv` carries the registry's state along with a burn accepted and not yet
marked. It rests on `RegistryIsFinal`: no operation of the registry leaves
`retired` or brings a deleted lock back. Refinement then maps `MarkProcessed` and
`MarkFailedPermanent` to `Settle` (lemma `SettlesEvent`, from `FrontierInv`),
ledger steps to themselves, and all else to stuttering.

`BiocarbonBridgeProofs` adds `BridgeAssumption`: a call draws fresh serials and
locks, so both are the calls themselves, and every burn a handler can send is an
entry the ledger can list. It proves

* `BridgeImplementsWorker`: the handlers, with lost replies, exceptions and crashes,
  do only what `EventsWorker` assumes of its environment. With the worker's theorems
  this gives `BridgeSettlesBurns`: next to any number of handlers, burns are settled
  once, for good and in order;
* `BridgeTypeCorrect`, `MintedAlwaysBacked`, `LiveTokensAlwaysLocked`,
  `UnlockedAlwaysBurnt`, `RetirementsBurnOnce` and the action property
  `RetiredNeverComesBack`.

Their invariant (`BridgeInvariance`) is the worker's together with what links its
state to the calls: what a program counter says of a call's locals (`HandlerInv`), a
`MINTED` row is the work of one tokenization (`TokenInv`), a ledger entry is the burn
of a call (`LedgerInv`), only stored contracts are burnt (`ContractInv`), and a
tokenization's lock is confirmed and its VCC not free from the lock to the burn
(`LockInv`). `UnlockedIsBurnt` needs in addition that, once the registry accepted the
delist in hand, its VCC stays free while the tick still writes (`DelistInv`).
`RetirementsBurnOnce` needs `RetirementInv`: of the calls for one row, one created it,
and only that one goes on to burn.

`BillingProofs` proves, from `BillingAssumption` (a period is not empty, the lookahead
is within one), `BillingTypeCorrect`, `PeriodsAlwaysPaid`, `ActiveAlwaysInvoiced`,
`NobodyLapsesEarly` and `CancelledStaysCancelled`. `PeriodsArePaid` is not inductive: a
capture extends a subscription by a year, and nothing in it says that the order was
not counted before. The invariant says so from the other end: the end of period `a`,
for which a renewal is cut, is covered by the orders paid *other than* the renewal's
own (`PaidBefore`), for an attempt's order (`AttemptInv`), for one a handler has looked
up (`HandlerInv`) and for one that "Renew now" or the tick is about to cut (`HandlerInv`,
`WorkerInv`; whichever of the two persists it, lemma `WhoPersists`); so when the
capture writes `a + Period` the order pays for it, once or many times. `WorkerInv` also
says that the first pass holds no expired subscription and the second only periods
past their grace, which is `NoEarlyLapse`. It does not say that the attempt is `FAILED`:
a renewal tried again after the lapse is `PENDING`, while the subscription stays `EXPIRED`
until it is paid.

`CreditLedgerProofs` proves, from `LedgerAssumption` (finite calls and issuances, a
buffer of 0 to 100 per cent, accounts of organisations apart from the administrative
ones), `LedgerTypeCorrect`, `MintAlwaysSplit`, `MintedAtMostOnce`,
`HolderAlwaysLastRow`, `UseAlwaysReported`, `ExportedAlwaysListed` and the action property
`RetiredStaysFinal`. What a call has read is still there when it writes (`CallInv`), and
only net units are ever in an organisation's account, so only they are moved; a mint is
fresh, for its issuance is never `REQUESTED` again (`FreshInv`); it has a block for each
kind with units (`SplitInv`, where the levies are `\div` and their remainder stays in
the net block); and as long as no two decisions overlapped, one call at most decides on
an issuance (`DecisionInv`).

`LifecycleProofs`, for any number of calls:

* `StatusAlwaysHasEvidence`. Evidence is never taken back (`Evidence`, `PeriodEvidence`),
  so what a call will write has its evidence from the check on, however late it writes
  (`VisitOK`).
* `OneBaselineAlways`. While nothing is contested an approval in flight is alone
  (`Alone`) and finds what it has read unchanged (`DeskOK`); between its two writes no
  version is approved.
* `RevocationAlwaysSticks`. An answer in flight has become true at the vendor and is not
  older than a revocation but where `crossed` says so (`KycCallOK`); a revocation is on
  the row, or its own call has still to write it (`RowsFollow`).

`OfflineQueueProofs` proves `QueueTypeCorrect`, `OperationsNeverLost`,
`PendingAlwaysStored` and the refinement `QueueImplementsOutbox` for any limit, keys and
restarts. They need that a queue repeats
neither an operation nor a key (`Lines`, also of what is stored), so that a replacement
takes out one operation and the removal of the head is noticed; and that a flush is
running exactly while an operation is on the wire, which is the head unless it was
overtaken (`HeadOnWire`). `SuffixMeans` turns `IsSuffix` into a statement about positions.
The refinement maps what is in memory to `pending`; the store and the flush disappear.
`Enqueue` is `Accept` or `Replace` (`EnqueueIsAccept`), `Clear` is `Discard`, `Sent` is
`Deliver` because the head is on the wire, `Restart` is `Rewind` (`RestartIsRewind`, from
`PendingIsStored` and the absence of repetitions), and all else stutters. An outbox is
`broken` once an operation on the wire was removed or the storage failed, and then
promises nothing; a step that does not break it is one of those. `NeverLost` follows
from the refinement: it is proved by itself too, and no run checks it beside
`ImplementsOutbox`.

`ServicesProofs` proves the property of five services, from the assumptions on
their constants (finite sets, natural numbers, `"none"` and `NoCap` not values),
for any number of concurrent calls:

* `QuorumAlwaysReal`. What a vote has seen is at most the votes there were, so what
  it writes, its own included, is at most the votes there are (`BallotInv`): votes
  are never taken back, and lemma `VotesGrow` counts them. That much holds for
  overlapping calls (`CountInv`); when none overlapped, a call in flight is the only one,
  it has seen what is there, and its vote is the only one not yet tallied (`TallyInv`).
* `CapAlwaysHolds`. The row lock lets one transaction count at a time, so from its
  look to its commit the counter stays below the cap it has read (`CountedInv`).
* `DatapointsAlwaysKept`. As long as nothing is archived, every run that has read
  has all there was (`RunInv`), so the first to commit deletes nothing else.
* `OldSessionsAlwaysEnd`. Needs beside the property only what the calls carry.
* `CreditAlwaysImportedOnce`. The unique row admits one import per nonce
  (`ImportInv`); the emitter is told of a failure only when the import has ended, and
  of two nonces of a credit it was told one failed (`EmitterInv`).
* `HandoffTypeCorrect`. Two imports of one project may both create an activity. Once
  there is one, no further import sets out to create another, so there are never more
  than there are concurrent deliveries (`CreatedInv`).

`MC_ServicesProofs` puts the nine services of `MC_Services` together: a step of the
composition is a step or a stutter of each (`StepOfEach`), so every service keeps its
invariant (`ServicesInvariance`), and with it `ServicesTypeOK` holds for all values of the
constants (`ServicesTypeCorrect`).

*Every invariant and action property a passing run checks is also proved.* The three
liveness properties, `EveryBurnSettled`, `FreeRideEnds` and
`QueueDrains`, are only model-checked: liveness under fairness is out of the prover's
reach. So is what a recursive definition or a fold computes: `MintIsSplit` and
`HolderIsLastRow` are therefore stated with quantifiers over rows, not with a sum or a
filtered history, which is the same for the four kinds of units there are and for the
last row of a block.

## Not modelled

* Replies of the registry that are lost: an adapter call is one step.
  `accepted_never_parked` shows the equivalent case by a crash.
* The entries the chain lists for deployments; the worker skips them, as the
  `mint` entry of `events_worker` shows.
* Amounts: `tonnesRetired` is not compared with `netUnits`, and the worker sets the
  whole issuance `RETIRED` for any retirement burn.
* Several API processes: the worker is written for one.
* The trail tables (`BcrRegistrySyncEvent`, SDK call log, audit log): written, not
  read.
* `PENDING`/`CHAIN_BURNED` statuses nobody writes (`INITIATED` of
  `DelistRequest`, `BCR_SYNCED` of `Retirement`).
* The mock KYC vendor's lookup: after the start every call passes `vendorRef`, and the
  mock looks under its own `verificationId` (`kyc:311`), so with it no row leaves
  `PENDING`. `KycChecks` models the vendor that `kyc-adapter.ts` describes.
* Quotas: they are counted and compared before a create, so two creates may pass
  together; nothing promises otherwise.
* Organisations: the check that a last administrator is not removed
  (`organization.service.ts:366`) is a count before a delete, with the same race.
* E-mail verification, data-subject requests, breach notices, research, imports,
  suppliers, targets: one row each, changed by one call at a time, or read.
* The web client. Two tabs share the stored tokens without coordination, and a
  refresh in flight stores its tokens after a logout (`AuthContext.tsx:84`); there
  is no invariant over its state that the code keeps.
* Rendering (BRSR, CSRD, PDF, CSV), e-mail templates, seeds, migrations, generated
  types and pages make up most of the repository's lines. They have no state whose
  order of change matters, so a model of them would restate them.

## Plan

What is checked and has a proof in reach is proved. Left to do:

1. *Composition*: the remaining properties of `MC_Services` restated for the composition,
   as `ServicesTypeCorrect` is.
2. *Abstract specification* of the handoff as a one-shot transfer of each credit, as
   `Outbox` is of the queue; refinement checked, then proved step by step from
   `CreditImportedOnce` and its invariant.
3. *The exceptions*: theorems that an exceptional history variable (`raced`, `late`,
   `overtaken`, `crossed`) is only set by the overlap it is named for.
