# Formal verification of the clean-stack delivery core

clean-stack is a TypeScript monorepo: an API (`apps/api`), two front ends and the packages they share. What makes the API hard to get right is what happens *after* a request has committed: events leave through a transactional outbox, emails and webhooks through leased queues, several processes drain the same tables, and a deploy stops any of them at any moment. This project models that core in TLA+, together with the staff, approval and account deletion protocols that several people and cron runs race on, checks it with TLC on small instances, and proves with TLAPS, for every instance, the safety of all of them, and that the outbox, the emails and the webhook deliveries implement one abstract queue.

## 1. Inventory

| Component | State it keeps | Operations | Talks to |
|---|---|---|---|
| Unit of work (`packages/drizzle/.../transaction-manager.service.ts`, `ddd-kit/.../unit-of-work-context.ts`) | ambient transaction, collected events, doom flag | `run` (outermost, nested), collect, flush, commit, roll back | every repository reads the ambient executor; the flush appends to the outbox |
| Outbox table and relay (`packages/outbox`: `drizzle-outbox.repository.ts`, `outbox-relay.ts`) | `outbox_event` rows; claimed records, lanes, handler outcomes | append, claim, markDelivered, markFailed, release, requeueDead, purge; drainOnce, halt, abandonInFlight | handlers (audit, fan-out, notifications) by name; announces deaths through the unit of work |
| Outbox dispatcher (`outbox-dispatcher.ts`) | `draining` and `inFlight`, wake flag, sleep timer, stop flag; locals of the drain loop | start, wake, loop, stop | woken by the listener, a timer and itself; calls the relay |
| PostgreSQL listener (`pg-listener.ts`) | current client, reconnect timer, backoff, heartbeat | connect, reconnect, heartbeat, stop | `LISTEN` on a connection of its own; wakes the dispatcher |
| Email queue and worker (`packages/email`) | `email_message` rows with `batch_key`; claimed chunks | enqueue, claim, assignBatch, markSent, markFailed, release; drainOnce | provider (Resend batch API with an idempotency key); announces exhaustion |
| Webhook worker (`modules/webhooks`) | delivery rows, the endpoint's state, failure counter and its first failure | fan-out, test, replay, claim, look up, post, settle, release; enable, disable, delete the endpoint | customer endpoints; announces exhaustion and disabling |
| Shutdown (`shared/shutdown.ts`, `index.ts`) | current step, deadline, exit code | signal, steps with budgets, flush, exit | stops server, workers, dispatcher and listener, then closes the pools |
| Retention sweeps (`shared/internal-routes/sweep-*`) | lease row per label | acquire, batched pass, release | cron; purges and expires the tables of the others |
| Lease budgets (`lease-budget.ts`, `env-bounds.ts`) | none | arithmetic over the settings | claim limits of all workers, boot checks |
| Approvals (`modules/admin/.../approval.service.ts`) | `admin_approval` rows | gate, load, check, reject, approve, record failure, cancel, expire, close for a deleted user | staff routes; the expiry sweep; the `USER_DELETED` subscriber; executes the approved action in its own unit of work |
| Staff access (`staff.service.ts`, `staff-access.service.ts`) | `staff_member` rows, overrides, bans | assign, revoke, deny, lift, bootstrap, ban, unban | locks the manager rows before counting who is left |
| Data subject rights (`modules/rgpd`) | `pending_deletion_until`, `deleted_at` | request, cancel, find ready, wipe | the deletion sweep (without a lease); announces `USER_DELETED`; revokes staff access |
| Audit chain, notifications and stream hub, billing sync, API tokens, quotas | one or a few tables each | see `PROJECT.json` | subscribers of the outbox, HTTP routes, cron |
| Auth, HTTP middleware, front ends, templates, translations | library state or none | — | — |

**Where it is hard.** Leases expire under a process that is merely slow; `release` decrements the very counter that serves as fencing token; a crash can fall between any two statements; nested units of work can fail and be swallowed; PostgreSQL turns the COMMIT of an aborted transaction into a silent ROLLBACK; a NOTIFY can come between an empty claim and the sleep; reconnections are requested from four places; a shutdown has to stop everything in order and in time; and decisions, cancellations, sweeps and deletions of the same row each read it before they write it. `PROJECT.json` lists each hazard at its line with the properties that watch it, or a note when none does yet.

**What correct means**, per component: a row is never lost, settled by one holder at a time, and marked delivered only when every handler had it; a death is announced once; the dispatcher never sleeps over due work; there is one listening client, and what it missed since its first connect is caught up; rows and their events commit together or not at all; the process exits in time, and with 0 only if everything stopped; an email or a webhook is duplicated only in the situations we can name, and an endpoint disabled only for cause; a request has one ending; an account is wiped and announced once, not after its owner cancelled, and does not take the last manager along unless by a path we can name.

## 2. Modules

| Module | Models | State ↔ code |
|---|---|---|
| `OutboxRelay` | `outbox_event` and the relays draining it | `row` is the table (`next` is `next_attempt_at` in ticks from now, `Null` for NULL); `job[r][e]` is the claimed record in relay `r` with its token (`attempts`), what it read (`wasDead`, `seen`) and its handler outcomes; `lanes` are the lanes of `eachBounded`; `proc` is halted, abandoned or down. `ran`, `announced`, `floor`, `lost` are histories |
| `DeliveryQueue` | abstract: what the three leased queues promise | `status` of an item, `told` how often its death was told |
| `MCOutboxRelay` | subscription maps and the relay symmetry of the runs | — |
| `OutboxDispatcher` | the wake/sleep loop over the relay | `loop[d]` are the calls of `drainUntilQuiet` in progress, each with its own locals; what they share (`draining`, `wakeRequested`, `inFlight`, the timer) are variables, as in the class, so nothing but the code's own guard keeps a second loop away. The table is reduced to counts of due and future rows; the relay to claim, settle, done |
| `PgListener` | one listener and the clients it creates | clients are numbered as they are created; `live` is `listenClient`, `timers` counts armed reconnect timers, `pending`, `wired`, `disposed` say where each client is; `missed` (history) tells a NOTIFY lost before the first successful connect (`early`) from one lost later |
| `UnitOfWork` | nested runs over transactions | a stack of runs; per transaction the saved rows, collected events, doom and abort flags, and what its caller was answered; `unheard` (history) are the transactions whose COMMIT was not acknowledged |
| `Shutdown` | `runShutdown` with the steps of `index.ts` | `step`, elapsed time in half seconds, runners still alive, `server` and `pool` (open, closing once their step has begun, closed once it finished), exit code |
| `EmailDelivery` | the email queue, its workers and the provider | `row` is the table (`due` for `next_attempt_at <= now`, `batch` for `batch_key`: the set of rows it hashes); `hold` are claimed rows as read; `accepted` is what the provider remembers by idempotency key |
| `WebhookDelivery` (`MCWebhookDelivery`) | the delivery rows of one endpoint, its workers, the organization and the retention sweep | `row`, `endpoint` are the tables; `pc`, `hold`, `cur`, `outcome` the loop of `drainBatch`; `others`, `victims`, `nameless`, `taken` are histories |
| `Approvals` | requests about one action and subject, the deciders, the expiry sweep under its lease, the closure for a deleted user | `req` is `admin_approval`, `lock` the row of `sweep_lock`; `told`, `effects` count announcements and executions |
| `Accounts` (`MCAccounts`) | staff access, bans and account deletion on the same people | `user`, `staff` are the rows; `asking`, `cancelling`, `batch`, `wiping` the steps of requests and sweep runs between their reads and writes |
| `LeaseBudget` | how many units a claim takes and when the next may start, over time | `turn`, `doing`, `began` per lane; `spent` is the time the margin has to cover |
| `OutboxRelayProofs`, `UnitOfWorkProofs`, `EmailDeliveryProofs`, `WebhookDeliveryProofs`, `ApprovalsProofs`, `AccountsProofs` | the theorems of section 5, each about the module it is named for | — |
| `OutboxWakeProofs`, `BudgetProofs` | the theorems about `OutboxDispatcher` and `PgListener`, about `Shutdown` and `LeaseBudget` | — |

An action is one database statement, one transaction, or one synchronous stretch of code between two awaits; the names follow the source. The `map` in `PROJECT.json` gives the lines.

**How they compose.** `OutboxRelay`, `EmailDelivery` and `WebhookDelivery` are three implementations of one abstract specification: each instantiates `DeliveryQueue` under a refinement mapping (`Queue`) and has `ImplementsQueue` as a property. The mapping forgets leases, attempts, workers and retries. What remains is what the rest of the system relies on: a first death is told once, in the step that writes it; a dead item may still be delivered but never comes back to life; only losable items disappear. Losable is "settled" for the outbox, whose purge leaves everything undelivered alone; for webhooks it is everything, since a deleted endpoint takes its deliveries along; for emails it is nothing, since the retention sweep removes rows that are sent, or dead for longer than their replay window, and is left out. For webhooks a death without a known organization is told by the row alone, as `docs/EVENTS.md` says, and the mapping says so too (`nameless`).

Otherwise each module is checked against the interface of the next: `UnitOfWork` gives the settles their atomicity (a settle and its announcement are one step in the three queues, and a failed statement inside aborts all of it); `OutboxDispatcher` abstracts the relay to a drain that claims, settles and may fail, and the listener to wake-ups that may be lost; `Shutdown` abstracts every worker to a runner that stops or does not; `Approvals` carries the generic sweep lease (`sweep-runner.ts`, `sweep-lock.ts`) with the approvals expiry as its pass, and takes `USER_DELETED`, which `Accounts` announces, as an input that may arrive at any time and more than once; `LeaseBudget` discharges what the queues leave to faults: a lease expires under a worker only if the worker overran its budget or its margin.

## 3. Runs

| Run | Question | Bounds and why they suffice |
|---|---|---|
| `outbox_relay` | fencing, exclusive leases, fresh snapshots, deliveries, attempts burnt by deploys, and the table as a `DeliveryQueue` | two relays, one event and its death notice, two handlers, two attempts before death, lease of two ticks, three faults, two graceful stops: enough for claim, expiry, reclaim, release and late settle on one row, and for a death during it |
| `outbox_relay_live` | every enqueued event is dispatched once faults cease, by handlers that ran | an old process without and a new one with a subscriber, two lanes, fair scheduling, two faults, one stop |
| `outbox_dispatcher` | one drain, no lost wake-up, stop waits, all work drained | three commits with claim size two (a full and a partial claim), two faults; room for two drain loops, so that a second one would be seen |
| `pg_listener` | one client, no stuck reconnection, quiet after stop, misses since the first connect caught up | five clients, four faults, backoff capped at two; a torn-down connect settles before the backoff ends |
| `pg_listener_late` (violation) | the same with a connect that settles after the backoff | three clients, two faults |
| `unit_of_work` | rows and events commit together, failures roll back, answers are as true as the connection lets them be | two services with outbox, one without, two transactions, three levels of runs |
| `unit_of_work_aborted` (violation) | success means committed | one save per service |
| `shutdown` | order, exit code, deadline, guaranteed exit | half-second units with the smallest deadline the boot check accepts; timers on time or one unit late, and then the deadline cuts any step |
| `email_delivery` | what a duplicate needs, batches whole, sent means delivered, and the table as a `DeliveryQueue` | two workers, two emails (one batch or two), three faults among crash, lost answer, failed write, expired lease, locked sibling, refused entry; any subset of the emails fails to render |
| `webhook_delivery` | what a duplicate, a disabling and its announcement need, and the table as a `DeliveryQueue` | two workers, three deliveries of which two disable the endpoint, claims of two, a live and a dead attempt, one fault: two workers settle deaths of one endpoint while it is disabled, enabled or deleted |
| `approvals` | one ending per request, deleted people stay closed, the sweep lease, and expiry | two requests after one another, two deciders, two sweep runs, one fault |
| `accounts` | the last manager, cancellations, and one announcement per wipe | two people, any of them listed in the environment and in any initial staff role, two overlapping sweep runs: with two, "somebody else is still manager" can become false behind a check |

Deadlock is checked wherever the system runs on. `unit_of_work`, `email_delivery` and `webhook_delivery` stop when their bounds are spent or everything is settled, `accounts` when everybody is wiped. Symmetry is used only in runs without liveness properties. `MCLeaseBudget.cfg` is an instance of `LeaseBudget` kept for trying a formula before proving it; what the project claims of that module is its theorem. Each module's `TypeOK` is stated for the reader and for the proofs (`TypeCorrect` and the like in the proof modules) and takes no place in the runs.

**Fairness.** Weak fairness only, on what the runtime guarantees: timers fire (`Tick`, `TimerFires`, `Reconnect`, `StepTimesOut`, `DeadlineFires`), a started promise settles (database statements, connects, heartbeats and handlers all race a timeout in the code), the drain loop continues, a stopped process is restarted by its orchestrator. In `Approvals` a run of the sweep goes on batch after batch, cron starts the next (`Acquire`, `Batch`, `Finish` of each run), and the term of a lease passes (`LeaseEnds`); nothing is assumed of people. No fairness on faults, and none on a handler failing.

## 4. Findings

- **Two listening clients** (`pg_listener_late`): a connect that rejects after the reconnection timer fired arms a second reconnection. The client that is overtaken then goes on listening, even after `stop`.
- **Success without a commit** (`unit_of_work_aborted`): a statement whose failure is only logged aborts the transaction; `run` still answers success. The webhook worker's `recordAttempt` takes this path; `WebhookDelivery` models it (`logs`), and there it costs one more request to the customer.

Behaviour the properties had to name, none of it contradicting its documentation unless said so:

- `release` gives the attempt back, so after another relay reclaimed *and released* a row the token of the first matches again. For the outbox this is harmless (`SnapshotFresh`, proved: whoever's token matches also holds the row's current snapshot). For emails a revived lease passes `assignBatch` and a duplicate is possible: `DuplicatesAreExplained` names it (`loose`) as one of the ways to a duplicate, next to a settle that separates a refused entry from its batch, a replay window that closes on part of a batch, and a row pinned late on a batch that has others already (with three workers: two leases of it expire, and releases revive one in between). With a third worker it also parts a batch: it pins the key of a chunk that another worker is sending in part (a claim, two expired leases, a partly matching `assignBatch`, two releases); `BatchStaysTogether` names that too, and nothing is sent twice by it.
- A `run` that throws may have committed: when the COMMIT lands and only its acknowledgement is lost, `db.transaction` rejects and the error is rethrown (`transaction-manager.service.ts:85-93`). `AnswerIsTrue` names it (`unheard`); a failed *Result* always means a rollback. Rows and events stay together in this case too (`EventsFollowRows` has no exception for it).
- The listener does not catch up with a NOTIFY sent before its first successful connect: `start()` resolves although that connect failed, and the first success does not call `onReconnect` (`pg-listener.ts:166-173`). `MissedIsCaughtUp` is about the later ones; the early ones are in the model and stay missed. Of the two users of the listener, the dispatcher loses nothing by it, since it wakes itself at its start and by its timer (`EventuallyDrained` does not assume that any NOTIFY arrives); `NotificationStreamHub` passes no `onReconnect` and so catches up with nothing, before or after.
- An old version may dispatch a row before the handler that only the new version has (`outbox-relay.ts:168`). `DispatchedImpliesHandled` says that every handler of *some* process that subscribes has run, which is what the code ensures: a relay without any subscriber does not take its empty list for success.
- An endpoint can be announced as disabled again by a worker that had looked it up before (`NoticesExplained`: at most once for each).
- The gate stores a request about somebody whose deletion was already handled; nothing closes it but its expiry (`late` in `DeletedStaysClosed`).
- The last manager can be lost against the rule of `docs/FEATURES.md` in two ways (`Unchecked` in `LastManagerStays`): a person looked up as no manager is appointed before their deletion request is written, or a wipe that has already looked at its person goes on after a cancellation. In the second case the cancellation is accepted and announced on a wiped account (`CancelIsFinal` holds for every other).

## 5. Proofs

Every theorem holds for all values of the constants that satisfy the named assumption of its module: the settings are positive numbers, subscriptions lie within the handlers, and the like. The bounds of the runs (`FaultBound`, `CommitBound`, `Horizon` and so on) are constants as well, so no theorem depends on how small they are. All are about `Spec` (in `PgListener` `ListenerSpec`, in `LeaseBudget` `ClaimSpec`) without fairness. Each proof module finds an invariant `IInv` (or a step that preserves the property, given the types), with `Init => IInv`, `IInv /\ [Next]_vars => IInv'` and `IInv => property`. What follows is why the properties are not inductive and what makes them so.

**`OutboxRelayProofs`**

- `TypeCorrect`: `release` subtracts from `attempts`, so the type alone is not inductive; it is strengthened with `TokensPositive` (whoever holds a row holds a positive token).
- `LeaseProtocolSafe`: `Spec => [](Fencing /\ LeaseHonoured /\ SnapshotFresh)`, with `TokensFence` and `SettlesAreFresh` as corollaries. A release lowers the counter that tokens are compared with. `CoreInv` adds, per row, a *floor*: the token of the last failure written. A release never takes `attempts` below the floor, nobody holds the floor itself, and whoever holds more than the floor claimed after that failure, so the snapshot is what the row still says. A running lease carries the row's own token and is what hides the row from claims. `CoreStep` has one lemma per action that writes a row; the others only drop or advance a hold (`Keeps`).
- `DispatchedIsHandled`: `HandledInv` says where a recorded delivery comes from: what a row records ran, what a job reports as done ran, and a dispatched row records every handler of some process that subscribes. It is inductive only with `SnapshotFresh`: a settle writes the union of what it had read and what it ran, so a stale snapshot would lose a delivery.
- `RelayImplementsQueue`: `Spec => ImplementsQueue`, the refinement of `DeliveryQueue`. One lemma per action shows which step of the queue it is, or that it stutters; that a failure written with the row alive is its *first* death follows from `SnapshotFresh`.
- `StopsBurnNothing`: `DeployBurnsNothing` counts every holder of a row, but a hold whose lease ran out can still be released. `AttemptsPaid` is sharper: the attempts of a pending row are at most the faults so far, plus one if a running lease is *unspoilt* (no handler of it failed and its process subscribes). A release takes back exactly that one, and whatever spoils or ends a lease is a fault.

**`OutboxWakeProofs`**

- The dispatcher: `DrainsAreAlone`, `WakesAreKept`, `StopIsFinal`. The danger lies between the look at the table and the arming of the timer. `PlanOK` states `NoLongSleepOverWork` one step early, of the plan: work that came after the look set `again`, is on its way as a NOTIFY, or was lost. `HeldOK` and `TimersOK` say where rows are held and timers armed. That drains are alone rests on `OnlyInFlight`: only the loop in `inFlight` runs, and `draining` says whether it does. `wake` tests that flag and sets both in one synchronous stretch, and the loop clears the flag as its last step. `StopIsFinal` needs it as well, as `stop()` awaits only the loop started last.
- The listener: `ReconnectNeverStops` (`NeverStuck`) is inductive with the types and with what a listener before its start and after its stop is (`LifeOK`), and holds whatever the timing of connects. `OneClientIsWired` (`SingleClient`) and `StoppedListenerIsQuiet` (`QuietAfterStop`) have the hypothesis `~LateSettle`, that the connect of a torn down client settles before the reconnect backoff ends; without it TLC refutes both (the finding of section 4). `WiredOK`: what is wired is the live client and the connect that can still be adopted. `OneAttempt`: there is one of these or one armed timer, never both, and a torn down connect that has not settled leaves the timer armed, so that the catch block that settles it arms no second one. All four callers of `scheduleReconnect` tear a client down (`TearingDown`, `TearingDownAlone`); the argument is made once.

**`UnitOfWorkProofs`**: `RowsHaveTheirEvents`, `FailureIsFinal`, `AnswersAreTrue`, `ScopesAreOpen`, `MarkerStaysInside`, for stacks of any depth. `StackOK`: every scope works in an open transaction, which it opened itself or shares with the scope below. `AnswersAreTrue` follows the answer from where it is made: each way out of an outermost run writes state and answer together, and the one that commits without answering ok puts the transaction into `unheard`. `FiledOK`: while nothing in a transaction has failed, the events filed under its services and those still collected in its open scopes are together what it wrote, except the writes that raise no event; so a commit flushes exactly what it commits. A failure dooms its transaction for good (`TxsOK`), after which nothing is promised of its events, and a doomed transaction does not commit.

**`BudgetProofs`**

- The shutdown: `PoolsCloseLast`, `ZeroIsTrue`, `DeadlineNeverCuts`. `ProgressOK` says what the steps behind the current one have done, which is known only as long as none failed or timed out. The pool step can be entered only from the workers step, and only if that one ended with every runner stopped; `allDone` carries to the end that the server and the pools have closed. `ClockOK` adds up time: with timers on time, the step in hand began within the budgets of the steps before it (`TimeBefore`), and `BudgetsAddUp` and `DeadlineIsBeyond` compare that with `worstCaseShutdownMs`.
- The lease budget: `ClaimFitsLease`, for every lane count, lease, budget, margin and batch size the boot accepts (`Accepted` is the hypothesis of the theorem); `ClaimSpec => []SettledWithinLease`, what `docs/EVENTS.md` promises of `claimLimitOf`. `BudgetInv`: while units wait, no lane idles, so the time passed is covered by the units *each* lane took (`Covered`); a claim has at most `UnitsWithinLease` units per lane, so while units wait some lane took fewer (`SomeLaneBehind`, by counting the product of lanes and turns), and the next unit still fits (`LeaseCovers`). The countdown loops of the email and webhook workers need no bound on the claim: they ask before each unit but the first. Assumed, as the code does: the statements of a claim and its settles take no longer than the margin, and handlers are cut by their timer.

**`EmailDeliveryProofs`**: `MarkedSentWasSent`, `EmailsAreAQueue`, `BatchesAreSentWhole`, `NoUnexplainedDuplicate`, for any number of emails, workers, faults and any batch size. A duplicate needs two different requests with the same email, and whether two workers send the same request depends on what each of them read of the batch. The inductive invariant has these parts:

- `LeasesOK`, `ChunksOK`, `SendsOK`: two holders of a row have different attempt numbers, and whoever holds the current one of a dead row claimed it dead; a chunk is a claimed batch, or unassigned rows of one attempt, and fits `ChunkSize`. With the types (`Base`) this is inductive and enough for the refinement: `StepKinds` sorts the steps of a worker, most of which only let go of some rows (`Letting`), and a settle as dead is a first death unless the claim read it dead.
- `SentWasDelivered`, which needs `TakenOK`: what the provider took and did not refuse was delivered. `RowsOK` and `HoldsOK` say that a batch contains its row and nobody poisoned, and is never taken off a row again.
- `Strays`: a lease that no longer knows the batch of its row was revived by a release, and then the row and everybody not settled in that batch is loose. To exclude it elsewhere needs `OvertakensOK`: when one row of a fresh claim was overtaken and pinned by another worker, whoever the claim still holds of the new batch was overtaken with it, or is loose. Hence `NewBatch`: without stray leases, `assignBatch` pins a key nobody has or has read.
- `AllGathered`: whoever holds a row whose batch is complete by `isWholeBatch` and still to be sent holds everybody of that batch who may be sent. At the claim this is a counting argument (`ClaimGathers`: as many siblings in the claim as `unsettledInBatch` counted, all of them unsettled, so these are all); afterwards nobody leaves the batch but by a settle of a part, which makes the rest loose.
- `RequestsOK`: the emails of a request, being sent or taken, that are not loose have its batch, and as long as one of them is not settled the request is what is not settled of the batch. So two requests with such an email in common are one. `KnownOK` says that whatever was delivered was in a request taken; the provider takes a request once, hence `DuplicatesAreExplained`.

**`WebhookDeliveryProofs`**

- `FaultsPayForDuplicates`: a budget per delivery. The requests taken so far, plus the workers that may still send it, plus one if the row may be claimed, are at most the faults plus one (`RequestOK`). A claim hands the turn of the row to a worker; a lease that ends under its holder, a crash, a lost answer and a failed settle are what pays for another turn.
- `LookupsEndTheNotices`: whoever may still announce the endpoint is past a lookup that found it enabled; after the first announcement those are in `others`, and each settles once (`NoticesOK`).
- `DisablingHasCause`: the failure counter is the number of `victims` (`CountersOK`), each delivery counted at its first death only. That needs the leases (`LeaseOK`): two holders of one row have different attempt numbers, and the one whose number matches knows whether the row had died, because a first death leaves every older claim behind.
- `DeliveriesAreAQueue`: `Spec => ImplementsQueue`. `SettleMoves` sorts a settle into four outcomes (nothing, delivered, first death told by an event, first death told by the row alone); each is a step of the queue.

**`ApprovalsProofs`**: `EachHasOneEnding`, `DeletionCloses`, `LeaseIsSafe`. `RequestStep` shows that whatever an action does, a given request is untouched, started, delayed (its time passes) or ended: `OneEnding` has only these four cases to survive. `ClosedStep` needs that a decision never reopens a request and only the gate writes a text. `LeaseIsItsOwners` is inductive with the types: releases and renewals carry the owner they compare.

**`AccountsProofs`**: `AnnouncedOnce` is inductive with the types, since the wipe marks and announces in one transaction. `CancelKeepsTheAccount` needs `SparedInv`: who cancelled in time is in no run's hands and not pending, so no stale batch can reach them past the second look. `LastManagerIsKept` (`Spec => LastManagerStays`, an action property): every action changes the standing of one person (`AloneChanged`), and past the lock either that person did not count or somebody else does (`NotTheLast`); the two exceptions are those `Unchecked` names.

**Only model-checked**

- Liveness (`EventuallyDispatched`, `EventuallyDrained`, `OverdueExpires`, `AlwaysExits`, `MissedIsCaughtUp`): fairness is out of the prover's reach.
- Every invariant, action property and refinement of the passing runs is stated by a theorem. The two violations are TLC's counterexamples.

## 6. Not modelled, and the plan

Abstracted away everywhere: payloads, wording, logging, tracing; the share of dead rows in an email claim; several email templates in one claim (they only form more groups). The provider's key memory is unbounded in `EmailDelivery`: the code keeps replays inside the provider's 24 h window by bounding `EMAIL_DEAD_REPLAY_WINDOW_HOURS`. A crash-looping handler (a process that dies in a handler burns attempts that no settle writes as dead) is outside the liveness run, which bounds faults.

Three simplifications of the unit of work: a save that the work does not await and that writes while the flush runs is represented by a save that raises no event (its row is committed, its event comes too late to be collected), not by an action of its own inside the flush; `savepoint()` (`transaction-manager.service.ts:47-49`) is left out: its one caller, `scim-connection.service.ts:247`, appends a single outbox row in it, and a `run` inside a savepoint, which nobody does, would find no outermost run and have its events collected by nobody; and a settle of the three queues whose COMMIT lands unacknowledged is not an action of its own there, but a settle that lands and a fault in what follows.

Not modelled within the modelled components: the secrets of a webhook endpoint (`rotateSecret` reads the endpoint before its transaction, `webhooks.service.ts:328`, so of two rotations at once only one secret is kept as the previous one); organizations in an account deletion (the sole-owner check is made at the request and not at the wipe, `rgpd.service.ts:125`); data exports (`rgpd.service.ts:525`); impersonation sessions (`staff.service.ts:292`); whether the requester of an approval loses the permission between check and execution (`approval.service.ts:227`), which the model leaves open; the order in which `findUsersReadyForWipe` finds accounts, on which fairness between them would depend; a `stop()` that throws in the shutdown's workers step, which none of the four does.

Next, in this order:

1. Audit hash chain: append under an advisory lock, verification across purges.
2. Billing sync under duplicated and reordered Stripe events.
3. Stream hub, notification fan-out and the digest claim; API token rotation; quotas; step-up.
4. Secret rotation in `WebhookDelivery`; organizations in `Accounts`.
5. Proofs: how far the exceptions of `loose` can be narrowed; the invariant says that everybody not settled in a stray batch is loose, which is more than a duplicate needs.

Left out for good: front ends, templates and translations (no protocol state), authentication (configuration of a library that is not in the repository), single-statement CRUD.
