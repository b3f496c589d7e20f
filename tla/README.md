# Vaultline / NestBank: TLA+ models and proofs

NestBank is a NestJS banking API on PostgreSQL that publishes domain events to
Kafka; a second process (the worker) turns them into notifications. This
directory models its core logic in TLA+, model-checks it with TLC on small
instances and proves the most important results with TLAPS for every instance.

Paths below are relative to `src/src/modules/` unless they start with `src/`.

## 1. The system

| Component | State | Operations | Hard part |
|---|---|---|---|
| Ledger `transactions/ledger.service.ts` | `accounts`, `ledger_entries` | deposit, withdraw, transfer, reverse | concurrent READ COMMITTED transactions, row locks, reads before locks, events after commit |
| Validation chain `transactions/validation/` | none | four ordered checks | must read under the lock |
| Account life cycle `accounts/domain/account-state.ts` | `accounts.status` | activate, freeze, unfreeze, close | legality depends on a status and balance read earlier |
| Accounts service `accounts/accounts.service.ts` | `accounts` | open, changeStatus, portfolio, reports | `changeStatus` is find / modify / save without a lock |
| Transfer decorators `transactions/transfer/` | none | audit(fraud(fee(ledger))) | the fee is added after fraud screening |
| Commands `transactions/commands/bank.commands.ts` | bounded in-memory history, per pod | run, undo | undo beside undo, eviction of running commands |
| Onboarding facade `banking/banking.facade.ts` | none | open, deposit, activate, compensate | compensation that fails half way, crashes |
| End-of-day jobs `operations/` | none | interest posting, dormancy review | balances read long before they are used, repeated runs |
| Event bus, Kafka adapter, consumer `messaging/` | observers, connection, topics, `notifications` | publish, forward, consume, dead-letter | order, loss, redelivery, transient failures |
| Loans `loans/` | in-memory drafts with undo stacks, `loan_applications` | draft, change, undo, submit | drafts edited or submitted again while submit awaits |
| FX proxy `fx/exchange-rate.proxy.ts` | cache, call window | getRate | concurrent misses, late answers, stale fallback |
| History iterator, statements | cursor | iterate, statement | timestamps with different precision, late commits |
| Fraud rules `fraud/` | rule list | parse, evaluate | precedence, nesting and leftovers of rules that operators write |
| Reference numbers `core/` | sequence per process | next | uniqueness across pods and restarts |
| Knowledge ingestion, RAG `ai/` | `knowledge_chunks`, advisory lock | ingest, ask | partial ingestion, retries |
| Account factory, product catalogue, interest strategies | none | pure | boundaries, overriding defaults |
| Payment rails, visitors, composite, flyweight, renderers | none | pure | formatting and totals |

Interactions: controllers call services. Every service that moves money goes
through the ledger. The commands, the facade and the jobs call the ledger and
`changeStatus` as separate transactions, without one around them. The ledger and
the accounts service meet only in the rows of `accounts`. After a commit the
services call `DomainEventBus.publish`, whose observers forward to Kafka. The
worker reads Kafka and writes `notifications`.

What makes each part correct, and where the code is exposed, is listed line by
line under `hazards` in `PROJECT.json`.

## 2. Plan

Each numbered step is one module (with its MC module and cfgs). All modules, runs and proofs below exist.

1. `AccountState`, `Ledger`: concurrent ledger and status calls.
2. `Bank`, `LedgerRefinesBank`: the abstract, atomic bank and the refinement.
3. `LedgerProofs`: every invariant and action property of the ledger, and that it implements `Bank`;
   `Sums`: sums over finite sets, for all proofs that need them.
4. `EventPipeline`, `EventPipelineProofs`: bus, connection, partitions by key, consumer
   restarts and redelivery, dead letters.
5. `Products`, `Till`, `Commands`, `Onboarding`, `FraudRules`, composed by `Branch`: the callers
   of the ledger over a ledger whose calls are single steps, and the rule language of the fraud screening;
   `FraudEngine`; `BranchProofs`.
6. `FxProxy`, `FxProxyProofs`: the call window never exceeds its bound in any minute; age of what
   is served.
7. `Loans`, `LoansProofs`: drafts, desks and submits.
8. `Interest`, `Book`, `EndOfDay`, `History`, composed by `Nightly`: jobs and readers beside
   customers; `NightlyProofs`.
9. `Ingestion`, `IngestionProofs`: the advisory lock and the replacement of files.

## 3. What is modelled

### `AccountState.tla`
The State classes as a table: `CanDeposit`, `CanWithdraw`, `IsLegal` (with the
balance, for `closeIfEmpty`) and `StatusAfter`.

### `Ledger.tla`
A **request** is one API call in progress. Its steps are the points at which the
code awaits the database, because other requests run there.

| Action | Code |
|---|---|
| `BeginLedger` | start of the transaction; for `reverse` the two unlocked reads (`ledger.service.ts:129-133`); refusals before any lock |
| `LockAccount`, `AccountNotFound` | `lockAccount` (162-166), in sorted order (91-94, 135-137) |
| `Validate` | the checks of deposit, withdraw and transfer, with `withdrawnToday` read now, under the locks |
| `Post`, `RefuseReversal` | one call of `post` (168-187); a reversal tests the balance before each (141) |
| `Commit` | the callback returns: balances and entries become visible together, locks go |
| `Publish` | `emit` after the commit, one step per event |
| `FindForStatus` | `changeStatus` up to `save`: unlocked read, state object decides |
| `ReloadForSave`, `UpdateRow` | TypeORM's `save`: it reads the row again, finds the columns in which the entity differs, and updates these; the UPDATE waits for a row lock |
| `Crash` | the pod dies; Postgres rolls an open transaction back |
| `Midnight` | the date changes |

| Variable | Code |
|---|---|
| `row` | `accounts.status`, `accounts.balance_minor` |
| `entries` | `ledger_entries` of each account; `of` is the `REVERSAL_OF:` description, `after` `balance_after_minor`, `day` the date of `created_at` |
| `lock` | Postgres row locks |
| `copy` | the `AccountEntity` objects a request holds |
| `toLock`, `todo`, `drafts`, `events`, `dirty`, `began`, `call`, `pc` | locals and progress of a request |
| `published`, `today` | what the bus was given; the date |

Abstractions. A request's identity is its reference, so references are unique.
Account ids are naturals, because only their order matters. Entries with `INTEREST` type and
descriptions are left out. The date of an entry is the date its
transaction *started*, as Postgres `now()` gives it. `BeginLedger` makes the two
reads of a reversal at once: entries of one reference appear together and before any
reversal of them, so nothing is lost. Locking reads see the last committed
row (READ COMMITTED); there is no lock queue, any waiter may be next.

TypeORM and Postgres are not in the repository. `Rollback`, `Commit`, `IsFree`,
`ReloadForSave` and `Crash` are modelled from how the code uses them and marked external.

Definitions under a comment that begins with "Slip" are plausible coding mistakes. Nothing uses
them; each property is shown to fail when one of them replaces the definition after it.

### `Bank.tla` and `LedgerRefinesBank.tla`
`Bank` is what a caller may assume: deposits, withdrawals, transfers and reversals
happen at one instant, on the balances and the day's total of that instant. At its `Midnight` the totals start again; a request that
was under way then (`overnight`) is weighed against the new day's total but never counts in it, because its entries carry the day on
which its transaction began.
`LedgerRefinesBank` maps the ledger to it (`balanceBar`, `spentBar`, `effectBar`, `outcomeBar`, `reversedBar`, `overnightBar`).
A request takes effect when it commits; its effect is the sum of its entries; `spent` is what
`withdrawnToday` would return. Section 6 proves the mapping right.
A transfer's fee is tested against the limit but does not add to `spent`: that is what
the code does (see the divergences in section 5).

### `EventPipeline.tla`
The path of an event from a committed transaction to a notification.

| Action | Code |
|---|---|
| `Commit` | a service's transaction commits; its handler has yet to publish |
| `HandOver` | `DomainEventBus.publish`, the forwarding observer, `KafkaEventPublisherAdapter.publish`: refused (and lost) before the producer is connected |
| `Send`, `SendFails` | the producer's answer; the bus swallows an error |
| `Connect`, `PodDies` | `connectWithRetry`; a restart with empty memory |
| `Assign`, `Revoke`, `CommitOffset`, `WorkerDies` | the kafkajs consumer group |
| `Fetch` | `eachMessage` with the next message of an owned partition |
| `Notify`, `InsertFails`, `Reject` | the `try` of `NotificationConsumer.handle`: insert with ON CONFLICT DO NOTHING, a database error (the row may be written all the same), a message that does not parse or breaks its schema |
| `Bury`, `BuryFails` | its `catch`: the dead-letter send; when that throws too, kafkajs stops and restarts the consumer |

`committed`, `due`, `connected` and `outbox` are the producer's side; `owner`, `position`,
`offset` and `job` the consumer group's; `notified` is the `notifications` table by its primary key,
`dead` the dead-letter topic. `failed` is a history variable that only a property reads.

The awaits of `handle()` are separate steps, because a rebalance can take the partition away during
each: `job.fresh` turns false then, and the worker finishes without resolving the offset, beside the
new owner, which starts again at the committed offset. `kafkajs` resolves an offset when `eachMessage` returns and commits
resolved offsets from time to time; one worker handles one message at a time
(`partitionsConsumedConcurrently` is not set). All retries inside one send are one
step. Messages that break the contract come from another client (`ForeignSend`), as in
`test/integration/event-pipeline.int-spec.ts`.

The ledger and the pipeline are not composed into one state space. They share the handler between its commit and
its publish: `Ledger` ends where an event reaches the bus (`Publish`), `EventPipeline` starts with any
order of commits on any pods, which includes every order the ledger can produce.

### `FxProxy.tla`
One process's `CachingExchangeRateProxy`. `getRate` runs without interruption up to the await of the
provider, so it is one action per outcome of that part: `Hit` (65-72), `CallProvider` (74-77 with
`enforceRateLimit` 91-96), `Refuse` (the limit throws, 80-88). After the wait: `Answer`, `NoRate` (a
`BusinessRuleError` is thrown again), `Fail` (the fallback to the entry looked up *before* the wait). `Tick` moves the
clock. `cache`, `recent` and `now` are the code's cache, `recentCalls` and `Date.now()`; `call` holds the
locals and the outcome of each request; `calls` is a history of provider calls. Rates themselves and the
`stats` counters are left out. The simulated provider dates a rate when it answers, so `asOf` and
`storedAt` agree at that instant. State is per process: a second pod or a restart
has a window of its own, so the limit is per process too.

### `Loans.tla`
The loan drafts of one process and the calls of `submit`.

| Action | Code |
|---|---|
| `CreateDraft`, `UpdateDraft`, `UndoDraft` | the handlers of `loans.service.ts:25-37` with the caretaker; none awaits anything |
| `Submit` | `submit` up to its first await: the draft is read, the builder's `build` accepts or throws |
| `FindAccount` | the await of `findById` |
| `CreditReview`, `AffordabilityReview`, `ComplianceReview` | the desks and `LoanApprovalMediator.notify` |
| `Save`, `DatabaseFails` | the insert; an error of a database call, after which the row may exist all the same |
| `Finish` | `drafts.remove` and `publish`, between which nothing is awaited |
| `Restart` | the process dies with its drafts |

`live`, `values` and `history` are the caretaker's map; `loans` is the table; `submit` holds the locals of each
call. `lost` and the field `earlier` are history variables. A draft's id is a UUID that no other process
knows, so requests that reach another pod are refused and change nothing.

`Dto` says what a request body is when it reaches the service: an instance of `LoanDraftDto`. TypeScript
with target ES2022 emits its class fields, so the instance owns all eight properties. `Spread` is
`{...fields, ...changes}`. Together they make a partial update erase fields (section 5).

Applicants, accounts and purposes are model values; the builder's limits (2,000 and 5,000 thousand rupees, 3 to 84 months,
half the amount in collateral) and the desks' (600, 680, 40 %) are the code's. The bureau's answers
and the instalment of an amount and a term are constants. The decision log is left out: it
is the list of desks passed.

### `Branch.tla`: `Products`, `Till`, `Commands`, `Onboarding`, `FraudRules`, `FraudEngine`

The services that call the ledger, on one ledger. `LedgerRefinesBank` shows that a call of
`LedgerService` takes effect at one instant or not at all, so in `Till` a deposit, withdrawal or transfer is one
step (`Commits`), guarded by the validation chain (`Credits`, `Debits`). A reversal is two: `Reversible` is what
`reverse` asks before its row locks, `Covers` what it asks under them, and other requests run in between.
A failed query and a committed one whose answer is lost are both a `Fault`. The day does not change, so `WithdrawnToday`
counts every entry. A status change is one step too: what its unlocked `save` can do is `Ledger`'s subject.

| Module | Definitions | Code |
|---|---|---|
| `Products` | `TypeDefaults`, `Catalog`, `Blueprint`, `Opens` | `accounts/domain/account.factory.ts`, `account-product.prototype.ts` |
| `Commands` | `Run`, `Execute`, `Refuse`, `Answer` | `CommandInvoker.run`: the record exists, and says EXECUTED, before the ledger has answered |
| | `Remember` | the oldest command leaves the history, finished or not |
| | `Undo`, `CommitReversal`, `RefuseReversal`, `FinishUndo` | `CommandInvoker.undo`, with `reverse` in the middle |
| | `Reverse` | `POST :reference/reverse`, on any pod |
| | `Screened`, `FeeOf`, `LedgerAccepts` | the layers of `money-transfer.decorators.ts`, in the order of `transactions.module.ts` (`Accepted`) |
| | `Crash` | a pod dies with its history and what it was running |
| `Onboarding` | `Open`, `Deposit`, `Activate`, `Welcome` | `onboardCustomer`, one step per await |
| | `Compensate`, `GiveBack`, `Close` | its catch clause; a reverse that throws ends it (`stuck`), a close that throws is swallowed (`leftOpen`) |
| | `Abandon` | its pod dies |
| `FraudRules` | `ParsePrimary`, `ParseNot`, `Loop` (twice), `ParseAt` | `parsePrimary`, `parseNot`, `parseAnd` and `parseOr` at one position |
| | `Whole`, `Parse` | `parseOr` at the first token, `parse` |
| | `Derived`, `FollowsGrammar` | the grammar of the head comment, and that the parser keeps to it |
| `FraudEngine` | `Interpret`, `Compares`, `Evaluate` | the syntax tree and the engine |
| `Branch` | `Clerk` | `PATCH accounts/:id/status` |

`rows` and `entries` are the two tables; `command`, `history` and `undoing` the invokers' records, their maps and the
undo requests; `job` the locals of `onboardCustomer`. A command's identity is the tail of its reference.
`FraudRules` works on tokens; cutting text into tokens is left out. `MCBranch` gives `Suspicious` to the desk by
evaluating the default of `FRAUD_RULES` with it; `FraudAssumption` says that the engine catches at least
what the default rules name. The parser's methods call each other, but always further
to the right: `FraudRules` writes them as one recursive function on positions, whose value at a position is what each of them
returns there, and the grammar as one on spans of tokens. Trees have no such measure, so `Interpret` is a `RECURSIVE` operator;
it is in a module of its own, `FraudEngine`, which only `MCBranch` instantiates.

### `Nightly.tla`: `Interest`, `Book`, `EndOfDay`, `History`

| Module | Definitions | Code |
|---|---|---|
| `Interest` | `Tiered`, `CompoundMonthly`, `MonthlyInterest` | `accounts/domain/interest.strategy.ts`, in integers: rates are hundredths of a percent |
| `Book` | `Posts` | one committed ledger transaction on one account |
| `EndOfDay` | `Load`, `PayInterest`, `NoProfit`, `Review`, `Report`, `Die` | `EndOfDayJob.run` and `operations/jobs.ts` |
| `History` | `BeginReading`, `ReadPage`, `ReadFails` | `LedgerHistoryIterator` with its Postgres fetcher, driven by a statement or an export |
| | `OpeningOf`, `Credits`, `Debits`, `ClosingOf` | `DetailedStatement.compose` |
| `Nightly` | `Move`, `ChangeStatus`, `Tick` | customers, clerks, the clock |

`book` is `ledger_entries` with the two columns readers sort by. `created_at` is Postgres `now()`, the *start* of the transaction, so
`Posts` chooses a stamp up to `Lag` ticks before it commits; `Micros` ticks are a millisecond, and `CursorAt`
cuts the stamp to milliseconds, because the driver hands out a `Date`. Ids are random UUIDs; only their
order matters, and only among entries of one account and stamp, so `FreshIds` offers one above and one
below those there are. `Ids` is finite and bounds the number of entries. In floating point the strategies give the exact floors for the rates the catalogue has
(8.5, 9.25, 12), which is why integer division may stand for them. Customers and the job write through the ledger, as in
`Till`. `nth` (the order of commits), `committed` and `lines` (how often an entry was handed out) are history that only properties read.

### `Ingestion.tla`
`ingestDirectory` at boot (`Boots`, with the retries of `autoIngestWithRetry`) and on request (`Requests`), under the
session-level advisory lock. `Ask` is `stats() > 0`; `Lock` is `pg_try_advisory_lock`, which does not wait; `Embed` ends with the transaction's
DELETE, which takes the copies committed by then (READ COMMITTED), and `Insert` commits it; `Unlock` is the two `finally`
clauses. `Throws` is what an exception does to each kind of caller. `chunks` says which ingestion's copies of a file are
stored. Every file has at least one chunk; splitting and embeddings are data.

## 4. What is checked

Ledger instance: accounts 1 (PKR, active, balance 4, limit 3), 2 (PKR, active, empty),
3 (USD, pending, empty), of which a run takes two or three.

| Run | Question | Bounds |
|---|---|---|
| `core` | Is the concurrent ledger an atomic bank? Are balances the sum of their history? | 3 requests, one of which reverses, 2 accounts, amounts 0 and 2, fees 0 and 1, a midnight, crashes, no status calls. 263k states with r1 and r2 symmetric |
| `status` | What survives unlocked status changes, a midnight and crashes? | 3 requests (a mover, a clerk who reverses or changes a status, a second withdrawer or clerk), 3 accounts, amount 2, fee 1. 803k states |
| `progress` | Can requests wait for each other for ever? Is every commit announced? | 3 requests that cross, 3 accounts of which one does not exist, crashes. 45k states |
| `reversal` | finding: two reversals of one deposit commit | 3 requests |
| `stale` | finding: a status change overwrites a balance | 2 requests |
| `delivery` | Is everything in Kafka dealt with, in order and in the end, whatever fails? | 1 pod, 2 workers, 3 events in 2 partitions (a good message shares one with a poison message), any 3 failures. 523k states |
| `fx` | Does the call limit hold under concurrent misses? Can failures age the cache? | 4 requests, a quoted and an unknown pair, 2 calls per 2 ticks, TTL 2, clock to 4. 629k states up to symmetry |
| `loans` | Are drafts kept until they are decided? Are decisions final and by the rules? | 1 draft, 2 submits, 8 request bodies (one for each way through builder, account and desks), 2 undo steps, 1 failure. 905k states |
| `branch` | Do the desk's records agree with the ledger? Are screened transfers blocked and onboardings finished or undone? Does the rule parser follow its grammar? | 2 pods, 2 commands of 5 kinds, 1 undo or reversal, 1 onboarding of 5 kinds, a history of 1, 1 fault, 1 crash, 1 status change. 2.7M states up to symmetry; rules of up to 5 pieces |
| `nightly` | Is every account paid once, or reported? Is everything that was committed read? Do readings end? | 1 job run, 1 reader, 2 accounts, 3 histories to start from, 2 withdrawals or status changes, pages of 3, 1 fault. 168k states |
| `pages` | finding: the last entry of a page is read twice | 1 reader, the same histories |
| `ingestion` | Does the lock keep files single? Can what was ingested be found? | 2 pods that boot, 2 requests, 2 files, 2 attempts, 2 faults, 1 crash. 624k states |

Why the bounds are enough for what they ask. Two requests race and a third
can undo one of them or take what it left. One transfer holds two rows, which is all that a
transfer and its reversal ever hold. Amount 2 against balance 4 and limit 3 makes two
withdrawals exceed the limit and two debits with fees exceed the balance, while one of either
passes. Amount 0 exercises the refusal of empty amounts. A larger number of accounts adds only
requests that do not meet.

For the pipeline, three failures let a partition be taken away in the middle of a message, the
new owner's insert fail and its dead-letter send fail too. Two messages in one partition
are the least that can overtake each other; a second partition makes workers own different ones and a worker own two.

For the proxy, four requests are two more than a window admits, so a window can be full, slide, and be full
again within four ticks; a request may wait through all of them. Deadlock is not checked there: the
system stops when the clock has reached its bound and all requests are answered.

For the loans one draft is enough, because drafts share nothing, and two submits can overlap, follow each other, or meet
edits. The amounts lie on both sides of each limit, scores at 679 and 680. Deadlock is not checked: the system
stops when the draft is decided and all submits have answered.

In the branch, a history of one command makes every second command evict the first, also while it runs or is being undone. One
fault, crash and status change each suffice for every end of an onboarding: a clerk who activates first makes the facade's own
activation fail, and a customer who then withdraws makes the compensation fail. The amounts are those of the
default fraud rules, one above each threshold, through a blocked and an open channel, and the product minimum and one less.
Rules of five pieces (a comparison counts as one) contain two connectives of different precedence, negations and
parentheses around either.

In the night, three histories stand for entries whose stamps rise, whose stamps are equal with ids against their order, and that
were committed against the order of their stamps; with pages of three, a page ends inside each. `Slab` is small, because TLC's
integers have 32 bits and a year's interest on 100,000,000 minor units has not. `Crowd` bounds the entries of an
account in one millisecond below a page: with more, the cursor could not leave the millisecond (the code's
pages are 500). One run of the job at a time: two would pay twice, which no document forbids.

For ingestion, two faults and a crash let a boot lose its first attempt, find the lock taken, or leave a
file half way; two files make the second one late.

For ledger, pipeline, branch, night and ingestion deadlock is checked; `Done` of the last three says where the system may rest. In the pipeline a behaviour may stop only where everything sent has been consumed and committed (`Drained`).

One midnight suffices for `core` and `status`: a transaction begins, checks or commits before it or after it. One that
spans it stamps its entry with yesterday: its amount is checked against the old day's total or the new one's and
counts in the new one's never, which is why `Bank` knows who is `overnight`.
`core` has no status calls because they break `BalanceExplained` (finding `stale`).

Properties:

- `BalanceExplained`: the history of an account is an unbroken chain of running
  balances from zero to the balance in its row.
- `WholeTransactions`: a reference has all its lines in the ledger or none.
- `LedgerIsAtomic`: refinement of `Bank`.
- `NeverOverdrawn`: no balance, committed or in progress, is negative; the CHECK
  constraint never has to fire.
- `LimitHeld`: what the check counts never exceeds the limit.
- `NoPhantomEvents`: an event on the bus has its entry in the ledger.
- `DebitsNeedActive`: a withdrawal or transfer commits only on an ACTIVE account.
- `LocksOrdered`, `EveryRequestEnds`, `EveryCommitIsAnnounced`.
- `HandledInOrder`: no message of a partition is notified or dead-lettered while an earlier one is
  untouched.
- `NothingSkipped`: committed offsets only cover messages that are notified or dead.
- `DeadLettersExplained`: a good message is dead-lettered only after an insert of it failed. Without
  ON CONFLICT DO NOTHING a redelivery would be enough.
- `EveryMessageHandled`: every message in the log ends as a notification or a dead letter.
- `WindowHeld`, `RefusedOnlyWhenFull`: in no minute, wherever it starts, more provider calls than the limit; and
  no refusal unless the provider got that many.
- `FreshAnswers`, `CacheMovesForward`: what is not labelled stale is younger than the TTL, and a failed
  call never replaces what another one stored.
- `UndoStepsBack`: an undo returns to exactly the version before the last edit, also during a submit.
- `DraftsEndInLoans`: failed and refused submissions leave the draft; it goes only when a loan was saved from it.
- `DecidedForGood`: after a submission has answered, no later one of that draft gets a decision. (Overlapping ones may.)
- `AnnouncedIsSaved`: no `loan.decided` without a row.
- `DecisionFollowsRules`: desk by desk, beside other requests, each application gets the status that the rules, written
  as one table, give to it.
- `DeskTellsTruth`: a reference a client got has all its lines in the ledger, a command that is known to have failed has
  none, and a record marked UNDONE has every line taken back, whichever pod was asked, evicted or died, and whoever
  reversed the same reference meanwhile. A commit whose answer was lost is recorded FAILED; it is the one exception (`unsure`).
- `TransfersScreened`: no transfer that the default rules name moves money; every other moved its amount at its channel's price.
- `OnboardedOrUndone`: a welcomed customer has an activated account with the deposit on record; one who was rolled back has a
  closed account and, when the facade knew of the deposit, the deposit taken back; one who was refused has none.
- `RulesFollowGrammar`: the parser accepts exactly the rules of the grammar in its head comment and builds the one tree
  that the grammar gives them. The grammar is written on its own, as the sets of trees that each span of tokens derives to.
- `EveryAccountDealtWith`: a job that reports has paid each account the month's profit on the balance it loaded, once, or
  listed it as failed. The profit is compared with a definition of its own (`IsProfit`).
- `NothingSkipped` (of `History`): whatever was committed when the reading began is handed out.
- `QuietStatementsReconcile`: the statement of an account at rest adds up, where entries are handed out once and their stamps
  are in the order of their commits. The conditions are needed: without the first one duplicated entries count
  twice, without the second the first line need not be the oldest.
- `ReadingEnds`: every reading comes to its last page.
- `SourcesOnce`, `IngestedStaysWhole`: no file is stored twice; after a success was reported every file can be found for ever.

**Fairness.** `FairSpec` has weak fairness on `Advance(p)`, the next step of a request
that has started. Node.js resumes every handler whose awaited result is there, and
Postgres grants a released lock. Weak fairness is enough: a request that waits for
a row is not continuously enabled, yet in these instances each of the finitely many requests
holds its rows for finitely many steps, after which the lock is free for good or for
the next waiter. Starting a request, midnight and crashes are not fair: nothing obliges
them to happen. `EveryCommitIsAnnounced` excepts the crash between commit and
publish, the trade-off `ledger.service.ts:51` admits.

In the pipeline, `FairSpec` has weak fairness on `Work(w)`: a worker takes free partitions, fetches and goes through
`handle()`. Failures are not fair and at most `MaxFaults` of them happen; a dead-letter topic that
fails for ever would block its partition for ever. Nothing is assumed of the producer side: a message
has to reach the log before anything is promised of it.

In the night, `Spec` has weak fairness on `ReadPage` of each reader: its loop asks for the next page as soon as one is used up, and
the database answers. Jobs, customers and the clock are not fair.

## 5. Findings

1. `reversal` (`ledger.service.ts:129`): the already-reversed test precedes the
   row locks and is not repeated, so overlapping reversals both commit.
2. `stale` (`accounts.service.ts:78`): `save` in `changeStatus` writes back the balance
   it read. The comment claims optimistic locking; TypeORM's `save` does not compare versions.
3. `pages` (`ledger-history.iterator.ts:59`): the cursor has milliseconds, the column microseconds, so the last entry of
   a full page is after its own cursor and is handed out again: twice in the CSV export, and counted twice in a statement's totals.

Divergences that follow from the modelled steps, without a run of their own:

- A status change that read an account before it was closed reopens it (`accounts.service.ts:77`; the same unlocked save as
  `stale`); `knowledge/05-security-and-fraud.md:13` says that a closed account cannot be reopened.
- FEE entries of earlier transfers are not counted towards the daily limit (`ledger.service.ts:194`);
  `knowledge/03-transfers-and-limits.md:4` says they are.
- Events are published after the locks are released (`ledger.service.ts:71`), so events of one account can reach its
  partition in another order than they were committed; `topicFor` spreads them over several topics besides.
  `docs/ARCHITECTURE.md:69` says they stay in order.
- A partial update of a loan draft erases the fields it does not name (`loan-draft.memento.ts:52`), because the request
  body is a class instance with all fields present. No test sees it: the unit tests pass plain objects and
  the end-to-end test undoes its only partial update before it submits.
- Onboarding can leave a half-onboarded account behind, against the comment in `banking.facade.ts:54`: when the
  answer of the deposit is lost, when the compensating reverse throws, and when the pod dies.

## 6. What is proved

Each module `XProofs` is checked by TLAPS, for all constants that satisfy the assumptions named in the modules it
extends, which TLC evaluates on every run. Unless said otherwise no set need be finite, so nothing is proved for a number of
requests, accounts, pods or failures only.
Every invariant below is the last of three steps: an inductive invariant that joins the property to what it rests on,
one lemma per action that keeps it, and the conclusion by temporal logic.

`LedgerProofs.tla` assumes `LedgerAssumption` (accounts are naturals, amounts and fees are naturals, opening balances
not negative, the lock's `Nobody` and the opening reference are not requests).

- `TypeCorrect`: `Spec => []TypeOK`. `TypeOK` is inductive. One lemma per action; the
  ledger's records are typed through `CallShape`, which recovers the kind of a call from its `op`.
- `LockOrder`: `Spec => []LocksOrdered`. The invariant `LockInv` adds
  `LocksInTransaction`: only a request that is locking or posting holds rows, and only one
  that is locking has rows left to lock. So a request that begins holds none, and taking the
  least row left keeps every row held below every row left.
- `NoOverdraft`: `Spec => []NeverOverdrawn`. `NeverOverdrawn` alone is not inductive: nothing
  in it says that a posting still to be written is affordable. `FundsInv` adds
  `Planned` (what is left to post is part of what the call asked for, between
  two different accounts) and `Funded` (once validated, the balance in memory
  covers what is left to post). A withdrawal is covered by the balance check; the two debits of
  a transfer because `totalDebit` was checked for both; a reversal by its own test
  before each posting. The proof covers status changes that write
  stale balances too: a stale balance is an old one, and old ones were not negative.
- `DebitsOnlyActive`: `Spec => DebitsNeedActive`, an action property: a debit is committed only while its account is ACTIVE.
  The commit does not look at the status, so `HeldInv` carries the answer of the check to it: the status in memory of a row
  that is locked is the row's (`StatusUnderLock`: a status call waits for the lock unless it writes what is there), and every
  debit still to post, or drafted, is on a row whose status in memory allows it.

- `BalancesExplained`: `Spec => []BalanceExplained`, assuming
  `NoStatusCalls`: no request is allowed a status call. Without that assumption it is false
  (finding `stale`), and the run `core`, which checks it on a small instance, meets the
  assumption. `BalanceExplained` speaks of committed entries only, so it
  is not inductive: `Commit` appends drafts about which it says nothing. `BooksInv` adds, for
  each request still locking or posting, `Continues` (the entity of a row it has locked carries the
  balance that the row's history reaches when its drafts are appended, and the drafts form a chain from
  there) and `Covered` (what is left to post lies on rows that are locked or still to be
  locked, and there are no drafts on rows it does not hold). Two lemmas on
  chains, `ChainAppend` and `ChainConcat`, carry `Post` and `Commit`; mutual exclusion of the row
  locks keeps one request's step from disturbing another's entities.
- `BalancesAreSums`: under the same assumption, the balance in a row is always the sum of the signed amounts of all the account's
  entries (`Moved`). `ChainTelescopes` shows that an unbroken chain from zero ends at that sum, by the shortest
  prefix of the history for which it would not. So a history that is complete reconciles with its balance.
- `TransactionsWhole`: `Spec => []WholeTransactions`. `WholeInv` counts: drafts and postings left to do together are as many as
  the call's postings, and each posting is on one side (`Owed`); what was committed is one entry per posting
  (`Settled`). A reversal's postings are computed from the ledger, so they must not change while
  it runs: `PostingsKept` shows that a reference that has entries gets no more of them.
- `EventsHaveEntries`: `Spec => []NoPhantomEvents`, from `WholeInv` and `Backed`: the key of every event of a call is an account
  of one of its postings, and after the commit there is an entry for it.
- `DailyLimit`: `Spec => []LimitHeld`. The check runs under the lock, but what it lets through is written later, beside other requests
  and midnights. `LimitInv` carries it over: what the entries and a request's drafts count, with the debit that is
  still to be posted, stays within the limit. A commit moves the drafts into the entries and changes nothing of the sum; the
  row lock keeps everybody else from adding to it; a midnight can only lower it, because a debit never gives money (`TakesMoney`).
  `WholeInv` supplies that nothing is drafted when the check is made. The property's fold over the history is related to a
  sum over its positions (`SpentFold`), which adds up over concatenation (`SpentConcat`).
- `LedgerImplementsBank`: `Spec => LedgerIsAtomic`, assuming `NoStatusCalls` and `SingleReverser` (one request at most may reverse).
  Requests, accounts, amounts, fees, limits, midnights and crashes are arbitrary. The assumptions are where the code leaves what `Bank`
  promises, and `core` meets them: a status call can overwrite a balance (finding `stale`), two reversers do reverse twice (finding `reversal`).
  Initial states map to initial states (`InitBank`). A commit is the step of `Bank` that its call names (`CommitIsAtomic`); a refusal, or a
  crash before the commit, is `Refuse`; every other step is a stutter (`NextBank`). What a commit has to show is that
  many steps come to one: `AtomicInv` says of each request in its transaction that what it has drafted and
  what it has left to post add up to what its call is to do (`Accounted`), that the entities of its locked rows are ahead of the rows by
  exactly its drafts (`Ahead`), that its drafts are reversals just when it reverses (`Marked`), and that what the
  chain checked under the locks still holds (`Checked`), since no one else changes a locked row or its history (`LockedWaits`) and a
  midnight only lowers what is counted (`AtomicMidnight`, with `LimitInv`). What a request will count is stated from the day it began, so that it
  does not change under way; no entry is of a day to come, so at midnight every total is zero (`MidnightShown`). `DepositDelta`,
  `WithdrawDelta`, `TransferDelta` and `ReverseDelta` compute what each call does; for a reversal, the opposite of the effect
  of its reference on every balance. `NoOverdraft` supplies that no balance gets negative, `LockOrder`'s and `TransactionsWhole`'s
  invariants the rest. `Shown` turns the mapping's folds into sums (`EffectFold`, `SpentFold`).

`EventPipelineProofs.tla` assumes `PipelineAssumption` only (valid events are events, types and keys are
total, `NoWorker` is no worker).

- `PartitionOrder`, `AtLeastOnce`, `DeadLetterCause`, `PipelineTypes`: `Spec => []` of `HandledInOrder`,
  `NothingSkipped`, `DeadLettersExplained`, `TypeOK`. All follow from `PipelineInv`, which joins
  three parts because none is inductive alone. `OnceInv`: an event is with a handler, in one outbox or in the log,
  and never twice. `GroupInv`: everything below a partition's position is dealt with (`Reached`), and
  so is everything before a message that is being handled, even by a worker that has lost the partition (`UnderWay`).
  `TypeOK` needs `GroupInv`, because a handled message must be inside its log. The
  core is `MarkDone`: a message comes to its turn with all before it done and, by `OnceInv`, occurs
  nowhere else, so handling it keeps the order.

`FxProxyProofs.tla` assumes `FxAssumption` (window, TTL, limit and clock bound are naturals; the mark for "no entry" is no entry).

- `CallLimit`: `Spec => []WindowHeld`. `WindowHeld` speaks of `calls`, but the code looks only at `recent`.
  `WindowListed` links them: every call of the last minute is still listed and none is dated in the future. A new call
  changes only the minute that ends now, whose calls are listed; a tick only lets calls leave.
- `RefusalsEarned`: `Spec => []RefusedOnlyWhenFull`, from the same invariant read the other way (what is kept was made
  within the minute) and the fact that a minute never loses calls.
- `AnswersFresh`, `CacheOnlyNewer`: `FreshAnswers` and `CacheMovesForward`. Both rest on `Dated`: an entry is dated with the time it
  was stored, which is never in the future, so what an answer stores is at least as new as what it replaces, whenever the
  call was made.
- `ProxyTypes`: `Spec => []TypeOK`.

`LoansProofs.tla` assumes `LoansAssumption` (amounts that a body names are positive, as the DTO demands).

- `LoansTyped`, `DraftsNeverVanish`, `NoSecondDecision`, `AnnouncedAfterSave`, `DesksFollowRules`: the five invariants of
  `Loans`, from one `LoansInv`. `CallInv` says of each submission that its row is there before it ends, that its draft is gone
  when it has ended, that the decisions that preceded it were about other drafts, and that what the desks have found so far is what the rules say
  (`Decided`). The last is what makes the verdict of three desks, taken in three steps, that of one table. `NoSecondDecision`
  needs `earlier` inside the invariant: a draft that is alive has no ended submission, and a later one needs a live draft.
- `UndoIsExact`: `Spec => UndoStepsBack`, an action property on the versions of a draft.

`IngestionProofs.tla` assumes `IngestionAssumption` (each source is listed once, sessions are told apart).

- `NoFileTwice`, `IngestedForGood`, `IngestionTyped`: from `IngestionInv`. `LockHeld`: who works holds the advisory lock, so there is one.
  Therefore the copies that its DELETE took are still all there are when it inserts (`Progress`), which keeps one copy of a file, and the
  files before its current one stay, which is what a success reports.

`NightlyProofs.tla` assumes `BookAssumption`, `HistoryAssumption` and `NightlyAssumption` (the opening books are finite sets of entries with
unique ids that customers wrote and that explain the opening balances; `Ids` is finite, all else of any size).

- `BatchDealsWithAll`: `Spec => []EveryAccountDealtWith`. `DealtWith` says of a run in its loop: it has entries only on accounts that it is done with,
  one each, of the profit on the balance it *loaded*, and every account it is done with that earns is paid or listed. An entry of anybody else
  changes nothing of it (`NotMine`). `ProfitIs` shows that the integer arithmetic of the strategies meets `IsProfit`, which is
  stated without a division.
- `ReadersMissNothing`: `Spec => []NothingSkipped`. `AheadOrOut`: what was committed when the reading began is handed out or lies
  ahead of the cursor. An entry that a page leaves out comes after the last of the page, which is then full
  (`FullPage`), and the cursor, cut to milliseconds, is never after that last one (`CursorBefore`). So the cut repeats entries (finding
  `pages`) but loses none. Entries committed after the reading began may be passed over; nothing is said of them.
- `StatementsReconcile`: `Spec => []QuietStatementsReconcile`. The balance is read first, then the pages, while others post. `StatementInv`
  says: a balance is what its account's *oldest* entry found plus all that its entries moved (`Balanced`); while the account has only the
  entries it had at the beginning, its balance is still the one read (`Resting`); what is handed out is of that account, and its first line
  comes before everything that was there (`FromTheFirst`). The side condition on stamps makes that first line the oldest entry.
  The opening books are assumed to satisfy `Explained`, which `BalancesExplained` proves of the ledger in its own terms.
- `NightlyTyped`: `Spec => []TypeOK`.

`BranchProofs.tla` assumes what `Till`, `Commands`, `Onboarding` and `Branch` name (references of different requests differ by
their prefix and tail, accounts of onboardings are not there yet), and `ScreenedTransfers` in addition `FraudAssumption`.

- `DeskNeverLies`, `OnboardedWhole`, `ScreenedTransfers`, `BranchTyped`: `Spec => []` of `DeskTellsTruth`, `OnboardedOrUndone`, `TransfersScreened`,
  `TypeOK`, all from `BranchInv`. The properties speak of ends and are not inductive: `BranchInv` says of every command, undo
  request and onboarding at each of its steps what the ledger has of it (`CommandOk`, `UndoOk`, `JobOk`): nothing before it
  commits, exactly its lines after, the opposite lines when it was taken back. The reference that an undo request carries is the one
  that its command was given, which is how UNDONE comes to be about the right lines.
- What others do is one argument for all: a step leaves the ledger as it was or adds lines of one reference that had none (`Grows`), and rows
  that are there stay there in their currency (`Later`). `CommandKept`, `UndoKept` and `JobKept` carry each request over such a
  step; `RefsApart` says that no two requests share a reference. So each action needs a proof for its own request only.
- `TypeOK` holds balances to natural numbers. What a commit does to a balance is a sum over the set of its lines, computed by a
  fold (`MovedTotal`).
- `ParserCorrect`: `FollowsGrammar(rule)` for every sequence of tokens, whatever the tokens are; `RulesParsed` is that for the
  `RuleTexts` of a branch. Parser and grammar are recursive functions, and the library's theorems on those take operators, so
  each is first shown to exist: the parser by climbing from the last position to the first (`ParseExists`), the grammar from the
  shortest spans to the longest (`TreesExist`). Soundness (`ParserSound`): a method that returns a tree returns one that the
  grammar derives from the tokens it took; for a loop, after each of its turns (`LoopSound`). Completeness (`ParserComplete`), by the
  length of a span: a method started at its beginning returns each tree derived from it, if what follows is no word that
  the method would go on with (`LoopStops`). For a loop that means that it comes by every shorter chain of the same span first
  (`ChainReached`). A method returns one result, so the grammar derives at most one tree: it is unambiguous.

`Sums.tla` is what these proofs know of sums over finite sets. No induction theorem can be used here, so `Total` is built
from scratch: the fold's recursion has one solution at most (`AddsOnce`) and, over a finite set, has one (`AddsExists`), both by a
smallest set that fails; it gives the same sum in every order (`TotalWithout`) and under every naming of the elements
(`TotalRenamed`), grows with its terms (`TotalLess`), changes sign with them (`TotalOpposite`) and splits over disjoint sets (`TotalUnion`).

Only model-checked: `EveryRequestEnds`, `EveryCommitIsAnnounced`, `EveryMessageHandled` and `ReadingEnds`, which are liveness under
fairness and so outside the prover's reach;
and the three findings, which are counterexamples.

## 7. Not modelled

- Reference numbers: the models take references as unique, which across pods and restarts is an assumption (listed as a hazard).
- Payment rails, the portfolio composite, account visitors, currency formatting, statement rendering and
  the mini statement: sequential and stateless, they read one query result and keep nothing.
- The fraud rules' tokenizer: regular expressions over characters.
- Retrieval and generation: they call a language model, which has no specification to translate.
- Other controllers, configuration, health checks, the pattern catalogue, and infrastructure code.
- The audit log and the counters of the event bus's observers.
