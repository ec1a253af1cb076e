# TLA+ development for Sakura

Sakura manages the accounts of a group of Emby media servers: memberships, invitations, a wallet, provisioning of Emby users, risk actions, media requests, batch work, automation rules and notifications. The repository holds it twice: the platform v3 (`src/v3`, Go, on PostgreSQL), and the archived v2 (`src/legacy/v2`, Python, on MySQL), a Telegram bot with a web backend, which is kept as the reference of the migration. Both are modelled. They share no process; modules whose names begin with `Legacy` are about v2, the others about v3.

Both have the same nature. Everything that matters is stored in a database and changed by several processes at once, and calls to Emby, MoviePilot and Telegram happen between transactions. In v3 every statement or transaction runs at READ COMMITTED; in v2 a transaction has the snapshot of its first read (REPEATABLE READ), and much of the bot reads a row, awaits Telegram or Emby, and writes it back without looking again. Whether the platform is correct rests on the order of small steps: what was read before a lock, what is written after a lease ran out, what is repeated after a lost reply. That is what these modules describe. They are translated from the source; `PROJECT.json` maps every definition to its lines.

Contents: [1 Components](#1-components) · [2 Plan](#2-plan) · [3 Modules](#3-modules) · [4 Runs](#4-runs) · [5 Fairness](#5-fairness) · [6 Proofs](#6-proofs) · [7 Findings](#7-findings-and-narrow-promises) · [8 Not modelled](#8-what-is-not-modelled)

To repeat the checks, in this directory: `tlc -config TaskQueue.cfg MCTaskQueue` (each cfg goes with the module named for it in `PROJECT.json`), `tlapm TaskQueueProofs.tla`.

## 1 Components

### Processes of v3

| process | what it does | how it talks to the rest |
|---|---|---|
| `cmd/api` | HTTP API for browsers, the bot and payment providers | SQL; Redis for realtime events |
| `cmd/worker` (one or several) | `Worker.Run` loops over `ProcessNext`, `ProcessNextBatch`, `ProcessNextAutomation`, and `ScheduleDue` every 30 s | SQL; HTTP to Emby, MoviePilot, line probes |
| `cmd/bot` | Telegram commands and the notification loop | only the internal API, under the constant lease owner `telegram-bot` |
| `cmd/migrate` | applies `sql/000001…` once each | SQL under an advisory lock |
| `cmd/import-v2`, `cmd/reconcile-v2` | copy the v2 database, compare the two | SQL on both databases |

Processes share no memory. A worker names its leases `worker-<pid>` (`cmd/worker/main.go:50`); in containers several workers may write the same name, which the task queue's model allows (`IdOf`).

### Inventory of v3

For each part: the state it keeps, what changes it, what is hard about it, and when it is correct.

| component | state | operations | hard behaviour | correct when |
|---|---|---|---|---|
| Worker task queue (`worker.go`, `tasks.go`) | `platform_tasks` | Enqueue, claim, keepLease, finish, fail, RetryTask, ScheduleDue | leases that run out under a living worker; crash between effect and finish; late `fail` | a success is final and was earned; attempts respect the maximum; a task is settled in the end; the request row agrees with it |
| Batch operations (`batch.go`) | `batch_operations`, `batch_operation_items` | CreateBatch, claim, per-item transaction, settle, pause, resume, cancel, retry | operators act while a worker is inside a chunk; two workers in one batch | each item is applied once per attempt, a stop is kept, the final status says what happened to the items |
| Automation (`community.go`) | `automation_events`, `automation_executions` | claim, executeAutomationEvent, settle | no renewal of the lease; failure recorded outside the transaction | one success per event and rule; a succeeded event has applied its rules |
| Risk (`risk.go`, `worker.go`) | `risk_events`, `risk_actions`, the remote user | disposition, false positive, risk.action, risk.revert | remote call between two records; review while the action runs | a revert restores what was there before the action |
| Wallet and commerce (`wallet.go`, `commerce.go`) | `ledger_*`, `recharge_orders`, `payment_callback_events`, `recharge_refunds`, `membership_purchases` | create order, confirm, refund, purchase, adjust | repeated and crossing callbacks; two refunds of one order | no overdraft; the ledger is explained by the orders; refunds stay within the order |
| Membership and invitations (`membership.go`) | `account_memberships`, `invitation_codes`, `invitation_redemptions` | assign, redeem, revoke | two transactions on one account or one code | uses within the maximum; days granted are days held |
| Provisioning and bindings (`emby.go`, `worker.go`, `emby_client.go`) | `emby_provision_requests`, `remote_emby_users`, `emby_account_bindings`, `emby_claim_tokens` | RequestProvisioning, the provision and sync tasks, claims | creating a remote user is not idempotent; people use the same server | one remote user per request, none taken over; bindings within the plan |
| Reconciliation and sync (`worker.go`) | the remote directory, disabled flags | emby.sync, emby.reconcile, favourites, policies | lists read long before they are acted on | a missing mark heals; the flag follows the membership |
| Entitlements and lines (`access_lines.go`, `worker.go`) | `entitlement_codes`, `account_entitlements`, `emby_policy_management` | redeem, grant, revoke, syncEntitlement | keyed enqueue after a row is revived; baseline against remote policy | in the end the remote policy is baseline plus current grants |
| Media and MoviePilot (`media.go`, `integrations.go`, `worker.go`) | `media_requests`, `moviepilot_jobs` | request, resolve, queue, match, submit | a resolution while the download is being posted | status moves only along `validRequestTransition`; one download per job |
| Notifications (`batch.go`, `telegrambot/bot.go`) | `account_notifications` | claim, send, complete, fail | sent but not completed; one lease owner for all bots | every notification is sent, at most `delivery_attempts` times, or is failed |
| Identity and governance (`identity/*.go`) | `accounts`, `account_roles`, `sessions`, `account_identities`, `dynamic_settings` | log in, change lifecycle, assign roles, link Telegram, write setting | the last active owner; a session opened across a suspension | an active owner always remains; a suspended account has no live session |
| Tickets, reviews, rules (`community.go`, `reviews_favorites.go`) | one row each, with a revision | revision-checked updates under the row lock | lost updates | a change based on an old revision is refused |
| v2 import and comparison | the v3 tables, in one transaction | dry run, apply, apply again | a second apply with newer data | a repeated import changes what changed and nothing else |
| Migrations | `schema_migrations` | apply pending versions | two migrators | each version is applied once, in order |
| API, bot commands, realtime, health, configuration, front end, scripts | none of their own | plumbing | — | not modelled, see section 8 |

### How they interact

* Everything slow is **enqueued** in the transaction that decides it, under an idempotency key (`ON CONFLICT DO NOTHING`), and done by a worker. A task's row may bring another row with it: a provision request (`SettledTogether`), a risk action, a MoviePilot job. `fail()` writes both.
* `assignMembershipTx` is called by the administrator's route, the batch, the redemption and the purchase. That a remote user is enabled or disabled accordingly is left to the periodic `emby.reconcile`.
* The double-entry ledger is called by recharges, refunds, purchases, adjustments and the import.
* Domain changes emit automation events in their own transaction; a worker executes the rules, whose actions post tags, notifications and task rows.
* Emby is shared with people: users appear, vanish and are renamed on it at any time.

### The archived v2

| process | what it does |
|---|---|
| the bot | Telegram handlers in one event loop, a scheduler with the nightly sweeps and the jobs every few seconds, and the webhooks of Emby |
| the web backend | FastAPI; handlers in a thread pool, each with its own database session |
| workers (one or several) | claim rows of `operation_tasks`, renew their lease with a heartbeat, run one handler each |

| component | state | operations | hard behaviour | correct when |
|---|---|---|---|---|
| Registration tasks (`registration_service.py`, `task_service.py`, `task_worker.py`) | `emby`, `registration_codes`, `operation_tasks` | submit, cancel, claim, execute, complete, roll back, retry | snapshots older than the lock; a lease that lapses under a living handler | no account is lost unnoticed, days are counted once, and no more users than submit at once, less one, exceed the limit |
| Emby accounts (`check_ex.py`, `kk.py`, `member_panel.py`, `emby.py`, …) | `emby` rows, users on the server | ban, restore, renew, delete, move, bind, clear, sweeps | a row read before an await decides what is written after it | no row points at a deleted user, levels say what the user is |
| Partition libraries (`partition_service.py`, `partition_access.py`) | codes, grants, policies on Emby | redeem, sweep, show and hide, clear | the whole policy is posted as it was read | access follows the grants; bans and other libraries are kept |
| Coins, shop, envelopes (`commerce_service.py`, `red_envelope.py`, …) | `emby.iv`, codes, orders, `idempotency_records`, envelopes in memory | check in, adjust, buy, order, refund, send and grab, rank | locked and unlocked writers of one column | coins are the sum of what was paid and received; books agree |
| Media requests (`commerce_service.py`, `request_movie_panel.py`, `sync_mp_download.py`) | `media_requests` | ask, decide, submit, copy progress | a job writes a row it read before a decision | a completed request is complete; what was recorded was charged |
| Dynamic settings (`governance_service.py`, `sync_dynamic_settings.py`) | `dynamic_settings`, `config_revisions`, a copy in every process | update, roll back, materialise, periodic copy | copies are written after the commit, in any order | the history chains; copies catch up |
| Reviews, tickets, notifications (`community_service.py`) | reviews, reactions, reports, tickets, inboxes | write, react, report, moderate, reply | counters beside the rows they count; a creation that looks before it inserts | counters agree with rows |
| Accounts, logins, plans (`auth_service.py`, `account_service.py`) | login requests, sessions, identities, plans, memberships | start, claim, decide, poll, exchange, assign, suspend | unlocked polls beside locked decisions; keys computed before they are inserted | one session per decision, one key and one plan per account |
| Operations console (`core_operations_service.py`) | playback sessions, devices, lines | synchronise, stop, patch, probe | a list fetched before the lock; an advisory lock that belongs to a connection | one open row per session; rows end up with what plays; an outage of a line is reported once |
| Monitoring and alerts (`operations_center_service.py`) | probes, risk rules, alert deliveries | diagnose, evaluate, deliver | two diagnoses compare with the same past; an answer that comes late | an outage is reported; what counts as sent was sent |
| Automations (`platform_service.py`) | events, rules, runs | write, edit, evaluate | events commit out of their order; workers stop in between | each event is dealt with once, and none is passed by |
| Emby servers and credentials (`platform_service.py`, `registration_service.py`, `operations_center_service.py`) | credentials, instances, bindings, users on the servers | edit, create, suspend, restore, delete, adopt | no foreign keys; the server first and the row after it | no user is lost; bindings say what the servers do |
| Panels, commands, statistics, plug-ins, roles, audit | – | rendering, reads | – | not modelled, see section 8 |

The services share the table `emby` and the queue `operation_tasks`. The bot writes the same rows without the services' locks: where the two meet (`LegacyLedger`, `LegacyAccount`, `LegacySettings`) a module has both.

## 2 Plan

The order follows importance: the queue of v3 first, because every remote effect runs under its leases; then the protocols built on the same lease; then money; then the shared server; then v2, part by part, in the order of what its users would lose.

| # | modules | builds on | abstract specification | status |
|---|---|---|---|---|
| 1 | `TaskQueue` | – | `TaskPromise` | modelled, refinement checked and proved |
| 2 | `BatchOperation`, `Automation`, composed in `WorkerRound` | their own lease protocols | – | modelled, invariants proved |
| 3 | `RiskAction`, `Provision` | claim, finish, fail of the queue | – | modelled, invariants proved |
| 4 | `Commerce`, `Membership`, the latter composed with `RiskAction` in `Platform` | – | – | modelled, invariants proved |
| 5 | `LegacyRegistration`, `LegacyAccount`, composed in `LegacyAccounts` | – | – | modelled, invariants proved |
| 6 | `LegacyLibrary` | – | – | modelled, invariants proved |
| 7 | `LegacyRequests`, extended by `LegacyLedger` | – | – | modelled, invariants proved |
| 8 | `LegacySettings`, `LegacyOperations`, `LegacyAutomation`, composed in `LegacyWeb` | – | – | modelled, invariants proved |
| 9 | `LegacyCommunity`, `LegacyAccess`, `LegacyInstances`, `LegacyMonitoring`, composed in `LegacyPlatform` | – | – | modelled, invariants proved |
| 10 | `Identity` (v3) | – | – | open: lifecycle, roles, sessions, link codes. First theorem: an active owner remains |
| 11 | `Media`, `Notification` (v3) | the queue | `validRequestTransition`; "sent or failed" | open |
| 12 | `Entitlement`, `Sync` (v3) | the queue, `Membership`, `Provision` | remote policy = baseline and grants, eventually | open |
| 13 | `Import` (v3) | the ledger of `Commerce` | a repeated import equals one import of the last data | open |

Theorems still worth proving: an active owner remains (`Identity`).

## 3 Modules

Common conventions. One action is one SQL transaction or statement, one remote call, or one stretch of a transaction between points where another can interfere. Row locks are modelled where a transaction is split; elsewhere the transaction is one step. Time appears only through what the code compares with it: a lease is live or has run out, a retry that is not due yet is a task nobody has claimed yet. A *bound* is a constant named `Max…` that only stops TLC from counting on; the values are in the table of section 4. A variable marked *ghost* is written by the model and read by properties alone; it remembers what the code forgets. Operators commented "Slip" are plausible errors in the definition below them; replacing the definition by the slip has to break a property, which is how the properties were tested.

### v3

**`TaskQueue`** — `row` is `platform_tasks` (status, attempts, lease_owner, whether the lease is live), `request` is the status of the `emby_provision_requests` row of a provision task, `bound` whether the effect of `process()` was committed, `run` the local state of each worker: the task, the attempt number read when claiming, whether `keepLease` still runs, the outcome of `process()`. Actions: `Enqueue`, `RetryTask`, `Claim`, `KeepLease`, `KeepLeaseError`, `ProcessCommits`, `ProcessFails`, `Finish`, `Fail`, `Abandon` (crash, or a settlement whose statement fails), `LeaseLapses` (nobody renews it), `LeaseStalls` (the worker lives, but the lease has run out all the same). `finish` and `fail` are guarded by `lease_owner` only, like the code, and `Fail` writes the request also when its first statement matched nothing.

**`TaskPromise`** — what those who enqueue a task may rely on: open, performed at least once, then succeeded for good; or given up and perhaps reopened. `TaskQueue!KeepsPromise` maps a row to its job and `bound` to `done`.

**`BatchOperation`** — `op` is the row of the batch, `item` the items' statuses, `applied` counts the effects. A worker goes through claim, read chunk, then for every item check status, apply (one transaction), or mark failed, renew; then settle. `late` counts the items a worker still processed after the batch was canceled. Operators pause, resume, cancel, retry. Faults: a lease that stalls, a crash, a lost reply to a commit.

**`Automation`** — one event and its enabled rules; `exec` is `automation_executions`, `applied` the committed actions. `RunRule` is the transaction of one rule; `ActionFails` and `MarkFailed` are the rollback and the separate statement that records it; `Recordable` is the unique key together with the read at the start.

**`WorkerRound`** — the two above as what a worker does in each round besides tasks. It EXTENDS `Automation` and instantiates `BatchOperation` with the batch's own variables. The two share no row, so a behaviour moves one of them, which `round` picks at the start, while the other stands still: every property is about one of the two, and TLC is spared their product.

**`RiskAction`** — `event`, `action` and the two task rows (`risk.action`, `risk.revert`), the remote user (`remote`), and `history`, which remembers what the user was before the platform first called. A worker goes through read, start, look, record, apply, flag, complete. Administrators change the disposition, mark a false positive (`CancelAction` or `QueueRevert`) or retry a task.

**`Commerce`** — `order`, `callbacks`, `refunds`, `purchases`, `ledger`, `balance`, and `session`: up to two transactions at a time, each at one of the points begin, order lock, wallet lock, commit. A request is a callback, a refund, a purchase or an adjustment under a key. The lookup under the key takes no lock, as in the code; the unique constraints refuse the second of two that passed it together. `RollBack` may happen at any point.

**`Membership`** — `code` and `redeemed` for invitations, `current` for the current row of each account, `tx` for concurrent transactions in phases code, look, lock, expire, insert. `LookAtCurrent` and `LockCurrent` are the two halves of one `SELECT … FOR UPDATE` at READ COMMITTED: a statement that had to wait looks again only at the row it waited for. `granted` and `overlapped` remember what was assigned and where two assignments of an account met.

**`Platform`** — `Membership` and `RiskAction` side by side, for one run. They share no row; a behaviour moves one of them, which `part` picks at the start.

**`Provision`** — `request` (with its task row), `emby` (the users on the servers, in order of creation), `directory` and `binding` (what the platform knows of them), `claiming` (claim calls in progress), `run` (workers). The provision task goes through list, preflight mark, create, record, password, bind; the sync task lists and stores. `Outside` creates and renames users on the server. A lost reply to the creation leaves the user there. Claims of one account may overlap, since they only share the lock of its membership, and two workers may synchronise one server after a lease has lapsed.

### v2

**`LegacyRegistration`** — a submission is one transaction whose snapshot is taken by its first read (`sub`), before it gets the locks of the user, the code and the queue: what it counts may be behind. (That is REPEATABLE READ, the default of the MySQL 8.4 of the deployment; the engine sets no other level.) `Placed` are the users with an account or a task under way. `excess` counts places taken without any count, by an administrator's retry and by a handler that completes although its task was given up; a submission whose count was behind is not among them. `crowd` is the most submissions that were ever open at once. Workers claim a task, read settings and code, create the account, complete in one transaction, or take the account back; heartbeats renew the lease beside the handler, and a task whose lease lapsed is given up by whoever polls next. `lost` remembers accounts nobody took back, `spent` the days consumed.

**`LegacyAccount`** — the row of a user and the account on Emby. Almost every handler of the bot reads the row, awaits Emby and writes columns without comparing anything. A handler is a `job`: what it has read is fixed when it starts (`Starts…`), what is left of it is a sequence of steps, each a call that may be refused or unanswered, or a write that may fail. `loose` marks users whose handlers overlapped or went unanswered; for all others row, level, account and credits are in step.

**`LegacyAccounts`** — registration and handlers side by side, `part` picks which moves.

**`LegacyLibrary`** — partition codes, reservations, grants, and the policy on Emby, which is always posted whole, as it was read. Two partitions share a library, so that what one grant shows another must not hide. A rebinding whose call to hide is refused or unanswered goes on all the same (`RebindUnhidden`).

**`LegacyRequests`** and **`LegacyLedger`** — requests for media with the job that copies MoviePilot's progress, and everything that moves coins (`emby.iv`): check-ins, adjustments, codes, orders with their refunds, the envelope kept in memory, rankings, and the charge, the record and the import of a download, each a transaction of its own. A *slot* is an operation that has read and not yet written; operations that lock first are one step.

**`LegacySettings`** — `row` and `history` in the database, `runtime` the copies in the processes, `edit` an update under way, `sync` the periodic job between its read and its write.

**`LegacyOperations`** — `playing` on Emby, `open` the rows without an end, `syncing` the list a synchronisation fetched before it took the advisory lock, `stranded` a lock that stayed with a connection of the pool. Devices are patched between a read and a write; lines are probed at the address they had, and `outages` counts the events of a line since it was last found healthy.

**`LegacyAutomation`** — `journal` holds events by number and whether their transaction is still open, `automation` the rules with their cursors, `runs` how often a rule ran for an event, `evaluation` the workers. `overtaken` remembers events that were uncommitted when a later number was read.

**`LegacyWeb`** — the three above side by side. `part` picks settings, playback, lines, and of automations either several rules and one worker or one rule and two workers.

**`LegacyCommunity`** — every handler locks its row and is one step; only the creation of a review looks before it inserts (`drafts`), and `Inserted` is the unique pair that refuses the second of two.

**`LegacyAccess`** — requests to log in (`request`), what a poll is about to expire (`polled`), sessions, identities, plans, memberships. Handlers that read without a lock have two steps. `decided` remembers who decided a request and how.

**`LegacyInstances`** — `credential` and `instance` with the administrators' open transactions (`form`), the users on the servers in the order they were made, `binding` and `embyid`, and the `job` of each hand. `unsure` and `stray` remember where a binding may differ from the server and which users are known to be left over.

**`LegacyMonitoring`** — `probed`, `failures`, `counted` are what diagnoses and rules count, `delivery` the alerts in order, `diagnosis` and `telling` what each worker is between.

**`LegacyPlatform`** — the four above side by side, `part` as in `LegacyWeb`: the handlers modelled share no row. Of the instances either two hands meet at users while the configuration stays, or one hand meets administrators who edit it.

**Proof modules** — section 6. **`MC…` modules** — constants and symmetry for TLC only.

## 4 Runs

| run | properties | bounds | shows |
|---|---|---|---|
| `TaskQueue` | `RowsConsistent`, `KeepsPromise`, `EventuallySettled` | 2 tasks (1 provision), 2 workers, MaxAttempts 2, MaxStalls 1, MaxAbandons 1, MaxRetries 1 | Two workers with distinct lease owners, a provision task and another, a crash, a lease that runs out under a living worker and an operator retry: leases, retries, attempts and the request row stay consistent, success is final, every task is settled, and the queue implements TaskPromise. |
| `WorkerRound` | `EffectsAccounted`, `AppliedOnce`, `StopsAreKept`, `BatchSettled`, `EventSettled` | 2 items, Chunk 2, 2 workers, MaxFaults 2; 3 rules, 1 and 3 match, MaxAttempts 3, MaxStalls 1, MaxAbandons 1 | Two workers at a batch or at an event. Of a batch: any two of a crash, an expired lease, a lost commit reply, a pause and resume, a retry; cancel and pause at any time. What holds of leases, effects, pausing and canceling, that items and effects agree while workers do not overlap, and that a batch nobody stops is settled. Of an event with three rules, one of which does not match: success means that the matching rules were applied, once each while workers do not overlap; and the event is settled unless the crash falls into the last attempt. |
| `Automation_twice` (violation) | `AlwaysAtMostOneSuccess` | 2 rules, MaxAbandons 0 | A worker whose lease ran out overwrites a succeeded execution with failed, and the rule runs again. |
| `Commerce` | `NoOverdraft`, `BooksBalance` | 2 sessions, MaxRequests 5, 2 orders of 1 account, 2 payment numbers, 2 keys | Two concurrent transactions and five requests over two orders of one wallet: callbacks that repeat, share a payment number or name another order, full and partial refunds, purchases and adjustments, each possibly repeated under its key or rolled back at any statement. |
| `Provision` | `UserIsSound` | 2 accounts, 1 server, 2 names, 2 workers, MaxAttempts 2, MaxUsers 2, MaxFaults 2, MaxOutside 1 | One requested name on a shared Emby server, two accounts, two workers, hand-made claims, syncs with stale listings, users created or renamed by outsiders, lost replies, crashes, stalled leases and retries: a request creates one remote user, takes over no user that was there before, and a request that succeeded left a usable binding. |
| `Platform` | `CodesAccounted`, `RevokedIsFinal`, `RecordIsTruthful` | 3 transactions, 2 accounts, 1 code of MaxUses 2, 2 keys, MaxAssignments 2; 2 workers, MaxFaults 2 | Three transactions redeem a code with two uses for two accounts, repeat their keys, assign memberships and meet a revocation: uses never exceed the maximum, a revoked code stays revoked, and days are only lost where assignments of one account overlap. And two workers carry out a risk action while administrators review it, with any two of an expired lease, a crash, a lost reply, an operator retry: the recorded effect is never ahead of the call to Emby; while workers do not overlap, the state to go back to is never spoilt and a completed revert has restored it. |
| `LegacyLibrary` | `CodesSound`, `AccessMatchesGrants`, `OtherSettingsKept` | 2 users, 2 partitions that share a library, 2 codes, 2 slots, MaxJobs 3, MaxFaults 1 | Archived v2: two users, two partitions that share a library and a code of each, any three handlers, two at a time, with one call or process failing. A code becomes one grant at most; of undisturbed users the libraries shown are those granted, and disabling, emby_block and other libraries keep what was decided of them. |
| `LegacyAccounts` | `WithinLimit`, `TasksAccountedFor`, `RowsMatchServer`, `BalancesAddUp`, `ClearedOnlyDeleted` | 2 users, keys, workers, ids and slots, UserLimit 1, QueueLimit 1, MaxSubmits 2, MaxRetries 1, MaxFaults 2, MaxCredit 1, MaxJobs 3 | Archived v2: two users compete for one place with two open submissions, two workers and two faults (calls, leases, crashes), one retry: submissions that follow one another never exceed the limit, and those that overlap by no more than overlap; no account is lost but by an interrupted handler, a code counts once. And any three handlers of the bot, the web and the worker, two at a time, with refused and unanswered calls to Emby and failed writes: a row points at a deleted account only while the handler that deleted it is still to clear it, and undisturbed users keep level, account and credits in step. |
| `Registration_oversold` (violation) | `NeverOversold` | as LegacyAccounts, no retries and no faults | Archived v2: two users submit at once for the last place. Each reads its idempotency key before it gets the lock of registration_state, and counts what was there then: both are queued. |
| `LegacyLedger` | `CoinsAddUp`, `EnvelopeCovers`, `WhitelistKept`, `BooksAgree`, `CompletedIsFull`, `RecordedMeansCharged` | 2 users, 2 slots, 1 code, 2 orders, 1 key, 2 requests, 1 download, 1 synchronisation, MaxOps 3 | Archived v2: two users and two who read before they write, through up to three operations of the bot, the web and the jobs on coins, codes, orders, an envelope and downloads: no key pays twice, envelopes are covered, books agree, the whitelist is kept, and a recorded download was charged, for all interleavings, crashes and failing writes. |
| `LegacyWeb` | `OneOpenPlay`, `LinesReported`, `HistoryChains`, `EventsHandled`, `RuntimeCatchesUp`, `PlaybackCatchesUp`, `EventsArePassed` | 2 processes, 2 editors, 2 settings, MaxOps 2; 2 sessions on 1 device, 2 items, MaxMoves 3; 2 lines, 2 addresses; 2 automations, 2 evaluators, Chunk 1, MaxEvents 2, MaxRevisions 1, MaxStops 1 | Archived v2, what its backend repeats until it is done: settings updated at once from the web and the bot, with restarts and the periodic job; lists of Emby sessions applied out of order under a lock that may be lost; probes of lines that administrators edit; automations evaluated by two workers, either of which may stop, over events that commit out of order while rules are edited and deleted. Histories chain, the copy of the settings and the open rows end up with what is stored and played, no rule handles an event twice or passes by one that was committed in order, and no event is waited for for ever unless a rule stops all of them. |
| `LegacyPlatform` | `CommunityAgrees`, `AccessIsExclusive`, `InstancesSound`, `ServicesReported`, `DeliveriesAccounted` | 2 readers, MaxSteps 5; 2 persons, 2 names, 1 request, 3 plans, 2 slots, MaxBegun 3; 1 credential, 2 instances, 1 account, 2 administrators, 2 hands, MaxUsers 2, MaxEdits 2, MaxFaults 1; 1 service, 1 rule, 1 recipient, 2 workers, MaxDiagnoses 2, MaxRevised 2, MaxAttempts 2 | Archived v2, who uses it and what watches it: reviews, reactions and reports; requests to log in that are claimed, decided, polled, exchanged and expire, and plans assigned by two handlers at once; users on two Emby servers whose credentials are edited, with two hands that create, suspend, restore and delete them, one of which may stop; diagnoses, rules and alerts by two workers that may stop. Counters agree with their rows, a request opens one session at most, an account has one membership, no user is lost on a server and bindings say what the servers do, outages are reported and no alert counts as sent that was not. |

Why these bounds. The hazards here are of the form "one is between two steps when another does something": two workers, transactions or handlers suffice to have one overtaken and one that overtakes, and one or two faults to get there.

* `TaskQueue`: two tasks, one with a request row, so that a worker may go on to another task while the first is taken over; two attempts, so that there is a last one and one before; one stall, one abandoned claim, one operator retry, in any combination.
* `WorkerRound`: a chunk of two items, so that a stop or a takeover can come between them; any two faults, also twice the same. Three rules, one that does not match between two that do, and three attempts, so that a takeover is followed by another.
* `Commerce`: two transactions at once, five requests in sequence; two orders of one wallet, two payment numbers, two keys, amounts one and two, so that a partial refund, a full one, and one beyond the rest all occur. Symmetry is over sessions, orders, keys and payment numbers, which no definition tells apart.
* `Platform`: a code with two uses meets three redemptions, and a third transaction changes the row two others wait for; any two faults of a risk action cover a crash while an earlier attempt's reply was lost, and a retry after a failure.
* `Provision`: one name wanted by two accounts on one server with a second name to rename to; two users at most, so that a second creation is possible and would be seen.
* `LegacyAccounts`: one place and two users who want it, so that one too many is let in if one may miss the other in its count; two submissions, two workers and two faults suffice for a lease given up under a living handler whose rollback then fails. Any three handlers, two at a time: the third sees what two that overlapped left.
* `LegacyLibrary`: two partitions with a library in common; three handlers, two at a time.
* `LegacyLedger`: three operations over two users; two orders and one code, so that a refund meets a purchase and a code is redeemed twice.
* `LegacyWeb`: two processes, of which one copies periodically, two editors of two settings, two updates; two sessions on one device with two items and three moves; two lines with two addresses; two events in chunks of one, so that one commits after a later one was read.
* `LegacyPlatform`: five steps of two readers reach a review that is written, published, liked, reported and moderated; two persons and two names for one request; three plans, two of them seeded; two users on two servers with one fault; two diagnoses of one service and alerts offered twice.

All cfgs say `CHECK_DEADLOCK FALSE`: once everything is settled and the bounded number of requests has been made, the models stop, as the real system then only polls. That work is not stuck before is a matter of the liveness properties.

## 5 Fairness

`TaskQueue`, `WorkerRound` and `LegacyWeb` check liveness; the others are safety only.

* *Workers keep polling* (`Worker.Run` never leaves its loop while the context lives): weak fairness of the batch and event claims, strong fairness of the claim of each task, because `ORDER BY available_at, created_at` lets no claimable task be overtaken for ever, while its claimability comes and goes with leases and retries.
* *Processing returns*: the Emby client has a timeout of 20 s, MoviePilot's 15 and 20 s; statements end. Weak fairness of the steps of a worker that is alive. Not of success: every call may fail.
* *Leases run out*: weak fairness of `LeaseLapses`.
* *The statement that marks an item failed gets through if it is repeated for ever*: strong fairness, for batches only; without it a batch whose marking always fails is taken up for ever.
* *Settings of v2*: the scheduler's job reads and writes the copy again and again, and an update that has begun ends. With that the bot's copy ends up with the table (`RuntimeCatchesUp`), provided nobody writes the table any more.
* *Playback of v2*: the scheduler's synchronisation keeps coming, and connections that hold the lock by accident are closed in the end, as the pool recycles them. With that the open rows end up with what plays (`PlaybackCatchesUp`).
* *Automations of v2*: the evaluation task is queued again and again and transactions end. `EventsArePassed` says that no rule waits at an event for ever, unless a rule whose interval is no number stops them all.
* Operators, administrators, users and outsiders need not do anything.

## 6 Proofs

TLAPS checks the following for every value of the constants, from the named assumptions of the modules (the markers for NULL are no ids, bounds are natural numbers, sets are finite, and the like). TLC evaluates the same assumptions in the runs.

| theorem | says |
|---|---|
| `TaskQueueProofs!TypeCorrect` | The task table, the request rows and the workers keep their types, for all sets of tasks and workers and all bounds. |
| `TaskQueueProofs!LeaseOnlyWhileRunningHolds` | A row names a lease owner exactly while it is running, whatever lease_owner values the workers write. |
| `TaskQueueProofs!SucceededIsFinalHolds` | No statement of any worker or operator moves a task out of succeeded, even with colliding lease owners. |
| `TaskQueueProofs!RetryBelowMaxHolds` | If no two processes write the same lease_owner, a task is in retry only while attempts are left. |
| `TaskQueueProofs!KeepsPromiseHolds` | The queue implements TaskPromise: a task succeeds only after its effect was committed, and success is final. |
| `TaskQueueProofs!RowsConsistentHolds` | If no two processes write the same lease_owner, leases, attempts and provision requests agree with the status of their task at every moment. |
| `WorkerRoundProofs!EffectsAccountedHolds` | For any items, workers and faults, an item that succeeded had its effect, no effect is applied more often than operators asked for it, a canceled batch stops at the item each worker is at, and a settled batch has no item left. |
| `WorkerRoundProofs!StopsAreKeptHolds` | A batch that was paused or canceled stays so until an administrator or a retry opens it again, whichever worker is still at it. |
| `WorkerRoundProofs!AppliedOnceHolds` | However workers take an event over from each other, success means that the matching rules were applied and no others, and as long as no lease runs out under a living worker, once each and within the attempts of the event. |
| `RiskActionProofs!RecordIsTruthfulHolds` | For any workers, faults and dispositions, an effect is recorded only after the call to Emby, and while workers do not overlap the state to go back to is the original one and a completed revert has restored it. |
| `CommerceProofs!NoOverdraftHolds` | For every number of accounts, orders and concurrent transactions, no wallet is ever overdrawn. |
| `CommerceProofs!TypeCorrect` | Every transaction, balance, ledger entry and order keeps its type for every value of the constants. |
| `CommerceProofs!CallbacksAgreeHolds` | A payment number settles one order, of the amount and provider it was paid for, even when callbacks cross. |
| `CommerceProofs!PostingsMatchHolds` | Orders, refunds and purchases correspond to the postings of the ledger one to one. |
| `CommerceProofs!ExtendedOncePerPurchaseHolds` | A membership is extended exactly once for each purchase that was paid. |
| `CommerceProofs!BooksBalanceHolds` | Every balance is the sum of what its orders granted and its adjustments less refunds and purchases, refunds stay within their order and its status tells how far they went, callbacks agree with orders and purchases extend once, for any number of concurrent transactions. |
| `ProvisionProofs!UserIsSoundHolds` | However workers crash and stall, replies are lost and users are created, renamed and claimed by hand: a request makes one remote user, gives no older user its password, and ends with a binding that works and is offered to nobody else. |
| `MembershipProofs!TypeCorrect` | Codes, redemptions, membership rows and transactions keep their types for every number of each; in particular a code only takes the statuses its column allows. |
| `MembershipProofs!UsesWithinMaximumHolds` | However many transactions, accounts and codes there are, no code is used more than max_uses times and used_count counts the redemptions. |
| `MembershipProofs!RevokedIsFinalHolds` | No interleaving of redemptions with a revocation brings the code back. |
| `MembershipProofs!CodesAccountedHolds` | A code has as many uses as redemptions and no more than its maximum, and an account whose assignments never overlapped has the days of all of them. |
| `LegacyWebProofs!CodesSoundAlways` | However reservations of v2 partition codes lapse, are taken over, asked for again, released or deleted while Emby is awaited, a code becomes a grant once at most. |
| `LegacyWebProofs!AccessMatchesGrantsAlways` | A v2 user whose handlers neither overlapped nor went unanswered sees of the libraries of partitions what active grants cover, whatever partitions share and however sweeps and handlers of other users interleave. |
| `LegacyWebProofs!OtherSettingsKeptAlways` | Showing and hiding the libraries of a partition leaves what was decided of a v2 user besides, the disabled flag, emby_block and the other libraries, as it was, unless handlers of the user overlapped or went unanswered. |
| `CommerceProofs!TasksAccountedForAlways` | For any users, tasks and workers of v2: as long as its lease never lapsed a task has one handler; an account on the server answers to a completed registration or to a task still to complete it or take it back, unless its handler was interrupted. |
| `CommerceProofs!WithinLimitAlways` | However old the counts of overlapping submissions of v2 are, places taken exceed the limit by at most the submissions that were ever open at once, less one, so by none as long as they follow one another; beyond that only retries and handlers whose task was given up add to them. |
| `CommerceProofs!RowsMatchServerAlways` | For any users, accounts and concurrent handlers of v2: a row is bound to a deleted account only while the handler that deleted it is still to clear it, and the level of a user whose handlers did not overlap and were all answered says what the account is. |
| `CommerceProofs!BalancesAddUpAlways` | Codes are used once and the days and credits of a user whose handlers did not overlap are those given less those spent, for any number of users, codes and handlers. |
| `CommerceProofs!ClearedOnlyDeletedAlways` | However the handlers overlap, one that finds the row by its account clears it only after Emby has deleted that account. |
| `WorkerRoundProofs!CoinsAddUpAlways` | The coins of every v2 user are the start and the sum of the changes, each idempotency key counted once, unless a handler wrote over a balance somebody changed after it was read. |
| `WorkerRoundProofs!WhitelistKeptAlways` | A v2 user who acquired the whitelist has it, unless a level computed from an older read was written after. |
| `WorkerRoundProofs!BooksAgreeAlways` | Recharge orders of v2, their billing entries and their idempotency records tell one story, however often creations, decisions and refunds are repeated at once. |
| `WorkerRoundProofs!CompletedIsFullAlways` | A completed media request of v2 has progress 100, unless its row changed between the read of the synchronising job and its write. |
| `WorkerRoundProofs!RecordedMeansChargedAlways` | A step that records a v2 request from Telegram comes after the charge for its download, wherever the bot stopped. |
| `WorkerRoundProofs!EnvelopeCoversAlways` | All users together never hold more of a v2 envelope than its sender put in, for any number of users, shares and taps that pass the checks together. |
| `LegacyWebProofs!HistoriesChain` | However updates, rollbacks, panels and periodic copies of any number of processes interleave, the history of a setting is a chain without gaps that ends at its row. |
| `LegacyWebProofs!OneRowIsOpen` | Whatever synchronisations, stops by administrators and failures cross, a playback session has at most one open row. |
| `LegacyWebProofs!OfflineIsReported` | Since a line was last found healthy there is one event of an outage if it is offline and none otherwise, for any number of lines, addresses and probes under way. |
| `LegacyWebProofs!NoEventIsForgotten` | Whatever workers stop in between and whichever events commit late, a rule runs at most once for an event and passes no event it could have read without having handled it. |
| `LegacyPlatformProofs!UsersAreAccounted` | For any servers, accounts, administrators and hands: an instance has its credential unless the two were edited at once; every user on a server has a binding, is about to get one or was left behind in a known way; a settled binding says what the server does. |
| `LegacyPlatformProofs!OutagesAreReported` | For any number of workers whose diagnoses overlap, a service that was found down has been reported. |
| `LegacyPlatformProofs!AlertsAreAccounted` | An alert that counts as sent was sent, and nobody was told more often than it was tried, whoever else delivers it. |
| `LegacyPlatformProofs!CountersAgree` | For any readers, the counters of a review are the rows they count, and the dates of tickets and risk events say what their status says. |
| `LegacyPlatformProofs!AccessStaysExclusive` | A request to log in opens at most one session, of the one person who approved it; every local account that was created has a key of its own; no account has two memberships at once. |

**Task queue.** A task may only succeed if its effect was committed. The row alone does not say that, so the inductive invariant `IInv` of `TaskQueueProofs` adds `RunsConsistent` to types and `LeaseOnlyWhileRunning`: a worker whose `process()` returned well has committed the effect of its task (`bound`), a worker has an outcome exactly while it has a task, and that task was enqueued. With that, `KeepsPromise` is proved as a refinement, every step of the queue being a step of `TaskPromise` or a stutter. `RetryBelowMax` needs that no two processes write the same `lease_owner`: under `DistinctIds` the attempt number a worker read is the one in the row as long as the row is its own. The theorem states that condition, and so does `RowsConsistentHolds`, of which it is a part; the deployment in `compose.yaml` does not guarantee it, see section 7. `SucceededIsFinal` does not need it. For `SettledTogether` a worker whose lease has not run out under it must still be the one that writes the request.

**Commerce.** `NoOverdraft` is not inductive: a transaction decides on the balance when it locks the wallet and writes at its commit. `IInv` adds that a transaction at its commit covers its cost (`Covered`), that a transaction at work has a request (`Active`), and that no two hold the lock of one wallet (`Exclusive`). Then no other transaction can change the balance in between. The other theorems need what a transaction has checked of the order it has locked to stand until it commits (`OrderChecked`, `OrdersApart`); `Books` then says, table by table, which row has which posting and which purchase its extension, and each commit adds a pair that was not there. `BooksBalance` is about sums: of the postings of a wallet and of the refunds of an order. A commit adds one row to one sum and the same amount to the balance, once, because the row was not there before (`FreshKey`); what a refund found left of the order it has locked is still left when it commits (`RefundChecked`).

**Membership.** `UsesWithinMaximum` counts redemptions by `Cardinality`, and a transaction writes the count it read when it locked the code. `IInv` says that a transaction at work has an account, and one on a code a key (`Typed`), that what a transaction read of a code it holds is still so (`LockedIsFresh`), that no two hold the same code (`LocksExclusive`), and that the redemptions are a finite set. `RevokedIsFinal` follows from the same invariant: a code that is locked for redemption is active, so it cannot have been revoked. For `CodesAccounted`, `DaysKept` says of an account whose assignments never overlapped that the row an assignment has read is the current one, so that the days it adds are added to all the earlier ones.

**Batches and events.** `WorkerRoundProofs` treats the two halves of a worker's round apart. Of the event, `RulesTrue` and `NothingPassedOver` hold however workers overlap: a record is written after the action it speaks of, and a worker leaves no matching rule behind it that was not applied. That nothing is applied twice holds as long as no lease runs out under a living worker: then the worker in the event is the one its lease names (`OneAtATime`), and what was applied stays recorded (`RecordsAgree`). Of the batch, `ItemsCounted` bounds the effects by the retries whatever overlaps, and `LateOnce` the work after a cancellation. Without an overlap a worker is alone (`Alone`), so that the verdict it has counted is still true when it settles (`VerdictsTrue`); and if no reply is lost either, what it has still to do is pending (`TodoPending`) and effect and status agree. A stop is kept because settling asks for the owner, and only a running batch has one (`OwnerRuns`).

**Risk actions.** `RecordIsTruthful` relates four rows and the server. A step of a worker may write what it saw several steps ago, so the inductive invariant says for every phase of a worker what it knows (`WorkerFacts`), for the rows what is true between workers (`RowFacts`), and that as long as no lease ran out under a worker there is one at a time (`OneWorker`).

**Provisioning.** A worker acts on a user it found several steps ago, by a name that others may have changed or by an id that another worker stored. `Ours` says what stays true of such a user: it is on the server of the request, and unless it was renamed it has the wanted name and is younger than the request. `Clear` says what the preflight establishes: no older user has the name. Both survive every step of anybody else, because users keep their server, maker and place and, until they are renamed, their name and password (`Grows`). `WorkersRight` collects, phase by phase, what a worker relies on; `UsersSound`, `PasswordsSound` and `BindingsSound` the same for what is stored. That a second user is never created needs more: while no lease runs out under a living worker, a request has one worker, and one that may still create has found none recorded (`OneWorker`). Where a lease did run out, the older user must have been renamed, as the server refuses a name in use.

**v2: partition libraries.** The policy on Emby is posted whole, as it was read, so a property about the policy of an undisturbed user has to follow every handler from its read to its post. `LibrarySound` says what the tables hold whoever overlaps: a code has one holder (`GrantedOnce`), and each handler has the fields its kind has (`Shapes`). `AllCalm` says of a user nobody disturbed that he has at most one handler, which remembers the policy as it is and changes only what its purpose asks for (`OnTrack`), and that between handlers the policy and the grants agree (`InOrder`). A handler that meets another disturbs the user, so that nothing need be said of him from then on.

**v2: coins and requests.** `BooksRight` joins two invariants, since a download is charged by the one and recorded by the other. In `LedgerRight`, `Slots` says what each operation that has read and not yet written relies on, `Orders` that the entries of an order tell its status, and `Purses` that entries and purses add up. The envelope is kept in memory while several users draw from it: `Envelope` gives every user a share, which is nothing until he draws, such that the shares and the rest are covered by the money set aside, and nobody holds or has read more than his share. `RequestsRight` says that a row a copying job has read is as it was read, or was torn by another.

**Sums.** Balances and envelopes add amounts over finite sets. The prover has no induction that takes a property as a parameter; the lemmas about sums argue by a counterexample of least cardinality instead: were there a set for which the claim fails, take one with the fewest members, remove one, and the claim holds for the rest. What a sum does when one member is added, or when one amount changes, follows, and nothing else about sums is used.

**v2: registration.** What a handler has created is its own only as long as its task is. `Owners` says that a task whose lease never lapsed belongs to the worker that handles it, so that two handlers of one task are two sides of a lapse. What becomes of an account is one case distinction: each step of a handler leaves it where it is, makes one, gives it to the row of its user, takes it back or records it as lost (`HandlerMoves`), and nobody else touches it. For the limit, a submission that has read may still add a user whatever has happened since. `PlacesBounded` therefore counts, besides those placed, the submissions that may still place somebody on a count that was in order when they read (`Hopeful`): both together are at most `UserLimit + crowd - 1 + excess`. When a submission reads, it has found a place free, so that those placed are at most `UserLimit - 1`, and the hopeful are among those open, which are at most `crowd` (`CrowdCounts`); when it commits, it leaves the hopeful as it joins the placed (`PlacesMove`, `HopefulStep`). So the limit is exceeded by as many as ever submitted at once, less one, and no more; not at all as long as submissions follow one another.

**v2: accounts.** Every handler reads a row, asks Emby and writes, without a transaction over the three. Two invariants speak of them. `AccountSound` holds whoever overlaps: every plan has one of the shapes a handler gives it (`Shaped`), rows and handlers name accounts that were made (`Born`), nobody else knows the account of a registration under way (`MakingFresh`), a handler that deletes has been answered before it clears (`Deleted`), and a row bound to a deleted account has such a handler or is astray (`Dangling`). `ClearedOnlyDeleted` needs no more. That levels and credits are right needs the future of a handler: `Calm` says of a user nobody disturbed that one handler at most is at work on the user and the account (`Alone`), that what this handler is still to do leaves row, account and credits in agreement (`OnTrack`), and that without a handler they agree (`InStep`). A step keeps `Calm` for three kinds of users: those it does not concern, whose row, account and handler it leaves alone (`Spared`), the user it is about, and the other user of a move between Telegram ids. The first version of this invariant was not inductive, with good reason: two moves of one row, one to a user who had bound the account in between, disturbed a user the model did not note as disturbed. It takes three users and more handlers than the run has; `Concerned` in `LegacyAccount` now notes everybody such a write meets.

**v2: settings.** `HistoryChains` with types is inductive. The argument is that of `ChainGrows`: an update, from the web or from a panel, compares the revision it has looked at with that of the row, so that its entry continues the one before it, and takes the old value from the row; and the defaults that a process saves when it starts (`Materialize`) only become rows where there is none, hence no history either.

**v2: playback and lines.** That a session has one open row follows from a lock: whoever has read the rows holds the advisory lock (`LockHeld`), so that nobody else has inserted any meanwhile, and a row it read is as it was or has been ended by an administrator (`RowsStand`). `LinesReported` needs that lines under a probe exist (`ProbedExist`); a probe that ends compares with the status of that moment and not with the one it began from, so that of several that fail at once one reports.

**v2: automations.** A cursor passes events by what a worker has read, possibly long ago. `AutomationIInv` therefore says of each evaluation that its list is still right (`Right`): every number between the cursor and the event at hand is read, handled, or was uncommitted when a later one was read. The journal only grows (`Grows`), and a growing journal leaves a list right (`RightKept`). That the list is the oldest ones above the cursor, in order, is `OldestOf`, proved by the least element of a set of numbers.

**v2: monitoring.** `ServicesReported` depends on what a diagnosis read before it: `DiagnosesInformed` says that a service it has read as down was reported before. For alerts, `AttemptsCovered` counts messages sent plus workers that have counted an attempt and not sent their message yet (`Unsent`): together they are no more than the attempts, whatever a slower worker writes over a faster one's record.

**v2: reviews and tickets.** `Counted` splits `CountsAgree` into one statement per review, by the rows of one reader more or less (`ByAdded`, `ByRemoved`); `OneReview` says that a step at one review leaves the others as they were. The creation that looks before it inserts is harmless, because the insert looks again by the unique key.

**v2: logins, keys and plans.** Three invariants side by side. `Sound` says per request what its status tells of decisions and sessions: undecided while it is pending or claimed, decided once and not used while it is approved. Every other status is final, which is why a poll that writes `expired` over it does no harm. `KeyIInv` says that local accounts have the keys from -1 down without a gap, and that a key a handler has computed is the next of them or taken: so of two that computed the same key one is refused. `MemberIInv` says that handlers that assign a plan hold different accounts and that what they read of the membership stands until they write.

**v2: several servers.** `RowsIInv` is about the rows that administrators edit: a transaction that changes a credential has read whether an instance uses it, one that makes an instance use it has read that it is one of Emby, and unless the two were open at once what they read stands (`FormsRight`). `ServedIInv` is about the users: whoever is named by a binding, an account or a job was made, and a user that is still being made is known to one hand alone (`UsersKnown`); every job knows what it has done to the users it names (`Right`). Then a hand that changes a user either makes it or finds a user others know of, and of these each that is about to record what it did is told that it was crossed (`Gently`); under such a step of another hand a job stays right (`RightKept`), and a binding either still agrees or is unsure (`AgreeKept`). The lemmas `…Keeps` say the same of each action. The theorem exempts what the ghosts remember: a user that was left behind in one of the ways section 7 lists, and a binding whose last two changes crossed.

The theorems about the parts composed in `LegacyWeb` and `LegacyPlatform` are stated for the composed specification, in one module each. The parts share no variable: a step of the composition is a step of the part or leaves its variables alone. The theorems about `LegacyLibrary` stand in `LegacyWebProofs`, those about `LegacyLedger` in `WorkerRoundProofs`, those about `LegacyAccounts` in `CommerceProofs`, each about its own specification; those about `Membership` and `RiskAction` are about `MembershipSpec` and `RiskSpec`, of which `Platform` takes one or the other; the modules share lemmas, not states.

Every invariant and every safety property over steps that a passing run checks is stated by one of these theorems. Only model-checked: all liveness (`EventuallySettled`, `BatchSettled`, `EventSettled`, `RuntimeCatchesUp`, `PlaybackCatchesUp`, `EventsArePassed`), which is beyond the prover; and the violations of section 7, counterexamples and no theorems.

## 7 Findings and narrow promises

Two runs end in a violation on purpose. Each checks what a document of the repository says, on the model of the code:

* **`Automation_twice`**, `community.go:660` (code bug). After a failed action executeAutomationEvent upserts the execution as failed, also over a succeeded one that another worker has recorded meanwhile, and the next attempt runs the actions again. v3/README.md:158 says "每个“事件 + 规则”最多成功执行一次"
* **`Registration_oversold`**, `legacy/v2/bot/application/registration_service.py:154` (doc code divergence). src/legacy/v2/docs/web-registration.md:20 says: "`registration_state` 单行互斥记录串行化名额预留，避免多个用户并发提交时超卖注册名额。" (a single-row mutex serialises the reservation of places, so that users who submit at the same time are not oversold). The code takes that lock at registration_service.py:170, but get_task_by_idempotency_key at :154 is the first read of the transaction and at the database's default isolation (the engine of src/legacy/v2/bot/sql_helper/__init__.py:17 sets none, and docker-compose.v2.archived.yml:22 runs MySQL 8.4: REPEATABLE READ) fixes what its plain reads see. The counts at :177-191 are plain reads: a submission that waited for the lock still counts what was there before the other committed. In the trace two users submit for one place, both read first, both count 0 of 1, and both are queued. What does hold is WithinLimit.

Other places where the code and a document of the repository differ, seen while modelling; the passing runs state the condition under which the promise does hold (no lease runs out under a living worker, no two workers overlap):

* `worker.go:1029`: `fail()` rewrites the provision request by task id alone, also when its lease has passed on and the task succeeded, against `v3/README.md:63`.
* `batch.go:430`: a batch that is paused and resumed is taken by a second worker while the first is still in its chunk, so that an item may be applied twice, against `v3/README.md:88`.
* `worker.go:1039`: a risk action that was reviewed as a false positive while it ran is overwritten with failed, against `v3/README.md:144`.
* `emby.go:196`: the capacity of a plan is compared with bindings, not with requests under way, against `v3/README.md:55`.
* `registration_service.py:164`: one user who submits twice at once under different keys, by two taps of the bot or on the web beside the bot, gets two active tasks, against "the active registration task of a Telegram user is unique" (`docs/web-registration.md:21`). The second waits for the lock of his row, but it looks for an active task in a snapshot fixed at :154, before the first committed, and no unique index covers the owner. The second task comes to nothing when it is checked or completed (:362-382, `user_service.py:161-167`), but takes a place until then.
* The resumption of the event stream of v2 by the last id misses events that commit out of their order, against `docs/task-reliability.md:42`.

Narrower promises than one might expect, visible in the conditions of passing properties. In v3:

* `claim()` does not compare `attempts` with `max_attempts`; a task whose worker dies is claimed beyond its maximum.
* `RetryBelowMax` rests on distinct worker ids; `worker-<pid>` is the same for two containers in which the worker has the same process id.
* `EventSettled`: an automation event whose worker dies in the last attempt stays `running` for ever, because the claim asks for `attempts < max_attempts` of a running event too.
* `CodesAccounted`: two assignments to one account that overlap may lose the days of one, since the `SELECT … FOR UPDATE` that waited finds no current row afterwards.
* `UserIsSound` makes exceptions for users that somebody renames by hand. One that is renamed between its creation and the record of it is not found again, and the retry creates a second one. If a lease runs out under a living worker, that worker may also create a second user, and record it, after the first one, adopted meanwhile, was renamed; the password of a request that has succeeded is then that of the other user. The second needs two acts of outsiders, one more than the run allows; it came up in the proof, whose theorem covers it.

In v2, several properties leave out by a ghost those whom an overlap has hit, because the code does harm them and does not mend it. What such a property shows is that the harm stays with them:

* `loose` (`RowsMatchServer`, `BalancesAddUp`, `OtherSettingsKept`, `AccessMatchesGrants`): a user two of whose handlers overlapped, or whose call went unanswered. A ban may be undone by a policy posted as it was read before it, a renewal during the sweep loses its access, a redemption that lost its reservation leaves the libraries shown.
* `stale` and `demoted` (`CoinsAddUp`, `WhitelistKept`): a user whose coins or level were written from an older read, by the ranking or the revival; what was paid, received or bought in between is gone.
* `torn` (`CompletedIsFull`): a request that changed between the job's read and its write; it may be completed short of all of it.
* `RecordedMeansCharged` is about the order of the transactions only. A bot that stops after MoviePilot took a download leaves it uncharged, and one that stops after the charge leaves it unrecorded.
* `ServicesReported` counts events from the first on. Two diagnoses at once may leave a later outage of the same service without one, and may trigger a rule twice.
* `WithinLimit` excuses no stale count: it says how far concurrent submissions exceed the limit, by one less than there ever were of them at once; see the run `Registration_oversold`. Outside the bound are the places an administrator's retry takes without a count, and those of handlers whose task was given up (`excess`).

Others:


* `AccessIsExclusive`: the default plan may be disabled, and two plans may both be the default after two edits; an extension makes a suspended membership active again (`account_service.py:361`).
* `CommunityAgrees`: a review that is edited while it waits is published with its new text.
* `RuntimeCatchesUp`: a panel's change of a limit to 0 is undone by the periodic copy within 15 seconds.
* `OneOpenPlay`: an item without an id ends and restarts its row at every synchronisation; two updates of one device at once may leave a banned device "normal" (`core_operations_service.py:403`).
* `LinesReported`: the result of a probe of the old address is written to the line after its address was changed.
* `InstancesSound`: an account whose binding was cleared cannot be bound again on that instance (`uq_binding_account_instance`), and every attempt leaves a user behind; a repeated clearing meets 404 and never ends; a lost reply to a creation leaves a user; `_rollback_remote_account` ignores whether the deletion worked; users of another instance may be adopted; a credential may be changed while an instance chooses it; two changes of status may cross.
* `EventsHandled`: an event that commits after one with a greater number was read is skipped for ever; rules that share an action id share its idempotency key (`platform_service.py:914`), a run reserved by a worker that stopped is never acted on, and a rule deleted while it runs raises (`:905`). A new rule runs over the whole history, and one for `task.*` triggers itself.
* `EventsArePassed`: a rule whose interval is no number stops all automations (`platform_service.py:856`).

## 8 What is not modelled

* Of v3: identity, media, notifications, entitlements, reconciliation and import are open (section 2). The hazards of theirs that call for a model are in `PROJECT.json`, each with its line; besides, `access_lines.go:219` (a revoked entitlement that is granted again keeps its sync key), `worker.go:285` (policy and record of a sync), `importer.go:850` (a repeated import of a changed balance), `governance.go:156` (the last two owners), `accounts.go:99` (a session opened across a suspension), `telegrambot/bot.go:109` and `batch.go:593` (a message sent and not recorded), `worker.go:969`, `:934` and `:545` (a request against its download, and a late listing).
* Tickets, reviews, rules and settings of v3 are single rows whose revision is compared under the row lock.
* API routing and authorisation, bot commands, realtime relay, health, configuration, logging, front ends and scripts keep no business state. Migrations hold one session lock over their whole loop. Cryptography is out of scope.
* Of v2: panels, commands that render, statistics, plug-ins, roles and the audit log. Roles are rows that are read at every request; the audit log is only appended to. The mail and push formats are wording.
* Inside the modelled parts of v3: the backoff times, the contents of payloads, audit rows and messages; several currencies and payment providers; disabled and deleted remote users and the claim token's lifetime in `Provision`; editing of rules while an event is open in `Automation`; expiry of a code by the clock in `Membership` (it is a roll back there).
* Inside the modelled parts of v2: accounts without Telegram (`emby2`), passwords, names and texts, amounts beyond a few coins, the cooldown of a rule by the clock, whole-table statistics, batches of lifecycle actions (each is one job of `LegacyAccount`), probes of instances.
* The composed modules do not interleave their parts. That is sound for the properties they state, each of which reads the variables of one part.
