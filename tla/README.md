# Verification of the TikTok listener platform

This directory holds TLA+ models of the program in `src/`: a FastAPI backend, a pool of
TikTok listener workers, an e-mail notification consumer, billing, support and
administration services, a React frontend and an Electron client. The models are
translated from the source (paths below are relative to `src/backend/` unless they
start with `frontend` or `client`), checked with TLC on small instances, and proved
about with TLAPS.

| Module | What it is |
| --- | --- |
| `ListenerPool` | the listener workers, their rows and leases, and everything that races with them |
| `LiveSession` | one session's supervisor, its errors and backoffs, and the timers that free its slot |
| `MatchTracker` | a room's events on the executor's threads, its battles, inserts and notifications |
| `HostTally` | the transaction that persists an event, the totals beside it, the cached counters |
| `StateStream` | a host's state from the cache over a WebSocket to a page |
| `NotificationQueue` | the e-mail queue: API handlers, Redis lists, consumers, promoters, SMTP |
| `Delivery` | what the queue promises; `NotificationQueue` implements it |
| `DbRetry` | the retry layer under every persistence adapter |
| `PaymentLedger` | captures, webhooks and decisions that complete payments, credits and invoices |
| `TokenRefresh` | the browser's tokens: interceptor, timer, dialog, and the server's rotation |
| `AccountAccess` | logins, cached authentication contexts, password changes and resets |
| `SupportDesk` | a ticket, a live chat, and the mailbox poller |
| `SignIn` | registration, verification, sign-in with a provider, linking and unlinking, cleanup |
| `ConfigStore` | overridden settings, the cache of each process, snapshots and rollbacks |
| `*MC` | instances for TLC; `TiktokMC`, `PlatformMC` and `ServicesMC` run several components |
| `ListenerPoolProofs`, `NotificationQueueProofs`, `HostTallyProofs`, `ConfigStoreProofs` | theorems of one component |
| `TiktokProofs` | theorems of `LiveSession`, `StateStream`, `MatchTracker` and of the suite `TiktokMC` |
| `PlatformProofs` | theorems of `DbRetry`, `PaymentLedger`, `TokenRefresh` and of the suite `PlatformMC` |
| `AccountProofs` | theorems of `AccountAccess` and `SignIn` |
| `ServicesProofs` | theorems of `SupportDesk` and of the suite `ServicesMC` |

`PROJECT.json` maps every definition to the lines it models and lists the runs, the
mutants, the findings, the hazards and the theorems. To repeat a run:
`tlc -workers 2 -config pool_exclusive.cfg ListenerPoolMC` (the module of each run is in
`PROJECT.json`); to repeat the proofs of a module: `tlapm ListenerPoolProofs.tla`.

## 1. Inventory

### Parts, their state and how they interact

**Listener pool** (`domain/services/tiktok_service.py`, `cli/commands/system/tiktok.py`,
`adapters/persistence/tiktok_persistence.py`, `routes/admin/tiktok.py`). Each worker
process keeps `_sessions`, `_paused`, `_stop_requested`, `_worker_id` and the recycling
timers in memory. It shares two tables with its siblings and the API: `tiktok_workers`
(status, desired status, command, heartbeat) and `tiktok_subscriptions` (enabled,
is_live, assigned worker, lease). Operations: register, heartbeat, reap, reconcile
(extend, drop, release, recycle, resume, claim), orders (pause, resume, kill), shutdown.
No process talks to another one: everything is a transaction on those tables, and the
event loop of a process switches between its loops at every await.
*Correct when:* a creator is ingested by one worker at a time; a worker stays within its
capacity; a live creator is always ingested by somebody while a worker has room; orders
are obeyed; a dead worker's creators are taken over.

**Live session** (`adapters/tiktok_live_client.py`). One WebSocket per creator, with a
connect, retry, wait-until-live and error state machine; it notifies the service, which
stamps the timers that recycling reads. *Correct when:* a session always ends in a
reconnect or a stop, and the release timers measure a continuous condition.

**Match lifecycle and event persistence** (`tiktok_service.py`, `tiktok_persistence.py`).
Events of a session are handed from the WebSocket's loop to threads, inserted with
`ON CONFLICT DO NOTHING`, aggregated, and open, update and close match rows.
*Correct when:* replays change nothing, a battle has one row that closes once, and late
events do not reopen it.

**State cache, delta stream, event bus** (`adapters/tiktok_state_cache_*.py`,
`tiktok_state_ticker.py`, `tiktok_event_bus.py`). Versioned state per creator under a
lock, deltas published outside it to bounded queues. *Correct when:* a subscriber that
applies what it gets, and resynchronises when told, ends with the cached state.

**Notification queue** (`adapters/hooks/email_handler.py`,
`adapters/notification_queue/redis_queue.py`, `ports/notification_queue/consumer.py`,
`adapters/notification_delivery/email.py`, `utils/redis_client.py`). Handlers in the API's
thread pool submit coroutines to its loop; they push to a Redis list. Consumer processes
pop, check the rate, take a slot of a semaphore and deliver in threads; failures go to a
retry set or to a dead-letter list, and a promoter in every consumer moves due retries
back. *Correct when:* a notification is delivered once, is tried a bounded number of
times, ends delivered or dead-lettered, and a consumer stops when asked.

**Payments, credits, invoices** (`domain/services/payment_service.py`,
`credit_service.py`, `adapters/persistence/billing_persistence.py`). A synchronous capture
races the gateway's webhook; completing a transaction, adding credits and writing the
invoice are separate transactions. *Correct when:* a payment is credited exactly once and
a balance never goes below zero.

**Accounts and access** (authentication, OAuth, RBAC, rate limits, guest limits).
Single-use tokens with expiry, refresh and revocation; counters in Redis or in memory.

**Support** (tickets, live chat, IMAP poller). Status transitions, inbound e-mail
threading, conversion of a chat to a ticket.

**Infrastructure** (hooks, event log, configuration and snapshots, database session and
retry, Euler call sink, offset gap tracker, Redis client). Bounded buffers, caches and
retries used by all the others.

**Clients** (React frontend, Electron bridge). Views of the API; a delta-stream client
and a token refresh hold the only protocol state.

`PROJECT.json` lists all 29 components with their sources and their status.

### What is hard here

* *Interleaving and staleness in the pool*: the reaper, the registration and the
  extension of leases read first and write later without row locks; the pass keeps what
  it read (`still_mine`, the lost handles) across awaits and sleeps; a claim may run
  while a sibling extends or an API request disables.
* *Crash and restart*: a process dies with assignments and comes back under its key
  before or after the reaper; a consumer dies with messages it has popped.
* *Late actors*: a heartbeat that commits after the shutdown or after the reaper; an
  enqueue that completes after its caller has given up.
* *Partial failure*: calls inside `try` blocks that go on without the answer.
* *Liveness*: takeover needs the reaper, the lease and the claim to line up; delivery
  needs the semaphore, the rate window and the promoter; a loop that never suspends
  stops a whole process.

The hazards in `PROJECT.json` give the line where each one bites and the property that
would notice, or say why no property does yet.

## 2. Plan

| Step | Modules | Abstract specification, runs, theorems | State |
| --- | --- | --- | --- |
| 1 | `ListenerPool` | five runs; five theorems, `ExclusiveIngestCorrect` first | done |
| 2 | `NotificationQueue`, `Delivery` | three runs; four theorems, the refinement `DeliversOnceCorrect` first | done |
| 3 | `LiveSession`, `MatchTracker`, `StateStream` | suite `tiktok`; seven theorems | done |
| 4 | `HostTally`, `SupportDesk`, `SignIn`, `AccountAccess`, `ConfigStore` | suite `services`; seventeen theorems | done |
| 5 | `DbRetry`, `PaymentLedger`, `TokenRefresh` | suite `platform`; nine theorems | done |
| 6 | a lease service refined by `ListenerPool` with punctual workers | at most one holder of a handle, taken only when free or expired | next |
| 7 | the creation of payments and the credit balance; guest limits and rate limits; the Euler call sink and the offset tracker | small modules in the suites, and pure operators checked against a reference | last |

Each run asks one question of one component, or, in the suites, of several components
that are too small for runs of their own. Modules that are proved about declare no
`RECURSIVE` operator and name their assumptions.

## 3. ListenerPool

### State and actions against the code

| Variable | In the code |
| --- | --- |
| `row[k]` | the row of `tiktok_workers` with worker key `k`: `status`, `desired_status`, `command`, and the age of `last_heartbeat_at` (it saturates at `StaleAfter + 1`, where no comparison tells more) |
| `sub[h]` | the row of `tiktok_subscriptions` of creator `h`: whether it exists and is enabled, `is_live`, `assigned_worker_id`, and what is left of `assignment_lease_until` |
| `proc[p]` | the memory of process `p`: where its main coroutine stands (`pc`), `_paused`, `_stop_requested`, `_sessions`, which of them are CONNECTED, `still_mine`, what the current loop has left to do (`todo`), the reaper's selection, and a heartbeat that waits in the executor |
| `apiVictims` | the rows that the status endpoint's own reaper has selected |

Actions follow the code in order: `Boot`, `ReapSelect` and `ReapCommit`
(`reap_stale_workers`), `Register*` (`upsert_worker`), `ExtendSelect` and `ExtendUpdate`
(`extend_my_leases`, an UPDATE that evaluates its WHERE again), `DropLost` (step 1 of
`reconcile_assignments`), `View` and `ReleaseDisabled` (step 2), `Recycle` (step 2.5),
`StartSession` (steps 2b and 3), `ClaimMore` (step 3), `EndPass`, and `Orders*`,
`PauseStop`, `ReclaimAll`, `KillCommand` (`check_db_orders`). `HeartbeatBegin` and
`HeartbeatCommit` are two steps because the write runs in a thread that the shutdown
does not wait for. `ReapFails`, `OrdersFail`, `ExtendFails`, `ReleaseFails`, `ClaimFails`
are the guarded calls that raise and are swallowed; `PassFails` is one that is not.

Time is relative: `Tick` ages heartbeats and shortens leases by one. With `Prompt = FALSE`
it may fall between any two steps, so a heartbeat, a pass or a transaction may be late by
any amount. With `Prompt = TRUE` it never passes the deadline of a live worker: this is the
assumption that a loop of 10 s keeps within 30 s and 60 s, and runs that need it say so.

Two stops are shorter than in the code. `Shutdown` closes all sessions in one step: `stop_all`
waits 8 s for them, then abandons those that hang, and their tasks end with the process a
moment later; and a `mark_worker_stopped` that raises is a crash between `Shutdown` and
`MarkStopped` for the tables. `GiveUp` is the pop of a session, the awaited stop of its client and
the release of its row in one step. In between the row stays assigned to this process, so that
no sibling claims it, and a resume order of the moment opens only what it claims.

`Env` names the outside events that an instance allows: crashes, restarts, SIGTERM, failing
database calls, probe results, WebSocket changes, the API's reaper, enabling, disabling
and deleting subscriptions, an administrator's release, and the orders.

### Runs

| Run | Instance | What it shows |
| --- | --- | --- |
| `pool_exclusive` | two prompt workers of capacity 1, two creators, crashes, SIGTERM, probes, WebSocket changes | `ExclusiveIngest`: no creator is ingested twice; `ConnectedHandleKept`: no step takes the handle of a connected session; `CapacityRespected`: neither sessions nor assignments exceed the capacity, although the claim counts only sessions |
| `pool_samekey` | two prompt processes with one worker key, failing calls, SIGTERM, probes, the API's reaper, reconnects asked for by an administrator | `TypeOK`; `OneProcessPerKey`: the registration lets one of them serve |
| `pool_heal` | two late workers, an administrator's release | `OrphanHeals`: a session whose assignment is gone stops or gets it back |
| `pool_failover` | two late workers that may crash | `Failover`: an enabled live creator is ingested again if one worker keeps serving |
| `pool_orders` | one late worker, restarts, every order and subscription change | `KillHonoured`: a kill ends the process |

`pool_exclusive` has neither restarts nor failing calls: for `CapacityRespected` restarts are
in the theorem, which holds for any `Env` without what `Undisturbed` excludes, and a release
that fails breaks it (`v_release_fails`). `pool_failover` has no restarts either: a worker that
dies again and again between its claim and its session keeps a creator for ever.

Bounds. Two workers are enough for every race of the code: each is between a process and
one reaper, one claimer or one registrant. Capacity 1 with two creators makes a full
worker, a free one and a contested creator happen; one creator is enough where the
property is about a single handle. `LeaseTTL` is 1 or 2 ticks and `StaleAfter` 0 or 1, so
that a lease can be full, half spent or expired while the heartbeat is fresh, late or
stale, in every combination. The liveness runs have one creator and the smallest clocks,
and check one property at a time, because the tableau multiplies the state space.

Fairness (`FairSpec`): the loops of a live process go on, a heartbeat in the executor
ends, a stop that was asked for is carried out once the pass reaches an await (strong
fairness: the await comes again with every pass), the API's reaper commits, and time
passes. Nothing is assumed of crashes, restarts, probes or administrators. The code
justifies it: the loops have no exit but the stop, and all waits have timeouts.

### Where the code and its documentation part

These configurations reproduce the divergences that `PROJECT.json` quotes. They are not among
its runs, which answer the questions asked of every component; each is run by hand like
the others, with `ListenerPoolMC`, and ends with a counterexample: `v_pause` (the pass after
a pause resumes what it stopped), `v_pause_restart` (a pause does not survive a restart),
`v_stopped` (a late heartbeat overwrites "stopped"), `v_disabled` (a disabled handle is never
released), `v_capacity`, `v_resume_capacity` and `v_release_fails` (enabling again, resuming,
or a failed release exceeds the capacity), `v_samekey` and `v_samekey_capacity` (two
processes under one key once a process is late or restarted), `v_lease` and `v_reap` (the
reaper takes leases in force and fresh rows).

### Proofs

`TypeCorrect`: `Spec => []TypeOK` for every instance that satisfies `PoolAssumption`, by
one lemma per group of actions.

`CapacityCorrect`: under `Undisturbed`, `Spec => []CapacityRespected`, for any number of
workers and creators, any capacity, any timing, and with crashes, restarts, reaping,
releases and recycling. `CapacityRespected` is not inductive: the claim that ends a pass
compares the capacity with the number of *sessions*, so nothing in its guard bounds the
assignments. `CapacityInv` adds what each phase of the pass knows: after the extension
every assignment is in `still_mine` (`bump` to `resume`), once the lost handles are dropped
every session is in it too (`trim`, `resume`), what the resume step has left together with
the sessions covers it (`resume`), and what was claimed fits beside the sessions (`start`).
It needs `OwnedEnabled` (an assigned row is enabled), because the extension sees enabled
rows only. `Undisturbed` is the boundary of the theorem: a key belongs to one
process, nobody disables or resumes, and no database call of a pass fails. Without any of
the four the property is false: `v_samekey_capacity`, `v_capacity`, `v_resume_capacity`,
`v_release_fails` (a release that fails leaves the assignment, and the claim that follows
counts the session that has stopped as free).

`ExclusiveIngestCorrect`: under `Punctual`, `Spec => []ExclusiveIngest`, for any number of
workers and creators, any capacity, lease and staleness, with crashes, SIGTERM, failing calls,
orders, probes, the API's reaper, and administrators who disable and delete. The property says
that two sessions of a creator never exist; nothing in a session's state says why.
`ExclusiveInv` gives the reason. What a process wants (`Wants`: its sessions, `still_mine`, and
the handles it is about to open) and what any other one wants are apart (`Apart`). A process
that has registered and has not gone down holds every enabled creator it wants in the table
(`AllWhole`), so another would need that assignment, and there are two ways to it. The reaper
releases what stale rows hold; `Unreaped`: the row of a running process is fresh and in nobody's
selection, although selections are kept while time passes, because what is selected belongs to
a process that runs no more. A sibling claims what has an expired lease; `Unexpired`: no lease
of an enabled creator of a running process is at zero, which the order of a pass (the
extension comes first) and `Prompt` give. A creator that was disabled or deleted has lost its
assignment or will lose the lease, while the session runs until the next pass; but nobody may
claim it any more, so it stays apart. `Blank` says that a row that was never inserted holds
nothing, so that a registration starts from nothing. Each conjunct needs the others, and only
`Apart` implies the property.

`ConnectedHandleKeptCorrect` is a property of steps and follows from the same invariant and
`AllOn` (while nobody disables or deletes, all creators are enabled, and a connected session's
handle is its worker's in the table): of all the writes to `assigned_worker_id`, those by others
are excluded by `Unreaped` and `Unexpired`, and those of the process itself happen after its
session is closed.

`Punctual` excludes restarts, releases, and enabling again what was disabled; each of the three
breaks the property on the instance of `pool_exclusive`. A process that comes back under its
key is released by a reaper that selected the row before its return (`v_reap`); a released
creator is claimed while its session still runs until the next pass; and a creator that is
disabled and enabled again between two passes may have an expired lease, since the lease of a
disabled one is not extended, and be claimed beside the session. With failing calls,
disabling and deleting TLC finds no violation, and the theorem has none of them as a hypothesis.

`OneProcessPerKeyCorrect`: under `Paired`, of two prompt processes started with one key the
registration lets one serve. `AloneInv` follows the pair: once their row exists and neither is
down, one runs and the other is still starting, and the row is running or paused, fresh and in
no reaper's selection (`Guarded`), so that the one that starts finds it taken. A third process breaks it: two of them read a row that is stopped, and the UPDATE
with which they take over refuses neither.

### Not modelled

A break of the connection at the commit of a pool transaction that the retry layer then
reports as done (section 5, `DbRetry`): an answered claim, extension, release or registration is
taken as made. One that fails is an action (`ClaimFails`, `ExtendFails`, `ReleaseFails`,
`ReapFails`, `PassFails`), and so is one whose answer is false only later, because the reaper
or an administrator has taken the assignment. The
in-process listener mode (one process, no leases), SIGUSR1 and SIGUSR2 (the same
`pause_all` and `resume_all`), the command `release_handle` (no route issues it), step 4 of
the pass (its only writer returns early in worker mode, see `EndPass`), databases without
row locks, and which claimable rows come first. The timers of recycling are left open here
(`Recycle` may fire whenever the session is not CONNECTED); `LiveSession` decides them.

## 4. NotificationQueue and Delivery

### State and actions against the code

| Variable | In the code |
| --- | --- |
| `pending`, `retry`, `dlq` | the Redis keys `nq:pending:email`, `nq:retry` (a sorted set: an identical item is kept once) and `nq:dlq:email` |
| `api` | the API process: `_redis_available`, where the handler of each notification stands, and the enqueue coroutines that its loop has still to run |
| `con[c]` | a consumer process: where `run()` stands, a SIGTERM it has received, `_running`, `_redis_available`, the message of the main loop, `_tasks`, and the promoter's batch and item in flight |
| `mail`, `tries` | history: how often SMTP took a notification, and how often consumers tried it |

A command of Redis is one action with the local work around it. `Command` gives each one
its outcomes: skipped or failed (the flag goes down), done, done with the answer
lost. `redis_client.py` asks the client to send a command again whose answer is late
(`retry_on_timeout`), although Redis may have executed it: the actions `...Again` are the commands
executed twice. An RPUSH leaves two copies, a BLPOP drops the first message and answers with
the next, a ZREM removes the item and answers 0, a ZADD changes nothing. `resent` counts
them per notification, `MaxResends` bounds the count; of the two executions the first one takes
effect before the second one's answer. `pc = "loop"` is the point between two iterations where the code does not suspend:
no other task of that process runs there, and `Loop` decides what comes next. Without
Redis it is `"spin"`: `dequeue` returns None without suspending, so the loop never yields
again, and only executor threads (`Send`) and SIGKILL act on the process any more.
`CancelPromoter` leaves open whether the command that the promoter waited for was executed.
`StopWaiting` and `Exit` are the end of `asyncio.run`, which cancels the tasks and joins
the threads.

### Runs

| Run | Instance | What it shows |
| --- | --- | --- |
| `queue_once` | two consumers, two notifications, failing commands, crashes, restarts, SIGTERM of either side | `TypeOK`; `DeliversOnce`: the queue implements `Delivery` |
| `queue_faults` | two consumers, one notification, two attempts, two slots; commands that fail, are late, lose their answer or are executed twice, SMTP failures and lost answers, rate limits, crashes, restarts | `AttemptsRespected`: at most `max_attempts` tries for each time the notification was put in, the repetitions of the client included; `OnlyHolderLoses`: a notification vanishes only with a consumer that holds it or pops it and dies, stops or loses Redis, or with a BLPOP or ZREM executed twice |
| `queue_live` | one consumer with two slots, two notifications, rate limits, SMTP failures, SIGTERM, the drain's timeout | `Settles`: delivered or dead-lettered if no consumer is stopped; `SigtermStops` |

`Delivery` is the promise without the protocol: a notification is new, held, and then comes
to one end (sent, dead-lettered, failed in the handler, or lost with a process), and SMTP
takes it on the edge from held to sent and at no other time. The refinement mapping
`Life` reads the place of a notification from all the copies of it: it is held while a
handler, the pending list, the retry set or a consumer that would still deliver it has one.
So a second delivery, a delivery after the dead letter, and a dead letter after a delivery
are all steps that `Delivery` does not have.

`v_queue_fallback.cfg` and `v_queue_sigterm.cfg` reproduce two divergences: a handler that has
timed out sends the mail itself while its enqueue still happens (`FallbackNotQueued`), and a
consumer without Redis spins and never stops (`SigtermStops` with failing commands).

`DeliversOnce` is checked where no answer is late or lost: `"slow"`, `"reply"` and `"ack"` each
break it, the first by the divergence above, the others because a sender cannot tell a
lost answer from a failure; and where `MaxResends` is 0, since a second copy is a second
delivery. `AttemptsRespected` and `OnlyHolderLoses` are checked with all of these; SIGTERM, the
drain's timeout and a dying API process are left to `queue_once`, `queue_live` and the theorems.

Bounds. Two consumers give two promoters and two poppers, which is what the atomic commands
have to separate. Two notifications make a batch of two retries and a full semaphore
possible; two attempts are a first and a last one. One command executed twice
(`MaxResends` = 1) gives two copies, each on its way to a different consumer. The liveness
run has one consumer: a second one only adds helpers, and the number of fairness
conditions makes the tableau too large.

Fairness: an event loop serves every ready callback whenever the main loop suspends
(strong fairness, as the main loop is between suspensions again and again), threads end
(SMTP has a timeout of 30 s), commands answer, each retry that stays in the set is
eventually read, and the rate window does not stay full for ever. Nothing is assumed of
crashes, signals, restarts or failures.

Not modelled: `dry_run`, other channels (without an adapter no consumer reads them), metrics,
`retry_dlq_items` (no caller), a message that cannot be parsed (it ends like a popped message
whose answer was lost), the contents of the rate window, the lengths of the delays (which
retries are due is left open), and a command whose first execution comes after its
repetition was answered.

### Proofs

For any number of consumers, notifications, slots and attempts, `QueueTypeCorrect`,
`AttemptsOfOneCopyCorrect` and `OnlyHolderLosesCorrect` have no hypothesis beside
`QueueAssumption`: they hold with every fault, lost answers and commands executed twice
included. `AttemptsOfOneCopy` is the case `resent = 0` of `AttemptsRespected`: a notification of
which no command was executed twice is tried at most `max_attempts` times. The general bound,
`max_attempts` more for each repetition, is checked by TLC only: its proof has to count copies.

`AttemptsOfOneCopy` counts calls of SMTP, while the code carries a number in each message and
checks that number only when a delivery has failed. `AttemptInv` connects the two: such a
notification has at most one copy, in one place of the system at a time (`OneCopy`,
`OnePlace`), since a lost answer loses a copy and never doubles one; a notification that was not
enqueued has none (`Unentered`); and the number in the copy is beyond the calls so far, by one
in a task that has not called yet (`Counted`). Promotion is where this is delicate: the
promoter removes an item and then pushes it, and two promoters read the same batch; ZREM's
answer is what makes one of them the owner.

`DeliversOnceCorrect` is the refinement of `Delivery`. Its invariant is `AttemptInv` with
`Calm`: the handler knows how its enqueue ended (`Answered`), a dead letter is in no other
place, and what SMTP has taken is at most in the task that knows it (`Known`). In a calm
state the refinement mapping `Life` is a function of three facts about a notification
(`View`), so that each action maps to one step of `Delivery` for the notification it moves, and
to a stutter for all others. The hypothesis `Prompt` excludes exactly the late enqueue, the
lost answer of Redis, the command executed twice and the lost answer of SMTP, each of which
breaks it.

`OnlyHolderLosesCorrect` speaks of single steps under all faults. `HolderInv` says what a consumer
has in hand at each point (`Orderly`), that no coroutine of a notification is left once its
handler believes it queued, and that a task that ended well was mailed; an action then keeps a copy, ends the notification, or is one of the ends of a
consumer that the property names.

## 5. The suites

The remaining components are small and do not interact in the properties checked of them.
A suite runs several of them: the variable `part` chooses one at the beginning, the others
keep their initial state. Every behaviour of a suite is a behaviour of one component
beside constants, and every behaviour of a component is one of the suite, so a property
that mentions one component's variables holds of the suite if and only if it holds of that
component. The fairness conditions are those of the component, guarded by `part`: what a
component that does not run may not do needs no fairness. Each component also has a
specification of its own (`LiveSpec`, `StreamSpec`, ...) and its actions all fire under the
suite's constants.

| Run | Components |
| --- | --- |
| `tiktok` (`TiktokMC`) | `LiveSession`, `StateStream`, `MatchTracker` |
| `platform` (`PlatformMC`) | `DbRetry`, `PaymentLedger`, `TokenRefresh` |
| `services` (`ServicesMC`) | `AccountAccess`, `SupportDesk`, `HostTally`, `SignIn`, `ConfigStore` |
| `v_double_credit` (`PaymentLedgerMC`) | `PaymentLedger`, a refuted claim |

`ServicesMC` has a part for the ticket and its mailbox and one for the chat: `SupportDesk` has
both, and they share the API processes and no row.

Most adapters write through `RetrySession` and `_execute_with_retry`, and `DbRetry` shows
what these do when the connection breaks late: the retry commits a session that is empty, and
the caller is told that its write is there. Wherever that matters a module has the broken
write as an action beside the one that dies: `Made` and `lost` in `PaymentLedger`, `InsertLost` in
`MatchTracker`, `WriteLost`, `TicketLost` and `MailLost` in `SupportDesk`, the harm `"break"` in
`HostTally`. `ConfigStore`, `SignIn` and `AccountAccess` write through plain sessions, which
commit or raise.

The sections below name the *refuted* properties of each module: sentences of the code or
its comments, stated as formulas that TLC finds false. To see a counterexample, put the
formula in the place of the properties of the suite's configuration. `PROJECT.json` quotes
the sentence under `findings`.

### LiveSession

`sup` is the local state of `_run_forever` (`adapters/tiktok_live_client.py`): connecting,
connected, sleeping or waiting until the creator is live, with its backoff, the cap that the
doubling after this sleep uses, and the count of age-restricted failures. `state` is what
the service's callback last heard, `timer` the ages of `_local_offline_since`,
`_probe_unknown_since` and `_offline_observed_at`, `probe` the row's `is_live` and the age of
`live_checked_at`. `Pass` is step 2.5 of the reconcile pass for this handle (`Recycle`, in the
order of the code), `ClaimHandle`, `Drop`, `PauseAll` and `ResumeAll` the pool around it.

`SlotFreed`: if the session is not connected and the probe does not find the creator live
from some time on, the slot is given back, whatever errors, unknown answers and retries
occur. `HysteresisRespected`: recycling takes a slot only from a session that has not been
connected for the hysteresis, less the age an answer may have. Refuted:
`StageOneContinuous` (the stamp survives a drop and a new claim), `StageOneFires` (every
retry reports CONNECTING, which starts the stage's clock again), `BackoffBounded` (an
ordinary error sleeps the backoff a sign limit has left).

Bounds. The constants keep the order of the real ones (backoffs shorter than the stages,
stage 1 before the unknown release) on a scale of 1 to 5 ticks. Fairness (`LiveFairness`):
handshakes and sleeps end, passes run, time passes, and the scraper comes back to a target
again and again (strong, since each tick is over once a pass has run).

`HysteresisCorrect` proves the property for all constants with `LocalRelease + Freshness >=
Hysteresis`; the defaults of the code are 600 s and 180 s against 300 s. The pass compares
stamps, the property speaks of the time since the session was last connected, and nothing resets
the stamps at the same moments. `QuietInv` relates them while the slate is clean (`~murky`: the
probe answered at every pass, and the slot was neither dropped nor paused in between): no stamp
is older than the silence of the session, except by the age that the first answer had. The
assumption `Doublings` (a power of two is at least one) is arithmetic that the provers do not
know and TLC evaluates.

### StateStream

`version`, `loud` and `unsent` are the in-process cache of one host, which versions have
something to publish, and those applied but not yet published (`apply_patch` publishes after
it releases the lock); `feed` and `dropped` the subscriber's queue, `pump` the task
`state_delta_pump` of the admin WebSocket, `wire` and `asked` the socket's two directions,
`view` and `page` what the hook `useTikTokLivesSocket` holds and shows.

`NothingSkipped`: once the page has had a snapshot, every published patch up to the version
it shows is in its view, under way, or behind a snapshot it waits for, though publications
overtake each other. `CatchesUp`: with a socket that lasts the page ends with everything.
Refuted: `Mirrors` (a delta of a host
the page does not know is taken without a snapshot), `DroppedReconnects` (the pump logs the
exception and the socket stays open without it). Bounds: four versions, two writers between
the halves of `apply_patch`, queues of two: enough for a full queue behind a full socket with
a gap on the way. Fairness: every task and the page go on; nothing is assumed of closings.

`NothingSkippedCorrect` proves the first for any number of versions and any size of queue.
`StreamInv` says what each stage may carry and, in `Dominates`, that a snapshot contains all that
reached the page before it: hence the deltas which the hook keeps while it waits are always
superseded when the snapshot arrives, and its code that drains them never applies one. That no
gap opens silently is then shown stage by stage: a version that was published is at the page, in
the socket, in the pump or in the queue, or a full queue has dropped it and the page will see
the hole in the numbers, ask, and get a snapshot.

### MatchTracker

`backlog` and `job` are the queue and the threads of `_event_executor`, `active` is
`_active_match`, `rows` are the rows of `tiktok_matches`, `stored` and `notes` those of
`tiktok_events` and of the notifications. A thread's steps are one access to `_active_match`
or one transaction; `update_match` reads and writes in two. `Loop` is the event loop, which
stops sessions. `Silence` lets ten minutes pass, `CloseOrphans` is the maintenance task. A
transaction may fail (`TransactionFails`), before or after its commit, or be reported without
having been made (`InsertLost`, which `unstored` remembers).

`OpenIsActive`: while a room's events were handled one at a time and nothing failed, the open
match is the active one. Of threads that race it says nothing, since they do leave a match open:
`MatchesEnd` is the property for them. `StoredOnce`: replays, crashes and racing threads store an
event at most once, and notify it at most once and only if it is stored; an insert that was
reported and is not there is notified, and again when the event is replayed. `MatchesEnd`: every match is closed in the end. Refuted:
`EndClosesItsOwn`, `ScoreKept`. Three rooms are checked: overlapping battles, a live that ends
inside a battle, a gift during a battle with an update that names no battle; two threads, one
replay, one fault.

Both are proved, for any feed. `OnceInv`: of all the threads that have an event, replayed or not, at
most one has its notification still to make, and only after the insert that found no row; of an
event in `unstored` the row alone is spoken of.
`AloneInv`: while events are handled one at a time, what may be open in the table is known at
each step of the thread: the active match, the match it is about to close, or the one it has
just opened and not yet remembered.

### HostTally

`work` is what each thread of the executor does inside `persist_event_full`: the statements in
order, with the row locks its transaction holds and what it will write; `events`, `summary`,
`counts` and `diamonds` are the tables (as multisets of the events counted in them), `live` the
cached counters, `profile` the host's resolved user id, in the row and in the adapter.
Harms are a failing statement, a breaking connection (the statement is executed in the
session that `RetrySession` leaves behind), a crash, and a profile probe here or elsewhere.

`TalliesAgree`: the totals agree with the events whatever is replayed, fails or dies, while
connections last. `NoPatchLost`: the counters are read and patched without a lock of their
own, and yet no patch is lost within an hour. Both are proved. `TotalsInv` says what each
transaction holds at each statement. `PatchInv` gives the reason of the second: the
transaction holds the row of the hour in `tiktok_event_hour_counts` from before the read
until its commit, so the lock of one table protects another store. Two threads of different
hours have no such row in common, which is why `PatchesAddUp` is refuted. Also refuted:
`TotalsAgree` (a broken connection splits the transaction), `PatchedIsStored`, `FreshProfile`,
`InLockStep`. Bounds: three events (a gift to the host, one to a guest, a connection), two
threads, two hours, two deliveries of each, one harm.

### DbRetry

`op` is one write of an adapter as it goes through `RetrySession`, `RetryQuery` and
`_execute_with_retry` (`adapters/persistence/_base.py`): the next statement, the session in use,
the one its query was built from, the one that holds the write, the failures so far. The four
kinds are an insert and an update, with and without the adapter's own retry.
`NeverTwice`: no write is applied twice, not even when a commit's answer is lost; proved by
`DbInv`: once the write is applied only the commit can be repeated, and that commit has
nothing to commit. Refuted: `ReportedIsWritten`, for the same reason: a retry after the
session was replaced commits an empty one.

### PaymentLedger

`kind`, `order` and `events` are the provider's side (external): a payment by Stripe or PayPal,
a manual one of a buyer, or one billed to a client; `status`, `ledger` and `invoice`
the three rows that are written in three transactions; `request` what each API process
handles and what it has read. `Dies` cuts a request off anywhere. A write of `status` or
`ledger` may be answered and not made (`Made`), which `lost` remembers.

Checked: `CreditedOnce` (while requests for a transaction do not overlap, unless the mark
COMPLETED was answered and not made: the next webhook then finds the payment unpaid and
credits it again) and, under fairness (requests proceed, a provider repeats a webhook until it
is answered), `CapturedIsCredited` (unless a request dies between the mark and the credits, or
the credits were answered and not made: later webhooks return at the mark).
`CreditedOnce` is proved, and with it `CompletedStays` (what is completed is not marked as
failed afterwards) and `PaidIsCredited` (what was paid for and invoiced was credited, or the
credits are in `lost`), which are in no run: `PaymentInv` says that one
request works on a transaction, that it is not completed before that request marks it, and
that nothing is credited before that; `InvoiceInv` that the invoice is written after the
credits. `v_double_credit` is the listed run that refutes the docstring of `capture_payment`:
under `RaceSpec`, of the buyer's captures and the webhooks of one PayPal payment alone, both
read it as unpaid and both give the credits. Without that restriction two administrators who
verify one manual payment do the same. `CreditedIsCaptured` and
`CompletedIsCredited` are refuted as well. Bounds: one transaction, of every kind in turn, two
processes, two mishaps (requests cut off, or writes answered and not made): repeated and reordered webhooks and a capture that starts
again after a crash happen.

### TokenRefresh

`session` and `hashed` are the server's rows, `shelf` and `access` the browser's localStorage,
`call` the refreshes under way (per tab: the interceptor's and the timer's), `fetch` the
requests of the pages, `dialog` the question to log in again. `NoFalseAlarm`: a session is
ended as replayed only when two refreshes of it ran at once, or an answer or the storing of a
hash was lost. `RequestSettles`: a denied request is done, fails or waits for the user, unless
the client's address has changed. Refuted: `NoRefreshRaces` (the queue of the interceptor
does not know the timer, nor other tabs), `RequestAlwaysSettles` (after a change of address the
refresh succeeds and the request is denied again, for ever). Bounds: one tab, whose timer and
interceptor race as two tabs do; two requests, one to lead and one to queue; two sessions, one
loss. Fairness: every request is answered or times out.

`NoFalseAlarmCorrect` proves the first for any number of tabs, requests and sessions.
`RefreshInv`: of a session that is active and has met none of the excuses, one refresh is under
way at most, and its valid token is on the shelf or with that refresh (`Sole`). So the server
never sees a spent token of it.

### AccountAccess

`login` are the rows of `user_sessions` with the ticks since they ended, `cached` the
`_auth_context_cache` of each process, `task` the handler each process runs, `token` the rows of
`password_resets`. `RevokedSoon`: a session that is over is accepted by no process once the
cache's lifetime and a request have passed. `OldSessionsEnd`: sessions opened with an earlier
password end, unless the password changed while one was being opened, or the sweep failed.
`TokenOnce`: without overlaps, one reset token is open and it is used once. All are proved:
`ContextInv` bounds the age of what a handler has read and will cache, `TokenInv` relates
the handlers that have read tokens to the tokens that are open.

### SupportDesk

`status` and `reopens` are a ticket, `chat` a live chat, `handling` the requests with what they
have read, `seen` the mailbox's flags, `polling` and `posted` the runs of `check-inbound`. A
request reads the ticket, and writes it in another transaction; `reopen_ticket` reads the
count (`ReadCount`) and writes it back (`ReopenTicket`) without a lock, the status only if it
was not OPEN. The link to a ticket that is not there is refused by its foreign key (`LinkTicket`).

`ReopensBounded`: the ticket is reopened (`reopened`) at most as often as the cap allows, and
once more for each request that is let in while another is under way (`overlaps`). The count
in the row bounds nothing by itself, and neither does the number of processes: a request that
has read a low count writes it back after others have gone on, and the cap admits
more. With two processes and a cap of two TLC reopens the ticket four times.
`PostedOnce`: a poller posts an e-mail at most once, whatever happens between fetch, post
and flag. `OneTicketPerChat`: unless conversions overlap, or one ends without its link in the
database. All are proved. `ReopenInv` is the account behind the first: what the counts at
hand, the row's and those that requests have read, lag behind the reopenings is made up for by
the overlaps, because of the requests under way together each but the first is one. `MailInv`
says that what was posted is flagged before it, `ChatInv` where the only conversion stands.
Refuted: `ReopenCap`, `SeenIsProcessed`, `ChatStaysEnded`. Bounds: two processes, one of which
can hold an old count while the other goes on; a cap of two, two overlaps; one poller, one e-mail that
answers the ticket, one death.

### SignIn

`account` are the rows of `users` with their verification token, `linked` the rows of the
provider links, `ticket` what a provider or an e-mail has handed to a browser, `serving` the
request each API process handles with what it has read, `doomed` the users that the cleanup of
unverified accounts has selected. The handlers are synchronous inside one process, so a
process serves one request at a time; each call of an adapter is one transaction. `Dies`
cuts a request off between two of them: a sign-up is three commits (the user, the token,
the link).

`AccountKept`: a verified account keeps a way to sign in, unless two requests of its owner
unlinked at once, an administrator deleted it, the cleanup had selected it before it was
verified, or its sign-up was cut off. It is proved: `KeptInv` says which account has a password or a link while no request
unlinks, and `UnlinkInv` what the only request that unlinks has counted. Refuted:
`RetainsOneMethod` (two unlinks at once leave nothing, although the check says the user retains
a method), `SignUpLinks` (a sign-up that was cut off is taken for an existing account),
`CleanupSparesVerified` (the cleanup deletes what it selected earlier). Bounds: two processes,
two identities at two providers, two accounts: unlinks and links of one account overlap,
and an identity meets an account of the same address and one of another.

### ConfigStore

`stored` are the rows of `app_config` in the global scope, `cache` the `_cache` of the
`ConfigService` of each API process, `snaps` the rows of `config_snapshots`, `job` the handler
each process runs, with the rows it has read and what it is to write. The handlers have no
await, so a process runs one at a time, and each call of an adapter is a transaction: a rollback is
`BeginRestore` (its target), `Export` and `File` (the snapshot before it), `ReadRows` and
`Restore` (the upsert), `Load` (the cache). The rows of a batch are read one by one in the
code and all at once here; what comes between shows as a commit that is refused (`GivesUp`) or
fails. SQLAlchemy sends the values that differ from what was read, so of two writers of a key
the second may change nothing.

`OwnWritesSeen`: in every setting that nobody has changed behind its back, a process answers
what is stored, however sets, imports and restores overlap, fail and conflict. The exceptions
(`unaware`) are the writes of other processes, the editor of `app_config`, which knows no
cache, and writes whose end the process has not learnt. `RollbackReversible`: restoring the
snapshot that a rollback took gives every setting that had a row its value again,
on whichever processes the two restores run, if nobody writes meanwhile. Both are proved:
`ReadInv` and `CrossedInv` relate what a handler has read to the table by the keys others
have written since, `PreInv` and `UndoInv` say what the snapshot before a rollback holds.
Refuted: `FullyReversible` (a restore deletes no row, so a setting that had none keeps the
value the rollback gave it), `CachesConsistent` (no process hears of another's writes),
`PruneKeepsNewest` (a snapshot taken between the two queries of a prune is deleted). Bounds:
two processes and one setting with two values, which overlapping writers tell apart; three
requests, failures or restarts: a rollback, its rollback, and one more.

## 6. What is proved and what is only checked

| Theorem | For every |
| --- | --- |
| `TypeCorrect`, `CapacityCorrect` | number of workers, keys and creators, capacity, lease, staleness and timing |
| `ExclusiveIngestCorrect`, `ConnectedHandleKeptCorrect`, `OneProcessPerKeyCorrect` | the same, while workers are prompt |
| `QueueTypeCorrect`, `AttemptsOfOneCopyCorrect`, `DeliversOnceCorrect`, `OnlyHolderLosesCorrect` | number of consumers, notifications, slots and attempts |
| `HysteresisCorrect` | clocks and backoffs, in the order of the code's |
| `StoredOnceCorrect`, `OpenIsActiveCorrect`, `MatchTypeCorrect` | feed, number of threads, replays and faults |
| `NothingSkippedCorrect`, `StreamTypeCorrect` | number of versions, size of the queue |
| `NoFalseAlarmCorrect`, `RefreshTypeCorrect` | number of tabs, requests, sessions and losses |
| `TiktokTypesCorrect`, `PlatformTypesCorrect`, `ServicesTypesCorrect` | what the components of a suite allow |
| `NeverTwiceCorrect`, `DbTypeCorrect` | number of retries, assignment of statements to kinds of writes |
| `CreditedOnceCorrect`, `PaidIsCreditedCorrect`, `CompletedStaysCorrect`, `PayTypeCorrect` | number of transactions, processes and mishaps |
| `RevokedSoonCorrect`, `OldSessionsEndCorrect`, `TokenOnceCorrect`, `AccessTypeCorrect` | number of processes, sessions and tokens, lifetime of the cache |
| `ReopensBoundedCorrect`, `PostedOnceCorrect`, `OneTicketPerChatCorrect`, `DeskTypeCorrect` | number of processes (finite), pollers, e-mails, and cap |
| `AccountKeptCorrect`, `SignInTypeCorrect` | number of processes, identities, providers and accounts |
| `OwnWritesSeenCorrect`, `RollbackReversibleCorrect`, `ConfigTypeCorrect` | number of processes, settings, values, requests and failures |
| `TalliesAgreeCorrect`, `NoPatchLostCorrect`, `TallyTypeCorrect` | set of events, number of threads, deliveries, hours and harms |

Each rests on the assumptions that its module names (`PoolAssumption`, `QueueAssumption`,
`LiveAssumption`, `Doublings`, `TrackerAssumption`, `StreamAssumption`, `RetryAssumption`,
`PaymentAssumption`, `RefreshAssumption`, `AccessAssumption`, `DeskAssumption`,
`SignInAssumption`, `TallyAssumption`, `ConfigAssumption`), which TLC evaluates in the runs, and,
where the text above says so, on a hypothesis of its own: `Undisturbed`, `Punctual` and `Paired`
of the pool, `Prompt` of the queue, and the order of three timers of `LiveSession`. Every such
hypothesis is met by the instance of the run that checks the property.

Every invariant and every property of steps that a passing run checks is stated by one of these
theorems, with one exception: of `AttemptsRespected` the case of a notification none of whose
commands was executed twice. Otherwise only liveness is model-checked alone, which TLAPS does
not handle: `OrphanHeals`, `Failover` and `KillHonoured` of the pool, `Settles` and `SigtermStops` of the queue, `SlotFreed`,
`CatchesUp`, `MatchesEnd`, `CapturedIsCredited` and `RequestSettles`. What the code's recursive
or iterative helpers compute is nowhere needed: the models fold over sets or step through them.

## 7. Not modelled

`PROJECT.json` gives the reason for each component. Most of the code has no protocol: the
queries of the reports and dashboards (over half of `tiktok_persistence.py` and
`tiktok_service.py`), the rendering of the frontend, scraping and parsing, schema and database
tools run by hand, and routes that create, read, update and delete single rows. A state
machine of them would repeat them, which bounds the share of the code that the models
can cover. Parts that do have a protocol and are still missing are in step 7 of the plan.
