# A verification project for the VLESS VPN bot

The repository is a Telegram bot that collects VPN configurations, checks them
and serves them to its users. A bot process (aiogram), an HTTP server, Celery
workers and a checker service share a PostgreSQL database and a Redis server.
This directory holds TLA+ modules translated from its source, TLC instances of
them, and proofs checked by TLAPS.

## 1. Inventory

| Part | State it keeps | Operations | Interacts with | Hard because | Correct when |
|---|---|---|---|---|---|
| Subscription pool, `database/repo/subs.py` | tables `subscriptions`, `blacklist` | add, batch updates, deletes, moves, trims | every task and handler, through PostgreSQL only | look-ups and writes in separate statements or sessions, ids and flags used minutes after they were read | one row per key and server, exact counters, visibility follows verdicts, bans hold, nothing lost on failure |
| Collector, `tasks/collector.py`, `utils/collector.py` | its run, its coroutines | fetch, check, add, clean up, trim | pool, checker, locks | twenty coroutines, kills and time limits | adds only what passed, trims the worst |
| Import and inventory buttons, `handlers/admin/inventory/` | selection in FSM state | add, toggle, delete, ban, fix regions | pool | read, then write | a button does what its text says |
| Recheck task, `tasks/admin.py` | buffers of verdicts and regions | snapshot, probe, flush every two seconds, clean up | pool, maintenance flag | stale snapshot, SIGTERM | verdicts counted once |
| Stability task, `tasks/stability.py` | verdicts of one run | wait for the collector, probe, streaks, verdicts, deletes | pool, locks | runs next to rechecks | as above |
| Task locks, `tasks/*.py`, `celery_app.py` | keys in Redis | SET NX EX, compare-and-delete, take over, poll | Celery deliveries, kills | expiry, redelivery, lost replies | one run of a task at a time, no key blocks for ever |
| Maintenance and recheck control, `handlers/admin/recheck.py`, `utils/state.py` | a flag in the database | start, stop, status | recheck task, Celery's view of its workers | revoke with SIGTERM, two administrators, workers that do not answer | the flag is up while a recheck runs, and somebody lowers it |
| Batch processors, `utils/batch_processor.py` | queue, workers, counters | process, cancel | collector, recheck, stability, import | watchdog, cancellation, termination | each item once, always ends |
| Proxy pool, `utils/checker/proxy_pool.py` | list, cursor, bad marks, caches | acquire, mark bad, refresh | checker | refresh under waiting callers | never a marked proxy, comes back after exhaustion |
| Checker client, `utils/checker/{__init__,api}.py` | one cached proxy per process | TCP probe, call of the service, jitter samples, second try | stability, collector, recheck, service | a failure of a proxy looks like one of the server | a link is condemned for its own failures |
| Checker and executors, `utils/checker/{service,xray,singbox_executor}.py` | ports, processes, files | check, start, clean up | proxy pool, GeoIP | partial failure, port races | every process and file is released |
| Key caches, `database/repo/subs.py` 73-108 | dictionary per process | get, set, invalidate | pool | several processes | bounded staleness |
| Subscription server, `utils/sub_server.py` | cache of external links | serve links | pool, users, groups, the URLs handed out | limit before filter, shared cache, settings in URLs | a user gets what was asked for |
| RU check API, `utils/sub_server.py` and the worker it serves | `ru_checked_at` of the rows | batch, report; fetch, dial, tunnel | pool, phones | overlapping workers, lost reports | every row gets its turn |
| Users, groups and filters, `database/repo/{users,groups}.py`, `handlers/user/` | tables `users`, `user_groups` | register, create, toggle, delete | probe, subscription server | filters read, then written; a list of countries that moves | a filter is what was pressed |
| Smart alerts, `utils/smart_alerts.py`, `utils/background.py` | accumulators per process | accumulate, digest | collector, stability | two processes | every change is reported once |
| User probe, `tasks/user_probe.py` | buffer of blocked users | probe, flush | users table | delayed delete | only users who block the bot go |
| RU proxy monitor, `utils/ru_proxy_monitor.py` | last state, a flag in `.env` | poll, switch | checker | edges | the flag agrees with the proxy in the end |
| Broadcast, `handlers/admin/broadcast.py` | a draft in the FSM of a chat, loops of sends | edit, confirm, copy to all users | users table, Telegram | old keyboards, presses that overlap, sends without an answer | nobody gets a message twice |
| TG proxy refresh, GeoIP, backups, payments, reporter, menus | little or none | I/O | | | |

`PROJECT.json` lists every part with its files and status, and under `hazards`
the places where the code is hard to test, with the properties that cover them.

## 2. Plan

1. **Done: `SubTable`, `SubPool`, `PoolPromise`, `AddTurns`.** The pool is where all
   processes meet.
2. **Done: `RunGuard`, `TaskLock`.** What keeps the periodic tasks apart.
3. **Done: `RecheckControl`**: start and stop of a recheck, the flag, Celery's
   view of active and reserved tasks, the finally block.
4. **Done: `BatchPromise`, `BatchRun`.** Queue, workers, watchdog, cancellation.
5. **Done: `ProxyPool`**: list, cursor, marks, refresh.
6. **Done: `CheckService`**, over `ProxyPool`: a check from its proxy to its
   verdict, with a failure at every step; and `CheckClient`, the other end of the
   call.
7. **Done: `Serving`**, from the query to the schemes of the answer. Left:
   `KeyCache`, the caches per process over `SubTable`.
8. **Done: `People`** (users, groups, filters and the probe), **`RuProxyMonitor`**
   and **`RuCheck`**. Left: `SmartAlerts`.
9. **Done: `Broadcast`**, the editor and the loop of sends. The bot's restart loop is
   left out.

Abstract specifications: `PoolPromise` for `SubPool`, `RunGuard` for `TaskLock` and
`BatchPromise` for `BatchRun`. Theorems: the safety properties of every module that has one, but for
those listed at the end of section 5.

## 3. What is modelled

### SubTable: rows and statements

A table is a function from live ids to rows; a row keeps key, region, speed,
`is_active`, `death_count` and `stability_streak`. Latency, AI and ads flags and
the `ru_*` columns are written by the same statements and decide none of the
writes modelled, so they are dropped. Speeds are levels, with
`_MIN_ACTIVE_SPEED_MBPS` as level 1. Each statement of `SubRepo` is an operator
from tables to tables: `ApplyStatus` (`batch_update_status`, including that a
dead verdict below `_DEACTIVATE_DEATH_COUNT` sets the flag), `ApplyRegions`,
`ApplyStreak`, `SetActive`, `CleanupDead`, `Trimmed` (`enforce_limits`; ties are
broken in any way, as `ROW_NUMBER()` may). What `_SERVER_ADDR_RE` finds in a key
is the constant `ServerOf`, in lower case; `HostOf` is the host as it is spelled. That
a host spelled in lower case is its own lower case is an assumption on the two.

### SubPool: who runs which statement when

| Variable | Code |
|---|---|
| `subs`, `lastId`, `banned` | the tables and the id sequence |
| `adder` | calls of `smart_add_subscription`, one per coroutine of the collector or of an import |
| `crawl` | the collector run: its phase and the links it has still to check (each once, one per server, as `run_collection` selects them) |
| `probe` | recheck and stability runs: snapshot, verdicts taken from the buffer, regions found |
| `desk`, `geo` | a handler between its read and its write; the region resolver |
| `deaths`, `touched`, `slip` | history variables, for the properties |

An action is one SQL statement, or the statements from the first write of a
transaction to its commit: the engine keeps PostgreSQL's READ COMMITTED, under
which a statement sees what is committed when it starts, and row locks taken by
the writes of one transaction keep others out until it commits. Every write of a
repository method may be lost (`Lost`): the methods log the error and return, and
their callers go on. `AddFail`, `CrawlAbort`, `RunAbort` and `DeskFail` are the exceptions,
cancellations, kills and time limits. A recheck's verdict depends on a server and
not on the table, so the model chooses it when the batch is taken. The buffer of
rewritten links in `tasks/admin.py` is not modelled: `process_subscription`
returns the link it was given on every path, so the buffer stays empty.
`get_all_keys_set` caches for five minutes per process; the collector may
therefore select links the table already has, and the model excludes none.

### PoolPromise and AddTurns: what the pool promises

`PoolPromise` knows of a row its id and its key only. A step lets rows leave, or lets
a key enter under the next id for one row at most, or spends an id on a key that does
not get in. That is what everybody relies on who keeps an id for minutes: snapshots,
batches of verdicts, the selections of the buttons. `SubPool` implements it with the
function `HeldKeys`.

`smart_add_subscription` also promises one row for a server and a cap for a region,
and keeps neither against itself: the look-ups are statements of their own, and no
index stands behind them. `AddTurns` adds two history variables to `SubPool`:
`rivals`, two adds of keys on one server were under way together, and `packed`, two
adds into one known region were, or a row was given another region. `ServerOnce` and
`CapKept` say that nothing else breaks the two promises, whatever is deleted, trimmed,
judged or banned between the statements. `TurnsInit` starts from a table that keeps
them.

### TaskLock and RunGuard: the Redis locks

`lock[t]` is the key of a task with its token and time to live, `run[r]` a run's
place in its task. Deliveries are `Start` at any moment (late acknowledgements
and `reject_on_worker_lost` redeliver), `Kill` is the hard limit, a lost worker or
a restart, `Tick` is a unit of time. The collector's take-over of a "stale" key
is its five calls, one action each. The token of a collector run is
`str(request)`: a different text for runs in a worker, the constant text of an
empty context otherwise (see `thoughts/ledgers/CONTINUITY_ses_1993.md`), which
`TokenOf` covers. `RunGuard` is the abstract specification, a holder per task;
`TaskLock` implements it under `Holder` for the tasks that are `Guarded` (their
key outlives their time limit and nobody takes it over).

The flags `collector_enabled`, `stability_enabled` and the maintenance mode, read
before the lock, only make a run not start; a run that never starts is covered.

### BatchRun and BatchPromise: the batch processors

| Variable | Code |
|---|---|
| `job` | which processor, whose handler, how many items |
| `prod`, `made`, `taken` | `producer()` and the queue, which holds the items `taken + 1 .. made` in order |
| `worker` | each worker coroutine and the item in its hands |
| `stats`, `active`, `level` | the counters, `active_tasks_count`, `current_concurrency` |
| `phase` | `process()`: gathering, cancelling its workers, returned |
| `late`, `fate` | history: out of time, and what became of each item |

One module has both processors, `BatchProcessor` (semaphore, watchdog of 45 s,
every item listed) and `CpuAdaptiveProcessor` (monitor, 90 s, global timeout), and
the two ways handlers answer a cancellation: `process_link` of the collector raises
it, `process_sub` of the recheck returns a failure. Time is left out: watchdogs and
the global timeout strike at any moment. `BatchPromise` is what callers rely on.
`MinWorkers` is at least 1, as in `config.py`; with 0 the level could fall to 0 and
the batch would wait for its global timeout.

### ProxyPool and CheckService: the checker service

| Variable | Code |
|---|---|
| `proxies`, `cursor`, `bad`, `health` | `_proxies`, `_cursor` modulo the length of the list, the live entries of `_bad_until`, the live entries of `_health_cache` that say healthy |
| `age`, `holder`, `asked` | `_last_refresh_at` as far as it is compared with 300 s, `_refresh_lock`, the refreshes given to `create_task` |
| `mode` | `CHECKER_USE_RU_PROXY_CHAIN` and `RU_PAID_PROXIES` |
| `check[c]` | a call of `check_handler`: where it is, its proxy, attempts left, its answer; `heard` is history |
| `xray` | the calls whose process runs, with its config file |

An action is what a coroutine does between two awaits: the service is one event
loop, so `_pick_candidate` with the `probe_proxy` that finds a cached answer is one
step and a probe over the network ends in another, between which other requests
move the cursor, mark proxies and refresh the list. Whether a proxy or a link
answers is chosen at every probe; which country a proxy exits in is part of its
answer. Entries expire at any moment. A cached "unhealthy" is always accompanied by
a mark that lives longer (20 s against 120 s, written without an await in between
but for the closing of a session), so only "healthy" is kept. The speed test and
the connectivity test of a link end in the same two ways and are one step, `Passes`
or `Fails`. `Restart` is a stop or a crash of the service; processes it leaves
behind leave the model with it.

### RecheckControl: maintenance and the buttons of a recheck

| Variable | Code |
|---|---|
| `flag` | the row `maintenance_mode` of `system_config` |
| `press[a]` | a press of start (`look`, `reset`, `raise`, `send`, `answer`, `undo`) or stop (`lower`): the await it is at |
| `job[j]` | a task: queued, running, in its finally block (`closing`), gone |
| `revoked` | the ids the workers were told to terminate |
| `orphaned`, `slips` | history: the flag was left up by someone who is gone; what went wrong between the parties |

What workers answer to `inspect` is any subset of the tasks there are: they have a
second, and a task no worker has fetched is not reserved by one. `Kill` is SIGTERM,
the hard limit or a lost worker; the task acknowledges early and is not delivered
again. `Lower` and `NotLowered` are the two ends of `set_maintenance(False)`: the
statement may fail, and its caller goes on or ends.

### CheckClient: the client of the checker

| Variable | Code |
|---|---|
| `chain`, `cached` | `CHECKER_USE_RU_PROXY_CHAIN` and `_cached_tcp_proxy` of the process |
| `check[l]` | the coroutine of a link: its await, the proxy it goes through, which sample, whether the collector has tried again, its verdict |
| `dead` | servers and proxies that are down |
| `excuse` | history: links that may be blamed |

An action is what a coroutine does up to its next await; the phases of
`_check_tcp_via_proxy` are `greeting`, `auth`, `ask` (SOCKS5 CONNECT) and `tunnel`
(HTTP CONNECT), as its except block decides by the phase whom to blame. Callers
are a stability run and a collector run, because they act on the verdict; a
recheck does what a stability run does here. Messages to the service are its three
kinds of answer. Latency and speed are a choice between good and bad.

### People: users, groups, filters, probe

| Variable | Code |
|---|---|
| `users`, `group`, `countries`, `tags` | tables `users` and `user_groups`: who is there, and the filters; `All` is NULL, `Nothing` is `"__EMPTY__"` |
| `listed` | what `get_regions` answers |
| `handler[h]` | a button between its read and its write |
| `away`, `probe` | who has blocked the bot; the run of `probe_blocked_users_task` with its buffer |
| `mark`, `wanted`, `condemned` | history: what the presses have made of a country or tag; whom Telegram called blocked in this run |

A read that fails is "no filter" for a user and stops the handler for a group; a
write that fails is silent for a user and raises for a group, as in the two
repositories. Ids of groups are not given twice.

### Serving: the subscription server

| Variable | Code |
|---|---|
| `visible` | rows that are active and fast enough |
| `protocol`, `limit` | `protocol_filter` of user and group, `subscription_limit` |
| `handed` | the URLs the bot has handed out, with the types they name |
| `request[q]` | a request: its next query and what it has read |
| `cache` | `_external_cache` |

A link is its scheme. Country, tag and freshness filters are a choice of the rows
that match; the order of `get_smart_keys` is the constant `Rank`. Formats are which
schemes the generator of a client can carry.

### RuCheck and RuProxyMonitor: the loops outside Celery

`RuCheck` has the server's batch and report as operators on `line`, the eligible
rows in the order of the query, and `worker.py`, which `sub_server.py` holds as a
text, as a process per run: `phone[w]` is its batch with the state of each link.
The rows in `Garbled` have a link on which `parse_endpoint` raises `ValueError` (an
IPv6 address without brackets, a port past 65535, a bracket or a slash in a trojan
password): the call stands outside the `try` of `check_item` and `gather` does not
collect exceptions, so `Aborts` ends the run without a report. `utils/parser.py`
takes such links and the query looks at the scheme only, so they do get into the
batch. A link that parses and has no host or port is `Unsupported` and is reported.
Installing again kills `run.sh` and not the worker it has started, so two may
overlap. `RuProxyMonitor` has the proxy, the flag in `.env`, the flag the checker
has read when it started, what the monitor knows, and `missed`: a write or a
restart has failed, or the monitor was killed between the two.

### Broadcast: the editor and its sends

| Variable | Code |
|---|---|
| `fsm`, `draft`, `buttons` | the state of the administrator's chat, `bc_from_chat` with `bc_message_id`, whether `bc_buttons` has any |
| `call[c]` | a handler between two requests: what it will set, or the draft it sends with its buttons, the users left, the three counters |
| `used`, `copies`, `faces` | history: messages that have been a draft, how often a draft has come to a user, and with or without buttons |

A step is what a handler does between two requests to Telegram or the database: the
storage is that of `Dispatcher()`, in memory, and does not suspend. Keyboards of old
screens stay usable, so every press is possible in every state; messages depend on
the state. Handlers that set the state after a request set it whatever has happened
since. A send may fail after the copy has come (`Failed`); after a flood wait it is
tried once more. `Elsewhere` is every other menu, which clears the data or sets a
state beside them, and `BotStops` a restart. The middleware that drops a second
press within 0.3 s is left out: a request may take longer than that.

### The instances

`MCAround` and `MCWatchers` put components that share no state into one run: a
variable says which moves, the others rest, so that the run is the union of small
instances and not their product. `MCSubPoolScenes` does the same with scenes of
`SubPool`. The parts, and what each leaves still, are named in the modules.

## 4. Runs

All instances have three keys at most, two of which share a server, one known
region and an unknown one, `_DEACTIVATE_DEATH_COUNT` 2 and purge at 3 (3 and 10 in
the code): enough for every branch of the statements and for a counter to be
below, at and above each threshold. `MaxId` and `MaxRuns` bound the ids handed out
and the runs started; when both are used up the instance stops, hence
`CHECK_DEADLOCK FALSE` in the pool's instances. `TaskLock` never stops.

| Run | Shows |
|---|---|
| `SubPoolIntake` | two adders, a collector and an import, with bans, unbans and the purge of unknown rows: keys stay unique, bans are escaped only in the window, a failed insert loses nothing, ids are not reused (`PoolSpec`); and with one adder alone as well: without an overlap of adds, one row per server and the cap is kept |
| `SubPoolChurn` | rows deleted and added again under runs and buttons that hold ids, with the closing statements of a collector over rows hidden by hand; and two rechecks and a stability run over one row with toggles: counters and visibility are exact |
| `TaskLockGuard` | the stability task with 3900 s and 3600 s in ticks of 600 s, the first rounded up to 7 and the second 6, two runs: one at a time, refinement of `RunGuard`, orphaned keys expire; two runs of the TG proxy task, whose key expires first: a late release does not take another run's key |
| `TaskLockPair` | two collectors with one token text and a stability run, with shorter ticks in the same order: they overlap only when the check gave up waiting, could not read or had its key taken |
| `BatchRun` | up to four items, three adaptive workers or two with one permit, queues of one and three: items settled once, numbers right, nothing starts late, the call returns |
| `CheckService` | two requests, two proxies that are also the paid ones, one background refresh, in the three modes: a search ends early only when all proxies are in cooldown, a link is blamed only with an alibi of its proxy, no process is leaked, every request is answered |
| `Around` | see below |
| `Watchers` | the checker follows the proxy, unless a write or restart was missed; every row is reported again and again while some loop lives, unless a garbled row stays at the front |

`Around` has these parts. *control*: two administrators, two tasks, one worker
process: the flag is not left up without an owner, and is not lowered under a
recheck nobody has interfered with. *vless* and *kinds*: two links at a time, one
for a stability run and one for a collector run, a SOCKS5 and an HTTP proxy, two
samples, two outages: a vless link is condemned only with an excuse. *user*,
*overlap*, *group*, *tags*: two countries, one tag, one or two handlers over a user
and groups that are deleted and created again: a filter is what was pressed.
*probe*: two users who leave, return and register, groups created under the flush, a
buffer of one: only the condemned are deleted. *alone* and *callers*: two rows of
different schemes, two requests, limits 0 and 1: an answer has the schemes asked for.
*broadcast*: two drafts, two users and two handlers, any of which may send: nobody
gets a draft twice, all get it with the same buttons, and the counters agree with
what has come. Two of everything let each pair of actors meet; no property relates three.
`Watchers` has two failures of the monitor, three rows out of four with batches of two,
so that a batch never has all rows, with and without a garbled one
among them, two workers, one connection at a time, one row that comes
or goes and two installations. In both runs bounds and finished requests let a part
come to its end, hence `CHECK_DEADLOCK FALSE`.

Two proxies and two attempts let a request find the first proxy marked by the
other request, go round the end of the list, run out of attempts or of proxies,
and have the list replaced by a shorter one under it; the properties do not relate
three requests to each other.

Runs that find a behaviour against what the repository says (`findings` quotes
the line and the place in the code):

| Run | What happens |
|---|---|
| `SubPoolUnknownGap` | a row becomes unknown between SELECT and DELETE: deleted, not banned |
| `SubPoolStableTag` | a failed recheck leaves the streak |
| `TaskLockStolen` | an inspect without reply counts as "no run" |
| `ServingSettings` | a client refreshes the URL it was given: the protocol in it outranks the one set since |

Met while modelling, without a run of their own:

- the TG proxy's key lives 1200 s and its run may last 1800 s
  (`tasks/tg_proxy.py:20`), so that a second run may start; `OneRunEach` therefore
  leaves this task out;
- a refresh that validates nothing keeps the pool, as it logs, but it has already
  written `False` for each proxy that failed into `_geo_cache`, which only a
  successful refresh clears: when a probe of a kept proxy reaches the country test
  without `force`, it is refused for up to 30 minutes;
- each request that finds all proxies marked may start a forced refresh of its own,
  as the lock is taken later than it is tested: they run one after the other;
- a proxy can be handed out while it is in cooldown: it was marked by another
  request while it was being probed;
- two adds of one server pass their look-ups together and both insert, as nothing in
  the tables forbids it: the collector's own adds cannot (`CrawlKeepsServers`), an
  import beside it can, and so can two imports; `rivals` in `ServerOnce` marks it;
- `LIKE` is case-sensitive and the pattern is lower case: a stored key that spells
  its host with a capital is not seen by the look-up (`HostOf`);
- a key banned between `is_blacklisted` and the insert enters the pool: `BanWindow`
  says that this, and a row that escaped the delete, are the only ways;
- a dead verdict below the threshold switches on a row that a button switched off;
- the collector's report counts the links whose handler answered: links given up
  by the watchdog are in `failed` and in no line of the report;
- the recheck's handler answers a cancellation, so the global timeout of its batch
  ends only the workers that sleep; it can strike when `MIN_WORKERS` is small.

About maintenance:

- the text sent at the start of a recheck says that no subscriptions are served
  meanwhile (`handlers/admin/recheck.py:221`); the server never looks at the flag;
- a task lowers the flag when it is done and again in its finally block: a recheck
  started in between loses its flag (`tail` in `slips`), as does the second of two
  overlapping presses and a recheck whose handler fails to answer after it has
  queued the task;
- a worker that does not answer within a second makes a running recheck look like a
  stale flag, which the next press resets.

About checks:

- a trojan link that passes every test is added by the collector and condemned by
  the next stability run, which parses it as vless; links of other schemes are
  "Factor 0" in `process_subscription`;
- past the greeting, silence, a closed connection or an answer that is none count
  against the server, though the proxy may be what failed (`excuse`);
- a failed read, or an empty body, of the RU batch costs a round only, but a report
  that is lost makes the same rows first again: with every report lost the other
  rows wait, which is why `Rotates` asks for strong fairness of reports;
- one garbled row ends every run that gets it (`sub_server.py:360`, outside the `try`,
  and 390, without `return_exceptions`); as only a report would move it back, it stays
  in the batch, and from then on no row is checked until it is deleted. The status
  `unsupported_or_invalid` was meant for such links. `Rotates` therefore assumes that
  no garbled row stays in the batch for ever (`[]<>~Blocked`); without this
  assumption TLC finds the starvation at once;
- the installer kills `run.sh` only: the worker it has started goes on, and its
  report may come after that of the next one;
- the monitor does not switch the flag on when it starts with the proxy up, and if
  it is killed between the write and the restart the checker keeps the old flag.

About filters and subscriptions:

- a country filter becomes "all" when it equals the list of the moment: a country
  that was switched off and had no server then is shown when it comes back; and the
  first press in a filter "all" hides the countries not listed at that moment;
- a user whose filter cannot be read is shown, and given, no filter, and the next
  press overwrites what there was; a failed update is swallowed and the keyboard
  shows it as done;
- a user who blocks the bot, returns and presses start before the buffer is flushed
  is deleted all the same; a group created for one of the buffered users between
  the two deletes makes the whole flush fail;
- the limit is applied to the rows before the protocol filter and not to external
  links; when nothing matches, hidden countries are served by the fallback; the URL
  of a deleted group filters nothing;
- the external cache is filled with the schemes of its first caller: for five
  minutes other callers get the part of it they ask for, which may be none.

About broadcasts:

- "✅ Активным" sends to everybody: the audience is read and not used
  (`broadcast.py:388`), and the number on the confirmation counts all users;
- the confirmation button of an old screen sends the draft of the moment, which may
  be one the administrator has not confirmed;
- the data are cleared before the first request: when `get_all_users` or the text
  fails, the draft is gone and nothing was sent; a restart loses the rest of a
  broadcast, and nobody knows who has got it;
- a state set late puts the editor back into a chat that has left it: the next message
  becomes a draft.

Every property of a passing run has a mutant (an operator of its own, marked
`Mutant`) that breaks it.

**Fairness.** `OrphansExpire` of `TaskLock`: weak fairness of `Tick` (time passes)
and of `Overdue` (Celery kills a run at its time limit); runs need not progress,
release or be delivered. `Returns` of `BatchRun`: weak fairness of the producer, of
each worker and of the return, as the event loop runs what is ready and a watchdog
ends every handler; nothing is assumed of the monitor, which may move the level for
ever, nor of the global timeout.
`Answered` of `CheckService`: weak
fairness of the steps of each request, since the awaits in `check_handler` and in
what it calls have timeouts, with one exception: the reads and writes of the Redis
cache (`service.py:758`, 778 and 798) have none of their
own, and that Redis answers or fails is an assumption. The fairness is written out as
"idle or moving infinitely often",
because a request that is not idle always has a step. Nothing is assumed of the
refreshes of the loop or of tasks: no request waits for the lock.
`Follows`: weak fairness of the monitor's loop, nothing of the proxy, of failures or
of restarts by others. `Rotates`: weak fairness of the steps of a worker whose loop
lives, as its waits end, and strong fairness of `Report`: of reports sent again and
again some arrive. It says nothing of runs that abort, as they have no report to
send. The loop itself may die; the property
speaks of behaviours in which some loop is alive again and again.

## 5. Proofs

`SubPool_proofs`, `TaskLock_proofs`, `BatchRun_proofs`, `CheckService_proofs`,
`Flags_proofs`, `CheckClient_proofs`, `People_proofs` and
`Serving_proofs`, for all values of the constants that meet the assumption of each module (sets of keys,
processes and regions of any size, any thresholds with
`DeactivateDeaths <= PurgeDeaths`).

*The pool.* Dozens of actions do one of seven things to the table: leave it,
remove rows, insert a row and perhaps remove one, apply verdicts, apply regions,
count streaks, set a flag. `Effect` says so, one lemma shows that each action has
an effect, and the invariants about rows are proved per effect. `UniqueKeys` and
the exactness of counters are inductive with `TypeOK`. `NoForeignVerdict` needs
that ids in tables and snapshots are at most `lastId`, so that an inserted row
never takes an id some run still holds. `BanWindow` needs that `slip` covers the
keys in flight: a banned key whose add is past its check is in `slip`.

`PromiseKept` proves that `SubPool` implements `PoolPromise`. A step that leaves `lastId`
alone lets rows leave (`RowsLeave`); one that does not is an `AddWrite`, and its row
enters under an id that no row has, because ids are at most `lastId` (`KeyEnters`).
`TrimSparesVisible` and `TrimRestoresCap` are about `enforce_limits`: the phase
`enforce` ends with its statement or with nothing (`TrimStep`), and the statement's
survivors are none worse than what it drops, and as many as fit.

`ServerOnce` and `CapKept` need what the adds under way have found out. `LookedUp`: no row
has the server of an add that is past its look-up; it stays true because a new row
is the row of another add under way, which without `rivals` is on another server.
`Room`: an add about to write has a place in its region, or the row it will replace
is still there; if that row goes, it leaves its place, and nobody else takes it
without `packed`. `CrawlKeepsServers` has as hypothesis that there is no import, and
needs that the links of a run, handed out or not, are on different servers and that
no coroutine is at work outside the adding phase, of however many there are; the
model has one collector run at a time, which is what its lock is for.

*The locks.* `OneRunEach` needs `KeysHeld`: while a run of a guarded task is past
its lock, the key is the one it set, and its time to live plus the run's age is
at least the time to live it was set with; since the age never exceeds the limit
and the limit is less than the time to live, the key is there and nobody else
can take it. The refinement maps a step to `Begin`, `End` or a stutter.
`PairApart` (`ParallelOnlyLate`) assumes that the keys of the collector and of the
stability check outlive their time limits (3900 s and 3600 s in the code). `WholeKeys`:
a run that nobody has robbed has its key; so of the two runs the one that looked last
saw the other's key, and waited or left. The same invariant gives `ApartUnlessRobbed`:
two runs of one task, the collector's too, overlap only when one of them was robbed or
passed by a key it could not read. `GivesBackItsOwn` (`ReleasesOwn`) assumes
that runs of a task do not share a token, as is so where the token is a uuid and where
workers run the collector; it needs no hypothesis on times, so that a TG proxy run
that has outlived its key does no harm to the next one's.

*The batch.* `IInv` says where an item can be: not made, in the queue, in the hands
of one worker, or settled; and that in time workers leave only when the producer is
done and the queue empty. So when all workers are gone in time all items are
settled, which is the step `Return` of `BatchPromise`. `Tally` and `PermitsKept` are
about cardinalities and follow from `IInv` by the theorems on finite sets.

*The checker.* Each step of a request gives it one new record and changes the pool in
one of a few ways (`Effect`), from which the invariants follow together: `XrayOwned`
because the phases that need a process are those between `Launch` and `Clean`,
`BlameNeedsAlibi` because only the second probe writes a blame with the chain. That
a search gives up last rests on arithmetic: from any place below its length a scan
of as many steps as the list is long meets every proxy (`ScanCovers`), and refreshes
put the cursor back with the list (`RenewedFits`).

*The recheck.* `RaisedHasOwner` becomes inductive when a queued task counts as an
owner only while it is not revoked, because a worker drops a revoked task without its
finally block; the press that revokes it goes on to lower the flag. For
`RecheckKeepsFlag`, `QuietInv` says that while nothing has gone wrong one press is
under way and one task unfinished at a time, that a press which raises or resets
knows of no unfinished task, and that one which lowers has revoked them all.

*The monitor.* `MonitorInStep` is the part of `Follows` that is not about time: `missed`
is set at each edge that finds the flag wrong and cleared only by the restart that
ends the edge, so without it the monitor sleeps and the flag, the checker and what
was seen last agree.

*The client.* `BlameInv`: a link is excused if its server is down, or if its proxy
is down while the link is past the greeting; since that phase is entered only with a
proxy that works, and a proxy that goes down in it excuses its links, every way to
a dead verdict finds an excuse.

*The people.* The probe needs that its buffer and its list are disjoint parts of the
table, so a user it holds cannot register anew. For the filters, one press keeps the
agreement of marks and filter (`PressAgrees`): it flips its own country in what is
shown and leaves the others, through the two encodings of "all" and "none". It needs
that NULL is no list and the marker no country.

*The broadcast.* `CastInv`: a draft that is being sent has left the editor and has one
sender (`Confirm` takes it and clears the data in one step, and no message becomes a
draft twice), who owes it to the users still on his list, all of whom are without it. So
`CopiedOnce`; the counters follow by the theorems on finite sets.

*The server.* A request that is done has been through `Respond`, and both sources of
external links are cut down to the caller's schemes.

Every invariant of the passing runs, every action property and all three refinements
are proved, and so is `KeepsPool` (`PoolIsKept`: no refresh empties a pool), which is a
question of one guard and has no run.
Only model-checked: `OrphansExpire`, `Returns`, `Answered`, `Follows` and
`Rotates`, as liveness under fairness is beyond the prover. `RuCheck` has no theorem:
what its batches and reports do to the order of rows is said with `SelectSeq` and the
sequence operators of the community modules, which take operators as parameters or
recurse, and the provers cannot expand either.

## 6. Not modelled

Network, parsing, formatting, menus, reports and files. Of the checker: the ports,
which the kernel hands out; the sweep of processes a killed service left behind; the
branch for hysteria and TUIC links and its executor; the text of configurations.
Key caches and smart alerts: the first only delay what a process sees, the second only
change the text of a message. Single statements behind menus: the fragment switch,
sources, statistics, system settings, the stable list. Donations, backups,
GeoIP look-ups, the refresh of TG proxies and the wiring of the bot keep no state that
two parties share. Contents of verdicts are chosen freely: the models say what the
processes do with verdicts, not whether a probe is right about a server.
