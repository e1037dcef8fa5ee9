# Verification of crypto-arbitrage-mvp

This directory holds TLA+ specifications of the trading system in this
repository, TLC configurations that model-check them, and TLAPS proofs. The
Python package is `src/arbitrage_bot/`; every definition that stands for code
is listed with its source lines in `PROJECT.json` under `map`.

## Inventory of the system

The system is one asyncio process per release (`python -m arbitrage_bot.web`)
with a web API, a set of background loops, a data directory of SQLite and JSON
files, and exchange clients built on ccxt. Two releases (the slots blue and
green) may run at the same time on one host.

| Component | State | Operations | Interacts with | What is hard | Correct when |
|---|---|---|---|---|---|
| Order intent journal (`order_reliability.py`) | rows of `order_intents.sqlite3` | reserve, mark submitted / unknown / failed / absent / canceled, reclassify, compact | exchange client, startup recovery, maintenance, deployment guard | rows outlive the process; the outcome of a call is unknown | an uncertain outcome is never dropped and blocks its market |
| Exchange client (`exchanges.py`, `exchange_rate_limit.py`) | pacers, market metadata, cached clients | create / cancel / recover orders, queries | journal, every executor | lost and late answers, retries, cancelled coroutines, crashes | at most one live order per intent; the journal agrees with the exchange |
| Leader lease and supervisor (`web/deployment.py`) | role, runtime tasks, flock | acquire, recover, start loops, fail, release | every background loop, the API, systemd | SIGTERM and SIGKILL at any await, two processes | one process trades; a dead loop stops the rest |
| Program switch and runtime store (`web/state.py`) | in-memory configuration, one JSON file, config versions | pause, resume, auto-stop, every settings API | API, loops, second process | whole-file writes from a memory that may be stale | a recorded stop holds; nothing accepted is lost |
| Blue/green activation (`scripts/activate_blue_green.sh`) | systemd units, guard unit, nginx, slot file | check, start candidate, switch, stop old, trap | supervisor, systemd, nginx | any command fails, signals | one release trades and is served |
| Coordination holds (`web/coordination.py`, `web/state.py`) | holds with an expiry by owner | acquire, renew, release, acknowledge | market maker, auto buy/sell, rebalancer | expiry during execution, two owners of a symbol | no self-trade while a hold is acknowledged |
| Market maker (`market_maker.py`, `web/background/market_maker.py`) | tracked orders per instance, runtime payload | plan, place, cancel, rebuild, acknowledge | holds, risk gate, exchange client | partial batches, drift between tracked and open orders | no untracked order is left behind |
| Cross-exchange rebalancer (`cross_exchange_rebalancer.py`, `web/background/rebalance.py`) | progress, halt, residual exposure | cycle, halt, acknowledge, reset | holds, two-leg execution, API | API edits during a cycle, crash after execution | an imbalance halts until an operator acts |
| Two-leg execution and hedge (`spot_arbitrage_executor.py`, `emergency_hedge.py`) | one cycle's orders and fills | buy then sell, emergency cancel, hedge | exchange client, risk gate | one leg fails, late fills, budgets | no second leg without a confirmed fill; hedge within its cap |
| Auto buy/sell tasks (`auto_buy_sell_task.py`, `slow_execution.py`) | task list, open orders, submitted totals | create, pause, slice, expire, cancel | holds, market maker, exchange client | edits during a cycle, restarts with open orders | caps are never exceeded |
| Spot grid (`spot_grid_executor.py`, `web/background/spot_grid.py`) | levels, tracked orders | seed, replenish, cancel | exchange client, risk gate | fills between reads | one order per level |
| Configuration versions and guards (`web/config_versions.py`, `web/routes/control.py`) | version rows, known-good marks | record, mark, prune, roll back, two guards | runtime store, loops | guards that sleep while users edit | a rollback restores what was known good and overwrites no newer edit |
| Strategy lifecycle and preflight (`web/strategy_lifecycle.py`, `web/strategy_preflight.py`) | grants in memory | issue, consume | strategy APIs | parameters that change between check and use | a live start matches a fresh check |
| Reconciliation, risk, auto-stop (`order_reconciliation.py`, `risk.py`, `web/background/monitor.py`) | counters, reports | scan cycle, reconcile, stop | program switch, alerts | consecutive-error counting | repeated errors stop the program |
| Asset ledger and account workers (`asset_ledger.py`, `account_worker.py`) | SQLite ledger, heartbeats | snapshot, checkpoint, stale fallback | monitor, workers | several writers, partial refresh | published rows were committed |
| Paper engine and store (`user_paper_engine.py`, `user_paper_store.py`) | versioned state per strategy | cycle, reset, edit, delete | scheduler, workspace API | stale cycles | a stale cycle overwrites nothing |
| User workspace (`user_workspace.py`) | projects, accounts, bindings, risk profiles | save, verify, enable, purge, reassign | API, runtime accounts | purge and reassign across stores | rows stay inside their owner |
| Web security (`web/security.py`, `web/verification.py`, `web/users.py`) | sessions, codes, users, rate windows | login, verify, rotate, limit | every route | expiry against attempts and resends | a code works once |
| Market data caches (`orderbook_cache.py`, `venue_health.py`) | cached books, connection checks | watch, restart, refresh | market maker, venues | stale values | a stale book is not used |
| Logs, maintenance, backup | JSONL, archives | rotate, compact, snapshot | every loop | file I/O | nothing live is removed |
| Scanners, backtests, reports, dashboard | none that persists | evaluate, render | monitor | numeric | not modelled |

Hazards, with the line where each bites and the property that covers it, are in
`PROJECT.json` under `hazards`; the ones without a property say why.

## Plan

The order follows what costs money when it goes wrong.

1. *Done.* Orders: `OrderIntentStore`, `OrderJournal` and their proofs.
2. *Done.* Who trades: `RuntimeSupervisor`, `BlueGreen` and their proofs.
3. *Done.* The lease as an abstract specification: `LeaderLease`, which
   `RuntimeSupervisor` is shown, and proved, to implement.
4. *Done.* `MakerCoordination` (the holds, the maker loops that make room, the
   owners that trade) and its proofs.
5. *Done.* `RebalanceCycle` (the two-leg execution, the hedge, the runtime and
   the operator) and its proofs.
6. *Done.* `AutoBuySellTasks` (the task service) and its proofs.
7. *Done.* `ConfigVersions` (store, history, guards, operators) and its proofs.
8. *Left.* `PaperStore` (the conditional write of a paper cycle against reset,
   edit and deletion), `AssetLedger` (checkpoint and stale fallback) and
   `SpotGrid` (one order per level). None of them moves money by an interaction
   that the modules above do not have.

## Modules

`OrderIntentStore` has no state of its own: it gives the rows of
`order_intents` and every operation of the store as an operator on a journal,
a function from client order ids to rows. Each method of `OrderIntentStore` in
the code is one SQLite transaction without an await, hence one operator. The
order id of the exchange is the number of the attempt that made the order.

`OrderJournal` extends it with the coroutines that use it. `call` holds the
callers of `_create_order_idempotently` (`pacing` in `pace_exchange_request`,
`awaiting` in `client.create_order`, `recovering` in the search), `rec` those
of `recover_pending_order_intents`, `cancel` those of `cancel_order`. `net` and
`replies` are the two directions of the network and `orders` is the exchange;
these are external and as hostile as the client code allows: a request may be
lost, accepted or refused, its answer may be lost or carry no order id, a query
may fail, and the query for closed orders may miss old ones. One action is what
a coroutine does between two awaits. `CancelCall` is a `CancelledError`,
`Crash` ends the process, and `booting` is the recovery that the supervisor
runs before anybody may submit. Compaction runs inside `BeginCall` (every
`CompactEvery` reservations) and as `Maintenance`. How long the pacer holds a
request is unbounded (a queue of 3.5 s per order and a cooldown of 10.5 s can
outlast `EXPLICIT_ABSENCE_MIN_AGE_SECONDS`); the error classes of
`_terminal_create_error` close an intent whether the exchange refused the order
or accepted it; a recovery takes the `RecoveryLimit` oldest rows and skips those
of accounts that are not configured. `unaccounted` is history: the intents whose
first attempt a search or an error may miss for these reasons.

`LeaderLease` says in forty lines what the lease promises: a trader trades from
the moment it takes the lease at most until it gives it up, does not resume
within the same tenure, and only the holder records the program switch. A
member that is no trader may hold the lease too.

`RuntimeSupervisor` models the web processes of one host. `pc` is the place in
`RuntimeSupervisor.run` (the role, with the role `error` split into its
stages), `tasks` the loops that have not ended, `lock` the holder of the flock,
`program` the switch in each process's `MonitorState` and `store` the one in
the file. `Admit` is the middleware and `Perform` the handler, which may run
much later. SIGTERM is `Terminate`, then draining, `CancelSupervisor`, the end
of the tasks and `ReleaseLease`; SIGKILL is `Kill`. `Lease` is its instance of
`LeaderLease`: the holder is `lock`, who trades is who is `Active`, the
recorded switch is `store`.

`BlueGreen` extends `RuntimeSupervisor` with one activation by
`scripts/activate_blue_green.sh`. `script` is the next command, `done` the
flags the EXIT trap looks at, `active` the units systemd keeps running,
`guard` the unit that holds the lease during the first migration. A flag that
is assigned after its command is an action of its own (`RecordedBy`), since a
signal may come between the two. The processes take the steps of
`RuntimeSupervisor`, except that systemd decides when they start and stop. `old`
is the release that `OLD_SLOT` names: the other slot, or, on the first
migration, a legacy service that trades without a lease. A signal may interrupt
the script anywhere; `CandidateForgotten` and `SwitchForgotten` say that it came
between a command and its flag, so that the trap does not know of the command.
`GuardedLease` is its instance of
`LeaderLease`: the members are the processes and the guard, which never trades.

`MakerCoordination` has the holds of `web/state.py` (`holds`, those that have
not expired), a loop per market maker instance (`maker`, its memory `known` of
its orders, the runtime it publishes) and the loops that take holds (`owner`).
A maker's iteration reads the gates and the one hold that
`coordination_hold_for` shows it, then either trades (`LiveSync`, any number of
`Place`, `EndLiveCycle`) or withdraws (`Sync`, `Cancel`, `Resync`) and publishes
whether nothing is left on the blocked sides. An owner acquires or renews,
waits until every affected instance acknowledges it (`Proceed`), reads the open
orders once more (`Guard`) and trades. `Expire` may strike at any moment. The
fields `current` and `sound` are history: they say that the hold meant has
lasted since it was read, which is what "under a valid hold" means for a
property.

`RebalanceCycle` has the coroutine of the task loop (`cycle`), the published
runtime, the `file` at each path and the `path` of the loop, the configuration
(`route`, a pair of markets and a runtime path, and the switch of the task), and
the exchanges (`order`, `traded`, and `stray` for what an interrupted cycle left
open). An iteration starts from `Current`: a changed path makes the loop read
another file, and a runtime of another pair is replaced by a fresh one, as at
`rebalance.py:180-191`. A cycle buys, withdraws and reads the buy, sizes and
places the sell for the confirmed fill, reads both legs, and hedges a confirmed
imbalance in up to `MaxAttempts` orders within `MaxHedge`; the closed orders may
not show what a hedge has filled. `EndCycle` saves what was read when the cycle
began, with `Progress`, `Halts` and the residual that
`apply_rebalance_cycle_to_runtime` computes. `Acknowledge`, `StopAndRelease`,
`Reset` and `Update` are the handlers of the API, possible during a cycle and
with orders open; an update enables or disables the task and may change the pair
and the path. `review` is history: the exposure added since the operator last
looked, the legs that were open then, whether a crash or an edit took the
outcome of a cycle from the task, and the hedge fills that nobody saw.

`AutoBuySellTasks` has the task objects (`task`), the file, the orders at the
exchange, the coroutine that runs the due cycles (`worker`) and one that stops
a task (`stopper`). The cycle recovers intents, reads the open orders and then
the history, checks completion, stop price, open orders and expiry, plans,
submits and records a slice. A count is computed as the code does it: to
`filled` are added the trades that are not yet in `known`, and of the orders
that have newly become final the part that the list of trades does not show; the
list may miss trades, and those it shows late are counted on top. What a retry
of a stop or a stop by price aims at (`worker.target`) is read before its awaits
and written after them. `OwnerUnavailable` is the cycle of a task whose owner
has no exchange runtime, and `Crash` reads the file with the migration of
`stopped_by_price` that `load` performs. The worker changes the same objects as
the API, so `Changed` writes the fields the code writes and keeps the others.
`EndsWith` ends a cycle; the save comes then, or after the cycles of other due
tasks. `overlapped` and `lagged` are history: the tasks that a stop changed
during their cycle, and those for which a list of trades missed some.

`ConfigVersions` has the configuration three times: `memory`, `saved` (the
runtime store) and `history` with its known-good marks. `Save` is
`_save_runtime_store_unlocked`, `Record` and `Pruned` are the history's, and
`WriteFails` is a failed write, or a crash between the two files. Starting an
instance (`StartInstance`, `FinishStart`) awaits a cleanup in between; the loop
of an instance reports what it saw when its cycle began; `guard` and `startup`
are the two guards of `web/routes/control.py`.

The modules `MC...` declare the model values; the `.cfg` files give the
constants. Definitions commented as `Mutant` are the faults each property is
tested against; no specification uses them.

## Runs and bounds

| Run | Configuration | Shows |
|---|---|---|
| `journal` | `OrderJournal.cfg`: one intent with two attempts and one row of an older release, one caller, one recovery that takes a row at a time, one canceler, crashes, a compaction with every reservation, a pacer of any delay, fair | types; an intent attempted once is closed as failed or absent only when no order of it can be live, with the two named exceptions; recorded orders exist; compaction keeps what is uncertain; an open outcome is settled |
| `quarantine` | `OrderQuarantine.cfg`: three intents of one market and two callers, crashes, one recovery, no clock | with two callers that both pass the quarantine before either records an unknown outcome, unknown outcomes of a market never outnumber the callers |
| `supervisor` | `Supervisor.cfg`: two processes, two loops, fair | one trader; only the lease holder writes the store; a dead loop stops the others; a free lease is taken; the abstract lease is implemented |
| `stop` | `SupervisorStop.cfg` | violated, see below |
| `activation` | `Activation.cfg`: blue to green and the first migration, each with a signal anywhere and a crash, fair | an activation, its guard unit included, implements the abstract lease; the candidate does not trade beside the legacy service and nginx ends at a unit that runs, unless a signal made the trap forget a command; the activation ends; a rollback gives the lease back |
| `tasks` | `AutoBuySellTasks.cfg`: one task of two units in slices of at most two, two orders, one crash, lost reply, short list of trades or missing owner, fair | slices never overlap; the total holds and a complete task is done, unless a stop took effect inside a cycle (or, for completion, a list of trades missed some); a waiting task is flat; a pending stop ends, and only when its orders are closed |
| `overrun` | `AutoBuySellOverrun.cfg` | violated, see below |
| `coordination` | `MakerCoordination.cfg`: a task that blocks one side of one market and the rebalancer that blocks both sides of both, two makers, one failing request, fair | who was acknowledged under a lasting hold trades alone; the first owner by name is served |
| `rebalance` | `RebalanceCycle.cfg`: a target and a slice of two, a hedge cap of two in two attempts, two pairs and two paths, one crash or edit | an unreviewed exposure stops the task, unless a crash or an edit took the outcome of its cycle away; progress was bought and sold again; nothing is sold short but for hidden hedge fills; a residual keeps live cycles out |
| `hedged` | `RebalanceHedged.cfg`: the same without crashes and edits | violated, see below |
| `config` | `ConfigVersions.cfg`: two instances, one start and one guard at a time, history of two, two edits, one restart, one failed write, fair | store, history and memory agree; a verified version is left; guards touch only what is theirs; a guarded start does not stay in force unverified |
| `restart` | `ConfigRestart.cfg`: three edits, no faults | violated, see below |

Why the bounds are enough. In the journal an intent interferes with another
only through the quarantine of its market and the limit of a recovery; the
second attempt is where an old request can meet a new one, and a third adds no
new pair. Clock values matter by their order only: the waits are 1 (recovery
wait), 2 (grace period and age of absence) and the travel time 1, so that each
deadline can pass before or after each other one within `MaxTime`, and a pacer
may hold a request past all of them. New calls start only while `AbsentMinAge`
still fits under `MaxTime`, so every run of a call can reach its end. A
`RecoveryLimit` of 1 makes the choice of the oldest rows happen, and
`MaxTerminalRows` of 1 and a `Retention` of 1 make both deletions of the
compaction happen. `quarantine` needs no clock: its three intents are one more
than its callers, a row in flight does not quarantine, and its recovery may
believe an absence at once, which only empties the market sooner. Two processes
are all that an activation has, and the lease is symmetric in them.

Tasks share nothing but the file and the place of their worker, so one task
shows what its cycles, the API and a crash do to it; two orders let an order
that failed to cancel meet the next slice, and a total of two lets each be
filled in part. Two owners and two makers are the smallest system in which a
maker serves one owner while another waits for it; the second market is quoted
on one side, so that a hold can find nothing to withdraw. A target of two in
slices of two has a full cycle, a cut one after a partial fill, and a hedge that
is repeated; `MaxBought` of three lets a second cycle run after a halted or
interrupted one. Two pairs and two paths are enough to leave a runtime and to
come back to it. Two instances are needed for one to change while the other
starts; with a `HistoryLimit` of two a third version makes the pruning choose
between the newest and the known-good one; the third edit of `restart` is the
stop in between.

A run without deadlock check may stop where the program does: at the clock's
bound, when the activation has ended, when the orders or versions of the model
are used up.

Constants that bound the model and nothing in the code: `MaxAttempts` of the
journal, `MaxTime`, `MaxCrashes`, `MaxFaults`, `MaxBought`, `MaxVersions`,
`MaxEdits`, `MaxRestarts`, `MaxIncidents`, and the sets `Orders`, `Requests`,
`Guards`. `FlightTime` and `SearchTime` are properties of the environment: how
long a request that has left may travel, and how long a search may take. The
runs have 1 and 0 (in `quarantine` 0 and 0); the theorems hold for all values.

## Fairness

`OrderJournal`: asyncio runs each ready coroutine, so the steps of callers and
recoveries are weakly fair, and the clock is strongly fair because its bound by
deadlines disables it again and again. A request arrives or is lost. The monitor
starts a recovery while `pending_count` is positive, as its loop does in each
cycle. Crashes stop at some time, and from some time on the exchange answers the
queries of a recovery and the accounts of its intents are configured; without
these an intent could stay open for ever, in the code as in the model, and so it
could behind a thousand older rows that nobody can settle. Cancellation of
coroutines and `cancel_order` are not fair.

`RuntimeSupervisor`: the steps of the supervisor and of the web server's
shutdown are weakly fair. Nothing makes a process start, stop or fail.

`BlueGreen`: the script's commands return or fail (each wait has a timeout),
`flock` in the guard gets a free lease, and systemd starts and stops the units
it was asked to. The failure of a command is never fair by itself: a wait that
cannot succeed can only fail.

`MakerCoordination`: the maker loops run on, and a live cycle ends (`Place` is
not fair); an owner that waits looks at the acknowledgements again, as its loop
does. Nothing is assumed of the gates, of fills, of a renewal, or of an owner
that trades. Failing requests are bounded by `MaxFaults`.

`AutoBuySellTasks`: the cycle goes on (`CycleStep`), and the loop comes back to
every due task; this is strong fairness because the other tasks' cycles disable
it again and again. It assumes that the program and the strategies are not
paused for ever: while they are, the loop does not retry a stop. A cancellation
and a read of the open orders that are tried for ever succeed at last; an
exchange that refuses for ever leaves the stop pending, in the code as in the
model. The API is not fair.

`ConfigVersions`: the guards poll until their deadline, and systemd restarts a
process that died. Operators and the loops of the instances are not fair: a
guard whose instance never reports ends by its deadline.

## Proofs

The modules `...Proofs` hold the proofs, for every value of the constants that
the assumptions of the modules allow.

`TypeCorrect` (orders) is inductive as it stands. `FirstAttempt` needs the
invariant `IInv` of `OrderJournalProofs`, since `FirstAttemptAccounted` looks
only at the row: `OneAttempt` says that all there is of an intent attempted
once is in one place at a time, with the pacer, on the wire or at the exchange;
`OnTime` bounds by the clock how long it can be with the pacer and on the wire;
and `SearchSound` says that a search which began after the last moment of
arrival and found no open order is right for good. The age test of
`AbsenceConfirmed` makes the search that closes an intent such a search. The
theorem assumes nothing about the delays. `OnTime` and `SearchSound` except the
intents in `unaccounted` instead: a request that the pacer let go so late after
its reservation that it can arrive after such a search (`Late`), and an
acceptance that the client reported as a terminal error. A late request is in
`unaccounted` from the moment it leaves; while it still waits, `WaitsTooLong`
names it. Everything else that can delay, lose or cancel a call is covered.
`NeverDropped` follows from the fact that the rows `compact` removes are
terminal ones. `RecordsExist` (`OrderRecordProofs`) needs no assumption on time
and holds for any number of attempts. Its invariant `Placing` says that an
attempt which is not reserved yet has left no trace, and that a request which
has not arrived, with the pacer or on the wire, is the only one of its attempt
and has no order: so an order never opens twice, and one that was seen closed
stays closed. The rest is that answers, searches and cancellations journal
only an order that exists.

`TypeCorrect` (supervisor) carries the fact that no process is both running and
auto-stopped. `MutualExclusion` strengthens `OneTrader` by "who is active, or
in a place that owns the lease, is the holder", which each release of the
lease respects since it waits for the tasks. `HolderWrites` adds that a pending
request exists only at a process that holds the lease; this is where
`EnforceLeaderWrites` is assumed and where draining before the release matters.
`SupervisorsImplementLease` is the refinement: under the same invariant every
step of the processes is a step of `LeaderLease` or leaves its variables alone.
A process that starts to trade does so in the step that takes the lease, and
each step that frees the lease finds no task left. Two theorems bound the
finding `stop`: `StopHoldsAlone` shows that a recorded stop holds wherever a
single process uses the data directory, and `OutOfDateAtTakeover` that a holder
of the lease which agrees with the store goes on agreeing, so that a memory can
be out of date only if it was so when its process took the lease.

`ActivationMutualExclusion` shows that each step of an activation is a step of
`RuntimeSupervisor`, a step of the guard unit, or leaves the processes alone.
`ActivationImplementsLease` composes the two: a step of the releases is a step
of the lease by the refinement above, one of the guard takes or frees it when
nobody trades, and the other commands of the script leave its variables alone.
`FirstMigration` and `ServiceRestored` rest on an invariant that ties the
script's position to the flags, the units and the guard, and hold with signals
anywhere: a signal between a command and its flag is the exception that
`CandidateForgotten` and `SwitchForgotten` name, and the invariant carries it
through the trap.

`ConfirmedHoldsProtect` follows one hold through `MakerCoordination`: while it
lasts, a maker that has read it is on the path that withdraws (`MakerCurrent`),
hence what it publishes is true and stays true, since only a live cycle places
orders and a maker with a hold starts none (`PublishedCurrent`), hence an owner
that found all its makers so is alone. It holds for any number of owners,
makers, sides and failures.

The theorems of `RebalanceCycleProofs` share one invariant. `OrdersOfCycle`
says place by place which orders the cycle has and what it has seen of them.
With it `NotShort` bounds what is sold or may still be by what was bought and by
the hedge fills that no closed order showed (`review.unseen`), also in orders
that earlier cycles left; `ProgressTraded` bounds the progress of the published
runtime, of the one in hand and of every file; and `ExposureKnown` says that,
unless `review.lost`, the exposure since the last review is the outcome of the
running cycle, or blocks the task in all copies of its runtime (`StillBlocked`),
or is none (`AsReviewed`). `ProgressIsTraded`, `ResidualKeepsOut` and
`NeverSoldShort` hold for all constants. `ExposureStopsTask` assumes that the
market makers are coordinated, since otherwise an exception halts nothing.
`review.lost` is what it cannot cover, and says so: a crash before the cycle was
saved, and an edit of the pair or of the path that drops a blocked runtime.

The theorems of `ConfigVersionsProofs` share the invariant `IInv`: the newest
version is kept, some version is the newest known-good one (`SomeNewest`, a
witness that saves an induction over the history; every write and pruning either
keeps it or has a newer one), the copies agree while no storage error is shown,
and the target of each guard and the baseline of each request are ids of the
history (`TargetsAreIds`). `GuardsKeepToTheirOwn` then looks at the only steps
that end a guard: one that was overruled leaves everything alone. The proofs
need no bound on instances, requests, guards or the history. `StaleListsOnly`
bounds the finding `restart`: of all edits, guards, rollbacks and restarts, only
the end of a start can make an instance live unconfirmed, and only with the
setting that the list it made before its cleanup had for that instance.

The theorems of `AutoBuySellTasksProofs` rest on two invariants. `IInv` says
which orders are open: what each copy of a record says of its orders (`Kept`,
which holds of the record in memory and of the one in the file, since a failed
save leaves them apart) and what the worker knows at each place of
`run_due_tasks` (`Sound`): before it plans, no order of the task is open, and
what it has asked to cancel includes every order that still is. Orders are
placed once and closed once (`Ages`), so what was found flat stays so.
`WaitingIsFlat` and `NoOverlappingSlices` follow from it.

`Money` says how much those orders trade. A sum over orders is the number of
their units of base currency (`Units`), so the proofs count elements of finite
sets where a recursive sum would need induction. `Reckoned` holds of every
copy: the trades it knows are trades of its orders, one of these at most is
open, and together they reach at most one slice beyond the total. `Within` adds
the cap itself for the tasks outside `overlapped`; for those outside `lagged`
that the count is not above the known trades; and for those outside both that a
complete record has traded its total. `Budgeted` and `Unfinished` say what the
worker may still order. The argument for the cap is that a count is never below
what the lists show together, and when a slice is planned the orders are closed
and shown: so a trade that is counted twice makes the next slice smaller and
never larger, and `CapRespected` needs no exception for late lists. What they
break is completion, hence the second exception of `CompleteIsDone`. A stop that
takes effect inside the cycle breaks `Budgeted` and nothing of `Reckoned`: hence
the first exception, and hence `OverrunIsOneSlice`, which bounds by one slice
what the counterexample of the run `overrun` can cost, however often it is
repeated.

`UncertaintyBounded` (`OrderJournalProofs`) compares two numbers of elements,
and the comparison is inductive with the types. Every step but `BeginCall`
leaves the intents of a market that are unknown or in the hands of a coroutine
as they are, or takes some away: who becomes unknown was in such hands before
(`SubmitterStep`, `OtherStep`). `BeginCall` adds one, but it passes the
quarantine only while no other intent of the market is unknown, so after it
each of them is in the hands of a coroutine (`BeginCallTakes`). A coroutine has
one intent: that is an injection into `Submitters` (`HeldBounded`). The set of
callers is assumed finite, as the coroutines of a process are; an infinite set
has no number of elements.

Liveness, here `UncertainSettles`, `FailureStopsEveryLoop`, `StandbyTakesOver`,
`RollbackResumesOld`, `FirstOwnerServed`, `StopSettles` (with its action
property `StopKept`) and `GuardedStartSettles`, is model-checked only: it needs
ENABLED, which the prover does not support.

## Divergences from the documentation

Four runs end in a counterexample; each is listed under `findings`.

- `stop`: the program switch is loaded when a process is constructed. A standby
  that started before the leader auto-stopped takes the lease with the old
  switch, trades, and overwrites the recorded stop with its next save.
- `overrun`: `src/README.md:344` says that a task stops when its cap is
  reached. A stop that takes effect during the awaits of a cycle empties
  `open_order_ids`; the cycle goes on with the filled amount it counted before,
  finds no open order, sends a whole slice on top of what the cancelled order
  had traded, and writes its own status over the stop. `CapRespected` and
  `CompleteIsDone` are therefore stated for the tasks without such a stop.
- `restart`: `src/README.md:633` says that a live market maker starts or
  changes only with a preflight token. `api_market_maker` makes the list of all
  instances before it awaits the cleanup of one and writes the list afterwards,
  so another instance that was stopped meanwhile is live again.
- `hedged`: `src/README.md:454-456` says that a cycle whose legs fill by
  different amounts, or of which one fails, records the residual hedge, advances
  no progress and remains halted. With the automatic hedge
  `apply_emergency_hedge_to_fill_status` adds what was sold back on the venue of
  the buy to `sell_filled_base`; the cycle then counts as matched, progress
  advances and the task goes on, although nothing was sold on the other venue.
  `CompletedIsTraded` and `ExposureHalts` are therefore about what the code does:
  such progress was bought and sold again, on either venue, and only an imbalance
  that is left halts the task.

Further behaviours the models reach. Where one sits badly with a sentence of the
documentation the sentence is named; the others are not forbidden in so many
words.

- Repeating an intent after `retry_after` sends it again without a search
  (`order_reliability.py:155`), although `src/README.md:641` promises that it
  "replays or recovers the original order instead of submitting a duplicate".
  That no second order results is left to the exchange, by its check of client
  ids.
- When a list of trades misses some of an order whose fill was counted, the next
  refresh that shows them counts them on top, up to the total, and the task
  completes early: `CompleteIsDone` needs the exception for `lagged`.
  `src/README.md:344` has a task stop when its cap is reached. The test at
  `tests/test_auto_buy_sell_task.py:930` counts a closed order whose trades are
  not listed, and ends before they are.
- The stop of a task that waits for its cancellations is lost when the runtime of
  its owner is missing in one pass (`auto_buy_sell_task.py:817` writes `error`
  over it): the orders stay open and the task trades on when the owner is back.
- A manual stop during the awaits of the retry of a stop by price is overwritten
  by the target that the retry read before them (lines 1107 and 1157), so the
  task waits for its start price and trades again.
- An edit of the pair or of `runtime_path` takes the halt and the residual off a
  rebalance task, also one that is saved during the cycle that then halts
  (`rebalance.py:180-191`; the test
  `test_runtime_progress_persists_and_route_change_resets` expects the reset for
  a new route). `src/README.md:454` lets only a manual review end the halt.
- A hold that expires while its owner executes protects nothing any more, and the
  owner is not stopped (`auto_buy_sell.py:93`): `AcknowledgedMeansWithdrawn` is
  about holds that last.
- Pending intents that no recovery can settle, of an account that is not
  configured for instance, keep their place among the 1000 oldest rows that a
  recovery takes; enough of them would starve the others.
- A refusal of a second attempt (a duplicate client id, say) closes the intent
  as failed while the first order is open, so `FirstAttemptAccounted` is about
  intents attempted once.
- A request that the pacer delays for longer than the age of absence arrives
  after its intent was closed as absent. Within the grace period after a
  restart a reservation without a caller does not quarantine its market.
- `CANDIDATE_STARTED` is set after `systemctl start`. A signal in between makes
  the trap stop the guard and keep the candidate, which then trades beside the
  legacy service: this is the exception `CandidateForgotten`. `NGINX_SWITCHED` is
  set after nginx was switched in the same way (`SwitchForgotten`). The trap
  restores nginx and the old service but not the slot file.
- The fill of a hedge that the closed orders do not show counts as nothing, and
  the next attempt sells it again: `NeverShort` bounds what is sold short by
  `review.unseen`. With one attempt, the default of `auto_hedge_max_attempts`,
  nothing is ordered after a hidden fill in the same cycle.
- Without coordination of the market makers an exception while the sell is
  prepared is an error that does not halt, and the next cycle buys again.
- After a lost reply or a crash before the save a slice trades without its task
  knowing of it, so the caps, and the slices that do not overlap, are stated for
  recorded orders.
- Without a start price a task trades on after its first stop by price, and
  when the price is reached again it waits without cancelling its orders: with
  `HasStart = FALSE` they stay open, so `WaitingIsFlat` is stated for tasks
  with a start price. The other properties of the run hold in both cases.
- The second owner by name may wait for ever for an acknowledgement while the
  first renews its hold, and an acknowledgement that a maker published for an
  earlier hold of the same owner counts for the next one until the maker runs.
- A guard reads the rollback target of a start before the cleanup, so an edit
  that another operator saved during the cleanup is undone with it. When a
  write fails, or the target is a live version that was never verified, the
  start stays in force without a guard or a rollback.

## Only model-checked, and not modelled

Every invariant, action property and refinement of the passing runs is proved,
but for `StopKept`, the part of `StopSettles` that says how a pending stop may
end. It and liveness are left to the model checker alone.

Not modelled, and why: the opportunity scanners, backtests and reports compute
floating-point numbers from snapshots and keep no state; dashboards and the
command line format data; rotation and backup are file I/O; the user workspace
and web security are validated rows of one owner and trade nothing. The paper
engine, the asset ledger and the spot grid wait for their modules. Each is
listed in `PROJECT.json` with its reason.

Abstractions inside the modelled parts:

- Orders: the intent hash is the client id (a mismatch raises before a write),
  amounts and prices are absent, evidence JSON and error text are reduced to
  whether an error is a confirmed rejection. Callers build their client ids from
  the time and counters, so none repeats an id whose row was compacted; a bare
  `reserve` of such an id would submit again.
- Processes: a save of the store succeeds (`ConfigVersions` has the one that
  fails), the journal and the flock are on a local file system, and systemd does
  what the unit file says. The health checks of the activation look at role and
  program switch, as it was read when the script started; `safe_to_replace` and
  the external timers are left out. The guard's sleep of 600 seconds is longer
  than the script, and the commands of the trap succeed.
- Market makers: at most one order per side, and a request of a maker is over
  when its await ends; late ones are in `OrderJournal`. Prices, layers, reprice
  thresholds and the automatic recovery timer are choices of `Place`.
- Rebalancer: amounts are whole units and prices are one, so that quote and base
  amounts are the same numbers; of a configuration the pair of markets and the
  runtime path are told apart, as the fingerprint does; the risk gate is one of
  the ways in which an order is not placed.
- Tasks: a target in base units; time and prices are free choices, and a due
  task may run at any moment. The lists of open and closed orders are exact when
  they are read; the list of trades may miss any of them. Passes while the
  program or the strategies are paused change nothing that is modelled.
- Configuration: the settings of the instances and one value for all that is
  edited in a single step; parsing and validation of values stay out, as do the
  checks behind a preflight token.
