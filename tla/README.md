# Formal verification of Grid-Bot

TLA+ specifications of the trading bot in this repository, the TLC
configurations that model-check them, and TLAPS proofs about them.

The repository holds two generations of the bot. `bot_v2/`, started by
`webhook_server.py`, is the production one and what the modules are about. Of
the first one, `main.py` with the package `src/`, only the persistence (which
`bot_v2` uses) and the grid calculator still run.

## 1. The system

### Components

| component | state | operations | interacts with |
| --- | --- | --- | --- |
| Grid orchestrator (`bot_v2/grid/orchestrator.py`) | `is_active`, `centre_price`, `grid_order_ids`, `_order_metadata`, open long and short lots, session cash flow and counters, last stop and re-invest times | `start`, `stop`, `deploy_grid`, `tick`, `handle_fill`, `_bank_and_reinvest`, `_maybe_restart_grid`, `recover_state`, `_cleanup_stale_lots` | order manager (await), exchange (await), capital manager, callbacks into the bot |
| Bot (`bot_v2/bot.py`) | orchestrators per symbol, positions, halted flag | `initialize`, `run`, the grid tick, `_persist_state`, `shutdown`, signal handling | everything |
| Order manager, order state manager (`bot_v2/execution/order_*.py`) | one `OrderRecord` per order, indexes, a JSON file | create, cancel, list, update, reconcile, prune, archive | exchange; a worker thread writes the file |
| Exchanges (`live_exchange.py`, `simulated_exchange.py`) | resting orders and trades (live); open orders of the store (simulated) | limit and market orders, cancel, `check_fills`; retries in `resilient_call` | order manager, bot |
| Webhook server (`webhook_server.py`) | none of its own | `grid_start`, `grid_stop`, signals, reports, as tasks beside the loop | bot, orchestrators |
| State files (`bot_v2/persistence`, `bot_v2/models`) | `grid_states.json`, positions, capital, histories | load, save, atomically replaced | bot |
| Capital manager, risk managers (`bot_v2/risk`) | capital per symbol under a lock, tier per symbol, portfolio peak | `get_capital`, `update_capital`, promotion and demotion, drawdown check | bot, orchestrator |
| Exit engine, position tracker, trailing stop (`bot_v2/exit_engine`, `bot_v2/position`) | position fields: remaining amount, scale-outs, trailing stop | evaluate, partial close, ratchet | bot |
| Market data cache (`market_data_cache.py`) | entries with ages, candle files with a table of ages, the bot's ATR per bar | get, put, evict, save, load, preload | exchange, bot |
| Persistence (`src/persistence`) | log files, archive, transaction journal | append, rotate, replay, truncate, archive; execute, roll back | state manager, which only appends |
| Legacy bot (`main.py`, `src/oms`, `src/risk`) | order manager, grid map | place, poll fills, reconcile | its own exchange wrapper |
| Filters, notification, monitoring, scripts | indicators, output | pure or I/O only | bot |

### How they run together

The bot is one asyncio program. `run()` loops: portfolio risk check, the grid
tick of every active orchestrator, persistence, periodic reconciliation and
pruning. Webhook commands and `shutdown()` are further tasks; two tasks
interleave at every `await` that really suspends. The live exchange trades at
any time. The process can die at any time and comes back with the JSON files
and whatever the exchange holds.

A grid session goes round in this way: `deploy_grid` places one limit order per
level. A tick asks for the fills, twice: the bot's own pass works from the
order store's open records, and `GridOrchestrator.tick` has a second pass that
works from the ids it tracks. Each fill is booked and answered by a
counter-order one spacing away. When the session is flat, `tick` may bank and
re-deploy (take profit, drawdown), stop (trending market) or re-centre (drift).

### What is hard, and what must hold

1. **Interleaving.** `handle_fill()` and `stop()` have several awaits; commands
   run between them. *An active session tracks every open order; a stopped one
   leaves none.*
2. **Two books.** Ids tracked by the orchestrator, records of the order store,
   and orders on the exchange are updated at different awaits. *They agree
   whenever nothing is in progress; a final status is final; a fill is answered
   once.*
3. **Crashes.** The file is written before the cancels; recovery reads the file
   and the store. *No open order is forgotten by the session that boots.*
4. **Delivery.** Lost replies with retries, failed fetches, fills while a
   cancel is on its way, one order filled in several trades.
5. **Long sequences.** Fills, refills, re-deployments. *The ladder of prices
   keeps its shape; inventory is always covered by resting orders.*
6. **Liveness.** Early returns in `tick()`, retries, a position that goes nowhere.
   *A crossed order is noticed; a tick ends; a position ends.*
7. **Accounting.** Lots are closed first in, first out, partly, with fees, and
   written off when they are old; the cash flow is tested and banked. *The lots
   are a FIFO inventory; the cash flow is what trades and lots say.*
8. **Files behind the memory.** Snapshots are taken under a lock and written by
   threads outside it; pruned records move from one file to another;
   reconciliation reads once and writes over many awaits. *The file catches up;
   no record is lost; no live order is given up; no dead one stays open.*
9. **Competing tasks on one position.** Signals and the monitor act on the same
   record between each other's awaits. *The record says what the account holds;
   every close is booked once.*
10. **Protection.** Stops, targets, scale-outs and time-outs compete on every
   tick, while ATR, quality and decay move the stop. *A stop that has been in
   force is never loosened.*
11. **Two counts of one thing.** Two paths promote and demote a symbol from
   different histories. *Promotion is earned, a tier is deserved.*
12. **Age.** Memory, file and per-bar caches stack on one another. *An answer is
   never older than its bound.*

`PROJECT.json` lists the hazards by line, with the properties that watch them.

## 2. Plan

| order | module | what | composes |
| --- | --- | --- | --- |
| 1, done | `GridSession` | the session: orchestrator, bot tick, order records, exchanges, commands, crash | - |
| 1, done | `GridSession_proofs` | types; final and open orders on either exchange, beside commands and crashes; one counter-order per fill, books, clean stops, final records, inventory and ladder in the simulation | `GridSession` |
| 2, done | `Inventory`, `SessionLedger`, `SessionLedger_proofs` | abstract FIFO of units; lots with amounts, fees, cash flow, banking and capital; all four properties, with the refinement | `Inventory` as refinement |
| 3, done | `OrderStateStore`, `OrderStateStore_proofs` | records, state file, archive, reconciliation; its invariants | - |
| 4, done | `Positions`, `Positions_proofs` | entries, flips, exits and partial closes by signals and by the monitor, market orders; its invariants | - |
| 4, done | `ExitEngine` | what one tick of the monitor decides | - |
| 4, done | `Risk` | capital, tiers, kill switch, grid sizing, portfolio halt | - |
| 4, done | `RiskAndExit_proofs` | the invariants of both, and the action properties of `Risk` | `ExitEngine`, `Risk` |
| 5, done | `Wal`, `Wal_proofs`, `Transaction`, `Transaction_proofs` | the log and its files; transactions, their journal and their manager; their invariants | - |
| 6, done | `MarketData`, `MarketData_proofs` | caches of prices and candles, the ATR per bar; its invariants | - |
| 7 | checkpoints (`wal.py`, `unified_state_store.py`, `shutdown.py`) | a checkpoint against the log it covers | `Wal` |

Abstract specifications worth stating: the inventory as a FIFO of units (done,
and the refinement proved); a log that replays to what was acknowledged. Every
invariant that a run checks is proved; what is left to the runs alone is
liveness (section 12).

## 3. `GridSession`

### State

| variable | code |
| --- | --- |
| `isActive`, `centre`, `gridIds`, `lots`, `hasFills`, `reinvested`, `lastStop` | the fields of `GridOrchestrator`: `is_active`, `centre_price`, `grid_order_ids`, the two lot lists as a signed count, `session_fill_count > 0`, `last_reinvest_time` set, `last_stop_time` with `last_stop_reason` |
| `rawIds` | tracked ids whose `_order_metadata` was restored from the file as plain JSON, with a string for a side |
| `cash` | `session_realized_pnl_quote # 0`; the sizes are the ledger's business |
| `ord[o].st`, `.side`, `.at` | the `OrderRecord`: its status, side and price. `"sent"` is an order that the live exchange has and the store has not recorded yet |
| `ord[o].ex`, `.trades` | the order on the live exchange and the number of trades that filled it |
| `ord[o].kids` | history variable: counter-orders placed for it |
| `pst` | this symbol's entry of `grid_states.json` |
| `pc`, `fr` | where each task is suspended, and its local variables |
| `price`, `crashes` | the environment |

Prices are integers, `Spacing` units to one grid spacing. The code's spacing is
geometric (a level is a percentage away from the centre), so in the code a
counter-order of a counter-order lands a fraction `spacing^2` below the first
price; the lattice leaves that drift out. Every order is one unit.

### Steps

An action is the code between two awaits that can suspend. The labels of `pc`:

| label | suspended in |
| --- | --- |
| `idle`, `off` | `run()` between two iterations; after the loop has ended |
| `candles`, `trades` | fetching candles (`_run_grid_orchestrators_tick`), trades (`LiveExchange.check_fills`) |
| `next` | between two fills of a pass |
| `logging`, `closing`, `adding` | in `handle_fill`: the fill log, the trade-closed callback and the order placement, recording the placed order |
| `guards` | `tick()` about to test its guards after `_maybe_restart_grid` |
| `quote`, `regime`, `place` | in `start` and `deploy_grid`: price, regime check, gathered placements |
| `banking`, `cancelling`, `requote` | in `stop` and `_bank_and_reinvest`: bank call, gathered cancels, price for the re-deployment |
| `listing`, `verifying` | in `reconcile_orders` of a live bot: the exchange's open orders, one record after the other |
| `starting` | a command, or the re-centring, about to call `start` |
| `boot`, `ready`, `done` | before `initialize` and before or after a webhook request |

`fr[p].then` is the continuation: `start`, `stop` and `deploy_grid` are called
from several places, and it says what follows. Awaits that never suspend (an
uncontended lock, an `async def` without an await inside) are not suspension
points; `_persist_state_for_shutdown` and the capital calls are of this kind.

A cancel on the live exchange has two steps: the exchange's answer (`CancelOne`),
which may be a refusal, also of an order that still rests, or may be lost after
the exchange has executed it; and, for a confirmed one, the record (`RecordCancel`,
`acked` in between). A cancel that failed leaves the record OPEN, and `stop()`
forgets the ids all the same. Reconciliation takes the open records, asks for
the exchange's list (an error counts as an empty one) and then, record by
record over many awaits, writes OPEN, a final status or STALE (`Verdicts`),
whatever has become of the record meanwhile.

`Tick`, `Lifecycle(Loop)` and `Reconciliation` are the bot's loop, `Lifecycle(w)`, `WebStart(w)` and
`WebStop(w)` a webhook request, `Environment` the market, the exchange's
matching, lost replies and the death of the process.

External outcomes (a failing call, the regime verdict, the sign of a profit, a
cooldown that has passed) are nondeterministic and can be switched by the
constant `Events`, so that a run contains exactly the ones its question is
about.

### Bounds

- `Id` is the set of order ids. `PruneArchive` returns the id of a final record
  that no task, file or book names to the pool, so runs are not bounded in
  length: there is no bound on ticks, fills or re-deployments.
- `Spare`: a tick waits until that many ids are free. A placement needs a free id (`Fresh # {}`).
- `MaxTrades` trades per order, `MaxCrashes` deaths, one request per member of
  `Webs`. `kids` saturates at 2.
- `Prices` is the set of market prices. Two prices (in the gap and one spacing
  and a half below) give every branch of a grid of one buy and one sell level;
  `sim_ladder` has three, adjacent levels of a grid of one sell and two buy
  levels, so that a pass can find two orders crossed.
- `sim_ladder` leaves the take-profit re-deployment to `sim_session`: with it
  one tick can need more new ids than the pool holds, and the loop would wait
  for ever where the program does not. Without it six ids suffice: with seven
  ids and `Spare = 4` TLC reaches the same number of distinct states.

### Fairness

`FairSpec` has weak fairness of the loop's next step, reconciliation included, because `run()` is an
asyncio task that always reschedules itself, each of its awaits has a timeout
or a bounded retry, and errors of a tick are caught in the loop; and of
`PruneArchive`, which the loop starts every few minutes (it stands for the
archive being bounded, so that ids come back). Nothing is assumed of the
market, of the exchange or of commands.

### Runs

| run | instance | question |
| --- | --- | --- |
| `sim_session` | simulated, one level on each side, every event of a tick | Do the books agree between ticks, is every fill answered once, does a stopped grid leave no order, is a final status final? |
| `sim_ladder` | simulated, one sell and two buy levels, three prices, fair | Does the ladder keep one order per level and one gap, is the inventory what the resting orders would close, and is an order that stays crossed eventually noticed, with the early returns of `tick()`? |
| `sim_faults` | simulated, two webhook requests, one crash | Does an active session forget an open order, wherever the commands and the crash fall? |
| `live_faults` | live, one webhook request, one crash, two trades to an order, lost replies, refused and lost cancels, failing fetches, reconciliation | Does anything rest on the exchange that the store shows as final, but the remainder of an order that has traded? |

In `sim_faults` the two requests are interchangeable (`SYMMETRY AnyWeb`): no
definition distinguishes members of `Webs`, each chooses its own command, and
the property is an invariant.

`OneCounterPerFill`, `StoppedGridHasNoOrders` and `BooksAgree` are checked in
the simulation without commands, and do not hold beyond it: section 13 says
how. `OpenOrdersAreTracked` is the part that survives commands and crashes, as long
as no placement is refused and no take profit re-invests meanwhile: TLC checks it
in the simulation, `NoOrderIsForgotten` proves it for the live exchange too. It relates
the session to the store: an order whose placement lost its reply is in neither. An order whose counter-order
exists, or which the exchange has filled or cancelled, is exempt there: it is
handled, and only its record waits to be closed.

`OnlyRemaindersRest` names what the code really leaves behind. The bot's pass
records FILLED at an order's first trade, and the rest of it goes on resting;
nothing cancels it later, because `stop()` cancels open records only. In
`live_faults` two orders of two trades let a pass find one of them traded and the
other whole, and let the request and the loop cancel the same order; the
exchange fills a resting order at any moment, so one level is enough.

## 4. `SessionLedger` and `Inventory`

`SessionLedger` is the money of the same session, with amounts, where `GridSession`
has only signs: `longs` and `shorts` are `_open_long_lots` and `_open_short_lots`,
`cash` is `session_realized_pnl_quote`, `capital` the symbol's entry of the
capital file. Its loop handles fills (log, pair, book, report each closed
trade), writes off stale lots, tests take profit and drawdown on a flat session,
banks, re-invests, stops; a `grid_stop` command runs beside it (`web`); a crash
loses lots and cash and keeps the capital. The orders are left out: any fill of
any side, price and size may come, which is more than the ladder would produce.

Pairing is one loop without an await in `_pair_fill_into_closed_trades`; it is
taken lot by lot (`pc = "pairing"`) with every other task disabled, which makes
each step one step of the FIFO below. Money is counted in `1/Scale` of a price
unit, so fees are exact integers; the code uses `Decimal`.

`Inventory` is what the lots promise: a sequence of units on one side, each
with its entry price. A fill on the other side closes the oldest units, at a
profit of the price difference; old units may be forgotten; a restart empties
it. `Units` maps every lot to that many units, and `ImplementsFifo` says that every
step of the ledger is a step of the FIFO or a stutter.

| run | instance | question |
| --- | --- | --- |
| `ledger` | two prices, sizes 1 and 2, four fills, one stop, one crash | Are partial closes first in, first out; do lots stay on one side; is the cash flow the closed trades' profit less the open lots' value, with the fees as booked? |

`MaxFills = 4` lets a fill of two close two lots of one, a lot of two be closed
in halves, and a short follow a long; the other bounds allow one stop and one
death anywhere. The run needs no fairness.

Seen on the way: a buy's fee lowers the cost that is booked and a sell's fee
raises the proceeds (`CashFollowsTrades` states the identity with the signs of
the code); `stop()` banks without a reset; writing lots off leaves their cost
in the cash flow of a session that now counts as flat.

## 5. `OrderStateStore`

`orders` is `_orders["orders"]` with the status of each record, `file` and
`archive` the two JSON files, `exch` the orders on one live symbol. A task
changes `orders` and takes its snapshot `snap[p]` in one step, because it holds
`_lock` for both and does not await in between (`Commit`); `SaveSync(p)` is its worker
thread renaming the temporary file over the state file. The tasks are the loop
(places, records fills, reconciles), webhook commands (place, cancel), and
pruning tasks, which the loop starts and does not await. Statuses are kept as
the code spells them: the exchange's `CANCELED` is not among the statuses that
are pruned, so such records stay for ever.

`reconcile_orders()` is `ReconcileStart` (read `local_open`), `FetchOpen`, then for
each order `CheckListed`, or `LookUp` and `Settle`, with a save in between where a
status changes. The look-up's `REJECTED` is none of the final statuses it knows, so
the record of an order that the exchange dropped becomes STALE like one that is
not found. Retention (24 hours) is `Aged`: nothing that a task holds still
shows an earlier state of the record. A crash empties the memory and every
task, and `_load()` takes the file.

| run | instance | question |
| --- | --- | --- |
| `store` | two orders, loop, one command, one pruning task, up to two failures among query, save, append, crash, fair | Does the file lag only after overlapping or failed saves; is any record lost; is a record given up without a failed query or a rejection; is a dead order eventually not open in the store? |

There is no bound but `MaxFaults`: every id is used once and its status can
change only finitely often. Two orders are needed so that the saves of one
fall into the reconciliation of the other. Fairness: the loop's next step of
reconciliation, since `run()` comes back to `_run_periodic_reconciliation` every
five minutes in live mode and its awaits end, and the writer threads.

`LateFileMeansOverlap` says when the file may lag, and that the lag never
outlives the next save that runs alone. Seen on the way: a failed query for
open orders is taken as an empty list, and then even an order whose look-up
says that it is open is marked STALE; a reconciliation that started before a
cancel sets the record back to OPEN, until the next one; two pruning tasks
side by side can lose archived records (`NothingLost` fails with two members of
`Pruner`).

## 6. `Positions`

The directional positions of one symbol; records of different symbols share
nothing but the file. `pos` is `positions[symbol]`, `file` the saved copy, `queue`
the signal queue, `count` the daily counter of the order manager, `held` the
account on each side (the exchange is in hedge mode). `run()` gathers
`_process_signals` and `_monitor_positions`, so there are two tasks: the signal
task that holds the symbol's lock, others waiting for it, and the monitor, which
takes no lock. Each is a chain of awaits: `task[t].pc` says which one it is
suspended in and `task[t]` keeps what it read before. `SignalNext` and
`MonitorNext` are the handlers of `bot.py` (entry, flip, exit; partial and full
close), `TaskNext` the order manager and the exchange below both: retries, the
daily limit, refusals, short fills and replies that are lost.

The debounced save of the positions is a choice at each point where the code
may or may not have written. `Followed` is a bound: once something that can make
the record differ from the account has happened (`cause`), no new signal,
partial close, restart or midnight comes; what is under way ends. The property is about
the first such cause, so nothing it says is lost. `MaxFaults` is shared by the
exchange and restarts.

| run | instance | question |
| --- | --- | --- |
| `positions` | entries of two parts, two signals, a daily limit of one, one fault or restart, fair | Between two ticks, does the record say what the account holds, but for the listed causes; is every close booked once; does every tick end? |

Two signals and the monitor give every pair of tasks on one record, including
flip against exit and partial close against exit; an amount of two gives a
partial close. A limit of one is reached by the entry, so that every close meets
it. Fairness: one weak condition on the loop and its tasks together. The event
loop goes on while any of them can, since every await of an order ends by a
reply, an error or a time limit; no order among the tasks is assumed.

## 7. `ExitEngine`

One tick of `_monitor_positions` on one position: `Measured` (tracker), the
activation and the ratchet of the trailing stop, `EvaluateAllExits` with the
conditions in the order of the code, and what the verdict does to the record.
The await of the closing order is in `Positions`; here it is answered or refused
(`Tick(TRUE)`, `Tick(FALSE)`). Long and short are one position in hundredths of
the initial risk R, a tick's price is one of `Moves`, and the current ATR one of `ATRs`.
Ages are the classes the code tells apart. The bar-close checks are switched
off in the code and left out; the minimum notional is an amount (`MinAmount`).
The pullbacks of the aggressive peak exit are constants: 3 %, and 5 % in the first
three minutes after TP1a, in the run, as `StrategyConfig.from_dict` has them where a
configuration is silent (the dataclass itself says 15 %).
`best` is a history variable: the tightest stop that was in force.

| run | instance | question |
| --- | --- | --- |
| `exit` | the default strategy's thresholds, five prices, two ATRs, partial closes down to the minimum, fair | Is a price at or beyond the tightest stop always answered by a full close; is the rest after TP1a never carried below break-even; does every position end? |

The prices lie on each side of every threshold, and the ATRs give a distance
of the stop both narrower and wider than at entry. Fairness: time passes, and a
position of absolute age is evaluated on a tick whose order is not refused, as
the loop ticks every open position for as long as it is open.

## 8. `Risk`

`capital` and `tier` are the capital file, `directional` and `grid` the two trade
histories, `killed` and `peak` what is only in memory. `Metrics` is
`calculate_metrics`, `Classified` the classifier with hysteresis; `AtSignal` and `AtClose`
are the two writers of the tier, with a different history, window and initial
capital. A directional close appends to the history, credits and reclassifies in one
step: nothing is awaited between. A grid trade's close is two: `GridTradeCloses`
appends it, a thread writes the history, and `GridTradeCredited` credits and
reclassifies after a signal, a `grid_stop` with its banking or a shutdown may
have gone between; what the process had not credited when it ended never is
(`ClosesAreLost`), and its trade may be in the file. The portfolio is evaluated
between two rounds of the loop (`BetweenRounds`). Grid stops, re-investing,
`PortfolioHalts`, `PersistState`, `Shutdown` and `Restart` are the callers in the
orchestrator and the bot, as far as they move capital or start grids.
`calculate_grid_params` is pure (`ActiveLevels`, `OrderSize`) and checked in every
reachable state.

Money is in whole dollars and ratios are compared by cross-multiplication, so
nothing is rounded but an order's size and a position's leverage, half to even
as Python does (`Rounded`). Left out: the settings
loader, Kelly, heat and drawdown scaling of a position's size (the sizes are
not the property), the cache of metrics, the notification of a change, and that
two symbols' threads may write their copies of the grid history in either order.

| run | instance | question |
| --- | --- | --- |
| `risk` | one symbol, three tiers, results of -30 and 20, four trades, one banked session, one restart | Does a grid always fit its capital; is a promotion earned over `MinStay` trades, with the two counts that disagree by at most one; does a close leave the symbol in a tier it deserves? |

The constants are scaled to the four trades: promotion after a stay of three,
windows of four and three, demotion with a buffer. One symbol is enough for
the tier, because symbols share only the sum of the capitals, which the halt
reads; that halt is reached with one.

## 9. `MarketData`

`cache` is the ordered dictionary (least recently used first), `parquet`, `meta` and
`metaFile` the candles on disk and the table of when they were fetched, `atrCache`
the bot's ATR per bar. A piece of data is the time at which the exchange had
it; `told` is the kind and age of an answer. `Miss` starts a request and
`PriceArrives`, `CandlesArrive` end it, for any data between asking and now, so two
tasks can be answered in either order. `FromMemory`, `FromDisk` are the answers
without a request; `PreloadPrice`, `PreloadCandles` start-up; `DiesInSave` a death
between the writes of `save_ohlcv_to_disk`. `MaxAge` is timeframe times the staleness
multiplier, `Timeout` the time limit around a fetch, within which the retries of
`resilient_call` fall.

Three kinds of key: a price, the candles of the grid tick (which preload shares,
at a timeframe of one hour) and those of the ATR. The bot's own `_price_cache` is
off by default; ticker entries, `invalidate` and `clear` have no caller; pruning of
the ATR table at 100 entries concerns only its size.

| run | instance | question |
| --- | --- | --- |
| `market` | two tasks, one symbol, two entries, clock up to 3, one failed write, one restart | Does the dictionary keep to its size with no key twice; is an answer never older than its bound; is an ATR kept per bar within the bound as well? |

Two entries for three keys make every insertion of the third evict. The clock
reaches past every time to live and past the file's bound. The two tasks are
interchangeable (`SYMMETRY`); there is no liveness.

## 10. `Wal`

Every method of `WriteAheadLog` holds its lock from end to end, so each is one
step. `log` and `archive` hold lines; a line carries its file, which is named by
the second it was begun in (`clock`), and its place in the order of all writing
(`at`), so a replay reads them by file and place (`Before`). `AppendEntry` includes
the rotation and the removal of old files; `AppendFails` is an open, a write or an
fsync that fails, with half a line, or a whole one, left behind. `TruncateAll`,
`TruncateFails`, `ArchiveCurrent`, `ForceRotation` are the other operations, `Crash` the death
between two calls. `ArchiveFails` archives some of the files only: one that cannot be
opened, copied to the end or removed stays, with any beginning of it in the
archive, as after a death in the middle of archiving. A line in the archive
carries the second of its copy, which is in the copy's name. What each call logged is told apart by its number (`op`).

The bot's `StateManager` only appends. It never replays, archives or truncates:
those are offered to tools, and checked as what they promise.

| run | instance | question |
| --- | --- | --- |
| `wal` | files of two lines, two kept, four appends, two failures, two truncations or archivings, one restart | Does a replay keep the order; is what was acknowledged read back from files and archive; do the newest entries survive rotation? |

Four appends fill two files and begin a third, in one second or several. The
conditions under which a property is stated (`gone`) are what really takes lines
away: a truncation rewrites the entries it keeps into the current file and
leaves the others, after which they are read twice (`"copy"`); a file begun and
archived again within one second replaces its first copy (`"replaced"`, unless
that file had stayed); removal
by age ignores checkpoints (`"cleanup"`).

## 11. `Transaction`

`StateTransaction`, `TransactionJournal` and `TransactionManager`. `pc[t]` is where the
thread of a transaction is: body, running or undoing operation `at[t]`, after
`execute()`, reporting, left. A body may call `execute()` itself as often as it
likes (`MaxTries` bounds it), after a failure and after a commit, for `execute()` has
no guard; it may raise before or after that, and `__exit__` executes again what is
not committed, or anything at all when the body raised. The list of operations
is fixed: additions between two calls are left out. Other threads
time out, recover and clean up (`Others`), and the process may die. `effect` counts
how often an operation is in effect, `commits` the calls that committed, so that
"all or nothing" is said call by call: a second call after a commit runs
everything again and is as much all or nothing as the first. Transactions share
nothing but the lock of the journal, so one is enough for TLC; the theorems are
for any number.

| run | instance | question |
| --- | --- | --- |
| `txn` | three operations, the middle one without rollback, up to three calls from the body and one at its end, three failures, a timeout, one crash | Is each operation in effect once per call that committed, but for the named exceptions; does the journal tell the truth? |

No code of the bot begins a transaction yet; `StateManager` builds the manager.

## 12. Proofs

Eight modules hold the proofs, each for every value of the constants that its
module's assumption allows. Every invariant named here was checked by TLC on
the run of its module before it was proved. Two general remarks. Prover and
library have no induction that can be instantiated with a formula; where a
proof needs one (sums over lots, minima), it takes the least counterexample
(`LeastOf`, from the well-foundedness of the naturals). And fairness and liveness
are out of reach.

**`GridSession_proofs`** has six parts. The first is used by all; the second allows
anything to run beside the loop; from the third on, each adds an invariant.

1. `TypeCorrect`, with webhook requests, crashes and either exchange. `TypeOK` is
   not inductive; `TypeInv` adds `TradesLeft` (an order still open on the exchange
   has traded fewer than `MaxTrades` times, or `ExchangeTrades` would leave the
   range) and `CurrentFill` (while a fill is handled, `cur` is an order).
2. `NothingElseRests` and `NoOrderIsForgotten`, with commands, crashes, partial fills,
   failing cancels and either exchange. A record becomes final by a cancel the
   exchange confirmed, by reconciliation, or by a fill that the loop noted down
   earlier; `GoneInv` says that what it has noted (`fills`, and `cur` while a fill is
   handled) has traded or rests no more, that a cancel waiting for its record
   (`acked`) is cancelled there, and that both stay so (`Keeping`), whatever runs
   before the record is written. `NoOrderIsForgotten` is for sessions that
   remember (`Remembering`): no placement is
   refused, and no take profit re-invests. `TrackInv`: an order the store holds
   open without a counter-order, and not cancelled on the exchange, is tracked,
   or some task is placing it, or it is the one being handled or its
   counter-order (`InHand`). A reconciliation can set a record back to OPEN, but
   only one that a command has cancelled since it began (`ListInv`). Both
   hypotheses are needed, TLC shows: a counter-order refused in the second pass leaves the
   filled order open and untracked, and `_bank_and_reinvest()` forgets what a
   stop and a start deployed while it was cancelling.
3. `OneCounter`, under `Simulated`: the simulated exchange, no webhook requests, no
   crash. `OnceInv` says which labels the loop can be at (`Control`); that the fills
   still to be looked at, with the one being handled, are exactly the open
   orders that the pass's price has crossed (`PassInv`); that the order being
   handled is one of them (`CurrentInv`); and which orders may have a
   counter-order already (`KidsInv`). It rests on `CounterNotCrossed`: a counter-order
   is a spacing away on the other side, so the same price does not cross it,
   and the second pass finds nothing.
4. `TheBooksAgree`, `StopsCleanly` and `FinalStays`, under `Tidy`: `Simulated` and the stop
   policy `cancel_open_orders`, the default. Between ticks the tracked ids are the
   open records; during a fill they differ by the order being handled and the
   one just placed (`InFill`), and while orders are cancelled or placed the local
   list is the set of open ones (`InTurn`).
5. `InventoryCovered`, under `Reliable`: `Tidy` without refused placements and without
   lots written off. `StockInv` counts the open buys and sells against `lots`, with
   the order being handled, and the levels a deployment has still to place,
   on the right side of the account.
6. `LadderKeepsShape`, under `Whole`: `Tidy` without refused placements. During a pass of
   several fills the ladder has several gaps and several orders on one rung, so
   `ShapeInv` looks at it as it will be: each order that the pass's price has crossed
   stands where its counter-order will (`After`). Seen so, the shape changes only
   when the price arrives, and no step of a fill moves it: the counter-order takes
   the place of the order it counters (`ShapeSwapped`). When the price arrives
   the gap moves to the lowest rung above a price that fell through buys, or
   the highest below one that rose through sells, and what lies between moves
   one rung (`BuysCross`, `SellsCross`), however far the price jumps. A rung is a
   whole number of steps from the centre (`RungSteps`, `NextRung`), and a deployment
   fills the levels around it one by one. After the first pass nothing open is
   crossed, so the ladder that was foreseen is the one there is (`NothingCrossed`).

The hypotheses are where the properties hold. An order filled in two trades
refutes `OneCounterPerFill` on the live exchange and a crash between placement and
record refutes it in the simulation; the policy `keep_open_orders` leaves orders
on a stopped session by design; a refused counter-order or a dropped lot does
leave inventory without a resting order. Every event of the run `sim_session`,
or of `sim_ladder` for parts 5 and 6, is allowed by them, and part 2 allows those of
`live_faults` and `sim_faults`, and more.

**`SessionLedger_proofs`** proves the four properties of its run. `LedgerInv` adds
to type and `OneSided` that a fill in progress has a price. `CashIsAccounted`:
`CashFollowsTrades` is inductive with it and with `dropped \in Int`, once it is shown what
appending, reducing or removing a lot does to `Value`, a recursive sum
(`ValueAppend`, `ValueTaken`). `LotsAreFifo`: `ImplementsFifo`, step by step. A round of the
pairing loop is `Close`, whose recursive `Gain` over equal units is a product
(`GainOfBlock`); a lot that opens is `Open`, which needs that no fill is larger than
the orders (`FillIsSmall`); a clean-up is `Forget`, or a stutter when nothing is old;
re-investing and a crash are `Restart`. Closing m units of the oldest lot takes
the m oldest units (`UnitsTaken`), whether the lot goes or stays.

**`OrderStateStore_proofs`** proves the four invariants of `store` for any number of
orders, commands and failures. `LateFile`: with `SerialSaves`, unless saves have
overlapped or failed there is at most one under way and it writes what is in
memory. `StaleOnlyAfterFailure`: with `Grounded`, which follows the working list through
the awaits: orders on it were placed before the exchange was asked, so one that
is not listed is final or rejected, and stays so until its verdict is recorded. The records
in memory, on disk and in every snapshot are of orders that were placed, which a
crash needs. `RecordsAreKept`, assuming `OnePruner`: with `Accounted`, nobody else replaces the archive
between a pruning task's read and its write, and the batch is non-empty until
it is in the archive.

**`Positions_proofs`** proves `TypeCorrect`, `ClosesBooked` and `RecordAgrees`. Each task is a
record whose fields depend on where it is suspended (`Shapes`), and `TypeInv` says
which shapes each task can have, that an id names one record, and that nothing
runs between ticks. `BooksInv` follows record and account through the awaits
while no cause has come up: what a task read is the record it will act on or
one that is gone (`ReadOK`), an executed order accounts for the difference
between record and account (`Held`, `ExecutedOK`), and only the holder of the lock
enters (`LockOK`). Once a cause has come up nothing is claimed, as in the property.

**`RiskAndExit_proofs`** holds two components that decide with numbers, and the
lemmas about minima, maxima, sums and quotients that both need. Of `ExitEngine`
it proves `TypeCorrect`, `StopsNeverLoosen` and `NeverBelowBreakEven` for every
strategy, set of prices and size. The properties speak of the last verdict only;
what carries them from tick to tick is `StopsHold`: some stop in force is as tight
as the tightest there ever was. The trailing stop only ratchets, the soft stop
only moves up to break-even and stays in force once the first minute is over;
and the conditions that close everything come first in the engine.

Of `Risk` it proves all four properties, for any number of symbols, trades and
tiers. `RiskTypeCorrect` needs that the loader returns a table: that the tiers of
the file have distinct ranks, so that sorting loses none (`RankOK`), and that a
profit, a loss and a streak of any window are counts. `PromotionsAreEarned` rests on
`CountsOnce`: the counter of a tier is at most one ahead of what has ended in it,
and not ahead while a directional trade is there that no classification has
seen, so a signal cannot count twice in a row. `TiersAreDeserved` goes through the
branches of `classify()` (`ClassifiedDeserves`): the profit factor is monotone in its
threshold, so who qualifies for a tier deserves every later one. Its
hypothesis is `Ordered`: requirements of trades and profit factor do not rise
along the table, and the last tier has none. The loader only warns when the
profit factors are not in order (`adaptive_risk_manager.py:231`); the tiers it
ships, its defaults and the run's (`MCOrdered`) are. `GridsFit` is arithmetic: the
levels are no more than the capital carries at the minimum size, because that
is tested against the minimum of levels first, and rounding adds half a cent a
level (`OrdersFit`).

**`MarketData_proofs`** proves `TypeCorrect`, `FreshAnswers` and `FreshAtr` for any number of
tasks and symbols and any times to live. `MarketInv` bounds the age of each copy:
an entry was stored at most a request's time after the exchange had it, no
request is waited for longer than its timeout, and neither table of ages, in
memory or on disk, is ahead of the candles it describes by more than that. That
the dictionary keeps its size with no key twice is part of it (`CacheOK`).

**`Wal_proofs`** proves the four invariants of `wal` for any number of appends, files,
failures and restarts. `InOrder` needs that the file being written is the last by
name and that places follow the files. `AckedReadBack` is a count: of each cut write
either the half line is still the end of a file, or it hides the one entry
that was written onto it (`HiddenOK`). `RecentKept` is a pigeonhole argument: without
failures every file holds acknowledged entries only, and a rotation that
removes a file leaves `Keep` later ones, each with an entry (`Plain`).

**`Transaction_proofs`** proves `TypeCorrect`, `JournalCorrect` and `AllOrNone` for any number of
transactions, operations and failures. `TInv` follows each transaction through
any number of calls: every operation is in effect at least once for each call
that committed, and once more while the call under way has executed it and not
yet undone it; an outcome is in the journal only once it has been reported, after
which nothing runs. `AInv` makes the count exact for what is always undone
(`Exact`), and bounds it by the calls for the rest (`OncePerCall`). A step about
one transaction leaves the others as they were, so each action is argued for its
own only.

Every invariant, action property and refinement of the runs is proved, under
hypotheses that the run itself satisfies. Only model-checked: the liveness
properties, `CrossedOrderIsResolved`, `ClosedOrdersAreNoticed`, `TickEnds` and `EndsAtLast`.

## 13. Known divergences

What the code does against what its documents, comments or tests say, as seen
while modelling. None is asserted by a run; where a property would fail, its
statement names the exception.

- An order filled in two trades on the live exchange is handled twice and gets
  two counter-orders (`live_exchange.py:615`; `plan/fix-counter-order-dedup-1.md:27`).
  Its record is FILLED after the first trade, so no stop cancels the remainder,
  which goes on resting on the exchange.
- A cancel that is refused or not answered leaves its record OPEN
  (`order_manager.py:567`), while `stop()` forgets the tracked ids and the session
  counts as stopped; the order can trade until the next start takes it over.
- When the exchange's open orders cannot be fetched, the list counts as empty
  (`order_state_manager.py:512`): orders that rest become STALE if their look-up
  fails too or finds them open, and no stop cancels them any more.
- A reconciliation that began before a command's cancel overwrites CANCELLED
  with OPEN (`order_state_manager.py:618`).
- `handle_fill` tests `is_active` on entry only: a `grid_stop` during its awaits
  leaves the counter-order open on a stopped session (`orchestrator.py:1357`).
- A start in a trending market leaves an active session without orders or
  centre, which nothing deploys ("Will retry on next tick", `orchestrator.py:465`).
- Only active orchestrators are ticked (`bot.py:3126`), so the restart in `tick()`
  is not reached for a stopped one. `tick()` also returns before its drift check
  while a lot is unmatched, and with `keep_open_orders` a re-investing session
  forgets the orders it keeps.
- `_bank_and_reinvest()` clears the tracked ids after its cancellations
  (`orchestrator.py:852`), those of a grid that a stop and a start deployed in the
  meantime included; and a counter-order that is refused in the second pass
  leaves the filled order open, tracked by nobody (`orchestrator.py:1384`).
- A process that ends while a thread writes the grid history (`bot.py:3041`) may
  leave a closed trade in the file whose result is in no capital after the restart.
- The profit of a closed trade is added to the capital when it closes and again
  with the session's cash flow (`orchestrator.py:659`; plan: "Must preserve capital
  accuracy across grid restarts").
- A rejected order is marked STALE, "not found on exchange", because REJECTED is not
  among the terminal statuses (`order_state_manager.py:549`).
- Two saves of the order state may land in the wrong order
  (`order_state_manager.py:339`; `tests/test_order_state_manager.py:70`).
- After a portfolio halt a restart starts the grids again: the reason is written
  with a space and searched for with an underscore (`orchestrator.py:422`), and the
  periodic save drops it.
- Promotion and demotion rules are at the top level of
  `config/adaptive_risk_tiers.json` and read from `settings`
  (`adaptive_risk_manager.py:58`): as shipped, no hysteresis applies. `Risk` takes
  them as constants.
- The kill switch is forgotten by a restart, and its drawdown starts from the
  current capital.
- A scale-out is never flagged, because the engine's reason is not the name
  compared in `bot.py:2282`; it is repeated until the rest is too small.
- Candles expired in memory come back from the file for up to two timeframes
  (`market_data_cache.py:438`; the test of this in `tests/test_cache_ttl.py` is nested
  in another and never runs); replacing an entry evicts another one first; an
  older price may replace a newer one, for one time to live.
- `execute()` of a transaction has no guard (`transaction.py:152`): called again after a
  commit it runs everything again, and called again after a failure it runs what
  could not be undone a second time, so that a commit can leave an operation in
  effect twice ("All operations committed or all rolled back", `transaction.py:116`).
- Sequence numbers of the log begin again at 0 after a restart; a truncation
  duplicates entries.
- The legacy bot divides a float by a `Decimal` when it sizes a counter-order and
  reads an attribute that risk actions do not have.

## 14. Not modelled, and why

- The legacy bot: `main.py` imports `src.data`, which is not in the repository,
  and its tick fails at `main.py:234`; there is no behaviour to be faithful to.
- Checkpoints, the unified store, shutdown handling, integrity checks and
  validation of `src/persistence`: planned (section 2).
- Signals before they are queued, the v2 exit engine and the NY breakout
  buffer: one message or one series at a time, or not used by the bot.
- Balances, precision and statistics of exchange and order manager: numbers
  that no modelled decision reads.
- Filters and the regime detector: numeric indicators without state; their
  verdict is a nondeterministic choice.
- Notification, monitoring, logging, reports, back-tests and scripts: output
  that no trading decision reads.
