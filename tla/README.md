# SuperTradingSystem: specifications

TLA+ modules for the trading core of this repository (`src/backend/app`), TLC
configurations that check them on small instances, and TLAPS proofs of what
matters most for every instance. Paths below are relative to
`src/backend/app` unless they start with `docs/` or `src/`.

Contents: [1 the system](#1-the-system) · [2 plan](#2-plan) ·
[3 the modules and the code](#3-the-modules-and-the-code) ·
[4 runs](#4-runs) · [5 fairness](#5-fairness) ·
[6 findings](#6-findings) · [7 proofs](#7-proofs) ·
[8 what is not modelled](#8-what-is-not-modelled)

To check a module: `tlc -config orders.cfg MCOrderLifecycle` (the table of
[runs](#4-runs) names the module of each configuration). To check the proofs:
`tlapm TradeLockProofs.tla`, and likewise `OrderLifecycleProofs.tla`,
`RiskGateProofs.tla`, `OptionsBatchProofs.tla`, `ProtectiveStopsProofs.tla`,
`AutoTradeProofs.tla`, `SessionRotationProofs.tla` and `MarketDataProofs.tla`, which
is about `CandlePipeline`, `SmcAnalysis` and `Scanner`.

## 1 The system

Two operating-system processes share one Postgres and one Redis
(`src/docker-compose.yml`):

* the **API process**: FastAPI on one asyncio event loop. Every `await` is a
  point where another request's coroutine runs. Orders, options strategies,
  cancels, halts, broker connections, sessions, replay and the WebSocket relays
  live here, and so does the reconciliation pass (`trading/live_reconciliation.py`),
  because the order books it compares with are in this process's memory.
* the **worker process** (`workers/main.py`): supervised loops for the market-data
  feed, candles, the scanner and the auto-trade supervisor.

| Component | State | Operations | Meets |
|---|---|---|---|
| Trade lock (`core/redis.py:358-430`, `api/orders.py:150-235`, `workers/auto_trade_worker.py:585-831`) | an `asyncio.Lock` per user; the Redis key `trade_lock:<user>` with token and expiry | acquire with a deadline, release by compare-and-delete | both processes, Redis, the two engines' books and their rows |
| Order manager and execution (`trading/order_manager.py`, `trading/execution.py`) | orders by id and by idempotency key, with their events | create, transition, submit | broker adapter, orders table |
| Orders table (`trading/persistence.py`) | `orders`, `order_events`, `positions`, `trades` rows | persist, rehydrate | every process start, every rebuild of a stack |
| Trading stack cache (`api/orders.py:93-372`) | one `_UserTradingStack` per user: order manager, positions, day and week counters | create, rehydrate, roll at midnight, replace when the broker account changes | broker connections, the simulated broker |
| Risk gate (`risk/*`) | limits, kill switches; reads the stack's counters | size, evaluate | orders, options, paper engine |
| Protective stops (`trading/protective_stops.py`) | `protective_order_id` of a position | ensure, cancel | broker, positions, halt |
| Reconciliation (`trading/reconciliation.py`, `workers/reconciliation_worker.py`) | none of its own | read the broker, compare, halt, notify | broker, stack, Redis, notifications |
| Options strategies (`api/options.py`) | a batch of legs, each an order | execute, remediate | order manager, halt |
| Auto-trade supervisor and paper engine (`workers/auto_trade_worker.py`, `paper/engine.py`) | engines by strategy and instrument, one position book and one risk window per user, the last candle seen by each pair | process a candle, exit, defer, journal | trade lock, candles, halt |
| Candle pipeline (`workers/candle_worker.py`, `market/aggregation.py`) | the forming candle of each instrument | tick, close, store, announce, derive | Redis channels, `candles` |
| Scanner (`workers/scanner_worker.py`, `strategy/*`) | `setups` and `signals` rows | analyse the stored series, journal detections, write signals | candles, analysis, relays |
| Analysis (`smc/*`, `ict/*`) | none: a function of a candle list, called on a growing one | analyse | scanner, replay, backtest, engines |
| Supervision (`core/supervision.py`) | backoff, heartbeat keys | restart, beat | workers, health checks |
| Sessions (`auth/service.py`) | `sessions` rows with refresh-token hashes | login, refresh, logout, revoke | WebSocket relays |
| WebSocket relays (`api/websockets.py`) | an open socket, its token's expiry, a recheck timer | handshake, relay, close | sessions, Redis channels |
| Broker connections (`api/brokers.py`, `brokers/upstox/oauth.py`) | accounts, OAuth state keys | connect, callback, disconnect | stack cache |
| Replay (`replay/*`) | a clock over stored candles, a paper engine, a mirror row | step, jump, reset | `replay_sessions`, analysis |
| Paper sessions (`api/paper.py`) | an engine per session in memory, a mirror row | start, candle, stop | paper engine |

### What is hard

1. **Two processes, one account.** A manual order and an automatic one each gate
   on an exposure that the other is about to change.
2. **A lease that is not renewed.** A slow holder trades next to its successor and
   must not release the successor's lease.
3. **A broker that does not answer.** A request may have been executed, may still
   be, or may never be; and every retry is a new order unless something remembers
   the key.
4. **Memory that is rebuilt from rows.** The order book, the idempotency index, the
   day's and week's counters, the simulated balance and the positions all die with
   the process, at any await.
5. **A second order at the broker.** A protective stop fires on its own, at any
   moment, while the program is withdrawing or replacing it.
6. **A pass that reads without a lock.** Reconciliation compares two remote reads
   with a book that handlers keep changing.
7. **Halts.** Every path that cannot prove the account safe ends in a halt, and
   each of the calls that make the halt may itself fail.
8. **A pass that marks before it acts.** The auto-trade loop marks a bar as seen
   before it knows that the account is free, and several engines share one budget.
9. **Limits that must not trap.** The gate that stops an account from losing more
   must let every exit through, whatever tripped.
10. **Chains of calls that each may raise.** A closing candle is stored, announced
    and derived from, a scan commits row by row; an exception anywhere drops the
    rest and the next tick or pass starts over.
11. **Overlapping transactions.** Two refreshes of one token, or a refresh and the
    containment of a reuse, see each other's rows only at commit.
12. **Look-ahead.** The analysis is worked out again on each bar; anything it uses
    before it could be known is taken back later, after it was traded on.

### What makes each component correct

* Trade lock: at most one trader per account; the account's exposure stays within
  its limit; nobody deletes another's lease; every caller is answered unless
  its own process hangs; a dead holder wedges nobody.
* Orders: one key, one order at the broker; only transitions of the table; the
  trail in the database is a walk through them; the day's cap survives restarts; a
  cancelled order is dead at the broker.
* Risk gate and stack: counters say what the journal says, through midnights and
  restarts; what was approved is what is taken on; an exit always passes; the
  simulated cash follows the P&L.
* Stops: outside a halt every open position has exactly one stop of its size; never
  two.
* Reconciliation: a difference is never left standing in a trading account.
* Options: a combination that is only partly held is unwound or halted, never
  silently kept.
* Auto-trade: every bar that breaks a stop closes the position; the cap holds over
  all engines and restarts; a loss that was booked counts after a restart; a trade is
  journaled against the strategy and version that opened it.
* Candles: one bar per bucket, its values those of its ticks; derived bars are those
  of their base bars.
* Analysis: what one bar reports, no later bar takes back.
* Scanner: every detection journaled once, every change of a matching strategy
  signalled, no bracket the wrong way round.
* Sessions and relays: a refresh token works once; reuse revokes everything; a relay
  ends soon after its session.

## 2 Plan

In this order; the modules marked done are in this directory.

| Module | What | State |
|---|---|---|
| `AccountGate` | abstract: an account gated atomically | done |
| `TradeLock` | the lock of both processes; implements `AccountGate` | done |
| `TradeLockProofs` | type, exclusion, exposure, waits, releases, refinement | done |
| `OrderLifecycle` | orders, keys, table, restarts, broker | done |
| `ProtectiveStops`, `ProtectiveStopsProofs` | stops, fills, reconciliation, halts | done |
| `OptionsBatch`, `OptionsBatchProofs` | legs one after another, unknown fates, unwinding, halt, retries | done |
| `OrderLifecycleProofs` | type, the lock on every path, legal transitions; one submission per key, the faithful trail and mirror, the cap, dead cancels | done |
| `AutoTrade`, `AutoTradeProofs` | the unattended loop with its engines, journal and restarts | done |
| `SessionRotation`, `SessionRotationProofs` | refresh, reuse, logout, relays | done |
| `CandlePipeline` | ticks to bars to derived bars, with failures | done |
| `RiskGate`, `RiskGateProofs` | sizing, every check, counters across midnight and restarts, the simulated cash | done |
| `SmcAnalysis` | the analysis over a growing series | done |
| `Scanner` | passes over that series: detections and signals | done |
| `MarketDataProofs` | complete candles, derived bars; an analysis that retracts nothing and is exact, journals that follow it | done |
| `Supervision`, `ReplayMirror`, `PaperSessions`, `BrokerConnection`, `StrategyVersions` | smaller machines | not written |
| `StrategyOutcome` | abstract: a strategy is held, undone, or its account halted; implemented by `OptionsBatch` | not written |

Every module keeps recursive operators out (folds, sequence operators and recursive
functions instead), takes its parameters as CONSTANTS with named assumptions, and
has one action per operation, so that it can be proved about as it stands.

## 3 The modules and the code

`PROJECT.json` ("map") names the lines of every definition. What follows is how
to read them.

### Faults and lapses

Most modules carry a history variable `lapses`, the set of things that went wrong
of the kind the code itself reserves its promises for (a lease outlived, a write that
raised, an order interrupted between the broker and the table). A property states
under which lapses it holds; everything not in its list may happen and the property
holds all the same. `faults` bounds how many faults a behaviour has, where the state
space would be infinite without a bound.

### AccountGate and TradeLock

One action of `TradeLock` is one stretch between two awaits. A caller goes
`idle → queued → polling → inside → approved → traded → done → idle`; the worker's
pass starts at `polling`, since no other coroutine of its process competes.

| Code | Model |
|---|---|
| `serialize_user_trading` waits for `_TRADE_LOCKS[user]` | `Request`, `EnterProcessLock`; `queue` |
| `acquire_trade_lock`: `SET NX PX`, deadline | `Acquire`, `GiveUp`; `lease`, `left` |
| a Redis error while polling: 503 or deferral, or `trade_lock_fail_open` | `PollRaises`; the command may have landed |
| exposure: own book plus `load_open_position_notionals_elsewhere` | `CurrentExposure` |
| `RiskEngine.evaluate` approves an entry; an exit is clamped | `ApproveEntry`, `ApproveExit` |
| `ExecutionEngine.submit` and `apply_fill` | `Fill`, `Decline` |
| `persist_position` | `Persist`, `PersistRaises` |
| `release_trade_lock` (compare, then delete) | `Release`, `ReleaseRaises` |
| PX expiry and the passing of time | `Tick` |
| a process dies; its book comes back from its rows | `Crash` |

`FailOpen` is the set of processes that run with `trade_lock_fail_open`, which each
reads from its own environment. Exposure is a count of units: only sums and
comparisons with the limit matter.

`AccountGate` has no lock: each engine records an order in one step that checks the
whole account. `TradeLock` refines it with `manual` and `auto` mapped to the two
engines' rows; after a lapse the abstract gate promises nothing.

### OrderLifecycle

One user, one UTC day. `stack` is the cached `_UserTradingStack` (order book and
counters), `rows` the tables, `venue` what the broker really holds for each key,
`loose` the requests nobody waits for any more. An idempotency key stands for its
order. `own` is the stack object a handler holds: `_stack_for` may replace the
cached one under it.

| Code | Model |
|---|---|
| `place_order` up to the gate | `BeginPlace`, `Refuse` |
| `create_order` deduplicates by key | `Submit`, `Dedupe` |
| the broker's answer, mapped by the adapter and `ExecutionEngine.submit` | `Accept`, `Reject`, `GatewayError`, `Unanswered`, `PlaceRaises`; `Receive` moves order and counters |
| `cancel_order` | `BeginCancel`, `CancelConfirmed`, `CancelFails` |
| `persist_order` appends events by count | `Save`, `SaveRaises`; `Written` |
| `_stack_for` rebuilds | `Restored`, `Rebuild`, `Crash` |
| the venue on its own | `Late`, `VenueFills` |

### RiskGate

The other half of `POST /orders`: numbers instead of order states. One account, its
stack, its simulated or connected broker, the tables, the UTC day.

| Code | Model |
|---|---|
| `_stack_for`: rehydrates positions, the day's and the week's counters and the cash of a simulated broker | `Build`, `Rebuilt`, `WrittenToday`, `WrittenThisWeek` |
| the window rolls when a request finds another day | `Enter`, `Rolled` |
| `is_reducing`, sizing, the clamp of an exit | `Reducing`, `PositionSize`, `Quantity` |
| the proposal and `RiskEngine.evaluate`, every check of it | `Proposal`, `BalanceChecks`, `CountChecks`, `ExecutionChecks`, `LiquidityChecks`, `Approved` |
| exposure of the account and of what moves with the symbol | `CurrentExposure`, `CorrelatedExposure` |
| where the broker fills: a limit order at its price or, at a connected broker, better; a market order at the order's price, or where the market is | `BrokerPrices` |
| fill, book, rejection counter | `Fill`, `Taken`, `Applied`, `BrokerFilled`, `BrokerRejects`, `Refuse` |
| the stop `place_order` puts at the simulated broker after a fill; one through its trigger fires as it arrives | `Left`, `Triggers`, `Protected` |
| order, position and trade rows, then the day's P&L | `Record` |
| midnight at any moment, the process dies at any moment | `Midnight`, `Crash` |

Which order a request is matters only from the gate on, so it is chosen there; what
the world is like at that moment (halted, killed, stale or missing quotes, thin
volume, an unhealthy broker, a price jump) is one of `Conditions`. Requests are
served one at a time and each is a new key: the lock and the resends are the two
modules above. The gate measures a market order at the price the caller names, which at
a connected broker may be off the quote by `max_entry_deviation_pct` and off the fill by
anything; `FillsWithinLimits` is therefore stated but for what the broker charges above
that price. The stops of a connected broker are the subject of `ProtectiveStops`, and
`max_position_size`, which no account has by default, is left out.

### ProtectiveStops

One position, its stop and the reconciliation pass. `book` is the `PositionRecord`,
`row` its row, `bq` and `stops` the broker's side. The handler's steps are those of
`place_order` after the gate: fill, journal, withdraw the old stop, verify that it
is gone when that call raised, place the new one, halt and notify when the position
is not verifiably protected, save. The pass (`ReadOrders … Tell`) runs between any
two of them. Stops fire and end on their own. An entry that the broker only acknowledges
(every order of `UpstoxBroker`) and fills later is left to `OrderLifecycle`: here an
order fills as it is answered, or is refused, or is not answered.

### OptionsBatch

One multi-leg strategy of one user, with every retry of it. Calls hold the user's
lock, so there is one call at a time; its steps are the stretches between awaits.
`start` is what is held but for the strategy: before it, and by the user's other orders
since. `approved` is what its first call was approved for, `book` and `saved` the
positions in memory and in their table, `real` what the broker holds. The batch id is a
hash of the request, so a retry meets its own keys in `orders`; a leg's key names its
contract.

| Code | Model |
|---|---|
| halt check, `is_reducing`, the risk gate | `Begin`, `Refuse`; `Reduces` |
| `_submit_leg`: clamp, create, submit | `Size`, `Send`, `Dedupe` |
| the broker's answer | `Fills`, `FillsPartly`, `Acknowledges`, `Rejects`, `Unanswered`, `SubmitRaises` |
| `persist_order`, `persist_position`, what the leg newly opened | `SaveOrder`, `SavePosition`, `NewlyOpened`, `WriteRaises` |
| `_remediate_partial_batch` | `Intact`, `NothingReached`, `Remediate`, `Unwound`, `Halt`; its "nothing left to unwind" cannot be reached while calls are serialised and has no action |
| between two calls the user trades the same contracts by other orders | `Elsewhere` |
| the reconciliation pass halts the account, at any await; an administrator resumes it; the process dies | `HaltElsewhere`, `Resume`, `Crash` |

Its lapses are `partial` (an order filled in part), `resting` (acknowledged, not
filled yet), `raised` (an exception left the call), `interrupted` (the process died in
it) and `resumed`. `UpstoxBroker.place_order` answers SUBMITTED, which is recorded
as ACKNOWLEDGED, so at that broker every leg is `resting` when the call judges it;
the properties that exclude `resting` speak of brokers that answer with the fill.

Two legs on one contract share their key (`api/options.py:997`): the second is taken
for a repeat of the first, is never sent and counts as established with it.
`IntactMeansExecuted` and `NothingKeptQuietly` are therefore stated of strategies that
name each contract once (`EachContractOnce`); the run has a strategy that does not,
for the other properties.

A call reads the halt once, before its first leg (`api/options.py:822`). One that comes
while the call is under way does not bind it, and `HaltedOnlyReduces` is stated of the
calls that began under a halt. Not here: a protective stop that `POST /orders` left
resting on one of the contracts. `_submit_leg` neither withdraws nor replaces it, and at
the simulated broker the leg's own premium may fire it (`api/options.py:400`).

### AutoTrade

The worker's loop over one account. `seen`, `pos`, `window` and `stamps` are the
worker's memory (`_last_candle_seen`, the shared `PositionManager`, the shared
`RiskWindow`, `_opened_at` with `_opened_version`); `rows` and `journal` are the
tables they are rebuilt from.

There are two days in it. `RiskWindow.roll` goes by the bar's timestamp, forwards only,
and trades are journaled under their bars' days (`opened_at`, `closed_at`); `day` is the
wall clock, which dates a position's row and by which a restart rebuilds the window. A
bar may be of today or of any day since its pair's last one.

| Code | Model |
|---|---|
| a pass reads the halt and the active strategies, once | `StartPass`; `pass`, `todo` |
| no bar, a bar already seen, a stale feed, a halted flat account | `Skip` |
| mark the bar, take the lock, feed the engine | `Take`; `Boot` builds book and window with the account's first engine |
| the account is busy, or Redis is unreachable: unmark | `Defer` |
| `PaperTradingEngine.on_candle`: exit first, else an entry through the gate | `Exit`, `NoEntry`, `Enter`; `GateOpen`, `Rolled`, `Counting` |
| the position's row, then the trade's, against the opener's stamp | `Save`, `Journal`; `OwnerKey`, `StampOf`, `CurrentVersion` |
| any write raises, the pass ends there | `WriteRaises` |
| the pass ends (the report of unmanaged positions, which changes nothing a property reads, is left out) | `EndPass` |
| bars close, the feed stops, days pass, users switch, edit, halt, resume | `NewBar`, `FeedStops`, `NextDay`, `Switch`, `SwitchStrategy`, `Edit`, `HaltOrResume` |
| the worker dies and starts again | `Crash` |

A bar is its number, its day and the sides of the open bracket it touches. What changes
while a bar is being processed is read at the next look, as if it had come just after
(`Between`); settings and halt, which a pass reads as it begins, change between passes,
and an edit at any moment, because the version is read late. Midnight may also fall
between a bar's decision and its first write. Its lapses are `restarted` (the worker died),
`unwritten` (a write raised, or the worker died before one) and `late` (a bar behind the
window opened or closed a position).

### CandlePipeline

Ticks of one instrument. A candle is the set of ticks it was made of, which
determines its prices, so a repeated or a lost tick shows.

| Code | Model |
|---|---|
| a tick is bridged: latest price first, then the candle worker | `Arrive`, `Repeat`, `SetPrice` |
| older than the forming bucket, same bucket, newer bucket | `Drop`, `Form`, `Store` |
| publish the closed candle, derive and publish each timeframe it completes | `Announce`, `Derive`, `Tell`; `Aggregate` |
| the tick opens the next candle | `Reopen` |
| `bucket_start` with the session's offset, midnight for days (weeks are never derived from ticks) | `BucketStart`, `CompletesBucket` |
| any call raises; the bridge logs it and takes the next tick | `Raises` |
| the feed ends and is subscribed to again, from ticks already seen | `FeedEnds`, `Resubscribe` |
| the worker dies | `Crash` |

`due` is the set of places in `derived_timeframes` that are still to be derived, and
`NextDue` the first of them, which is the order of the loop.

### SessionRotation

One user's sessions, requests in transactions of their own, and sockets. `claimant` is
the row lock a claiming `UPDATE` holds until its transaction ends; `revoked` is the
committed state.

| Code | Model |
|---|---|
| login | `Login` |
| `refresh_session`: decode, claim by a conditional UPDATE, issue, commit | `BeginRefresh`, `Claim`, `Issue`, `RollBack` |
| reuse: revoke every session of the user, committed by the audit entry | `Detect`, `Contain`, `ContainRaises` |
| logout and revoke | `BeginEnd`, `End` |
| a socket's handshake, the recheck timer, the token's expiry | `Handshake`, `StartRelay`, `Recheck`, `CloseRelay` |
| time | `Tick`, which stops at the next timer |

### SmcAnalysis and Scanner

`SmcAnalysis` is `SMCEngine.analyze` as a function of the candles so far (`Analyze`),
with the opening ranges of `ICTEngine`, called again on each `Bar`. Swings, breaks of
structure, shifts, fair value gaps, order blocks with their mitigation, previous day
and week levels, equal levels, sweeps and the dealing range each have an operator of
the source's name or close to it. Scans that keep a state along the way in the code
are recursive functions here (`StructureEvents`, `Shifts`, `Fill`), each with its step
as an operator (`BreaksOf`, `Promote`, `FillBy`), or a fold (`EqualLevels`).

`Scanner` adds the worker that reads such a series: `Pass(n)` is `run_once` up to the
call that raises, after the setups and the first `n` strategies were committed;
`NewSetups` is `_persist_new_setups` with its query, `Signalled` is `_evaluate` with
its comparison with the latest row, `Evaluate` is `StrategyEngine.evaluate` with
`EntryAndStop` and `WrongSide`, `Holds` is `evaluate_condition`, and `IsStrategy` is
what the DSL's validators let be stored. No other code writes these two tables, so a
pass counts as taken at its reading of the candles.

## 4 Runs

Faults of all kinds a module has are enabled in every run of it; the bounds are the
smallest for which each interesting interleaving exists.

| Run | Module | Question | Bounds and why they suffice |
|---|---|---|---|
| `tradelock` | `MCTradeLock` | Does the lock exclude, is the limit kept, do releases and waits behave, does it refine `AccountGate`? | two handlers (one in the lock, one queued) and the worker; a lease of two ticks, so that it can expire before, during and after a holder's work; a limit of two and orders of up to two, so that two entries can break it. The API runs fail-open and the worker closed, so both answers to a Redis error occur. Faults and crashes unbounded. |
| `tradelock_live` | `MCTradeLock` | Is every call answered while its own process does not hang, does an orphaned lease end? | lease and orders of one: liveness does not depend on their size. Both processes closed on errors. |
| `orders` | `MCOrderLifecycle` | Do the state machine, the keys, the table and the day's count agree through every failure? | two keys, so that the count and the index can disagree; two handlers; a cap of one order a day, with one key that only reduces and is not capped; two faults, so that a second one can meet the recovery of the first. |
| `stops` | `ProtectiveStops` | Is the position protected or the account halted, and is a difference found? | quantities −2..2, so that a partial exit, an add and a flip exist; two stops and one fault. |
| `options` | `MCOptionsBatch` | Is a strategy held whole, undone or halted, and does a retry keep it so? | two contracts; a spread, legs of unequal size, a spread of two lots (so that a leg can fill in part), and two legs on one contract; every start position in −1..1, so that legs open, add, reduce, close and flip; two faults, of which a resume and another order of the user are one each, so that a failed call can be retried after a crash, a resume or a leg closed elsewhere. |
| `autotrade` | `AutoTrade` | Is every broken stop honoured, do cap and journal survive restarts, who is a trade journaled against? | two strategies on one instrument, so that one opens what the other closes; caps of one; two bars, so that a bar can be overtaken; two days, so that a counter can roll and a bar of yesterday be traded today; bars that break the stop or touch nothing (a target comes to the same but for the sign of the P&L); a limit of two losses, which two bars cannot reach: the cap on entries is what binds; two versions; one fault and one change, in any place. |
| `candles` | `MCCandlePipeline` | Are closed candles complete and derived bars theirs? | eight minutes from a session that opens at minute 1, in days of four, so that buckets are offset; timeframes of two and four minutes, so that one close completes both, one or none; five ticks with gaps anywhere; repeats of up to two ticks; two faults. |
| `candles_gap` | `MCCandlePipeline` | Does every bucket that traded get its bar? (It does not: see [Findings](#6-findings).) | the same. |
| `sessions` | `MCSessionRotation` | Does one rotation win, does a reuse end everything, does a relay end? | two requests (one may claim while the other contains), three sessions (one before, one during, one after), one socket, three ticks with a lifetime of two and a recheck of one. |
| `riskgate` | `MCRiskGate` | Do the counters follow the tables, is an exit open, is what was approved what is taken on, does the cash follow? | two symbols that move together, one of them held short by the other process; orders at two prices around one stop, at the market or limited, so that the stop is on the wrong side of half of them and fires as it is placed; a market that makes one price, so that a connected broker fills off the order's; three days in weeks of two, so that a day and a week end; three orders, so that an account can lose, be stopped and exit; two builds, so that a restart follows trading; every limit small enough to bind. |
| `analysis` | `MCScanner` | Is anything reported taken back, do early-ending scans give what their definitions say, do the scanner's journals follow? | every series of up to seven bars of five shapes, chosen so that shifts, inverted dealing ranges, partly filled and spent zones of both kinds, rejected sweeps of levels and of equal highs and lows, and two breaks on one order block all occur; swings of one bar on each side; days of three bars, weeks of two days; three strategies, one of each entry type; passes over the last two bars, ended or not, any number of times. |
| `options_partial` | `MCOptionsBatch` | Is an account halted whenever anything executed? (It is not: see [Findings](#6-findings).) | one batch is enough. |

`CHECK_DEADLOCK FALSE` stands where the model's own bound ends it: a series of bars,
of ticks or of days is over.

Each property of a passing run has a mutant in `PROJECT.json`: a plausible bug
(a dropped NX, an index that is not restored, an error path that keeps the lock, a
query that leaves its first moment out), under which the property fails. The mutated
forms stand in the modules, marked `Mutant:`, just before the definitions they
replace.

## 5 Fairness

An awaited call is not owed an answer by the code everywhere: the Upstox client has a
timeout (`brokers/upstox/adapter.py:105`), but the connections to Redis
(`core/redis.py:42`) and Postgres (`database/session.py:32`) set none, and nothing wraps
these awaits in `wait_for`. What is assumed of them is therefore said with each module.

* `TradeLock!FairSpec` assumes only that time passes (`Tick`): the expiry of a lease is
  Redis's; and that the event loop runs the coroutine whose `asyncio.Lock` is free
  (`EnterProcessLock`). That awaited calls return is not assumed of the system but stated in the
  property, process by process (`AwaitsReturn`): `HangStaysInProcess` says that a process
  whose own awaits return answers all its calls though the other one hangs for good
  with the lease. A hang in a process does keep that process's queue waiting.
  Requests, faults and crashes are never owed.
* `ProtectiveStops!FairSpec`: weak fairness of the handler's steps and of the pass, which
  `trading/live_reconciliation.py` runs in a loop that survives every exception. That
  the calls both await return or raise is an assumption; one that hung in the pass would
  end reconciliation.
* `AutoTrade!FairSpec`: weak fairness of `Pass`, the loop's own steps as a whole: the
  supervised loop starts another pass whatever the last one raised, and the same
  assumption on its awaits. No bar, day, restart, change or fault is owed, and within a
  pass no pair is owed before another; `StopsHonoured` holds because a pass comes round
  to every pair.

The other modules are about safety and state no fairness.

## 6 Findings

Two runs check a statement of the repository and find it violated. `PROJECT.json`
("findings") quotes the lines.

* `options_partial`: `api/options.py:584` says "the account is halted [...] whenever
  anything executed". A partly filled leg is neither established nor unknown, so when
  the other legs are rejected or fill in part too, line 598 returns as if nothing had
  reached the exchange: the position stays and the account trades on.
* `candles_gap`: `workers/candle_worker.py:198` and `:226` say of a bucket with missing
  minutes that the bar is to be written all the same. `_derive_timeframe` does so, but
  it is called only when the base candle that closes is the last of its bucket (line
  155): when just that minute does not trade, the bar is never written.

Behaviours the models have and no property forbids, or that lie beside them, because
the code makes no promise about them, or one it reserves. Orders and books:

* an order in flight when its stack is replaced, or when the process dies before
  `persist_order`, may be sent twice (lapses `rebuilt`, `interrupted`);
* an order whose write raised is in the day's count and not in the rows that rebuild
  it (lapse `unsaved`);
* a gateway's error status is booked as REJECTED although the request may arrive
  (`GatewayError`);
* the check on repeated rejections applies to exits too, and the counter changes only
  after an order passed it: once tripped, nothing but a rebuild of the stack ends it
  (`risk/engine.py:309`, `api/orders.py:928-930`); `ExitAlwaysOpen` is stated below it;
* the simulated broker's positions die with its process, so closing what was restored
  realizes nothing in its cash (`brokers/mock.py:48`); `CashFollowsJournal` is stated
  while the two agree;
* a stop that is through its trigger already fires at the simulated broker as it is placed
  (`brokers/mock.py:233`), and the book does not hear of it: cash and broker position move
  and no trade row does. Two such stops can bring the two positions together again with
  the cash off for good, so `CashFollowsJournal` exempts a broker where one has fired;
* a market order of a simulated account fills at the order's price or, when a portfolio
  read has marked the position meanwhile (`api/orders.py:464`), at that mark; the gate
  measured the former;
* a request that straddles midnight counts on the day it was asked and is journaled on
  the day it was written (`trading/persistence.py:583-585`), which is the one
  difference a restart may make to a counter;
* `place_order` does not ask on which side of the entry its stop is; read-only
  endpoints call `_stack_for` without the trading lock.

Stops, reconciliation, options:

* a stop order that is not answered leaves no id; the halt lets an exit of half the
  position pass, and that exit places a second stop (`protective_stops.py:205`);
* a pass during an ordinary close halts the account over the stop that is being
  withdrawn: its caller hands it the open positions only
  (`reconciliation_worker.py:98`, against `reconciliation.py:123`);
* a write that raises between a fill and its stop leaves a bare position in an account
  that is not halted (`ProtectiveStops`, lapse `unsaved`);
* a pass that read the broker before a fill and the book after it halts an account
  whose two sides agree; a halt whose notification raised is never notified later;
* a second leg on the same contract is taken for the first one's retry, since a leg's
  key is the batch and the symbol (`api/options.py:997`);
* a strategy whose legs other orders have closed since is answered `strategy_intact` when
  the identical request comes again, with nothing held: each leg meets its order in the
  state its fill left it in. `api/options.py:351` asks whether the combination exists "at
  the broker now"; `IntactMeansExecuted` says what the answer does tell, that it was
  executed;
* an account halted while a strategy is under way still gets its remaining legs.

Worker:

* the lock is released in a `finally` that also runs when a write raised
  (`auto_trade_worker.py:819-820`), so the other process may read rows that miss a
  fill (`PersistRaises` then `Release`);
* a position whose pair was not fed in a pass is reported unmanaged, also when the pair
  was only deferred (`auto_trade_worker.py:440`, `:235`); the report is not modelled;
* a bar behind the window (another pair's bar is of a later day already) counts its entry
  and its loss on the window's day and journals them on its own, so a restart rebuilds
  the window without them, although `trading/persistence.py:670` says that "summing
  the journal reproduces the counter exactly". Both restart properties of `AutoTrade`
  exempt it (lapse `late`);
* a journal write that raises loses an entry and a loss for the rebuilt window
  (`auto_trade_worker.py:795`, lapse `unwritten`);
* a tick repeated after a restart reopens its minute and overwrites the stored row, and
  a repeated tick counts its volume twice (`candle_worker.py:93-107`); the properties of
  `CandlePipeline` are stated for a process that has not died;
* two breaks that share an order block leave two rows in `setups` when one pass sees
  both, and one when an earlier pass saw the first; a signal whose publication raises
  is in the table and never on the channel (`scanner_worker.py:233-235`).

Sessions: a rotation that commits after a containment's UPDATE took its snapshot
survives it; a logout with a token that was rotated already changes nothing.

Analysis: only the latest visible swing of a type is looked at for a break, not the most
recent unbroken one; a bar that is both a high and a low is broken once for both; a gap
straight past a zone does not spend it; the dealing range can be inverted; the opening
range of a day whose data starts late is that one bar; equal-level pools and the
strength of an order block do change as the series grows, so `NothingRetracted` leaves
them out.

## 7 Proofs

Nothing is assumed but the named ASSUMEs of the modules, which TLC evaluates on every
run. Every theorem is checked to its last leaf.

`TradeLockProofs` proves, for any set of handlers, any lease and waiting time, any
limit and order size, and any choice of fail-open processes:

| Theorem | Statement |
|---|---|
| `TypeCorrect` | `Spec => []TypeOK` |
| `LockExcludes` | `Spec => []MutualExclusion` |
| `HandlersStaySerialized` | `Spec => []HandlersSerialized` |
| `ExposureBounded` | `Spec => []ExposureWithinLimit` |
| `NobodyWaitsInVain` | `Spec => []WaitCoversHold` |
| `LeasesEndByTheirOwner` | `Spec => OnlyOwnerReleases` |
| `LockImplementsGate` | `Spec => GateSpec` (initial states and steps of the refinement) |

Assumptions: the four named ASSUMEs of `TradeLock` (the worker is no handler; the
lease lives at least one tick and the wait is no shorter; limits are natural
numbers). None of the properties is inductive alone. The invariant is `IInv`:

* `QueueInv`: the queue has no repetitions, holds exactly the handlers that are not
  idle, and whoever is past it is its head. Serialisation of the handlers follows
  from this alone, which is why it survives every failure of Redis.
* `TokenInv`: until a lease has been outlived, a caller with a token holds the lease,
  and until someone entered without one, a caller in its critical section has a
  token. Exclusion follows, since a lease has one owner.
* `PendingInv`: what is approved is bounded by the order size and, for an exit, by
  what is held.
* `BookInv`: without lapses, a book differs from its rows only while its caller
  stands between fill and write; both sums are within the limit; an approved
  entry still fits. Here exclusion is what makes the gate's reading of the other
  engine's rows current at the moment of the fill.

`Init`, each action and each conjunct have a step of their own; the refinement
needs `IInv` for the one step that changes the rows, `Persist`.

`OrderLifecycleProofs` proves, for any finite sets of keys and handlers, any limits and
any number of faults:

| Theorem | Statement |
|---|---|
| `OrdersTypeCorrect` | `Spec => []TypeOK` |
| `LockAlwaysFollows` | `Spec => []LockFollowsHandler` |
| `TransitionsLegal` | `Spec => []NeverIllegal` |

Assumptions: the four named ASSUMEs of `OrderLifecycle` (the sets are finite, "nobody" is
no handler, exits are keys, limits and bound are natural numbers). That no transition is
illegal is not inductive: it rests on `WorkInv`, which says that a handler resuming
from an await finds the order it left in the state it left it in (SUBMITTED while it
waits for the placement, SUBMITTED or ACKNOWLEDGED while it waits for the cancel), and
`WorkInv` rests on the lock (`AloneAtWork`) and, for `Rebuild`, on the handler's
keeping the stack object it started with. The type of an order rests on `WorkInv` in
turn: only an existing order is ever moved.

Its second half builds on that invariant, under the same assumptions:

| Theorem | Statement |
|---|---|
| `CancelledOrdersAreDead` | `Spec => []CancelledIsDead` |
| `TableTrailFaithful` | `Spec => []TrailFaithful` |
| `KeysSubmittedOnce` | `Spec => []OneSubmissionPerKey` |
| `TableMirrorsBook` | `Spec => []MirrorAtRest` |
| `CapHoldsAllDay` | `Spec => DailyCapHolds` |

Three invariants carry them. `BidInv`: an order in the book, in the table or in a
discarded stack names an order that is at the broker, dead if it says so; the venue only
adds orders and never revives one. `TrailInv`, until a stack is replaced under a handler:
the trail in memory is a walk through the transition table, and the row's is a beginning
of it, so the events `persist_order` adds by count are exactly the missing ones
(`WrittenExtends`), after a failed write as well. `MirrorInv`, until anything goes wrong:
each order of the book was sent once; book and table differ by the order in flight at
most, which the count misses until it is answered. The cap follows, since at the moment of a
`Submit` no order is in flight and the count is the number of orders sent.

`ProtectiveStopsProofs` proves, for positions and trades of any size and any number of
stops, faults, crashes and resumes:

| Theorem | Statement |
|---|---|
| `PositionsGuarded` | `Spec => []ProtectedAtRest` |
| `StopsNeverDouble` | `Spec => []OneStopRests` |

Neither property is inductive. What carries them is `NamedInv`: the only stop that can
be resting is the one `book.pid` names, so a new stop, placed only once that one is
known to be gone, is alone. One reachable state breaks it, and TLC found it:
a position was closed, its stop could not be cancelled, the account was halted for it,
and the process died; only open rows are restored, so nobody knows the stop's id any
more (`Orphaned`). `StopsNeverDouble` holds all the same because the halt refuses every
order that would open the position again, and it ends with an administrator's resume,
which is a lapse. `RowInv` (the row is what a restart needs) and `FlatInv` (a flat
position has no stop, or the halt stands) lead to that state; `GuardInv` gives the other
theorem.

`SessionRotationProofs` proves, for any sets of requests and sockets, any lifetimes, any
recheck interval of at least one and any bounds:

| Theorem | Statement |
|---|---|
| `OneSessionPerLogin` | `Spec => []OneLivePerLogin` |
| `ReuseEndsEverything` | `Spec => []ReuseContained` |
| `RelaysEnd` | `Spec => []RelayBounded` |

The invariant is the types, `NamedInv` (a request at work names an issued session),
`ClaimInv` (the row lock: a winner is the claimant of its unrevoked target, and nobody
else claims), `RootInv` (a session descends from an issued login), `ReachInv` (whatever a
containment waits to revoke, together with what is revoked already, is everything issued
when it took its snapshot) and `SocketInv` (an open relay's next recheck comes before its
session has been over for long). That a login has one live session rests on `ClaimInv`
at `Issue`; that a containment is complete rests on `ReachInv`, through a rollback that
gives a claimed session back.

`OptionsBatchProofs` proves, for any strategies, any positions held before them and any
number of faults (two named ASSUMEs: a strategy is a sequence of legs that is not
empty, bounds are natural numbers):

| Theorem | Statement |
|---|---|
| `LegsSubmittedOnce` | `Spec => []OneSubmissionPerLeg` |
| `IntactIsExecuted` | `Spec => []IntactMeansExecuted` |
| `NothingIsKeptQuietly` | `Spec => NothingKeptQuietly` |
| `UnwindGivesBackOnly` | `Spec => UnwindStopsAtStart` |
| `UnwindsAreInformed` | `Spec => UnwindKnowsTheMarket` |
| `CallUnderHaltOnlyShrinks` | `Spec => HaltedOnlyReduces` |

The invariant holds until a call is cut short by an exception or a crash. `MirrorInv`: the
tables are behind by what is being saved. `OrdersInv`: an order is sent once and settled
before the next. `LegsInv`: what the call has done and has to do is the strategy.
`BrokenInv`: an unwind means that some leg is not established and never will be, so no
later retry can call the strategy intact. `StartInv` and `CurInv`: a leg that was not
sent finds its contract as it was before. `EffectInv` and `BrokerInv`: a leg that is
established moved its contract by what was approved, and the book is what the broker
holds but where an answer is missing. `OpenedInv`: what is to be unwound is exactly what
its leg newly opened. The user's other orders move `start`, book and broker together, so
they pass through all of it; `AnswerInv` carries a verdict of `intact` over those that
follow it.

`RiskGateProofs` proves, for any finite set of symbols, any orders, prices, limits, days
and correlations, and positions of any size:

| Theorem | Statement |
|---|---|
| `CountersAreTheJournals` | `Spec => []CountersFollowJournal` |
| `CashIsTheJournals` | `Spec => []CashFollowsJournal` |
| `ExitsAlwaysPass` | `Spec => []ExitAlwaysOpen` |
| `FillsStayWithinLimits` | `Spec => FillsWithinLimits` |

Assumptions: symbols are finitely many, prices are positive, limits are natural numbers,
a correlation is -1, 0 or 1. The invariant is the type, `TidyInv` (a flat position
remembers no average), `WindowInv` (nothing is counted on a day to come), `CountInv`
(the counters are the journal's, and the order in flight counts as a trade from its fill
and as a loss from its row) and `CashInv` (while the simulated broker holds as much as
the book, and no stop has fired as it was placed, it holds it at the same average, and its
cash has what was realized). P&L and
exposure are sums over sets, so what a new row or a fill adds to a sum is a lemma
(`SumChanges`), proved by induction over the size of the set: `Induct` says that a set of
natural numbers with 0 that is closed under successors is all of them, and takes the
place of the library's induction theorems, whose operator parameter no backend
instantiates. That a fill stays within the cap of exposure needs that it moves the gross
exposure by its own notional at the price charged at most (`ExposureChanges`, `NotionalAfter`).

`MarketDataProofs` proves, for any series of ticks, any timeframes, session hours, days
and bounds, and for any candles, window, lookback, periods and strategies:

| Theorem | Statement |
|---|---|
| `ClosedCandlesComplete` | `PipelineSpec => []CandlesComplete` |
| `DerivedBarsFollow` | `PipelineSpec => []DerivedFollows` |
| `NothingIsRetracted` | `Spec => NothingRetracted` |
| `AnalysisIsExact` | `Spec => []AnalysisExact` |
| `ScannerReadsTheSeries` | `ScannerSpec => Spec` |
| `JournalsFollow` | `ScannerSpec => []JournalFollows` |

The pipeline's invariant is the types, `FormingInv` (until the process dies, every tick
taken is of the forming minute or an older one, the forming candle holds exactly the
ticks taken in its minute, and the table is right about every other minute) and
`StoredInv` (between `Store` and `Reopen` the table already holds the forming candle). An
exception between the two leaves the candle forming, and the next tick stores it again
with the same content: that is why raising costs no tick. Derived bars add `BarInv` (a
bucket still to come or not complete has no bar; one that is over has none or one made of
all its candles, and has one if its last minute traded) and `DueInv` (the bars a close
completes are due or derived already). They rest on the arithmetic of buckets: a minute
lies in the one that starts at its `BucketStart`, buckets of one size do not overlap, and
the next minute starts a new bucket exactly when it lies a whole size after the start.

Of the analysis the invariant is short (`Analysed`: the context is `Analyze` of the bars
there are, and there is one at least), and the work is in what `Analyze` does with one
bar more. A definition that looks only at bars inside the series gives the same answer
when a bar is appended, and what it adds is dated by the last bar its window touches:
swings and their labels, gaps, levels and opening ranges. Breaks, shifts and fills are
found by scans that keep a state. Such a scan is a recursive function; `Recursion` says
that it exists and `Along` is induction from one bar to another, both proved from the
well-foundedness of `<` on the naturals, with the predicate given as a set, so no theorem
with an operator parameter is instantiated. Walking the shorter and the longer series in
step shows that the two scans agree up to the last bar of the shorter one (`EventsGrow`,
`ShiftsGrow`, `FillGrows`). The same induction, with an account of the bars seen so far,
shows what a scan finds: that the trend kept along the way is the direction of the last
break (`AddKeepsKinds`), that the shifts found up to a break are the breaks that confirm a
turn, in order (`Kept`), and that a fill is the deepest bar so far and is settled by the
first bar that traded through (`Reached`), so stopping the scan there loses nothing of
what is read. Equal levels and the dealing range are not part of the statements: they are
of the swings so far and move with them.

The scanner's invariant is `Journaling`: `setups` has the rows of what was known by some
bar no earlier than the last one a pass has read, and no more of each than the series
shows (`Booked`); signals have their stop on the losing side, and say all that a pass of
the present series would (`Signals`). A pass compares only the type and the moment of a
row. That this is enough is `RowsAgree`: breaks and gaps are known at their moment, so all
of one type and moment are booked together, and an order block goes the way its own bar
tells, so two of one moment are one row. Counts stay within the candidates because
detections are only added (`DetectionsGrow`) and are finitely many (`FoundIsFinite`).

`AutoTradeProofs` proves, for any finite set of instruments, any strategies, caps, and
bounds on bars, days, versions and faults:

| Theorem | Statement |
|---|---|
| `EntriesStayWithinCap` | `Spec => []EntriesWithinCap` |
| `RestartsForgetNothing` | `Spec => []RestartForgetsNothing` |
| `TradesNameTheirOpener` | `Spec => JournalNamesOpener` |

The last holds until a write is lost; the second also until a bar behind the window is
traded, and the first while no restart follows either. The invariant adds to the types
`FlightInv` (what is between the engine and the tables), `BookInv` (each position is in its
row but for the one in flight), `StampInv` (a stamp in memory belongs to the open position
of its pair), `EdgeInv` (nothing is entered under a day after the window's), `CapInv` (the
window counts every entry of its day, which the cap rests on) and `TableInv` (the tables
hold every entry of today, by the stamp's day where there is one and the row's otherwise,
and a window of today counts no more than they do). A restart reads the window back from
those tables by the wall clock: `TableInv` is what makes that count no smaller than the one
that was lost, although rows and bars may be dated differently.

Only model-checked: all liveness (`DivergenceHalts` of `ProtectiveStops`, `StopsHonoured`
of `AutoTrade` and the properties of `tradelock_live`), which needs ENABLED. Every
invariant and every safety property of a step that a passing run checks is stated by a
theorem.

## 8 What is not modelled

Listed per component, with the reason, in `PROJECT.json`. In short: floating-point
arithmetic (prices, exposure and quantities are small integers); volume and the
strength and score ranked by it; the wording of notifications, audit and logs;
read-only views; the rate limiter, one atomic script; the Dhan adapter, which refuses
every call; AI chat; the Android client; backtest statistics; option payoffs and Greeks.

Three machines are left out that a later version may add:

* **Replay's mirror** (`replay/persistence.py:88-104`): overlapping requests on one
  session can leave its row stale, collide on the first insert, or bring back rows that
  a reset deleted;
* **paper sessions** (`api/paper.py`): two candles posted at once may both enter, a
  candle posted twice can journal a close that closes nothing, and a deletion while a
  candle is in flight is undone by the mirror's write;
* **broker connections** (`api/brokers.py`): one-shot exchanges; what a changed
  connection does to a stack is `Rebuild` of `OrderLifecycle`.
