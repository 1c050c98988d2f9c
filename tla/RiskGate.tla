------------------------------ MODULE RiskGate ------------------------------
(***************************************************************************)
(* The risk side of POST /orders for one account: sizing, the gate, what a *)
(* fill does to the book and to the broker, and the day and week counters  *)
(* with their reset at midnight and their rebuilding after a restart.      *)
(*                                                                         *)
(* Quantities and prices are small integers, and a size is rounded up to a *)
(* whole unit: a positive budget buys something, as it does in fractions.  *)
(* Every order is a new idempotency key (OrderLifecycle has the resends)   *)
(* and requests are served one at a time (TradeLock has the lock).         *)
(***************************************************************************)
EXTENDS Integers, Sequences, FiniteSets, FiniteSetsExt

CONSTANTS Symbols, Prices, Marks, Requests, Correlation, Elsewhere,
          StartingBalance, RiskPct, MaxExposurePct, MaxCorrelatedPct,
          MaxDailyLossPct, MaxWeeklyLossPct, MaxTradesPerDay,
          MaxOpenPositions, MaxRejections, MaxStaleness, MaxParticipationPct,
          MaxEntryDeviationPct,
          WeekDays, MaxDay, MaxOrders, MaxBuilds

ASSUME SymbolsFinite == IsFiniteSet(Symbols)
ASSUME PricesPositive == Prices \subseteq Nat \ {0} /\ Marks \subseteq Prices
ASSUME LimitsAreCounts ==
  /\ {MaxTradesPerDay, MaxOpenPositions, MaxRejections, MaxOrders} \subseteq Nat
  /\ {StartingBalance, RiskPct, MaxExposurePct, MaxStaleness,
      MaxEntryDeviationPct} \subseteq Nat
  /\ WeekDays \in Nat \ {0}
ASSUME OtherBooks == Elsewhere \in [Symbols -> Int]
ASSUME Correlations == \A s, t \in Symbols : Correlation[s, t] \in {-1, 0, 1}

VARIABLES
  day,      \* the UTC day it is now
  broker,   \* connected or simulated, its cash, the positions it holds, and
            \* (a history) whether a stop has filled as it was placed
  stack,    \* _UserTradingStack: the counters, the day they are of, the book
  request,  \* the POST /orders being served
  rows,     \* the orders and trades tables, one entry an order
  saved,    \* the positions table, partition "manual"
  builds    \* how often the stack was built
vars == <<day, broker, stack, request, rows, saved, builds>>

NoStack == [up |-> FALSE]
NoRequest == [stage |-> "none"]
NoDay == -1
NoLimit == 0
Unknown == -1     \* None: no price seen, no volume history

Days == 0 .. MaxDay
Week(d) == d \div WeekDays
Flat == [qty |-> 0, avg |-> 0]
EmptyBook == [s \in Symbols |-> Flat]

\* PlaceOrderRequest: MARKET, or LIMIT at a price of its own.
Orders == [symbol : Symbols, long : BOOLEAN, entry : Prices, stop : Prices,
           limit : Prices \cup {NoLimit}]
Abs(n) == IF n < 0 THEN -n ELSE n
ASSUME RequestsAreOrders == Requests \subseteq Orders
Direction(o) == IF o.long THEN 1 ELSE -1

\* The world as one request finds it: all in order, or one thing wrong.
Fine(o) == [halted |-> FALSE, killed |-> FALSE, quote |-> o.entry,
            age |-> 0, volume |-> Unknown, healthy |-> TRUE, jump |-> FALSE]
Conditions(o) ==
  {Fine(o)}
  \cup {[Fine(o) EXCEPT !.halted = TRUE], [Fine(o) EXCEPT !.killed = TRUE],
        [Fine(o) EXCEPT !.healthy = FALSE], [Fine(o) EXCEPT !.jump = TRUE],
        [Fine(o) EXCEPT !.age = Unknown], [Fine(o) EXCEPT !.age = MaxStaleness + 1]}
  \cup {[Fine(o) EXCEPT !.quote = q] : q \in Prices}
  \cup {[Fine(o) EXCEPT !.volume = v] : v \in {0, 1, 100}}

-----------------------------------------------------------------------------
(* The numbers the gate is given.                                          *)

Notional(book, s) == Abs(book[s].qty) * book[s].avg
Held(book) == {s \in Symbols : book[s].qty # 0}

\* The whole account's gross exposure: this engine's book and the others'.
CurrentExposure(book) ==
  SumFunction([s \in Symbols |-> Notional(book, s) + Abs(Elsewhere[s])])

\* Signed, and netted: a hedge lowers it.
CorrelatedExposure(book, target) ==
  SumFunction([s \in Symbols \ {target} |->
                 Correlation[target, s]
                   * (book[s].qty * book[s].avg + Elsewhere[s])])

\* Where the broker fills, when the market makes the prices Marks. A connected
\* one at the market, which for a limit order is the limit or better;
\* MockBroker a limit order at its price, and a market order at the last quote:
\* the order's entry or, for what is held, the market price a portfolio read
\* has marked it at meanwhile.
BrokerPrices(o) ==
  IF o.limit # NoLimit
  THEN {o.limit} \cup {p \in Marks : /\ broker.connected
                                    /\ IF o.long THEN p <= o.limit ELSE p >= o.limit}
  ELSE {o.entry} \cup {p \in Marks : \/ broker.connected
                                    \/ stack.book[o.symbol].qty # 0}

(* Mutant: a limit order is measured from the caller's entry. *)
EntryPrice(o) == o.entry
\* The price the order is sized and gated at.
FillPrice(o) == IF o.limit # NoLimit THEN o.limit ELSE o.entry

\* calculate_position_size, rounded up to a whole unit, without
\* max_position_size, a cap no account has by default.
PositionSize(balance, price, stop) ==
  LET budget == balance * RiskPct
      unit == 100 * Abs(price - stop)
  IN IF unit = 0 \/ budget <= 0 THEN 0 ELSE (budget + unit - 1) \div unit

\* The order opposes an open position.
Reducing(book, o) == book[o.symbol].qty * Direction(o) < 0

(* Mutant: the clamp lets a spent risk budget shrink an exit to nothing. *)
QuantityUnfloored(o) ==
  LET size == PositionSize(broker.cash, FillPrice(o), o.stop)
      open == Abs(stack.book[o.symbol].qty)
  IN IF Reducing(stack.book, o) THEN Min({size, open}) ELSE size
\* What the order is for: an exit never more than is open, never nothing.
Quantity(o) ==
  LET size == PositionSize(broker.cash, FillPrice(o), o.stop)
      open == Abs(stack.book[o.symbol].qty)
  IN IF ~Reducing(stack.book, o) THEN size
     ELSE IF size > 0 THEN Min({size, open}) ELSE open

\* No price seen is as good as fresh only where no feed is expected.
MarketDataAge(age) ==
  IF age = Unknown /\ ~broker.connected THEN 0 ELSE age

\* Unassessed, or this order's share of a bar's volume is small.
LiquidityChecks(quantity, volume) ==
  \/ volume = Unknown
  \/ volume > 0 /\ quantity * 100 <= MaxParticipationPct * volume

Proposal(o, c) ==
  [killed |-> c.killed,
   entry |-> FillPrice(o),
   stop |-> o.stop,
   deviates |-> broker.connected
                  /\ Abs(o.entry - c.quote) * 100 > MaxEntryDeviationPct * c.quote,
   quantity |-> Quantity(o),
   reducing |-> Reducing(stack.book, o),
   balance |-> broker.cash,
   exposure |-> CurrentExposure(stack.book),
   correlated |-> CorrelatedExposure(stack.book, o.symbol),
   open |-> Cardinality(Held(stack.book)),
   trades |-> stack.trades, daily |-> stack.daily, weekly |-> stack.weekly,
   age |-> MarketDataAge(c.age), volume |-> c.volume,
   healthy |-> c.healthy, jump |-> c.jump,
   rejections |-> stack.rejections]

-----------------------------------------------------------------------------
(* RiskEngine.evaluate: its checks, which must all pass.                   *)

Percent(amount, balance, limit) == amount * 100 <= limit * balance
Loss(pnl) == Max({-pnl, 0})

\* Caps on the share of the balance; an empty one funds nothing: the daily and
\* the weekly loss, the exposure, the allocation, what moves with the symbol.
BalanceChecks(p) ==
  LET notional == p.quantity * p.entry
      signed == IF p.stop < p.entry THEN notional ELSE -notional
  IN /\ p.balance > 0
     /\ Loss(p.daily) * 100 < MaxDailyLossPct * p.balance
     /\ Loss(p.weekly) * 100 < MaxWeeklyLossPct * p.balance
     /\ Percent(p.exposure + notional, p.balance, MaxExposurePct)
     /\ Percent(notional, p.balance, 100)
     /\ Percent(Abs(p.correlated + signed), p.balance, MaxCorrelatedPct)

CountChecks(p) ==
  /\ p.open < MaxOpenPositions
  /\ p.trades < MaxTradesPerDay

\* Whether this order can be executed sanely now, an exit included.
ExecutionChecks(p) ==
  /\ ~p.deviates
  /\ p.age # Unknown /\ p.age <= MaxStaleness
  /\ p.healthy
  /\ p.rejections < MaxRejections
  /\ ~p.jump
  /\ LiquidityChecks(p.quantity, p.volume)

Approved(p) ==
  /\ ~p.killed
  /\ p.entry # p.stop
  /\ ExecutionChecks(p)
  /\ p.reducing \/ (BalanceChecks(p) /\ CountChecks(p))

-----------------------------------------------------------------------------
(* Fills.                                                                  *)

\* PositionManager.apply_fill, and MockBroker's own copy of it: the new
\* position and what the fill realized.
Applied(position, signed, price) ==
  LET qty == position.qty + signed
      closed == Min({Abs(signed), Abs(position.qty)})
  IN IF position.qty * signed >= 0
     THEN [now |-> [qty |-> qty,
                    avg |-> (Abs(position.qty) * position.avg + Abs(signed) * price)
                              \div Max({Abs(qty), 1})],
           realized |-> 0]
     ELSE [now |-> IF qty = 0 THEN Flat
                   ELSE [qty |-> qty,
                         avg |-> IF qty * signed > 0 THEN price ELSE position.avg],
           realized |-> closed * (price - position.avg)
                          * (IF position.qty > 0 THEN 1 ELSE -1)]

\* The broker's side of a fill: its position, and cash by its own arithmetic.
BrokerFilled(o, price) ==
  LET fill == Applied(broker.held[o.symbol], Direction(o) * Quantity(o), price)
  IN [broker EXCEPT !.held[o.symbol] = fill.now, !.cash = @ + fill.realized]

\* What the book is left with by a fill of the order.
Left(o) == stack.book[o.symbol].qty + Direction(o) * Quantity(o)
\* The trigger the position carries then: the order's own, where it opened,
\* added or flipped; or that of one that opened what this one reduces.
Triggers(o) ==
  IF Left(o) * Direction(o) > 0 THEN {o.stop}
  ELSE {r.stop : r \in {r \in Requests : r.symbol = o.symbol /\ r.long # o.long}}

\* ensure_protective_stop at the end of a fill: a stop for all the book has
\* left. Where the last quote is through the trigger already MockBroker fills
\* it as it arrives, and the book does not hear of it; otherwise it rests. (The
\* stops of a connected broker are the subject of ProtectiveStops.)
Protected(b, o, trigger, quote) ==
  LET left == Left(o)
      crossed == IF left > 0 THEN quote <= trigger ELSE quote >= trigger
      fill == Applied(b.held[o.symbol], -left, quote)
  IN IF b.connected \/ left = 0 \/ ~crossed THEN b
     ELSE [b EXCEPT !.held[o.symbol] = fill.now, !.cash = @ + fill.realized,
                    !.filledStop = TRUE]

-----------------------------------------------------------------------------
(* The counters and the journal they are rebuilt from.                     *)

WrittenToday == {i \in 1 .. Len(rows) : rows[i].written = day}
WrittenThisWeek == {i \in 1 .. Len(rows) : Week(rows[i].written) = Week(day)}
Realized(S) == SumFunction([i \in S |-> rows[i].pnl])

\* _roll_risk_window: reset what belongs to another day, or another week.
Rolled(s) ==
  IF s.day = NoDay \/ s.day = day THEN [s EXCEPT !.day = day]
  ELSE [s EXCEPT !.day = day, !.trades = 0, !.daily = 0,
                 !.weekly = IF Week(s.day) = Week(day) THEN @ ELSE 0]

(* Mutant: the rebuilt counters do not say which day they are of. *)
RebuiltUndated(n) ==
  [up |-> TRUE, day |-> NoDay, restored |-> n,
   trades |-> Cardinality(WrittenToday),
   daily |-> Realized(WrittenToday),
   weekly |-> Realized(WrittenThisWeek),
   rejections |-> 0, book |-> saved]
\* What _stack_for rebuilds from the tables; n rows are in them.
Rebuilt(n) ==
  [up |-> TRUE, day |-> day, restored |-> n,
   trades |-> Cardinality(WrittenToday),
   daily |-> Realized(WrittenToday),
   weekly |-> Realized(WrittenThisWeek),
   rejections |-> 0, book |-> saved]

Init ==
  /\ day = 0
  /\ broker \in [connected : BOOLEAN, cash : {StartingBalance},
                 held : {EmptyBook}, filledStop : {FALSE}]
  /\ stack = NoStack
  /\ request = NoRequest
  /\ rows = <<>>
  /\ saved = EmptyBook
  /\ builds = 0

(* Mutant: what the account realized is not given back to the broker. *)
BuildBroke ==
  /\ ~stack.up /\ builds < MaxBuilds
  /\ stack' = Rebuilt(Len(rows))
  /\ broker' = IF broker.connected THEN broker
               ELSE [connected |-> FALSE, held |-> EmptyBook,
                     cash |-> StartingBalance, filledStop |-> FALSE]
  /\ builds' = builds + 1
  /\ UNCHANGED <<day, request, rows, saved>>
\* The first request of a process, of any endpoint that needs the stack.
\* The simulated broker gets its cash back, and no position.
Build ==
  /\ ~stack.up /\ builds < MaxBuilds
  /\ stack' = Rebuilt(Len(rows))
  /\ broker' = IF broker.connected THEN broker
               ELSE [connected |-> FALSE, held |-> EmptyBook,
                     cash |-> StartingBalance + Realized(1 .. Len(rows)),
                     filledStop |-> FALSE]
  /\ builds' = builds + 1
  /\ UNCHANGED <<day, request, rows, saved>>

\* POST /orders has the stack and rolls its window; which order it is
\* matters only from the gate on.
Enter ==
  /\ stack.up /\ request = NoRequest
  /\ stack' = Rolled(stack)
  /\ request' = [stage |-> "entered", asked |-> day]
  /\ UNCHANGED <<day, broker, rows, saved, builds>>

Passes(o, c) ==
  /\ c.halted => Reducing(stack.book, o)
  /\ Approved(Proposal(o, c))

Always(o) == \A c \in Conditions(o) : Passes(o, c)
Never(o) == \A c \in Conditions(o) : ~Passes(o, c)

Settling(s, pnl) ==
  [stage |-> "filled", asked |-> request.asked, symbol |-> s, pnl |-> pnl]

\* 423 for an entry while halted, 403 by the gate.
Refuse ==
  /\ request.stage = "entered"
  /\ ~ \A o \in Requests : Always(o)
  /\ request' = NoRequest
  /\ UNCHANGED <<day, broker, stack, rows, saved, builds>>

\* Approved and filled at this price: the book's side of it.
Taken(o, price) ==
  LET fill == Applied(stack.book[o.symbol], Direction(o) * Quantity(o), price)
  IN /\ price \in BrokerPrices(o)
     /\ stack' = [stack EXCEPT !.book[o.symbol] = fill.now,
                               !.trades = @ + 1, !.rejections = 0]
     /\ request' = Settling(o.symbol, fill.realized)
     /\ ~Never(o)

\* The fill at the broker too, and the stop placed after it; the price can
\* have moved by then.
Fill ==
  /\ request.stage = "entered" /\ Len(rows) < MaxOrders
  /\ \E o \in Requests, price \in Prices :
       /\ Taken(o, price)
       /\ \E trigger \in Triggers(o), quote \in Marks \cup {o.entry} :
            broker' = Protected(BrokerFilled(o, price), o, trigger, quote)
  /\ UNCHANGED <<day, rows, saved, builds>>

\* Approved, and refused by the broker.
BrokerRejects ==
  /\ request.stage = "entered" /\ Len(rows) < MaxOrders
  /\ \E s \in Symbols : /\ ~ \A o \in Requests : o.symbol = s => Never(o)
                        /\ request' = Settling(s, 0)
  /\ stack' = [stack EXCEPT !.trades = @ + 1, !.rejections = @ + 1]
  /\ UNCHANGED <<day, broker, rows, saved, builds>>

\* The order's row, the position's and the trade's, and the day's P&L.
Record ==
  /\ request.stage = "filled"
  /\ rows' = Append(rows, [asked |-> request.asked, written |-> day,
                           pnl |-> request.pnl])
  /\ saved' = [saved EXCEPT ![request.symbol] =
                 stack.book[request.symbol]]
  /\ stack' = [stack EXCEPT !.daily = @ + request.pnl, !.weekly = @ + request.pnl]
  /\ request' = NoRequest
  /\ UNCHANGED <<day, broker, builds>>

Midnight ==
  /\ day < MaxDay
  /\ day' = day + 1
  /\ UNCHANGED <<broker, stack, request, rows, saved, builds>>

Crash ==
  /\ stack.up /\ builds < MaxBuilds
  /\ stack' = NoStack /\ request' = NoRequest
  /\ UNCHANGED <<day, broker, rows, saved, builds>>

Next ==
  \/ Build
  \/ Enter
  \/ Refuse
  \/ Fill
  \/ BrokerRejects
  \/ Record
  \/ Midnight
  \/ Crash

Spec == Init /\ [][Next]_vars

-----------------------------------------------------------------------------
(* The counter of a day holds what was asked in it; what was there when    *)
(* the stack was rebuilt counts on the day it was written. (A request that *)
(* runs across midnight is asked on one day and written on the next.)      *)
CountedOn(i) == IF i <= stack.restored THEN rows[i].written ELSE rows[i].asked
RowsOfDay == {i \in 1 .. Len(rows) : CountedOn(i) = stack.day}
RowsOfWeek == {i \in 1 .. Len(rows) : Week(CountedOn(i)) = Week(stack.day)}

\* Every limit that is counted reads what the tables say of its window,
\* through midnights, a new week, a request in flight and any restarts
\* (_roll_risk_window and the rebuilding in _stack_for).
CountersFollowJournal ==
  stack.up /\ request.stage # "filled" /\ stack.day # NoDay
    => /\ stack.trades = Cardinality(RowsOfDay)
       /\ stack.daily = Realized(RowsOfDay)
       /\ stack.weekly = Realized(RowsOfWeek)

\* No limit traps a position: with the market and the broker in order, an
\* order against it passes the gate whatever the account has lost, traded or
\* is halted for, for something, and never for more than is open
\* (is_reducing and the clamp in place_order).
ExitAlwaysOpen ==
  stack.up /\ request = NoRequest /\ stack.rejections < MaxRejections
    => \A o \in Requests :
         Reducing(stack.book, o) /\ FillPrice(o) # o.stop
           => /\ Passes(o, [Fine(o) EXCEPT !.halted = TRUE])
              /\ Quantity(o) \in 1 .. Abs(stack.book[o.symbol].qty)

\* A fill that adds to the gross exposure leaves it within the cap, save for
\* what the broker charged above the price the order names, which is nothing
\* for a buy limit; the account has lost less than its limits (fill_price, the
\* sizing and the entry-only block of evaluate).
Above(o, price) == price - (IF o.limit # NoLimit THEN o.limit ELSE o.entry)
FillsWithinLimits ==
  [][ Fill /\ CurrentExposure(stack'.book) > CurrentExposure(stack.book)
        => \A o \in Requests, price \in Prices : Taken(o, price)
             => /\ (CurrentExposure(stack'.book)
                       - Quantity(o) * Max({Above(o, price), 0})) * 100
                     <= MaxExposurePct * broker.cash
                /\ Loss(stack.daily) * 100 < MaxDailyLossPct * broker.cash
                /\ Loss(stack.weekly) * 100 < MaxWeeklyLossPct * broker.cash
                /\ Cardinality(Held(stack'.book)) <= MaxOpenPositions ]_vars

\* The simulated balance moves with the account's P&L, through partial exits,
\* flips and restarts, while the broker holds what the account holds and has
\* filled no stop the book does not know of. After a restart with a position
\* open, or a stop placed through its trigger, it does not, and only the next
\* restart puts it right (MockBroker.get_account and restore_realized_pnl).
CashFollowsJournal ==
  stack.up /\ request.stage # "filled" /\ ~broker.connected /\ ~broker.filledStop
    /\ (\A s \in Symbols : broker.held[s].qty = stack.book[s].qty)
    => broker.cash = StartingBalance + Realized(1 .. Len(rows))
=============================================================================
