------------------------------ MODULE Scanner ------------------------------
(***************************************************************************)
(* ScannerWorker over one instrument and one timeframe: it analyses the    *)
(* whole series again on every pass, journals each detection once, and     *)
(* writes a signal when a strategy says something new.                     *)
(*                                                                         *)
(* Nothing else writes setups and signals, so a pass counts as taken when  *)
(* it reads the candles, whatever arrives while it works. Prices of a      *)
(* bracket are in fortieths, for the buffer of a stop. Scores, strengths   *)
(* and the size a target may have are left out, and the conditions on the  *)
(* clock with them.                                                        *)
(***************************************************************************)
EXTENDS SmcAnalysis, Bags

CONSTANTS Strategies, \* the active strategies, in the order of the query
          FirstScan   \* no pass before the series has this many bars (a bound)

Biases == {"up", "down"}
Structure == {"bos", "choch", "mss"}
ConditionTypes ==
  Structure \cup {"trend", "liquidity_sweep", "fvg", "order_block", "premium_discount"}
EntryTypes == {"market", "fvg_retest", "order_block_retest"}

\* What the DSL lets be stored: an event can be 0 bars old at least, and a
\* premium_discount condition names its zone.
IsCondition(c) ==
  /\ c.type \in ConditionTypes
  /\ c.direction \in Biases \cup {None}
  /\ c.lookback \in Nat \ {0}
  /\ c.type = "premium_discount" => c.zone # None
IsStrategy(s) ==
  /\ s.direction \in Biases \cup {None}
  /\ s.entry \in EntryTypes
  /\ s.minimumRR \in Nat \ {0}
  /\ \A c \in s.conditions : IsCondition(c)
ASSUME StrategiesAreStored ==
  /\ Strategies \in Seq(Range(Strategies))
  /\ \A k \in DOMAIN Strategies : IsStrategy(Strategies[k])

VARIABLES
  setups,   \* the rows of setups: how many of each
  signals,  \* of each strategy the latest row of signals, if any
  scanned   \* how many bars the last pass that ended had read
svars == <<candles, context, setups, signals, scanned>>

-----------------------------------------------------------------------------
(* SMCContext, as conditions and entries read it. *)

Bias == IF context.events = <<>> THEN None ELSE Last(context.events).direction
\* Zones not spent yet, of a direction or (None) of either.
Live(zones, direction) ==
  {z \in DOMAIN zones : /\ ~zones[z].mitigated
                        /\ direction # None => z.up = (direction = "up")}
\* The one price made last.
Newest(zones) == CHOOSE z \in zones : \A y \in zones : y.from <= z.from
SweepsOf(pools, side) ==
  {pools[p] : p \in {q \in DOMAIN pools : /\ pools[q].at # 0
                                         /\ side # None => q.buy = (side = "buy")}}
Sweeps(side) == SweepsOf(context.levels, side) \cup SweepsOf(context.equal, side)

Events(type) ==
  IF type = "mss" THEN Range(context.shifts)
  ELSE {e \in Range(context.events) : e.kind = IF type = "bos" THEN "BOS" ELSE "CHOCH"}

\* evaluate_condition: an event counts while it is younger than lookback.
Holds(c) ==
  \/ c.type = "trend" /\ Bias # None /\ c.direction \in {None, Bias}
  \/ /\ c.type \in Structure
     /\ \E e \in Events(c.type) : /\ c.direction \in {None, e.direction}
                                  /\ Len(candles) - e.index < c.lookback
  \/ /\ c.type = "liquidity_sweep"
     /\ \E s \in Sweeps(c.side) : Len(candles) - s.at < c.lookback
  \/ c.type = "fvg" /\ Live(context.gaps, c.direction) # {}
  \/ c.type = "order_block" /\ Live(context.blocks, c.direction) # {}
  \/ c.type = "premium_discount" /\ context.zone = c.zone

-----------------------------------------------------------------------------
(* StrategyEngine.evaluate *)

Unit == 40                \* of a price
BufferOf(z) == 2 * Size(z)  \* 5 % of the zone

Retest(zones, up) ==
  {[entry |-> (Unit \div 2) * (z.top + z.bottom),
    stop |-> IF up THEN Unit * z.bottom - BufferOf(z) ELSE Unit * z.top + BufferOf(z)] :
     z \in {y \in zones : y = Newest(zones)}}

\* Entry and stop, if there are any: the middle and the far side of the newest zone, or the
\* price and the edge of the dealing range.
EntryAndStop(s, direction) ==
  LET edges == OfType(context.swings, IF direction = "up" THEN "LOW" ELSE "HIGH")
  IN CASE s.entry = "fvg_retest" ->
            Retest(Live(context.gaps, direction), direction = "up")
       [] s.entry = "order_block_retest" ->
            Retest(Live(context.blocks, direction), direction = "up")
       [] OTHER -> {[entry |-> Unit * Last(candles).close,
                     stop |-> Unit * Latest(edges).price] :
                      zone \in {context.zone} \ {None}}

\* A stop beyond the entry on the winning side, or on it, is no setup.
WrongSide(direction, b) ==
  IF direction = "up" THEN b.stop >= b.entry ELSE b.stop <= b.entry

\* The signal of a strategy that matches.
Evaluate(s) ==
  LET direction == IF s.direction # None THEN s.direction ELSE Bias
      matches == direction # None /\ \A c \in s.conditions : Holds(c)
      brackets == {b \in EntryAndStop(s, direction) : ~WrongSide(direction, b)}
  IN IF ~matches THEN {}
     ELSE {[direction |-> direction, entry |-> b.entry, stop |-> b.stop,
            target |-> b.entry + (b.entry - b.stop) * s.minimumRR] : b \in brackets}

-----------------------------------------------------------------------------
(* Journaling *)

\* Every detection of the series; two breaks may share one order block.
Detections ==
  {[type |-> e.kind, at |-> e.index, up |-> e.direction = "up", from |-> e.index] :
     e \in Range(context.events)}
  \cup {[type |-> "fair_value_gap", at |-> z.origin, up |-> z.up, from |-> z.from] :
          z \in DOMAIN context.gaps}
  \cup {[type |-> "order_block", at |-> z.origin, up |-> z.up, from |-> z.from] :
          z \in DOMAIN context.blocks}

\* A row: what it holds besides follows from these, but for the strength.
RowOf(d) == [type |-> d.type, at |-> d.at, up |-> d.up]
Candidates ==
  LET all == Detections
  IN [row \in {RowOf(d) : d \in all} |-> Cardinality({d \in all : RowOf(d) = row})]

(* Mutant: the query for what is journaled leaves its first moment out. *)
AfterEarliest(rows) ==
  LET earliest == First({row.at : row \in rows}) IN {row \in DOMAIN setups : row.at > earliest}
\* The rows the query returns: none that is older than every candidate.
Journaled(rows) ==
  LET earliest == First({row.at : row \in rows}) IN {row \in DOMAIN setups : row.at >= earliest}

\* _persist_new_setups: what has no row with its type and its moment gets one.
NewSetups ==
  LET rows == Candidates
      keys == {<<row.type, row.at>> : row \in Journaled(DOMAIN rows)}
      missing == {row \in DOMAIN rows : <<row.type, row.at>> \notin keys}
  IN IF rows = EmptyBag THEN EmptyBag ELSE [row \in missing |-> rows[row]]

\* _evaluate: a match that differs from the latest signal is written.
Signalled(k) ==
  LET said == Evaluate(Strategies[k]) IN IF said = {} THEN signals[k] ELSE said

\* run_once, up to the call that raises: the setups and the first n strategies.
\* A raising publish leaves behind what was committed before it.
Pass(n) ==
  /\ Len(candles) >= Higher(3, FirstScan)
  /\ setups' = setups (+) NewSetups
  /\ signals' = [k \in DOMAIN signals |-> IF k <= n THEN Signalled(k) ELSE signals[k]]
  /\ scanned' = IF n = Len(Strategies) THEN Len(candles) ELSE scanned
  /\ UNCHANGED vars

BarArrives == Bar /\ UNCHANGED <<setups, signals, scanned>>

ScannerInit ==
  /\ Init
  /\ setups = EmptyBag
  /\ signals = [k \in DOMAIN Strategies |-> {}]
  /\ scanned = 0
ScannerNext == BarArrives \/ \E n \in 0 .. Len(Strategies) : Pass(n)
ScannerSpec == ScannerInit /\ [][ScannerNext]_svars

-----------------------------------------------------------------------------
\* A row is of a detection the series still shows, and of each no more rows
\* than there are detections.
RowsStand(rows) ==
  \A row \in DOMAIN setups : row \in DOMAIN rows /\ setups[row] <= rows[row]

\* A stop loses, a target wins.
Bracketed(b) ==
  IF b.direction = "up" THEN b.stop < b.entry /\ b.entry < b.target
  ELSE b.target < b.entry /\ b.entry < b.stop

\* The two journals follow the series through any passes, ended or not: no
\* row is of something retracted or a repetition, no signal has its stop on
\* the winning side, and after a pass that ended every detection has its row
\* and every strategy that matches has said so last (ScannerWorker.run_once).
JournalFollows ==
  /\ \A k \in DOMAIN signals : \A row \in signals[k] : Bracketed(row)
  /\ LET rows == Candidates
     IN RowsStand(rows) /\ (scanned = Now => DOMAIN setups = DOMAIN rows)
  /\ scanned = Now =>
       \A k \in DOMAIN signals : Evaluate(Strategies[k]) \subseteq signals[k]
=============================================================================
