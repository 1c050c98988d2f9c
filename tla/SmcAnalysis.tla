---------------------------- MODULE SmcAnalysis ----------------------------
(***************************************************************************)
(* SMCEngine.analyze, called again on every bar over the candles seen so   *)
(* far, as the replay, the backtest and the paper engine do.               *)
(*                                                                         *)
(* Prices are small integers and bars count from 1. The volume, and with   *)
(* it the strength by which order blocks are ranked, is left out, and no   *)
(* gap is too small (fvg_min_gap_pct is 0 in every configuration).         *)
(***************************************************************************)
EXTENDS Integers, Sequences, FiniteSets, SequencesExt

CONSTANTS Shapes, SwingLength, Lookback, ToleranceBp, DayBars, WeekBars,
          SessionStart, OpeningBars, MaxBars

IsCandle(b) ==
  /\ b \in [open : Nat, high : Nat, low : Nat, close : Nat]
  /\ b.low <= b.open /\ b.open <= b.high
  /\ b.low <= b.close /\ b.close <= b.high
ASSUME ShapesAreCandles == \A b \in Shapes : IsCandle(b)
ASSUME WindowIsAtLeastOne == SwingLength \in Nat \ {0}
ASSUME PeriodsAreCounts ==
  {DayBars, WeekBars} \subseteq Nat \ {0} /\ {Lookback, SessionStart, OpeningBars} \subseteq Nat

VARIABLES
  candles,  \* the bars visible so far
  context   \* SMCContext: what analyze returned on the last of them
vars == <<candles, context>>

None == "none"
Lower(a, b) == IF a < b THEN a ELSE b
Higher(a, b) == IF a < b THEN b ELSE a
Nearest(S) == CHOOSE i \in S : \A j \in S : j <= i     \* the latest bar of S
First(S) == CHOOSE i \in S : \A j \in S : i <= j

-----------------------------------------------------------------------------
(* Swings: a strict extreme of the bars around it, known once they exist.  *)

Around(i) == (i - SwingLength) .. (i + SwingLength) \ {i}
\* The bars with a full window on both sides.
Span(c) == 1 + SwingLength .. Len(c) - SwingLength

Peaks(c) == {i \in Span(c) : \A k \in Around(i) : c[k].high < c[i].high}
Troughs(c) == {i \in Span(c) : \A k \in Around(i) : c[k].low > c[i].low}
Swings(c) ==
  {[index |-> i, type |-> "HIGH", price |-> c[i].high] : i \in Peaks(c)}
  \cup {[index |-> i, type |-> "LOW", price |-> c[i].low] : i \in Troughs(c)}

Confirmed(s) == s.index + SwingLength
OfType(swings, type) == {s \in swings : s.type = type}
Latest(S) == CHOOSE s \in S : \A t \in S : t.index <= s.index

\* Higher or lower than the swing of its type before it.
Label(swings, s) ==
  LET before == {t \in OfType(swings, s.type) : t.index < s.index}
  IN CASE before = {} -> None
       [] before # {} /\ s.price > Latest(before).price ->
            IF s.type = "HIGH" THEN "HH" ELSE "HL"
       [] OTHER -> IF s.type = "HIGH" THEN "LH" ELSE "LL"

-----------------------------------------------------------------------------
(* Structure: a close beyond the latest visible swing, once for a swing.   *)

(* Mutant: breaks are measured from swings that are not confirmed yet. *)
VisibleAtOnce(swings, i) == {s \in swings : s.index <= i}
Visible(swings, i) == {s \in swings : Confirmed(s) <= i}

\* broken holds bars: a bar that is both pivots is broken once for both.
BreakOf(type, c, swings, s, i) ==
  LET seen == OfType(Visible(swings, i), type)
      target == Latest(seen)
      direction == IF type = "HIGH" THEN "up" ELSE "down"
  IN IF \/ seen = {}
        \/ target.index \in s.broken
        \/ type = "HIGH" /\ c[i].close <= target.price
        \/ type = "LOW" /\ c[i].close >= target.price
     THEN s
     ELSE [broken |-> s.broken \cup {target.index},
           trend |-> direction,
           events |-> Append(s.events,
             [index |-> i, direction |-> direction, swing |-> target.index,
              kind |-> IF s.trend \in {direction, None} THEN "BOS" ELSE "CHOCH"])]

BreaksOf(c, swings, s, i) == BreakOf("LOW", c, swings, BreakOf("HIGH", c, swings, s, i), i)
StructureEvents(c, swings) ==
  LET upTo[i \in 0 .. Len(c)] ==
        IF i = 0 THEN [broken |-> {}, trend |-> None, events |-> <<>>]
        ELSE BreaksOf(c, swings, upTo[i - 1], i)
  IN upTo[Len(c)].events

\* promote_confirmed_shifts: a CHoCH waits for a BOS of its direction.
Promote(s, e) ==
  IF e.kind = "CHOCH" THEN [pending |-> e.direction, found |-> s.found]
  ELSE [pending |-> None,
        found |-> IF e.direction = s.pending THEN Append(s.found, e) ELSE s.found]
Shifts(events) ==
  LET upTo[k \in 0 .. Len(events)] ==
        IF k = 0 THEN [pending |-> None, found |-> <<>>] ELSE Promote(upTo[k - 1], events[k])
  IN upTo[Len(events)].found

-----------------------------------------------------------------------------
(* Zones: fair value gaps and order blocks, and how far price has traded   *)
(* into them.                                                              *)

\* A gap's origin is its created_index; created_at is one bar earlier, which
\* tells the same gaps apart.
Gaps(c) ==
  {[up |-> TRUE, top |-> c[i].low, bottom |-> c[i - 2].high, origin |-> i, from |-> i] :
     i \in {j \in 3 .. Len(c) : c[j - 2].high < c[j].low}}
  \cup
  {[up |-> FALSE, top |-> c[i - 2].low, bottom |-> c[i].high, origin |-> i, from |-> i] :
     i \in {j \in 3 .. Len(c) : c[j - 2].low > c[j].high}}

\* The bars before a break that closed against it.
Opposed(c, e) ==
  {j \in Higher(1, e.index - Lookback) .. e.index - 1 :
     IF e.direction = "up" THEN c[j].close < c[j].open ELSE c[j].close > c[j].open}
Blocks(c, events) ==
  {[up |-> e.direction = "up", top |-> c[Nearest(Opposed(c, e))].high,
    bottom |-> c[Nearest(Opposed(c, e))].low,
    origin |-> Nearest(Opposed(c, e)), from |-> e.index] :
     e \in {f \in Range(events) : Opposed(c, f) # {}}}

Size(z) == z.top - z.bottom
Overlaps(bar, z) == Higher(bar.low, z.bottom) < Lower(bar.high, z.top)
Depth(bar, z) == IF z.up THEN z.top - Higher(bar.low, z.bottom)
                 ELSE Lower(bar.high, z.top) - z.bottom
(* Mutant: the first bar that touches a zone spends it. *)
SettledOnTouch(fill, z) == fill.depth > 0
\* The outcome of a zone cannot change any more: the scan of it stops.
Settled(fill, z) == fill.invalidated \/ fill.depth >= Size(z)

\* update_mitigation, of either kind of zone: one bar, and all of them.
FillBy(before, bar, i, z) ==
  LET fill == [depth |-> Higher(before.depth, Depth(bar, z)),
               invalidated |-> bar.low <= z.bottom /\ bar.high >= z.top]
  IN IF Settled(before, z) \/ ~Overlaps(bar, z) THEN before
     ELSE [depth |-> fill.depth, invalidated |-> fill.invalidated,
           at |-> IF Settled(fill, z) THEN i ELSE 0]
Fill(c, z) ==
  LET upTo[i \in z.from .. Len(c)] ==
        IF i = z.from THEN [depth |-> 0, invalidated |-> FALSE, at |-> 0]
        ELSE FillBy(upTo[i - 1], c[i], i, z)
      last == upTo[Len(c)]
  IN [depth |-> last.depth, mitigated |-> Settled(last, z), at |-> last.at]

Tracked(c, zones) == [z \in zones |-> Fill(c, z)]

-----------------------------------------------------------------------------
(* Liquidity: levels where orders rest, and the bar that trades beyond.    *)
(* The price of a pool is a mean: num out of den.                          *)

Period(i, length) == (i - 1) \div length
\* The high and the low of a day or week, from the first bar of the next.
Levels(c, length) ==
  LET bars(i) == {c[j] : j \in {k \in 1 .. i - 1 : Period(k, length) = Period(i - 1, length)}}
      starts == {i \in 2 .. Len(c) : Period(i, length) # Period(i - 1, length)}
  IN {[buy |-> TRUE, num |-> Nearest({b.high : b \in bars(i)}), den |-> 1,
       formed |-> i, members |-> {}] : i \in starts}
     \cup
     {[buy |-> FALSE, num |-> First({b.low : b \in bars(i)}), den |-> 1,
       formed |-> i, members |-> {}] : i \in starts}

\* ICTEngine: high and low of the first bars of a session. The window is of
\* the clock; the first bar at or after the open counts even outside it.
Clock(i) == (i - 1) % DayBars
OpeningRanges(c) ==
  LET session(d) == {i \in 1 .. Len(c) : Period(i, DayBars) = d /\ Clock(i) >= SessionStart}
      days == {d \in 0 .. Period(Len(c), DayBars) : session(d) # {}}
      window(d) == {First(session(d))}
                   \cup {i \in session(d) : Clock(i) < SessionStart + OpeningBars}
  IN {[day |-> d, start |-> First(session(d)),
       high |-> Nearest({c[i].high : i \in window(d)}),
       low |-> First({c[i].low : i \in window(d)})] : d \in days}

\* Swings of one type within the tolerance of an anchor, lowest price first.
EqualLevels(swings, type) ==
  LET Near(anchor, s) ==
        LET gap == s.price - anchor.price
        IN Higher(gap, -gap) * 10000 <= anchor.price * ToleranceBp
      Group(s, anchor) ==
        LET group == {t \in OfType(swings, type) \ s.used : Near(anchor, t)}
            sum == FoldSet(LAMBDA t, n : n + t.price, 0, group)
            members == {t.index : t \in group}
        IN IF anchor \in s.used \/ Cardinality(group) < 2 THEN s
           ELSE [used |-> s.used \cup group,
                 pools |-> s.pools \cup {[buy |-> type = "HIGH", num |-> sum,
                             den |-> Cardinality(group),
                             formed |-> Nearest(members), members |-> members]}]
      ByPrice(s, t) == s.price < t.price \/ (s.price = t.price /\ s.index < t.index)
  IN FoldLeft(Group, [used |-> {}, pools |-> {}],
              SetToSortSeq(OfType(swings, type), ByPrice)).pools

Beyond(bar, p) == IF p.buy THEN bar.high * p.den > p.num ELSE bar.low * p.den < p.num
\* The first bar beyond the level since it formed, and whether it closed back.
Sweep(c, p) ==
  LET bars == {i \in p.formed .. Len(c) \ p.members : Beyond(c[i], p)}
      at == First(bars)
  IN IF bars = {} THEN [at |-> 0, rejected |-> FALSE]
     ELSE [at |-> at,
           rejected |-> IF p.buy THEN c[at].close * p.den < p.num
                        ELSE c[at].close * p.den > p.num]

\* The dealing range of the latest high and low, and where the price is in it.
ZoneOf(c, swings) ==
  LET high == Latest(OfType(swings, "HIGH")).price
      low == Latest(OfType(swings, "LOW")).price
      twice == 2 * c[Len(c)].close
  IN IF OfType(swings, "HIGH") = {} \/ OfType(swings, "LOW") = {} THEN None
     ELSE CASE twice > high + low -> "PREMIUM"
            [] twice < high + low -> "DISCOUNT"
            [] OTHER -> "EQUILIBRIUM"

-----------------------------------------------------------------------------
Analyze(c) ==
  LET swings == Swings(c)
      events == StructureEvents(c, swings)
      levels == Levels(c, DayBars) \cup Levels(c, WeekBars)
      equal == EqualLevels(swings, "HIGH") \cup EqualLevels(swings, "LOW")
  IN [swings |-> swings,
      labels |-> [s \in swings |-> Label(swings, s)],
      events |-> events,
      shifts |-> Shifts(events),
      gaps |-> Tracked(c, Gaps(c)),
      blocks |-> Tracked(c, Blocks(c, events)),
      levels |-> [p \in levels |-> Sweep(c, p)],
      equal |-> [p \in equal |-> Sweep(c, p)],
      openings |-> OpeningRanges(c),
      zone |-> ZoneOf(c, swings)]

Init == /\ candles \in {<<bar>> : bar \in Shapes}
        /\ context = Analyze(candles)

\* One more bar is visible, and everything is worked out again.
Bar == /\ Len(candles) < MaxBars
       /\ \E bar \in Shapes : candles' = Append(candles, bar)
       /\ context' = Analyze(candles')

Next == Bar
Spec == Init /\ [][Next]_vars

-----------------------------------------------------------------------------
Now == Len(candles)

\* A swing stays, with its label, and a new one is the one just confirmed.
SwingsStand ==
  /\ context.swings \subseteq context'.swings
  /\ \A s \in context'.swings \ context.swings : Confirmed(s) = Now'
LabelsStand == \A s \in context.swings : context'.labels[s] = context.labels[s]

\* A break stays, and a new one is of the bar that closed beyond.
EventsStand ==
  /\ IsPrefix(context.events, context'.events)
  /\ IsPrefix(context.shifts, context'.shifts)
  /\ \A e \in Range(context'.events) \ Range(context.events) : e.index = Now'

\* A zone stays, a new one is of this bar, and a spent one stays spent.
ZonesStand(old, new) ==
  /\ DOMAIN old \subseteq DOMAIN new
  /\ \A z \in DOMAIN new \ DOMAIN old : z.from = Now'
  /\ \A z \in DOMAIN old : /\ old[z].depth <= new[z].depth
                           /\ old[z].mitigated => new[z] = old[z]

\* An opening range stays once its window is over.
OpeningsStand ==
  \A r \in context.openings :
    Clock(Now) + 1 >= SessionStart + OpeningBars \/ Period(Now, DayBars) # r.day
      => r \in context'.openings

\* A level of a day or week stays, and its sweep names the same bar.
LevelsStand ==
  /\ DOMAIN context.levels \subseteq DOMAIN context'.levels
  /\ \A p \in DOMAIN context.levels :
       context.levels[p].at # 0 => context'.levels[p] = context.levels[p]

\* No look-ahead: what a bar reported no later bar takes back, and nothing
\* new is dated before the bar that made it known (SMCEngine.analyze over a
\* growing prefix, smc/reference.py on retractions). Equal levels are means of
\* the swings found so far and do move.
NothingRetracted ==
  [][ /\ SwingsStand /\ LabelsStand /\ EventsStand
      /\ ZonesStand(context.gaps, context'.gaps)
      /\ ZonesStand(context.blocks, context'.blocks)
      /\ LevelsStand /\ OpeningsStand ]_vars

\* A bar reached into the zone and out of its far side.
TradedThrough(bar, z) ==
  Overlaps(bar, z) /\ IF z.up THEN bar.low <= z.bottom ELSE bar.high >= z.top
ZonesExact(zones) ==
  \A z \in DOMAIN zones :
    LET after == z.from + 1 .. Now
        in == {i \in after : Overlaps(candles[i], z)}
        through == {i \in after : TradedThrough(candles[i], z)}
    IN /\ zones[z].mitigated <=> through # {}
       /\ zones[z].mitigated => zones[z].at = First(through)
       /\ in # {} => zones[z].depth = Nearest({Depth(candles[i], z) : i \in in})

\* The break before the k-th, if any, was the other way.
Turns(k) == k > 1 /\ context.events[k - 1].direction # context.events[k].direction
EventsExact ==
  LET events == context.events
      confirms == {k \in DOMAIN events : k > 1 /\ ~Turns(k) /\ Turns(k - 1)}
  IN /\ \A k \in DOMAIN events : events[k].kind = "CHOCH" <=> Turns(k)
     /\ Len(context.shifts) = Cardinality(confirms)
     /\ \A k \in confirms :
          context.shifts[Cardinality({j \in confirms : j <= k})] = events[k]

\* The scans that stop early, and the trend kept along the way, give what
\* their definitions say of the whole series: a zone is spent by the first bar
\* that trades through it, as deep as price ever went; a CHoCH is a break that
\* turns, and an MSS the first break that follows one without turning back
\* (update_mitigation of smc/fvg.py and smc/order_blocks.py, smc/structure.py).
AnalysisExact ==
  ZonesExact(context.gaps) /\ ZonesExact(context.blocks) /\ EventsExact
=============================================================================
