---------------------------- MODULE CandlePipeline ----------------------------
(***************************************************************************)
(* From a feed's ticks to the candles of one instrument:                   *)
(* workers/main.py bridges every tick to the latest price and then to the  *)
(* candle worker, which forms base candles, stores each one that closes,   *)
(* and derives those of the higher timeframes whose bucket it completes.   *)
(*                                                                         *)
(* Every write and every publish may raise: the bridge logs it and goes on *)
(* with the next tick.  The feed may end, is subscribed to again, and then *)
(* repeats ticks already seen.  A process that dies forgets the forming    *)
(* candle.                                                                 *)
(*                                                                         *)
(* A tick is its number and its base minute; a candle is the ticks it was  *)
(* made of, which determine its open, high, low and close.                 *)
(***************************************************************************)
EXTENDS Integers, Sequences, FiniteSets

CONSTANTS Timeframes,  \* derived_timeframes, in base minutes, in order
          SessionOpen, \* SESSION_OPEN_MINUTES_UTC
          Day,         \* _DAY_MINUTES
          Repeats,     \* how many ticks a feed repeats at most
          MaxMinute,   \* bound: base minutes
          MaxTicks,    \* bound: ticks of the market
          MaxFaults    \* bound: crashes, ended feeds, calls that raise

ASSUME TimeframesAssumption ==
  Timeframes \in Seq(Nat \ {0, 1}) /\ SessionOpen \in Nat /\ Day \in Nat \ {0} /\ Repeats \in Nat
ASSUME BoundsAssumption == MaxMinute \in Nat /\ MaxTicks \in Nat /\ MaxFaults \in Nat

VARIABLES
  market,   \* the base minute of every tick so far
  at,       \* how many of them the feed has delivered
  feed,     \* is the bridge subscribed
  pc,       \* where the bridge is with a tick
  tick,     \* the tick it is processing
  due,      \* the timeframes still to derive, by their places
  forming,  \* the forming candle
  base,     \* candles of the base timeframe
  derived,  \* candles of the derived ones
  accepted, \* history: the ticks a candle was formed of
  restarts, \* history: did the process die
  faults    \* bound: faults left

pipelineVars == <<market, at, feed, pc, tick, due, forming, base, derived, accepted, restarts, faults>>

Minutes  == 0 .. MaxMinute
Sizes    == {Timeframes[k] : k \in DOMAIN Timeframes}
NoRow    == {}
NoCandle == [minute |-> -1, ticks |-> {}]

(* bucket_start, in base minutes: intraday buckets are anchored to the     *)
(* session's open, daily ones to midnight.  No weekly one is derived.      *)
BucketStart(minute, size) ==
  LET offset == IF size >= Day THEN 0 ELSE SessionOpen % size
  IN ((minute - offset) \div size) * size + offset

Bucket(start, size) == {m \in Minutes : BucketStart(m, size) = start}

CompletesBucket(minute, size) == BucketStart(minute + 1, size) # BucketStart(minute, size)

Starts(size) == {BucketStart(m, size) : m \in Minutes}

PipelineInit ==
  /\ market = <<>> /\ at = 0 /\ feed = TRUE
  /\ pc = "idle" /\ tick = 0 /\ due = {}
  /\ forming = NoCandle
  /\ base = [m \in Minutes |-> NoRow]
  /\ derived = [z \in Sizes |-> [b \in Starts(z) |-> NoRow]]
  /\ accepted = {} /\ restarts = 0 /\ faults = MaxFaults

Fault == faults > 0 /\ faults' = faults - 1
Step(from, to) == pc = from /\ pc' = to

LastMinute == IF market = <<>> THEN 0 ELSE market[Len(market)]
-----------------------------------------------------------------------------
(* The market trades, and the feed delivers the tick.                      *)
Arrive ==
  /\ feed /\ at = Len(market) /\ at < MaxTicks
  /\ \E m \in LastMinute .. MaxMinute : market' = Append(market, m)
  /\ Step("idle", "price") /\ at' = at + 1 /\ tick' = at + 1
  /\ UNCHANGED <<feed, due, forming, base, derived, accepted, restarts, faults>>

(* A feed subscribed to again repeats what it delivered before.            *)
Repeat ==
  /\ feed /\ at < Len(market)
  /\ Step("idle", "price") /\ at' = at + 1 /\ tick' = at + 1
  /\ UNCHANGED <<market, feed, due, forming, base, derived, accepted, restarts, faults>>

(* The latest price is set and published; then the candle worker's turn.   *)
SetPrice ==
  /\ Step("price", "candle")
  /\ UNCHANGED <<market, at, feed, tick, due, forming, base, derived, accepted, restarts, faults>>

Minute == market[tick]

(* A tick of a bucket older than the forming one is dropped.               *)
Drop ==
  /\ Step("candle", "idle") /\ Minute < forming.minute
  /\ UNCHANGED <<market, at, feed, tick, due, forming, base, derived, accepted, restarts, faults>>

(* The tick opens a candle or joins the forming one.                       *)
Form ==
  /\ Step("candle", "idle") /\ forming.minute \in {-1, Minute}
  /\ forming' = [minute |-> Minute, ticks |-> forming.ticks \cup {tick}]
  /\ accepted' = accepted \cup {tick}
  /\ UNCHANGED <<market, at, feed, tick, due, base, derived, restarts, faults>>

(* Mutant: any other bucket closes the forming candle.                     *)
StoreOnAnyOther ==
  /\ Step("candle", "announce") /\ forming # NoCandle /\ Minute # forming.minute
  /\ base' = [base EXCEPT ![forming.minute] = forming.ticks]
  /\ UNCHANGED <<market, at, feed, tick, due, forming, derived, accepted, restarts, faults>>

(* A newer bucket: the forming candle closes.  upsert_candles overwrites.  *)
Store ==
  /\ Step("candle", "announce") /\ forming # NoCandle /\ Minute > forming.minute
  /\ base' = [base EXCEPT ![forming.minute] = forming.ticks]
  /\ UNCHANGED <<market, at, feed, tick, due, forming, derived, accepted, restarts, faults>>

(* The base candle is published; the timeframes it completes are next.     *)
Announce ==
  /\ Step("announce", "derive")
  /\ due' = {k \in DOMAIN Timeframes : CompletesBucket(forming.minute, Timeframes[k])}
  /\ UNCHANGED <<market, at, feed, tick, forming, base, derived, accepted, restarts, faults>>

(* Mutant: the newest rows by position, whatever bucket they are of.       *)
AggregateByPosition(minute, size) ==
  UNION {base[m] : m \in {n \in 0 .. minute : Cardinality({k \in n + 1 .. minute : base[k] # NoRow}) < size}}

(* The base candles inside the bucket, and only those.                     *)
Aggregate(minute, size) == UNION {base[m] : m \in {n \in Bucket(BucketStart(minute, size), size) : n <= minute}}

NextDue == CHOOSE k \in due : \A j \in due : k <= j

(* _derive_timeframe writes the bar from what traded ...                   *)
Derive ==
  LET size == Timeframes[NextDue] IN
  /\ due # {} /\ Step("derive", "tell")
  /\ derived' = [derived EXCEPT ![size][BucketStart(forming.minute, size)] = Aggregate(forming.minute, size)]
  /\ UNCHANGED <<market, at, feed, tick, due, forming, base, accepted, restarts, faults>>

(* ... and publishes it.                                                   *)
Tell ==
  /\ Step("tell", "derive") /\ due' = due \ {NextDue}
  /\ UNCHANGED <<market, at, feed, tick, forming, base, derived, accepted, restarts, faults>>

(* The tick opens the next candle.                                         *)
Reopen ==
  /\ due = {} /\ Step("derive", "idle")
  /\ forming' = [minute |-> Minute, ticks |-> {tick}]
  /\ accepted' = accepted \cup {tick}
  /\ UNCHANGED <<market, at, feed, tick, due, base, derived, restarts, faults>>

(* Redis or the database raises on any of the calls: the bridge goes on    *)
(* with the next tick, and the forming candle is still the one to close.   *)
Raises ==
  /\ Fault /\ pc # "idle" /\ pc' = "idle" /\ due' = {}
  /\ UNCHANGED <<market, at, feed, tick, forming, base, derived, accepted, restarts>>

(* The feed ends or raises; supervise subscribes again after a delay.      *)
FeedEnds ==
  /\ Fault /\ feed /\ pc = "idle" /\ feed' = FALSE
  /\ UNCHANGED <<market, at, pc, tick, due, forming, base, derived, accepted, restarts>>
Resubscribe ==
  /\ ~feed /\ feed' = TRUE
  /\ at' \in {n \in 0 .. Len(market) : n >= Len(market) - Repeats}
  /\ UNCHANGED <<market, pc, tick, due, forming, base, derived, accepted, restarts, faults>>

(* The worker process dies.                                                *)
Crash ==
  /\ Fault /\ restarts' = restarts + 1
  /\ feed' = FALSE /\ pc' = "idle" /\ due' = {} /\ forming' = NoCandle
  /\ UNCHANGED <<market, at, tick, base, derived, accepted>>

Bridge ==
  \/ SetPrice \/ Drop \/ Form \/ Store \/ Announce \/ Derive \/ Tell \/ Reopen
PipelineNext == Arrive \/ Repeat \/ Bridge \/ Raises \/ FeedEnds \/ Resubscribe \/ Crash

PipelineSpec == PipelineInit /\ [][PipelineNext]_pipelineVars
-----------------------------------------------------------------------------
Undisturbed == pc = "idle" /\ restarts = 0

(* A candle that closed holds every tick that was accepted for its minute  *)
(* and no other, whatever was repeated and whichever call raised ("the     *)
(* closed history for that bucket is already correct").                    *)
CandlesComplete ==
  Undisturbed => \A m \in Minutes : m < forming.minute => base[m] = {n \in accepted : market[n] = m}

(* The bar of a bucket that is over is made of that bucket's base candles, *)
(* and a failed write or publish does not lose it, as long as its last     *)
(* minute traded.                                                          *)
DerivedFollows ==
  Undisturbed /\ forming # NoCandle => \A z \in Sizes : \A b \in Starts(z) :
    LET minutes == Bucket(b, z) IN
    b < BucketStart(forming.minute, z) =>
      /\ derived[z][b] \in {NoRow, UNION {base[m] : m \in minutes}}
      /\ base[CHOOSE m \in minutes : \A n \in minutes : n <= m] # NoRow => derived[z][b] # NoRow

(* Every bucket in which anything traded gets its bar (_derive_timeframe:  *)
(* "a minute in which nothing traded contributes nothing to an OHLCV bar   *)
(* by definition ...  So: write the bar").                                 *)
EveryTradedBucketDerived ==
  Undisturbed /\ forming # NoCandle => \A z \in Sizes : \A b \in Starts(z) :
    b < BucketStart(forming.minute, z) /\ (\E m \in Bucket(b, z) : base[m] # NoRow) => derived[z][b] # NoRow
=============================================================================
