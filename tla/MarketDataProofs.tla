-------------------------- MODULE MarketDataProofs --------------------------
(***************************************************************************)
(* What is proved of the market data: that the candles are complete        *)
(* (CandlePipeline), that the analysis of them neither repaints nor        *)
(* errs (SmcAnalysis), and that the journals follow it (Scanner).          *)
(*                                                                         *)
(* Candles: for any number of ticks, minutes, timeframes, repeats and      *)
(* calls that raise, a base candle that closed is made of exactly the      *)
(* ticks that were accepted for its minute.  Until the process dies, every *)
(* accepted tick is of the forming minute or an older one, so the forming  *)
(* candle is the only one the table may be behind on; and whatever the     *)
(* bridge was interrupted at, it does not go on to the next candle before  *)
(* the forming one is stored.                                              *)
(*                                                                         *)
(* And the bar of a bucket that is over follows its base candles: a bar is *)
(* written only when the bucket's last minute closes, from all of them,    *)
(* and the bridge does not go on before every bar that is due was written. *)
(*                                                                         *)
(* Analysis: what analyze returns is a function of the series, so the      *)
(* invariant is that the context is that function of the bars there are.   *)
(* Everything else is about one bar more.  The recursive scans are         *)
(* compared by walking the shorter and the longer series in step (Along):  *)
(* they agree up to the last bar of the shorter one.  A walk is exact      *)
(* because each of its steps keeps account of the bars it has seen.        *)
(*                                                                         *)
(* Scanner: the rows of setups are those of what was known by some bar, no *)
(* earlier than the one the last pass had read.  A row with the type and   *)
(* the moment of a candidate is that candidate: breaks and gaps are known  *)
(* at their moment, and an order block goes the way its bar tells.         *)
(***************************************************************************)
EXTENDS CandlePipeline, Scanner, FiniteSetTheorems, WellFoundedInduction, TLAPS

USE BoundsAssumption

\* What the argument needs of the types.
TypeInv ==
  /\ market \in Seq(Minutes)
  /\ at \in 0 .. Len(market)
  /\ pc \in {"idle", "price", "candle", "announce", "derive", "tell"}
  /\ pc # "idle" => tick \in 1 .. Len(market)
  /\ forming \in [minute : Minutes \cup {-1}, ticks : SUBSET Nat]
  /\ forming.minute = -1 => forming = NoCandle
  /\ base \in [Minutes -> SUBSET Nat]
  /\ accepted \in SUBSET (1 .. Len(market))
  /\ restarts \in Nat

\* The ticks accepted for a minute.
AcceptedOf(m) == {n \in accepted : market[n] = m}

\* The forming candle is the newest, and the table is right about all others.
FormingInv ==
  restarts = 0 =>
    /\ forming.ticks = AcceptedOf(forming.minute)
    /\ \A n \in accepted : market[n] <= forming.minute
    /\ \A m \in Minutes : m # forming.minute => base[m] = AcceptedOf(m)

\* Between storing a candle and opening the next, the forming one is stored.
StoredInv ==
  pc \in {"announce", "derive", "tell"} =>
    /\ forming.minute \in Minutes
    /\ forming.minute < Minute
    /\ base[forming.minute] = forming.ticks

IInv == TypeInv /\ FormingInv /\ StoredInv
-----------------------------------------------------------------------------
LEMMA InitInv == PipelineInit => IInv
<1> SUFFICES ASSUME PipelineInit PROVE IInv
  OBVIOUS
<1>1. TypeInv
  BY DEF PipelineInit, TypeInv, NoCandle, NoRow
<1>2. FormingInv
  BY DEF PipelineInit, FormingInv, AcceptedOf, NoCandle, NoRow
<1>3. StoredInv
  BY DEF PipelineInit, StoredInv
<1> QED
  BY <1>1, <1>2, <1>3 DEF IInv

\* A new tick of the market changes nothing about the ones before it.
LEMMA ArriveInv == IInv /\ Arrive => IInv'
<1> SUFFICES ASSUME IInv, Arrive PROVE IInv'
  OBVIOUS
<1>1. PICK m \in LastMinute .. MaxMinute : market' = Append(market, m)
  BY DEF Arrive
<1>2. m \in Minutes
  <2>1. LastMinute \in Minutes
    BY DEF IInv, TypeInv, LastMinute, Minutes
  <2> QED
    BY <2>1 DEF Minutes
<1>3. /\ market' \in Seq(Minutes)
      /\ Len(market') = Len(market) + 1
      /\ \A n \in 1 .. Len(market) : market'[n] = market[n]
  BY <1>1, <1>2 DEF IInv, TypeInv
<1>4. TypeInv'
  BY <1>3 DEF IInv, TypeInv, Arrive, Step
<1>5. \A k : AcceptedOf(k)' = AcceptedOf(k)
  BY <1>3 DEF IInv, TypeInv, Arrive, AcceptedOf
<1>6. FormingInv'
  <2>1. \A n \in accepted : market'[n] = market[n]
    BY <1>3 DEF IInv, TypeInv
  <2> QED
    BY <1>5, <2>1 DEF IInv, FormingInv, AcceptedOf, Arrive
<1>7. StoredInv'
  BY DEF StoredInv, Arrive, Step
<1> QED
  BY <1>4, <1>6, <1>7 DEF IInv

\* A tick that opens the first candle or joins the forming one.
LEMMA FormInv == IInv /\ Form => IInv'
<1> SUFFICES ASSUME IInv, Form PROVE IInv'
  OBVIOUS
<1>1. /\ tick \in 1 .. Len(market)
      /\ Minute \in Minutes
      /\ market' = market /\ tick' = tick /\ base' = base /\ restarts' = restarts
      /\ forming' = [minute |-> Minute, ticks |-> forming.ticks \cup {tick}]
      /\ accepted' = accepted \cup {tick}
      /\ pc' = "idle"
  BY DEF IInv, TypeInv, Form, Step, Minute
<1>2. TypeInv'
  BY <1>1 DEF IInv, TypeInv, Form, Minutes
<1>3. FormingInv'
  <2> SUFFICES ASSUME restarts = 0 PROVE FormingInv'
    BY <1>1 DEF FormingInv
  <2>1. /\ forming.ticks = AcceptedOf(forming.minute)
        /\ \A n \in accepted : market[n] <= forming.minute
        /\ \A m \in Minutes : m # forming.minute => base[m] = AcceptedOf(m)
    BY DEF IInv, FormingInv
  <2>2. \A n \in accepted : market[n] \in Minutes
    BY DEF IInv, TypeInv
  <2>3. CASE forming.minute = Minute
    <3>1. AcceptedOf(Minute)' = AcceptedOf(Minute) \cup {tick}
      BY <1>1 DEF AcceptedOf, Minute
    <3>2. \A m \in Minutes : m # Minute => AcceptedOf(m)' = AcceptedOf(m)
      BY <1>1 DEF AcceptedOf, Minute
    <3>3. \A n \in accepted' : market[n] <= Minute
      BY <1>1, <2>1, <2>3 DEF Minute, Minutes
    <3> QED
      BY <1>1, <2>1, <2>3, <3>1, <3>2, <3>3 DEF FormingInv, AcceptedOf, Minute
  <2>4. CASE forming.minute = -1
    <3>1. accepted = {}
      BY <2>1, <2>2, <2>4 DEF Minutes
    <3>2. forming.ticks = {} /\ \A m \in Minutes : base[m] = {}
      BY <2>1, <2>4, <3>1 DEF AcceptedOf, Minutes
    <3>3. accepted' = {tick} /\ forming' = [minute |-> Minute, ticks |-> {tick}]
      BY <1>1, <3>1, <3>2
    <3> QED
      BY <1>1, <3>2, <3>3 DEF FormingInv, AcceptedOf, Minute, Minutes
  <2> QED
    BY <2>3, <2>4 DEF Form
<1>4. StoredInv'
  BY <1>1 DEF StoredInv
<1> QED
  BY <1>2, <1>3, <1>4 DEF IInv

\* The forming candle is written, over whatever an interrupted close left.
LEMMA StoreInv == IInv /\ Store => IInv'
<1> SUFFICES ASSUME IInv, Store PROVE IInv'
  OBVIOUS
<1>1. /\ market' = market /\ tick' = tick /\ forming' = forming
      /\ accepted' = accepted /\ restarts' = restarts
      /\ base' = [base EXCEPT ![forming.minute] = forming.ticks]
      /\ pc = "candle" /\ pc' = "announce"
  BY DEF Store, Step
<1>2. /\ Minute \in Minutes
      /\ forming.minute < Minute
  BY <1>1 DEF IInv, TypeInv, Store, Minute
<1>3. TypeInv'
  BY <1>1 DEF IInv, TypeInv, Store
<1>4. FormingInv'
  BY <1>1 DEF IInv, TypeInv, FormingInv, AcceptedOf
<1>5. StoredInv'
  <2>1. forming.minute \in Minutes
    BY DEF IInv, TypeInv, Store
  <2> QED
    BY <1>1, <1>2, <2>1 DEF IInv, TypeInv, StoredInv, Minute
<1> QED
  BY <1>3, <1>4, <1>5 DEF IInv

\* The stored candle makes way for the next one.
LEMMA ReopenInv == IInv /\ Reopen => IInv'
<1> SUFFICES ASSUME IInv, Reopen PROVE IInv'
  OBVIOUS
<1>1. /\ tick \in 1 .. Len(market)
      /\ Minute \in Minutes
      /\ market' = market /\ tick' = tick /\ base' = base /\ restarts' = restarts
      /\ forming' = [minute |-> Minute, ticks |-> {tick}]
      /\ accepted' = accepted \cup {tick}
      /\ pc' = "idle"
  BY DEF IInv, TypeInv, Reopen, Step, Minute
<1>2. /\ forming.minute \in Minutes
      /\ forming.minute < Minute
      /\ base[forming.minute] = forming.ticks
  BY DEF IInv, StoredInv, Reopen, Step
<1>3. TypeInv'
  BY <1>1 DEF IInv, TypeInv, Reopen, Minutes
<1>4. FormingInv'
  <2> SUFFICES ASSUME restarts = 0 PROVE FormingInv'
    BY <1>1 DEF FormingInv
  <2>1. /\ forming.ticks = AcceptedOf(forming.minute)
        /\ \A n \in accepted : market[n] <= forming.minute
        /\ \A m \in Minutes : m # forming.minute => base[m] = AcceptedOf(m)
    BY DEF IInv, FormingInv
  <2>2. \A n \in accepted : market[n] \in Minutes
    BY DEF IInv, TypeInv
  <2>3. \A n \in accepted : market[n] < Minute
    BY <1>1, <1>2, <2>1, <2>2 DEF Minutes
  <2>4. AcceptedOf(Minute)' = {tick}
    BY <1>1, <2>3, <2>2 DEF AcceptedOf, Minute, Minutes
  <2>5. \A m \in Minutes : m # Minute => AcceptedOf(m)' = AcceptedOf(m)
    BY <1>1 DEF AcceptedOf, Minute
  <2>6. \A m \in Minutes : m # Minute => base[m] = AcceptedOf(m)
    BY <1>2, <2>1
  <2>7. \A n \in accepted' : market[n] <= Minute
    BY <1>1, <2>3, <2>2 DEF Minute, Minutes
  <2> QED
    BY <1>1, <2>4, <2>5, <2>6, <2>7 DEF FormingInv, AcceptedOf, Minute
<1>5. StoredInv'
  BY <1>1 DEF StoredInv
<1> QED
  BY <1>3, <1>4, <1>5 DEF IInv

\* Steps that only move the bridge, within a close or out of it.
LEMMA MoveInv ==
  ASSUME IInv,
         UNCHANGED <<market, forming, base, accepted, restarts>>,
         at' \in 0 .. Len(market),
         \/ pc' \in {"idle", "price", "candle"}
         \/ pc \in {"announce", "derive", "tell"} /\ pc' \in {"announce", "derive", "tell"}
                /\ tick' = tick,
         pc' # "idle" => tick' \in 1 .. Len(market)
  PROVE  IInv'
<1>1. TypeInv'
  BY DEF IInv, TypeInv
<1>2. FormingInv'
  BY DEF IInv, FormingInv, AcceptedOf
<1>3. StoredInv'
  BY DEF IInv, StoredInv, Minute
<1> QED
  BY <1>1, <1>2, <1>3 DEF IInv

\* A process that dies forgets the forming candle, and nothing is said of
\* the minute it died in.
LEMMA CrashInv == IInv /\ Crash => IInv'
<1> SUFFICES ASSUME IInv, Crash PROVE IInv'
  OBVIOUS
<1>1. TypeInv'
  BY DEF IInv, TypeInv, Crash, NoCandle
<1>2. FormingInv'
  BY DEF IInv, TypeInv, FormingInv, Crash
<1>3. StoredInv'
  BY DEF StoredInv, Crash
<1> QED
  BY <1>1, <1>2, <1>3 DEF IInv

LEMMA NextInv == IInv /\ [PipelineNext]_pipelineVars => IInv'
<1> SUFFICES ASSUME IInv, [PipelineNext]_pipelineVars PROVE IInv'
  OBVIOUS
<1> USE DEF Step
<1>0. at \in 0 .. Len(market) /\ (pc # "idle" => tick \in 1 .. Len(market))
  BY DEF IInv, TypeInv
<1>1. CASE Arrive
  BY <1>1, ArriveInv
<1>2. CASE Repeat
  BY <1>0, <1>2, MoveInv DEF Repeat
<1>3. CASE SetPrice
  BY <1>0, <1>3, MoveInv DEF SetPrice
<1>4. CASE Drop
  BY <1>0, <1>4, MoveInv DEF Drop
<1>5. CASE Form
  BY <1>5, FormInv
<1>6. CASE Store
  BY <1>6, StoreInv
<1>7. CASE Announce
  BY <1>0, <1>7, MoveInv DEF Announce
<1>8. CASE Derive
  BY <1>0, <1>8, MoveInv DEF Derive
<1>9. CASE Tell
  BY <1>0, <1>9, MoveInv DEF Tell
<1>10. CASE Reopen
  BY <1>10, ReopenInv
<1>11. CASE Raises
  BY <1>0, <1>11, MoveInv DEF Raises
<1>12. CASE FeedEnds
  BY <1>0, <1>12, MoveInv DEF FeedEnds, IInv, TypeInv
<1>13. CASE Resubscribe
  <2>1. at' \in 0 .. Len(market) /\ UNCHANGED <<market, pc, tick, forming, base, accepted, restarts>>
    BY <1>13 DEF Resubscribe
  <2> QED
    BY <1>0, <2>1, MoveInv DEF IInv, TypeInv
<1>14. CASE Crash
  BY <1>14, CrashInv
<1>15. CASE UNCHANGED pipelineVars
  BY <1>0, <1>15, MoveInv DEF pipelineVars, IInv, TypeInv
<1> QED
  BY <1>1, <1>2, <1>3, <1>4, <1>5, <1>6, <1>7, <1>8, <1>9, <1>10, <1>11, <1>12, <1>13, <1>14, <1>15
     DEF PipelineNext, Bridge
-----------------------------------------------------------------------------
LEMMA InvComplete == IInv => CandlesComplete
<1> SUFFICES ASSUME IInv, Undisturbed, NEW m \in Minutes, m < forming.minute
             PROVE  base[m] = AcceptedOf(m)
  BY DEF CandlesComplete, AcceptedOf
<1>1. forming.minute \in Int /\ m \in Int
  BY DEF IInv, TypeInv, Minutes
<1> QED
  BY <1>1 DEF IInv, FormingInv, Undisturbed

\* A candle that closed holds every tick accepted for its minute and no
\* other: repeats, dropped ticks, calls that raise and closes done again
\* included (CandleWorker.process_tick and _on_candle_closed).
THEOREM ClosedCandlesComplete == PipelineSpec => []CandlesComplete
<1>1. PipelineInit => IInv
  BY InitInv
<1>2. IInv /\ [PipelineNext]_pipelineVars => IInv'
  BY NextInv
<1>3. IInv => CandlesComplete
  BY InvComplete
<1> QED
  BY <1>1, <1>2, <1>3, PTL DEF PipelineSpec
-----------------------------------------------------------------------------
(* Buckets.  A minute lies in the bucket that starts at its BucketStart,   *)
(* buckets of one size do not overlap, and later minutes lie in later ones.*)
LEMMA DivIs ==
  ASSUME NEW a \in Int, NEW z \in Nat \ {0}
  PROVE  /\ a \div z \in Int
         /\ (a \div z) * z <= a /\ a < (a \div z) * z + z
OBVIOUS

LEMMA QuotientIs ==
  ASSUME NEW a \in Int, NEW z \in Nat \ {0}, NEW q \in Int, q * z <= a, a < q * z + z
  PROVE  q = a \div z
<1> DEFINE p == a \div z
<1>1. p \in Int /\ p * z <= a /\ a < p * z + z
  BY DivIs
<1> HIDE DEF p
<1>2. CASE q < p
  <2>1. (p - q - 1) * z >= 0
    BY <1>1, <1>2
  <2>2. (p - q - 1) * z = p * z - q * z - z
    BY <1>1
  <2> QED
    BY <1>1, <2>1, <2>2
<1>3. CASE q > p
  <2>1. (q - p - 1) * z >= 0
    BY <1>1, <1>3
  <2>2. (q - p - 1) * z = q * z - p * z - z
    BY <1>1
  <2> QED
    BY <1>1, <2>1, <2>2
<1> QED
  BY <1>1, <1>2, <1>3 DEF p

LEMMA BucketIs ==
  ASSUME NEW m \in Int, NEW z \in Nat \ {0}
  PROVE  /\ BucketStart(m, z) \in Int
         /\ BucketStart(m, z) <= m /\ m < BucketStart(m, z) + z
         /\ \A n \in Int : BucketStart(m, z) <= n /\ n < BucketStart(m, z) + z
                             => BucketStart(n, z) = BucketStart(m, z)
<1> DEFINE offset == IF z >= Day THEN 0 ELSE SessionOpen % z
<1>1. offset \in Int
  BY TimeframesAssumption
<1>2. \A n : BucketStart(n, z) = ((n - offset) \div z) * z + offset
  BY DEF BucketStart
<1> HIDE DEF offset
<1> DEFINE q(n) == (n - offset) \div z
<1>3. \A n \in Int : q(n) \in Int /\ q(n) * z <= n - offset /\ n - offset < q(n) * z + z
  BY <1>1, DivIs
<1>4. ASSUME NEW n \in Int, BucketStart(m, z) <= n, n < BucketStart(m, z) + z
      PROVE  BucketStart(n, z) = BucketStart(m, z)
  <2>1. q(m) * z <= n - offset /\ n - offset < q(m) * z + z
    BY <1>1, <1>2, <1>3, <1>4
  <2>2. q(m) = q(n)
    BY <1>1, <1>3, <2>1, QuotientIs
  <2> QED
    BY <1>2, <2>2
<1> QED
  BY <1>1, <1>2, <1>3, <1>4

LEMMA BucketsApart ==
  ASSUME NEW m \in Int, NEW n \in Int, NEW z \in Nat \ {0}
  PROVE  /\ m <= n => BucketStart(m, z) <= BucketStart(n, z)
         /\ BucketStart(m, z) < BucketStart(n, z) => BucketStart(m, z) + z <= BucketStart(n, z)
         /\ CompletesBucket(m, z) <=> m + 1 = BucketStart(m, z) + z
<1> DEFINE b == BucketStart(m, z)
           c == BucketStart(n, z)
<1>1. /\ b \in Int /\ b <= m /\ m < b + z
      /\ \A k \in Int : b <= k /\ k < b + z => BucketStart(k, z) = b
  BY BucketIs
<1>2. /\ c \in Int /\ c <= n /\ n < c + z
      /\ \A k \in Int : c <= k /\ k < c + z => BucketStart(k, z) = c
  BY BucketIs
<1>3. CompletesBucket(m, z) <=> BucketStart(m + 1, z) # b
  BY DEF CompletesBucket
<1>4. BucketStart(m + 1, z) = b => m + 1 < b + z
  BY BucketIs
<1>5. BucketStart(m, z) = b /\ BucketStart(n, z) = c
  OBVIOUS
<1> HIDE DEF b, c
<1>6. m <= n => b <= c
  BY <1>1, <1>2, <1>5
<1>7. b < c => b + z <= c
  BY <1>1, <1>2
<1>8. BucketStart(m + 1, z) # b <=> m + 1 = b + z
  BY <1>1, <1>4
<1> QED
  BY <1>3, <1>5, <1>6, <1>7, <1>8
-----------------------------------------------------------------------------
(* A set of natural numbers that is not empty has a least element.         *)
LEMMA LeastNatural ==
  ASSUME NEW T \in SUBSET Nat, T # {}
  PROVE  \E n \in T : \A m \in T : n <= m
<1> DEFINE R == OpToRel(<, Nat)
<1>1. \E x \in T : \A y \in T : ~(<<y, x>> \in R)
  <2>1. IsWellFoundedOn(R, Nat)
    BY NatLessThanWellFounded
  <2> HIDE DEF R
  <2> QED
    BY <2>1, WFMin
<1>2. \A x, y \in Nat : <<y, x>> \in R <=> y < x
  BY DEF OpToRel
<1> HIDE DEF R
<1>3. PICK n \in T : \A m \in T : ~(<<m, n>> \in R)
  BY <1>1
<1>4. \A m \in T : m \in Nat /\ n \in Nat /\ ~(m < n)
  BY <1>2, <1>3
<1> QED
  BY <1>3, <1>4
-----------------------------------------------------------------------------
(* The derived bars.                                                       *)
Here(z)    == BucketStart(forming.minute, z)
Bars(b, z) == UNION {base[m] : m \in Bucket(b, z)}

DerivedType ==
  /\ due \subseteq DOMAIN Timeframes
  /\ DOMAIN derived = Sizes
  /\ \A z \in Sizes : derived[z] \in [Starts(z) -> SUBSET Nat]

\* No bar is ahead of its base candles, and a bucket that is over has its
\* bar if its last minute traded.
BarInv ==
  \A z \in Sizes : \A b \in Starts(z) :
    /\ forming.minute = -1 \/ b > Here(z) => derived[z][b] = NoRow
    /\ b = Here(z) /\ ~CompletesBucket(forming.minute, z) => derived[z][b] = NoRow
    /\ forming.minute # -1 /\ b < Here(z) =>
         /\ derived[z][b] \in {NoRow, Bars(b, z)}
         /\ \A m \in Bucket(b, z) : m + 1 = b + z /\ base[m] # NoRow => derived[z][b] # NoRow

\* A close derives every bar it completes before the next candle opens.
DueInv ==
  pc \in {"derive", "tell"} =>
    /\ \A k \in due : CompletesBucket(forming.minute, Timeframes[k])
    /\ pc = "tell" => due # {}
    /\ \A k \in DOMAIN Timeframes :
         LET z == Timeframes[k] IN
         CompletesBucket(forming.minute, z) =>
           \/ k \in due /\ ~(pc = "tell" /\ k = NextDue)
           \/ derived[z][Here(z)] = Bars(Here(z), z)

FollowInv == DerivedType /\ (restarts = 0 => BarInv) /\ DueInv

LEMMA SizesAre == Sizes \subseteq Nat \ {0}
<1>1. \A k \in DOMAIN Timeframes : Timeframes[k] \in Nat \ {0, 1}
  BY TimeframesAssumption
<1> QED
  BY <1>1 DEF Sizes

(* A bucket and a minute.                                                  *)
LEMMA StartIs ==
  ASSUME NEW z \in Sizes, NEW b \in Starts(z), NEW f \in Minutes
  PROVE  LET h == BucketStart(f, z) IN
         /\ z \in Int /\ b \in Int /\ h \in Int /\ f \in Int /\ h \in Starts(z)
         /\ h <= f /\ f < h + z
         /\ b < h => b + z <= h
         /\ h < b => h + z <= b
         /\ CompletesBucket(f, z) <=> f + 1 = h + z
         /\ \A m \in Minutes : m \in Int /\ (m \in Bucket(b, z) <=> b <= m /\ m < b + z)
         /\ \A m \in Bucket(b, z) : m \in Minutes
         /\ \E m \in Minutes : b <= m /\ m < b + z
<1>1. z \in Nat \ {0} /\ f \in Int /\ Minutes \subseteq Int
  BY SizesAre DEF Minutes
<1>2. PICK k \in Minutes : b = BucketStart(k, z)
  BY DEF Starts
<1>3. k \in Int
  BY <1>1
<1>4. /\ b \in Int /\ b <= k /\ k < b + z
      /\ \A n \in Int : b <= n /\ n < b + z => BucketStart(n, z) = b
  BY <1>1, <1>2, <1>3, BucketIs
<1>5. /\ BucketStart(f, z) \in Int /\ BucketStart(f, z) <= f /\ f < BucketStart(f, z) + z
      /\ BucketStart(f, z) \in Starts(z)
  BY <1>1, BucketIs DEF Starts
<1>6. /\ b < BucketStart(f, z) => b + z <= BucketStart(f, z)
      /\ BucketStart(f, z) < b => BucketStart(f, z) + z <= b
      /\ CompletesBucket(f, z) <=> f + 1 = BucketStart(f, z) + z
  BY <1>1, <1>2, <1>3, BucketsApart
<1>7. ASSUME NEW m \in Minutes PROVE m \in Int /\ (m \in Bucket(b, z) <=> b <= m /\ m < b + z)
  <2>1. m \in Int /\ BucketStart(m, z) <= m /\ m < BucketStart(m, z) + z
    BY <1>1, BucketIs
  <2> QED
    BY <1>4, <2>1 DEF Bucket
<1>8. \A m \in Bucket(b, z) : m \in Minutes
  BY DEF Bucket
<1> QED
  BY <1>1, <1>2, <1>4, <1>5, <1>6, <1>7, <1>8

(* Until the process dies, the table has nothing after the forming candle. *)
LEMMA NothingAhead ==
  ASSUME IInv, restarts = 0, NEW m \in Minutes, m > forming.minute
  PROVE  base[m] = NoRow
<1>1. forming.minute \in Int /\ m \in Int
  BY DEF IInv, TypeInv, Minutes
<1>2. base[m] = AcceptedOf(m) /\ \A n \in accepted : market[n] <= forming.minute
  BY <1>1 DEF IInv, FormingInv
<1> QED
  BY <1>1, <1>2 DEF AcceptedOf, NoRow

LEMMA NextDueIs ==
  ASSUME DerivedType, due # {}
  PROVE  NextDue \in due
<1>1. due \in SUBSET Nat
  BY TimeframesAssumption DEF DerivedType
<1>2. \E k \in due : \A j \in due : k <= j
  BY <1>1, LeastNatural
<1> QED
  BY <1>2 DEF NextDue

LEMMA FollowInit == PipelineInit => FollowInv
<1> SUFFICES ASSUME PipelineInit PROVE FollowInv
  OBVIOUS
<1>1. DerivedType
  BY DEF PipelineInit, DerivedType, NoRow
<1>2. BarInv
  BY DEF PipelineInit, BarInv, NoCandle
<1>3. DueInv
  BY DEF PipelineInit, DueInv
<1> QED
  BY <1>1, <1>2, <1>3 DEF FollowInv

\* Steps that derive nothing and move no candle.
LEMMA QuietFollow ==
  ASSUME FollowInv, UNCHANGED <<forming, base, derived, restarts>>,
         due' \subseteq DOMAIN Timeframes, pc' \notin {"derive", "tell"}
  PROVE  FollowInv'
<1>1. DerivedType'
  BY DEF FollowInv, DerivedType
<1>2. restarts' = 0 => BarInv'
  BY DEF FollowInv, BarInv, Here, Bars
<1>3. DueInv'
  BY DEF DueInv
<1> QED
  BY <1>1, <1>2, <1>3 DEF FollowInv

\* The first candle finds both tables empty; a tick that joins one leaves
\* its minute as it is.
LEMMA FormFollow == IInv /\ FollowInv /\ Form => FollowInv'
<1> SUFFICES ASSUME IInv, FollowInv, Form PROVE FollowInv'
  OBVIOUS
<1>1. /\ UNCHANGED <<base, derived, restarts, due, market, tick>> /\ pc' = "idle"
      /\ forming.minute \in {-1, Minute} /\ forming'.minute = Minute
      /\ Minute \in Minutes
  BY DEF IInv, TypeInv, Form, Step, Minute
<1>2. DerivedType'
  BY <1>1 DEF FollowInv, DerivedType
<1>3. ASSUME restarts = 0 PROVE BarInv'
  <2>1. CASE forming.minute = Minute
    BY <1>1, <1>3, <2>1 DEF FollowInv, BarInv, Here, Bars
  <2>2. CASE forming.minute = -1
    <3>1. \A z \in Sizes : \A b \in Starts(z) : derived[z][b] = NoRow
      BY <1>3, <2>2 DEF FollowInv, BarInv
    <3>2. \A m \in Minutes : base[m] = NoRow
      BY <1>3, <2>2, NothingAhead DEF Minutes
    <3>3. \A z \in Sizes : \A b \in Starts(z) : \A m \in Bucket(b, z) : base[m] = NoRow
      BY <3>2 DEF Bucket
    <3> QED
      BY <1>1, <3>1, <3>3 DEF BarInv
  <2> QED
    BY <1>1, <2>1, <2>2
<1>4. DueInv'
  BY <1>1 DEF DueInv
<1> QED
  BY <1>1, <1>2, <1>3, <1>4 DEF FollowInv

\* The forming candle lies in no bucket that is over.
LEMMA StoreFollow == IInv /\ FollowInv /\ Store => FollowInv'
<1> SUFFICES ASSUME IInv, FollowInv, Store PROVE FollowInv'
  OBVIOUS
<1>1. /\ UNCHANGED <<forming, derived, restarts, due>> /\ pc' = "announce"
      /\ base' = [base EXCEPT ![forming.minute] = forming.ticks]
      /\ forming.minute \in Minutes
  BY DEF IInv, TypeInv, Store, Step
<1>2. DerivedType'
  BY <1>1 DEF FollowInv, DerivedType
<1>3. ASSUME restarts = 0 PROVE BarInv'
  <2>1. ASSUME NEW z \in Sizes, NEW b \in Starts(z), b < Here(z), NEW m \in Bucket(b, z)
        PROVE  base'[m] = base[m]
    <3>1. m # forming.minute
      BY <1>1, <2>1, StartIs DEF Here
    <3> QED
      BY <1>1, <2>1, <3>1 DEF IInv, TypeInv
  <2>2. ASSUME NEW z \in Sizes, NEW b \in Starts(z), b < Here(z)
        PROVE  Bars(b, z)' = Bars(b, z)
    BY <2>1, <2>2 DEF Bars
  <2> QED
    BY <1>1, <1>3, <2>1, <2>2 DEF FollowInv, BarInv, Here
<1>4. DueInv'
  BY <1>1 DEF DueInv
<1> QED
  BY <1>1, <1>2, <1>3, <1>4 DEF FollowInv

LEMMA AnnounceFollow == IInv /\ FollowInv /\ Announce => FollowInv'
<1> SUFFICES ASSUME IInv, FollowInv, Announce PROVE FollowInv'
  OBVIOUS
<1>1. /\ UNCHANGED <<forming, base, derived, restarts>> /\ pc' = "derive"
      /\ due' = {k \in DOMAIN Timeframes : CompletesBucket(forming.minute, Timeframes[k])}
  BY DEF Announce, Step
<1>2. DerivedType'
  BY <1>1 DEF FollowInv, DerivedType
<1>3. restarts = 0 => BarInv'
  BY <1>1 DEF FollowInv, BarInv, Here, Bars
<1>4. DueInv'
  BY <1>1 DEF DueInv
<1> QED
  BY <1>1, <1>2, <1>3, <1>4 DEF FollowInv

\* A bar is written at the bucket's last minute, so from the whole bucket.
LEMMA DeriveFollow == IInv /\ FollowInv /\ Derive => FollowInv'
<1> SUFFICES ASSUME IInv, FollowInv, Derive PROVE FollowInv'
  OBVIOUS
<1> DEFINE size == Timeframes[NextDue]
           here == BucketStart(forming.minute, size)
           bar == Aggregate(forming.minute, size)
<1>1. /\ UNCHANGED <<forming, base, restarts, due>> /\ pc = "derive" /\ pc' = "tell" /\ due # {}
      /\ derived' = [derived EXCEPT ![size][here] = bar]
  BY DEF Derive, Step
<1>2. /\ forming.minute \in Minutes
      /\ NextDue \in due /\ NextDue \in DOMAIN Timeframes /\ size \in Sizes
      /\ CompletesBucket(forming.minute, size)
  BY <1>1, NextDueIs DEF IInv, StoredInv, FollowInv, DerivedType, DueInv, Sizes
<1>3. here \in Starts(size)
  BY <1>2 DEF Starts
<1>4. bar = Bars(here, size)
  <2>1. \A m \in Bucket(here, size) : m <= forming.minute
    BY <1>2, <1>3, StartIs
  <2>2. {n \in Bucket(here, size) : n <= forming.minute} = Bucket(here, size)
    BY <2>1
  <2> QED
    BY <2>2 DEF Aggregate, Bars
<1>5. bar \in SUBSET Nat
  <2>1. \A m \in Bucket(here, size) : base[m] \in SUBSET Nat
    BY DEF Bucket, IInv, TypeInv
  <2> QED
    BY <1>4, <2>1 DEF Bars
<1> HIDE DEF size, here, bar
<1>6. /\ DOMAIN derived' = Sizes
      /\ \A z \in Sizes : \A b \in Starts(z) :
           derived'[z][b] = IF z = size /\ b = here THEN bar ELSE derived[z][b]
      /\ \A z \in Sizes : derived'[z] \in [Starts(z) -> SUBSET Nat]
  <2>1. DOMAIN derived = Sizes /\ \A z \in Sizes : derived[z] \in [Starts(z) -> SUBSET Nat]
    BY DEF FollowInv, DerivedType
  <2>2. derived' = [derived EXCEPT ![size] = [derived[size] EXCEPT ![here] = bar]]
    BY <1>1
  <2>3. \A z \in Sizes : derived'[z] = IF z = size THEN [derived[size] EXCEPT ![here] = bar] ELSE derived[z]
    BY <2>1, <2>2
  <2>4. [derived[size] EXCEPT ![here] = bar] \in [Starts(size) -> SUBSET Nat]
    BY <1>2, <1>3, <1>5, <2>1
  <2>5. \A b \in Starts(size) :
          [derived[size] EXCEPT ![here] = bar][b] = IF b = here THEN bar ELSE derived[size][b]
    BY <1>2, <1>3, <2>1
  <2>6. DOMAIN derived' = Sizes
    BY <2>1, <2>2
  <2> QED
    BY <2>1, <2>3, <2>4, <2>5, <2>6
<1>7. DerivedType'
  BY <1>1, <1>6 DEF FollowInv, DerivedType
<1>8. ASSUME restarts = 0 PROVE BarInv'
  <2>1. BarInv
    BY <1>8 DEF FollowInv
  <2>2. ASSUME NEW z \in Sizes, NEW b \in Starts(z), ~(z = size /\ b = here)
        PROVE  derived'[z][b] = derived[z][b]
    BY <1>6, <2>2
  <2>3. forming.minute # -1 /\ Here(size) = here /\ ~(here > here) /\ ~(here < here)
    BY <1>2, <1>3, StartIs DEF Here, here, Minutes
  <2> QED
    BY <1>1, <1>2, <2>1, <2>2, <2>3 DEF BarInv, Here, Bars
<1>9. DueInv'
  <2>1. ASSUME NEW k \in DOMAIN Timeframes, CompletesBucket(forming.minute, Timeframes[k])
        PROVE  \/ k \in due /\ k # NextDue
               \/ derived'[Timeframes[k]][Here(Timeframes[k])] = Bars(Here(Timeframes[k]), Timeframes[k])
    <3>1. Timeframes[k] \in Sizes /\ Here(Timeframes[k]) \in Starts(Timeframes[k])
      BY <1>2 DEF Sizes, Starts, Here
    <3>2. CASE Timeframes[k] = size
      BY <1>4, <1>6, <3>1, <3>2 DEF Here, here
    <3>3. CASE Timeframes[k] # size
      <4>1. k # NextDue
        BY <3>3 DEF size
      <4>2. \/ k \in due
            \/ derived[Timeframes[k]][Here(Timeframes[k])] = Bars(Here(Timeframes[k]), Timeframes[k])
        BY <1>1, <2>1 DEF FollowInv, DueInv
      <4> QED
        BY <1>6, <3>1, <3>3, <4>1, <4>2
    <3> QED
      BY <3>2, <3>3
  <2>2. \A k \in due : CompletesBucket(forming.minute, Timeframes[k])
    BY <1>1 DEF FollowInv, DueInv
  <2> QED
    BY <1>1, <2>1, <2>2 DEF DueInv, Here, Bars, NextDue
<1> QED
  BY <1>1, <1>7, <1>8, <1>9 DEF FollowInv

LEMMA TellFollow == IInv /\ FollowInv /\ Tell => FollowInv'
<1> SUFFICES ASSUME IInv, FollowInv, Tell PROVE FollowInv'
  OBVIOUS
<1>1. /\ UNCHANGED <<forming, base, derived, restarts>> /\ pc = "tell" /\ pc' = "derive"
      /\ due' = due \ {NextDue}
  BY DEF Tell, Step
<1>2. DerivedType'
  BY <1>1 DEF FollowInv, DerivedType
<1>3. restarts = 0 => BarInv'
  BY <1>1 DEF FollowInv, BarInv, Here, Bars
<1>4. DueInv'
  BY <1>1 DEF FollowInv, DueInv, Here, Bars
<1> QED
  BY <1>1, <1>2, <1>3, <1>4 DEF FollowInv

\* The bucket of the closed candle is either not over, or was derived, or
\* its last minute will never trade.
LEMMA ReopenFollow == IInv /\ FollowInv /\ Reopen => FollowInv'
<1> SUFFICES ASSUME IInv, FollowInv, Reopen PROVE FollowInv'
  OBVIOUS
<1>1. /\ UNCHANGED <<base, derived, restarts, due, market, tick>>
      /\ pc = "derive" /\ pc' = "idle" /\ due = {}
      /\ forming'.minute = Minute
      /\ Minute \in Minutes /\ forming.minute \in Minutes /\ forming.minute < Minute
  BY DEF IInv, TypeInv, StoredInv, Reopen, Step, Minute
<1>2. DerivedType'
  BY <1>1 DEF FollowInv, DerivedType
<1>3. ASSUME restarts = 0 PROVE BarInv'
  <2> SUFFICES ASSUME NEW z \in Sizes, NEW b \in Starts(z)
               PROVE  /\ b >= BucketStart(Minute, z) => derived[z][b] = NoRow
                      /\ b < BucketStart(Minute, z) =>
                           /\ derived[z][b] \in {NoRow, Bars(b, z)}
                           /\ \A m \in Bucket(b, z) :
                                m + 1 = b + z /\ base[m] # NoRow => derived[z][b] # NoRow
    <3>1. \A z \in Sizes : \A b \in Starts(z) :
            /\ b > BucketStart(Minute, z) \/ b = BucketStart(Minute, z) => b >= BucketStart(Minute, z)
            /\ Bars(b, z)' = Bars(b, z)
      BY <1>1, StartIs DEF Bars
    <3>2. Minute # -1
      BY <1>1 DEF Minutes
    <3> QED
      BY <1>1, <3>1, <3>2 DEF BarInv, Here
  <2> DEFINE f == forming.minute
             h == BucketStart(f, z)
             g == BucketStart(Minute, z)
  <2>1. /\ z \in Int /\ b \in Int /\ h \in Int /\ f \in Int /\ h \in Starts(z)
        /\ h <= f /\ f < h + z
        /\ b < h => b + z <= h
        /\ h < b => h + z <= b
        /\ CompletesBucket(f, z) <=> f + 1 = h + z
    BY <1>1, StartIs
  <2>2. /\ g \in Int /\ Minute \in Int /\ g <= Minute /\ Minute < g + z
        /\ b < g => b + z <= g
    BY <1>1, StartIs
  <2>3. \A m \in Bucket(b, z) : m \in Minutes /\ m \in Int /\ b <= m /\ m < b + z
    BY <1>1, StartIs
  <2>4. h <= g
    <3>1. z \in Nat \ {0} /\ f \in Int /\ Minute \in Int /\ f <= Minute
      BY <1>1, <2>1, <2>2, SizesAre
    <3> QED
      BY <3>1, BucketsApart
  <2>5. /\ b > h \/ (b = h /\ ~CompletesBucket(f, z)) => derived[z][b] = NoRow
        /\ b < h => /\ derived[z][b] \in {NoRow, Bars(b, z)}
                    /\ \A m \in Bucket(b, z) : m + 1 = b + z /\ base[m] # NoRow => derived[z][b] # NoRow
    BY <1>1, <1>3 DEF FollowInv, BarInv, Here, Minutes
  <2>6. CompletesBucket(f, z) => derived[z][h] = Bars(h, z)
    <3>1. PICK k \in DOMAIN Timeframes : z = Timeframes[k]
      BY DEF Sizes
    <3> QED
      BY <1>1, <3>1 DEF FollowInv, DueInv, Here
  <2>7. \A m \in Minutes : m > f => base[m] = NoRow
    BY <1>3, NothingAhead
  <2>8. f < Minute
    BY <1>1
  <2> HIDE DEF f, h, g
  <2>9. ASSUME b >= g PROVE derived[z][b] = NoRow
    <3>1. CASE b > h
      BY <2>5, <3>1
    <3>2. CASE b = h
      <4>1. f + 1 # h + z
        BY <2>1, <2>2, <2>4, <2>8, <2>9, <3>2
      <4> QED
        BY <2>1, <2>5, <3>2, <4>1
    <3> QED
      BY <2>1, <2>2, <2>4, <2>9, <3>1, <3>2
  <2>10. ASSUME b < g
         PROVE  /\ derived[z][b] \in {NoRow, Bars(b, z)}
                /\ \A m \in Bucket(b, z) : m + 1 = b + z /\ base[m] # NoRow => derived[z][b] # NoRow
    <3>1. CASE b < h
      BY <2>5, <3>1
    <3>2. CASE b = h /\ CompletesBucket(f, z)
      <4>1. derived[z][b] = Bars(b, z)
        BY <2>6, <3>2
      <4>2. \A m \in Bucket(b, z) : base[m] # NoRow => Bars(b, z) # NoRow
        BY DEF Bars, NoRow
      <4> QED
        BY <4>1, <4>2
    <3>3. CASE b > h \/ (b = h /\ ~CompletesBucket(f, z))
      <4>1. derived[z][b] = NoRow
        BY <2>5, <3>3
      <4>2. ASSUME NEW m \in Bucket(b, z), m + 1 = b + z PROVE base[m] = NoRow
        <5>1. m > f
          BY <2>1, <2>3, <3>3, <4>2
        <5> QED
          BY <2>3, <2>7, <5>1
      <4> QED
        BY <4>1, <4>2
    <3> QED
      BY <2>1, <3>1, <3>2, <3>3
  <2> QED
    BY <2>9, <2>10 DEF g
<1>4. DueInv'
  BY <1>1 DEF DueInv
<1> QED
  BY <1>1, <1>2, <1>3, <1>4 DEF FollowInv

LEMMA FollowNext == IInv /\ FollowInv /\ [PipelineNext]_pipelineVars => FollowInv'
<1> SUFFICES ASSUME IInv, FollowInv, [PipelineNext]_pipelineVars PROVE FollowInv'
  OBVIOUS
<1> USE DEF Step
<1>0. due \subseteq DOMAIN Timeframes /\ {} \subseteq DOMAIN Timeframes
  BY DEF FollowInv, DerivedType
<1>1. CASE Arrive \/ Repeat \/ SetPrice \/ Drop \/ Raises \/ FeedEnds
  BY <1>0, <1>1, QuietFollow DEF Arrive, Repeat, SetPrice, Drop, Raises, FeedEnds
<1>2. CASE Form
  BY <1>2, FormFollow
<1>3. CASE Store
  BY <1>3, StoreFollow
<1>4. CASE Announce
  BY <1>4, AnnounceFollow
<1>5. CASE Derive
  BY <1>5, DeriveFollow
<1>6. CASE Tell
  BY <1>6, TellFollow
<1>7. CASE Reopen
  BY <1>7, ReopenFollow
<1>8. CASE Crash
  <2>1. DerivedType' /\ DueInv'
    BY <1>8 DEF FollowInv, DerivedType, DueInv, Crash
  <2>2. restarts' # 0
    BY <1>8 DEF Crash, IInv, TypeInv
  <2> QED
    BY <2>1, <2>2 DEF FollowInv
<1>9. CASE Resubscribe \/ UNCHANGED pipelineVars
  <2>1. UNCHANGED <<forming, base, derived, restarts, due, pc>>
    BY <1>9 DEF Resubscribe, pipelineVars
  <2> QED
    BY <2>1 DEF FollowInv, DerivedType, BarInv, DueInv, Here, Bars, NextDue
<1> QED
  BY <1>1, <1>2, <1>3, <1>4, <1>5, <1>6, <1>7, <1>8, <1>9 DEF PipelineNext, Bridge

LEMMA InvFollows == IInv /\ FollowInv => DerivedFollows
<1> SUFFICES ASSUME IInv, FollowInv, Undisturbed, forming # NoCandle,
                    NEW z \in Sizes, NEW b \in Starts(z), b < BucketStart(forming.minute, z)
             PROVE  /\ derived[z][b] \in {NoRow, UNION {base[m] : m \in Bucket(b, z)}}
                    /\ base[CHOOSE m \in Bucket(b, z) : \A n \in Bucket(b, z) : n <= m] # NoRow
                         => derived[z][b] # NoRow
  BY DEF DerivedFollows
<1>1. forming.minute \in Minutes /\ forming.minute # -1
  BY DEF IInv, TypeInv, Minutes
<1>2. /\ derived[z][b] \in {NoRow, Bars(b, z)}
      /\ \A m \in Bucket(b, z) : m + 1 = b + z /\ base[m] # NoRow => derived[z][b] # NoRow
  BY <1>1 DEF FollowInv, BarInv, Undisturbed, Here
<1>3. /\ z \in Int /\ b \in Int /\ forming.minute \in Int
      /\ BucketStart(forming.minute, z) \in Int
      /\ BucketStart(forming.minute, z) <= forming.minute
      /\ b + z <= BucketStart(forming.minute, z)
      /\ \A m \in Minutes : m \in Int /\ (m \in Bucket(b, z) <=> b <= m /\ m < b + z)
      /\ \A m \in Bucket(b, z) : m \in Minutes
      /\ \E m \in Minutes : b <= m /\ m < b + z
  BY <1>1, StartIs
<1>4. b + z - 1 \in Minutes
  BY <1>1, <1>3 DEF Minutes
<1>5. b + z - 1 \in Bucket(b, z) /\ \A n \in Bucket(b, z) : n <= b + z - 1
  BY <1>3, <1>4
<1>6. \A m \in Bucket(b, z) : (\A n \in Bucket(b, z) : n <= m) => m + 1 = b + z
  BY <1>3, <1>5
<1>7. PICK m \in Bucket(b, z) :
        m = (CHOOSE k \in Bucket(b, z) : \A n \in Bucket(b, z) : n <= k) /\ \A n \in Bucket(b, z) : n <= m
  BY <1>5
<1> QED
  BY <1>2, <1>6, <1>7 DEF Bars

\* The bar of a bucket that is over is made of that bucket's base candles
\* and of no other, and is there if the bucket's last minute traded, however
\* often a write or a publish raised on the way
\* (CandleWorker._on_candle_closed and _derive_timeframe).
THEOREM DerivedBarsFollow == PipelineSpec => []DerivedFollows
<1>1. PipelineInit => IInv /\ FollowInv
  BY InitInv, FollowInit
<1>2. IInv /\ FollowInv /\ [PipelineNext]_pipelineVars => IInv' /\ FollowInv'
  BY NextInv, FollowNext
<1>3. IInv /\ FollowInv => DerivedFollows
  BY InvFollows
<1> QED
  BY <1>1, <1>2, <1>3, PTL DEF PipelineSpec

-----------------------------------------------------------------------------
(* Induction along a series, and functions defined by recursion along one. *)

\* Induction from one bar to another, for a set of them.
LEMMA Along ==
  ASSUME NEW lo \in Nat, NEW hi \in Nat, NEW P, lo \in P,
         \A i \in lo + 1 .. hi : i - 1 \in P => i \in P
  PROVE  \A i \in lo .. hi : i \in P
<1> DEFINE T == {i \in lo .. hi : i \notin P}
<1>1. SUFFICES ASSUME T # {} PROVE FALSE
  OBVIOUS
<1>2. T \in SUBSET Nat
  OBVIOUS
<1> HIDE DEF T
<1>3. PICK n \in T : \A m \in T : n <= m
  BY <1>1, <1>2, LeastNatural
<1>4. n \in lo + 1 .. hi /\ n - 1 \in lo .. hi
  BY <1>3 DEF T
<1>5. n - 1 \notin T
  BY <1>3, <1>4
<1> QED
  BY <1>3, <1>4, <1>5 DEF T

\* What goes on from one state to the next by a step of its own at every bar.
Runs(S, a, lo, hi, F) ==
  {u \in [lo .. hi -> S] : u[lo] = a /\ \A i \in lo + 1 .. hi : u[i] = F[i][u[i - 1]]}

\* Such a walk exists, whatever the steps, as long as they stay in one set.
LEMMA Recursion ==
  ASSUME NEW S, NEW a \in S, NEW lo \in Nat, NEW hi \in Nat, lo <= hi, NEW F,
         \A i \in lo + 1 .. hi : \A s \in S : F[i][s] \in S
  PROVE  Runs(S, a, lo, hi, F) # {}
<1> DEFINE P == {k \in lo .. hi : Runs(S, a, lo, k, F) # {}}
<1>1. lo \in P
  <2>1. [i \in lo .. lo |-> a] \in Runs(S, a, lo, lo, F)
    BY DEF Runs
  <2> QED
    BY <2>1
<1>2. ASSUME NEW k \in lo + 1 .. hi, k - 1 \in P PROVE k \in P
  <2>1. PICK u \in [lo .. k - 1 -> S] :
          u[lo] = a /\ \A i \in lo + 1 .. k - 1 : u[i] = F[i][u[i - 1]]
    BY <1>2 DEF Runs
  <2> DEFINE v == [i \in lo .. k |-> IF i = k THEN F[k][u[k - 1]] ELSE u[i]]
  <2>2. u[k - 1] \in S
    BY <2>1
  <2>3. v \in [lo .. k -> S] /\ v[lo] = a
    BY <2>1, <2>2
  <2>4. ASSUME NEW i \in lo + 1 .. k PROVE v[i] = F[i][v[i - 1]]
    <3>1. v[i - 1] = u[i - 1]
      OBVIOUS
    <3>2. i # k => i \in lo + 1 .. k - 1 /\ v[i] = u[i]
      OBVIOUS
    <3>3. v[k] = F[k][u[k - 1]]
      OBVIOUS
    <3> HIDE DEF v
    <3> QED
      BY <2>1, <3>1, <3>2, <3>3
  <2> HIDE DEF v
  <2>5. v \in Runs(S, a, lo, k, F)
    BY <2>3, <2>4 DEF Runs
  <2> QED
    BY <2>5
<1> HIDE DEF P
<1>3. hi \in P
  BY <1>1, <1>2, Along
<1> QED
  BY <1>3 DEF P

\* The earliest and the latest bar of a set.
LEMMA FirstIs ==
  ASSUME NEW T \in SUBSET Nat, T # {}
  PROVE  First(T) \in T /\ \A j \in T : First(T) <= j
BY LeastNatural DEF First

\* The latest of a set of bars of the series.
LEMMA NearestIs ==
  ASSUME NEW n \in Nat, NEW T \in SUBSET (0 .. n), T # {}
  PROVE  Nearest(T) \in T /\ \A j \in T : j <= Nearest(T)
<1> DEFINE U == {n - i : i \in T}
<1>1. U \in SUBSET Nat /\ U # {}
  <2>1. \A i \in T : n - i \in Nat
    OBVIOUS
  <2> QED
    BY <2>1
<1> HIDE DEF U
<1>2. PICK k \in U : \A m \in U : k <= m
  BY <1>1, LeastNatural
<1>3. PICK i \in T : k = n - i
  BY <1>2 DEF U
<1>4. \A j \in T : j <= i
  <2> TAKE j \in T
  <2>1. n - j \in U
    BY DEF U
  <2>2. n - i <= n - j /\ i \in 0 .. n /\ j \in 0 .. n
    BY <1>2, <1>3, <2>1
  <2> QED
    BY <2>2
<1> QED
  BY <1>4 DEF Nearest

-----------------------------------------------------------------------------
(* Swings. *)

\* A bar more leaves the bars before it where they were.
LEMMA BarsStay ==
  ASSUME NEW c \in Seq(Shapes), NEW b \in Shapes
  PROVE  /\ Append(c, b) \in Seq(Shapes)
         /\ Len(c) \in Nat
         /\ Len(Append(c, b)) = Len(c) + 1
         /\ \A i \in 1 .. Len(c) : Append(c, b)[i] = c[i]
  OBVIOUS

\* The window of a bar of the span lies within the series.
LEMMA WindowWithin ==
  ASSUME NEW c \in Seq(Shapes), NEW i \in Span(c)
  PROVE  i \in 1 .. Len(c) /\ Around(i) \subseteq 1 .. Len(c)
  BY WindowIsAtLeastOne DEF Span, Around

\* A bar more adds at most one bar to the span, the one just confirmed.
LEMMA SpanGrows ==
  ASSUME NEW c \in Seq(Shapes), NEW b \in Shapes
  PROVE  /\ Span(c) \subseteq Span(Append(c, b))
         /\ \A i \in Span(Append(c, b)) \ Span(c) :
              i + SwingLength = Len(c) + 1
  BY BarsStay, WindowIsAtLeastOne DEF Span

\* A pivot is judged by its window alone.
LEMMA PivotsStay ==
  ASSUME NEW c \in Seq(Shapes), NEW b \in Shapes, NEW i \in Span(c)
  PROVE  /\ i \in Peaks(c) <=> i \in Peaks(Append(c, b))
         /\ i \in Troughs(c) <=> i \in Troughs(Append(c, b))
         /\ Append(c, b)[i] = c[i]
<1>1. i \in 1 .. Len(c) /\ Around(i) \subseteq 1 .. Len(c)
  BY WindowWithin
<1>2. i \in Span(Append(c, b))
  BY SpanGrows
<1>3. \A k \in Around(i) : Append(c, b)[k] = c[k]
  BY <1>1, BarsStay
<1>4. Append(c, b)[i] = c[i]
  BY <1>1, BarsStay
<1> QED
  BY <1>2, <1>3, <1>4 DEF Peaks, Troughs

\* The swings of a longer series: those there were, and one confirmed by the
\* bar that was added (detect_swings, its range and its strict window).
LEMMA SwingsGrow ==
  ASSUME NEW c \in Seq(Shapes), NEW b \in Shapes
  PROVE  /\ Swings(c) \subseteq Swings(Append(c, b))
         /\ \A s \in Swings(Append(c, b)) \ Swings(c) :
              Confirmed(s) = Len(c) + 1
<1> DEFINE d == Append(c, b)
           High(x, i) == [index |-> i, type |-> "HIGH", price |-> x[i].high]
           Low(x, i) == [index |-> i, type |-> "LOW", price |-> x[i].low]
<1>1. \A i \in Peaks(c) : i \in Span(c) /\ i \in Peaks(d) /\ High(c, i) = High(d, i)
  BY PivotsStay DEF Peaks
<1>2. \A i \in Troughs(c) : i \in Span(c) /\ i \in Troughs(d) /\ Low(c, i) = Low(d, i)
  BY PivotsStay DEF Troughs
<1>3. Swings(c) \subseteq Swings(d)
  BY <1>1, <1>2 DEF Swings
<1>4. ASSUME NEW i \in Peaks(d), High(d, i) \notin Swings(c)
      PROVE  i + SwingLength = Len(c) + 1
  <2>1. i \in Span(d)
    BY DEF Peaks
  <2>2. i \notin Span(c)
    <3>1. SUFFICES ASSUME i \in Span(c) PROVE FALSE
      OBVIOUS
    <3>2. i \in Peaks(c) /\ d[i] = c[i]
      BY <3>1, PivotsStay
    <3> QED
      BY <1>4, <3>2 DEF Swings
  <2> QED
    BY <2>1, <2>2, SpanGrows
<1>5. ASSUME NEW i \in Troughs(d), Low(d, i) \notin Swings(c)
      PROVE  i + SwingLength = Len(c) + 1
  <2>1. i \in Span(d)
    BY DEF Troughs
  <2>2. i \notin Span(c)
    <3>1. SUFFICES ASSUME i \in Span(c) PROVE FALSE
      OBVIOUS
    <3>2. i \in Troughs(c) /\ d[i] = c[i]
      BY <3>1, PivotsStay
    <3> QED
      BY <1>5, <3>2 DEF Swings
  <2> QED
    BY <2>1, <2>2, SpanGrows
<1>6. ASSUME NEW s \in Swings(d), s \notin Swings(c)
      PROVE  Confirmed(s) = Len(c) + 1
  <2>1. CASE \E i \in Peaks(d) : s = High(d, i)
    <3>1. PICK i \in Peaks(d) : s = High(d, i)
      BY <2>1
    <3>2. i + SwingLength = Len(c) + 1
      BY <3>1, <1>6, <1>4
    <3>3. s.index = i
      BY <3>1
    <3> QED
      BY <3>2, <3>3 DEF Confirmed
  <2>2. CASE \E i \in Troughs(d) : s = Low(d, i)
    <3>1. PICK i \in Troughs(d) : s = Low(d, i)
      BY <2>2
    <3>2. i + SwingLength = Len(c) + 1
      BY <3>1, <1>6, <1>5
    <3>3. s.index = i
      BY <3>1
    <3> QED
      BY <3>2, <3>3 DEF Confirmed
  <2> QED
    BY <1>6, <2>1, <2>2 DEF Swings
<1> QED
  BY <1>3, <1>6

\* The gaps of a longer series: those there were, and the ones the bar that
\* was added completes (detect_fvgs, three bars ending at created_index).
LEMMA GapsGrow ==
  ASSUME NEW c \in Seq(Shapes), NEW b \in Shapes
  PROVE  /\ Gaps(c) \subseteq Gaps(Append(c, b))
         /\ \A z \in Gaps(Append(c, b)) \ Gaps(c) : z.from = Len(c) + 1
<1> DEFINE d == Append(c, b)
<1>1. \A i \in 3 .. Len(c) : d[i] = c[i] /\ d[i - 2] = c[i - 2] /\ i \in 3 .. Len(d)
  BY BarsStay
<1>2. Gaps(c) \subseteq Gaps(d)
  BY <1>1 DEF Gaps
<1>3. \A i \in 3 .. Len(d) : i \in 3 .. Len(c) \/ i = Len(c) + 1
  BY BarsStay
<1>4. ASSUME NEW z \in Gaps(d), z \notin Gaps(c)
      PROVE  z.from = Len(c) + 1
  BY <1>1, <1>3, <1>4 DEF Gaps
<1> QED
  BY <1>2, <1>4


\* What a bar of the series is.
LEMMA CandleIs ==
  ASSUME NEW b \in Shapes
  PROVE  /\ b.open \in Nat /\ b.high \in Nat /\ b.low \in Nat /\ b.close \in Nat
         /\ b.low <= b.open /\ b.open <= b.high /\ b.low <= b.close /\ b.close <= b.high
  BY ShapesAreCandles DEF IsCandle

\* A swing is of a bar of the series, confirmed within it.
LEMMA SwingIs ==
  ASSUME NEW c \in Seq(Shapes), NEW s \in Swings(c)
  PROVE  /\ s.index \in 1 .. Len(c) /\ Confirmed(s) \in 1 .. Len(c)
         /\ s.type \in {"HIGH", "LOW"} /\ s.price \in Nat /\ s.index \in Nat
<1>1. PICK i \in Span(c) : \/ s = [index |-> i, type |-> "HIGH", price |-> c[i].high]
                           \/ s = [index |-> i, type |-> "LOW", price |-> c[i].low]
  BY DEF Swings, Peaks, Troughs
<1>2. i \in 1 .. Len(c) /\ i + SwingLength \in 1 .. Len(c) /\ i \in Nat
  BY WindowIsAtLeastOne DEF Span
<1>3. c[i] \in Shapes
  BY <1>2
<1>4. c[i].high \in Nat /\ c[i].low \in Nat
  BY <1>3, CandleIs
<1> QED
  BY <1>1, <1>2, <1>4 DEF Confirmed

\* The latest swing of some of a series.
LEMMA LatestIs ==
  ASSUME NEW c \in Seq(Shapes), NEW S \in SUBSET Swings(c), S # {}
  PROVE  Latest(S) \in S /\ \A t \in S : t.index <= Latest(S).index
<1> DEFINE T == {s.index : s \in S}
<1>1. T \in SUBSET (0 .. Len(c)) /\ T # {} /\ Len(c) \in Nat
  BY SwingIs
<1> HIDE DEF T
<1>2. Nearest(T) \in T /\ \A j \in T : j <= Nearest(T)
  BY <1>1, NearestIs
<1>3. PICK s \in S : s.index = Nearest(T)
  BY <1>2 DEF T
<1>4. \A t \in S : t.index <= s.index
  BY <1>2, <1>3 DEF T
<1> QED
  BY <1>4 DEF Latest

\* A new swing is later than those there were.
LEMMA NewSwingsAreLater ==
  ASSUME NEW c \in Seq(Shapes), NEW b \in Shapes, NEW s \in Swings(c),
         NEW t \in Swings(Append(c, b)) \ Swings(c)
  PROVE  /\ Confirmed(t) = Len(c) + 1 /\ Confirmed(s) <= Len(c)
         /\ s.index < t.index
<1>1. Confirmed(t) = Len(c) + 1 /\ Confirmed(s) \in 1 .. Len(c) /\ s.index \in 1 .. Len(c)
  BY SwingsGrow, SwingIs
<1>2. Append(c, b) \in Seq(Shapes)
  BY BarsStay
<1>3. t.index \in Nat
  BY <1>2, SwingIs
<1> QED
  BY <1>1, <1>3, WindowIsAtLeastOne DEF Confirmed

\* A swing keeps its label (_label_swings looks at earlier swings only).
LEMMA LabelsStay ==
  ASSUME NEW c \in Seq(Shapes), NEW b \in Shapes, NEW s \in Swings(c)
  PROVE  Label(Swings(Append(c, b)), s) = Label(Swings(c), s)
<1> DEFINE Before(sw) == {t \in OfType(sw, s.type) : t.index < s.index}
<1>1. Before(Swings(Append(c, b))) = Before(Swings(c))
  <2>1. Swings(c) \subseteq Swings(Append(c, b))
    BY SwingsGrow
  <2>2. ASSUME NEW t \in Swings(Append(c, b)), t.index < s.index PROVE t \in Swings(c)
    <3>1. SUFFICES ASSUME t \notin Swings(c) PROVE FALSE
      OBVIOUS
    <3>2. s.index < t.index /\ s.index \in Nat
      BY <3>1, NewSwingsAreLater, SwingIs
    <3>3. t.index \in Nat
      BY BarsStay, SwingIs
    <3> QED
      BY <2>2, <3>2, <3>3
  <2> QED
    BY <2>1, <2>2 DEF OfType
<1> HIDE DEF Before
<1>2. \A sw : Label(sw, s) = CASE Before(sw) = {} -> None
       [] Before(sw) # {} /\ s.price > Latest(Before(sw)).price ->
            IF s.type = "HIGH" THEN "HH" ELSE "HL"
       [] OTHER -> IF s.type = "HIGH" THEN "LH" ELSE "LL"
  BY DEF Label, Before
<1> QED
  BY <1>1, <1>2

\* What was visible at a bar stays as it was.
LEMMA VisibleStays ==
  ASSUME NEW c \in Seq(Shapes), NEW b \in Shapes, NEW i \in 1 .. Len(c)
  PROVE  Visible(Swings(Append(c, b)), i) = Visible(Swings(c), i)
<1>1. Swings(c) \subseteq Swings(Append(c, b))
  BY SwingsGrow
<1>2. \A t \in Swings(Append(c, b)) \ Swings(c) : Confirmed(t) = Len(c) + 1
  BY SwingsGrow
<1>3. Len(c) \in Nat
  OBVIOUS
<1> QED
  BY <1>1, <1>2, <1>3 DEF Visible

-----------------------------------------------------------------------------
(* Structure: the walk over a series that finds the breaks.                *)

\* A break, and the state of the walk: pivots broken, the trend, the breaks.
Break == [index : Nat, direction : {"up", "down"}, swing : Nat, kind : {"BOS", "CHOCH"}]
Walks == [broken : SUBSET Nat, trend : {None, "up", "down"}, events : Seq(Break)]
Unbroken == [broken |-> {}, trend |-> None, events |-> <<>>]

\* What one bar may add on one side (detect_structure_events).
Adds(s, n, i) ==
  \E e \in Break : /\ e.index = i
                   /\ n.events = Append(s.events, e)
                   /\ n.trend = e.direction
                   /\ e.kind = "CHOCH" <=> s.trend \notin {e.direction, None}

\* One side of one bar breaks nothing, or adds one break of this bar.
LEMMA BreakIs ==
  ASSUME NEW c \in Seq(Shapes), NEW type \in {"HIGH", "LOW"}, NEW s \in Walks, NEW i \in 1 .. Len(c)
  PROVE  /\ BreakOf(type, c, Swings(c), s, i) \in Walks
         /\ \/ BreakOf(type, c, Swings(c), s, i) = s
            \/ Adds(s, BreakOf(type, c, Swings(c), s, i), i)
<1> DEFINE n == BreakOf(type, c, Swings(c), s, i)
           seen == OfType(Visible(Swings(c), i), type)
           target == Latest(seen)
           direction == IF type = "HIGH" THEN "up" ELSE "down"
           e == [index |-> i, direction |-> direction, swing |-> target.index,
                 kind |-> IF s.trend \in {direction, None} THEN "BOS" ELSE "CHOCH"]
<1>1. CASE n = s
  BY <1>1
<1>2. CASE n # s
  <2>1. /\ seen # {}
        /\ n = [broken |-> s.broken \cup {target.index}, trend |-> direction,
                events |-> Append(s.events, e)]
    BY <1>2 DEF BreakOf
  <2>2. seen \in SUBSET Swings(c)
    BY DEF OfType, Visible
  <2> HIDE DEF seen
  <2>3. target.index \in Nat
    BY <2>1, <2>2, LatestIs, SwingIs
  <2>4. i \in Nat /\ direction \in {"up", "down"}
    OBVIOUS
  <2> HIDE DEF target, direction
  <2>5. e \in Break /\ e.index = i /\ e.direction = direction
        /\ (e.kind = "CHOCH" <=> s.trend \notin {direction, None})
    BY <2>3, <2>4 DEF Break
  <2> HIDE DEF e, n
  <2>6. /\ s.broken \in SUBSET Nat /\ s.events \in Seq(Break)
        /\ Append(s.events, e) \in Seq(Break)
    BY <2>5 DEF Walks
  <2>7. n \in Walks
    BY <2>1, <2>3, <2>4, <2>6 DEF Walks
  <2>8. Adds(s, n, i)
    BY <2>1, <2>5 DEF Adds
  <2> QED
    BY <2>7, <2>8 DEF n
<1> QED
  BY <1>1, <1>2

\* One bar: first the highs, then the lows.
LEMMA BreaksAre ==
  ASSUME NEW c \in Seq(Shapes), NEW s \in Walks, NEW i \in 1 .. Len(c)
  PROVE  LET m == BreakOf("HIGH", c, Swings(c), s, i)
             n == BreaksOf(c, Swings(c), s, i)
         IN /\ m \in Walks /\ n \in Walks
            /\ m = s \/ Adds(s, m, i)
            /\ n = m \/ Adds(m, n, i)
<1>1. BreakOf("HIGH", c, Swings(c), s, i) \in Walks
  BY BreakIs
<1> QED
  BY <1>1, BreakIs DEF BreaksOf

\* The recursive function in StructureEvents.
IsWalk(u, c) ==
  u = [i \in 0 .. Len(c) |-> IF i = 0 THEN Unbroken ELSE BreaksOf(c, Swings(c), u[i - 1], i)]

\* A walk there is, over every series, and it has the breaks.
LEMMA WalkIs ==
  ASSUME NEW c \in Seq(Shapes)
  PROVE  \E u \in [0 .. Len(c) -> Walks] :
           /\ u[0] = Unbroken
           /\ \A i \in 1 .. Len(c) : u[i] = BreaksOf(c, Swings(c), u[i - 1], i)
           /\ StructureEvents(c, Swings(c)) = u[Len(c)].events
<1> DEFINE F == [i \in 1 .. Len(c) |-> [s \in Walks |-> BreaksOf(c, Swings(c), s, i)]]
<1>0. Len(c) \in Nat
  OBVIOUS
<1>1. Unbroken \in Walks
  BY DEF Unbroken, Walks, None
<1>2. \A i \in 0 + 1 .. Len(c) : \A s \in Walks : F[i][s] \in Walks /\ F[i][s] = BreaksOf(c, Swings(c), s, i)
  BY BreaksAre
<1> HIDE DEF F
<1>3. PICK u \in [0 .. Len(c) -> Walks] :
        u[0] = Unbroken /\ \A i \in 0 + 1 .. Len(c) : u[i] = F[i][u[i - 1]]
  <2>1. \A i \in 0 + 1 .. Len(c) : \A s \in Walks : F[i][s] \in Walks
    BY <1>2
  <2>2. 0 \in Nat /\ 0 <= Len(c)
    BY <1>0
  <2>3. Runs(Walks, Unbroken, 0, Len(c), F) # {}
    BY <1>0, <1>1, <2>1, <2>2, Recursion
  <2> QED
    BY <2>3 DEF Runs
<1>4. ASSUME NEW i \in 1 .. Len(c) PROVE u[i] = BreaksOf(c, Swings(c), u[i - 1], i)
  BY <1>2, <1>3
<1>5. IsWalk(u, c)
  BY <1>3, <1>4 DEF IsWalk
<1> DEFINE v == CHOOSE v : IsWalk(v, c)
<1>6. IsWalk(v, c)
  BY <1>5
<1>7. StructureEvents(c, Swings(c)) = v[Len(c)].events
  BY DEF StructureEvents, IsWalk, Unbroken
<1> HIDE DEF v
<1> DEFINE P == {i \in 0 .. Len(c) : v[i] = u[i]}
<1>8. 0 \in P
  BY <1>0, <1>5, <1>6 DEF IsWalk
<1>9. ASSUME NEW i \in 0 + 1 .. Len(c), i - 1 \in P PROVE i \in P
  BY <1>5, <1>6, <1>9 DEF IsWalk
<1>10. \A i \in 0 .. Len(c) : i \in P
  <2> HIDE DEF P
  <2> QED
    BY <1>0, <1>8, <1>9, Along
<1>11. v[Len(c)] = u[Len(c)]
  BY <1>0, <1>10
<1> QED
  BY <1>3, <1>4, <1>7, <1>11

\* A bar more leaves what the earlier ones did as it was.
LEMMA BreaksStay ==
  ASSUME NEW c \in Seq(Shapes), NEW b \in Shapes, NEW s, NEW i \in 1 .. Len(c)
  PROVE  BreaksOf(Append(c, b), Swings(Append(c, b)), s, i) = BreaksOf(c, Swings(c), s, i)
<1>1. Append(c, b)[i] = c[i]
  BY BarsStay
<1>2. Visible(Swings(Append(c, b)), i) = Visible(Swings(c), i)
  BY VisibleStays
<1>3. \A type, r : BreakOf(type, Append(c, b), Swings(Append(c, b)), r, i) = BreakOf(type, c, Swings(c), r, i)
  BY <1>1, <1>2 DEF BreakOf
<1> QED
  BY <1>3 DEF BreaksOf

\* One sequence goes on where another ends.
Continues(s, t) == Len(s) <= Len(t) /\ \A k \in 1 .. Len(s) : t[k] = s[k]

\* To go on from a sequence is to have it as a prefix.
LEMMA ContinuesIsPrefix ==
  ASSUME NEW X, NEW s \in Seq(X), NEW t \in Seq(X), Continues(s, t)
  PROVE  IsPrefix(s, t)
  BY DEF Continues, IsPrefix

\* One element more still goes on from the same sequence.
LEMMA AppendContinues ==
  ASSUME NEW X, NEW s \in Seq(X), NEW t \in Seq(X), NEW e \in X, Continues(s, t)
  PROVE  Append(t, e) \in Seq(X) /\ Continues(s, Append(t, e)) /\ Len(Append(t, e)) = Len(t) + 1
         /\ Append(t, e)[Len(t) + 1] = e
         /\ \A k \in 1 .. Len(t) : Append(t, e)[k] = t[k]
  BY DEF Continues

\* The breaks of a longer series: those there were, then those of its last
\* bar.
LEMMA EventsGrow ==
  ASSUME NEW c \in Seq(Shapes), NEW b \in Shapes
  PROVE  LET old == StructureEvents(c, Swings(c))
             new == StructureEvents(Append(c, b), Swings(Append(c, b)))
         IN /\ old \in Seq(Break) /\ new \in Seq(Break)
            /\ Continues(old, new)
            /\ \A k \in Len(old) + 1 .. Len(new) : new[k].index = Len(c) + 1
<1> DEFINE d == Append(c, b)
<1>0. Len(c) \in Nat /\ d \in Seq(Shapes) /\ Len(d) = Len(c) + 1
  BY BarsStay
<1>1. PICK u \in [0 .. Len(c) -> Walks] :
        /\ u[0] = Unbroken
        /\ \A i \in 1 .. Len(c) : u[i] = BreaksOf(c, Swings(c), u[i - 1], i)
        /\ StructureEvents(c, Swings(c)) = u[Len(c)].events
  BY WalkIs
<1>2. PICK v \in [0 .. Len(d) -> Walks] :
        /\ v[0] = Unbroken
        /\ \A i \in 1 .. Len(d) : v[i] = BreaksOf(d, Swings(d), v[i - 1], i)
        /\ StructureEvents(d, Swings(d)) = v[Len(d)].events
  BY <1>0, WalkIs
<1> DEFINE P == {i \in 0 .. Len(c) : v[i] = u[i]}
<1>3. 0 \in P
  BY <1>0, <1>1, <1>2
<1>4. ASSUME NEW i \in 0 + 1 .. Len(c), i - 1 \in P PROVE i \in P
  <2>1. i \in 1 .. Len(c) /\ i \in 1 .. Len(d)
    BY <1>0
  <2>2. v[i] = BreaksOf(d, Swings(d), u[i - 1], i)
    BY <1>2, <1>4, <2>1
  <2>3. v[i] = BreaksOf(c, Swings(c), u[i - 1], i)
    BY <2>1, <2>2, BreaksStay
  <2> QED
    BY <1>1, <2>1, <2>3
<1>5. \A i \in 0 .. Len(c) : i \in P
  <2> HIDE DEF P, d
  <2> QED
    BY <1>0, <1>3, <1>4, Along
<1>6. v[Len(c)] = u[Len(c)] /\ u[Len(c)] \in Walks
  BY <1>0, <1>1, <1>5
<1> DEFINE s == u[Len(c)]
           m == BreakOf("HIGH", d, Swings(d), s, Len(d))
           n == BreaksOf(d, Swings(d), s, Len(d))
<1>7. n = v[Len(d)] /\ Len(d) \in 1 .. Len(d)
  BY <1>0, <1>2, <1>6
<1>8. /\ m \in Walks /\ n \in Walks
      /\ m = s \/ Adds(s, m, Len(d))
      /\ n = m \/ Adds(m, n, Len(d))
  BY <1>0, <1>6, <1>7, BreaksAre
<1> HIDE DEF s, m, n, d
<1>9. s.events \in Seq(Break) /\ m.events \in Seq(Break) /\ n.events \in Seq(Break)
  BY <1>6, <1>8 DEF Walks, s
<1>10. /\ Continues(s.events, m.events)
       /\ \A k \in Len(s.events) + 1 .. Len(m.events) : m.events[k].index = Len(d)
  <2>1. CASE m = s
    BY <1>9, <2>1 DEF Continues
  <2>2. CASE Adds(s, m, Len(d))
    <3>1. PICK e \in Break : e.index = Len(d) /\ m.events = Append(s.events, e)
      BY <2>2 DEF Adds
    <3>2. Continues(s.events, s.events) /\ Len(s.events) \in Nat
      BY <1>9 DEF Continues
    <3>3. /\ Continues(s.events, m.events) /\ Len(m.events) = Len(s.events) + 1
          /\ m.events[Len(s.events) + 1] = e
      BY <1>9, <3>1, <3>2, AppendContinues
    <3> QED
      BY <3>1, <3>2, <3>3
  <2> QED
    BY <1>8, <2>1, <2>2
<1>11. /\ Continues(s.events, n.events)
       /\ \A k \in Len(s.events) + 1 .. Len(n.events) : n.events[k].index = Len(d)
  <2>1. CASE n = m
    BY <1>10, <2>1
  <2>2. CASE Adds(m, n, Len(d))
    <3>1. PICK e \in Break : e.index = Len(d) /\ n.events = Append(m.events, e)
      BY <2>2 DEF Adds
    <3>2. /\ Continues(s.events, n.events) /\ Len(n.events) = Len(m.events) + 1
          /\ n.events[Len(m.events) + 1] = e
          /\ \A k \in 1 .. Len(m.events) : n.events[k] = m.events[k]
      BY <1>9, <1>10, <3>1, AppendContinues
    <3>3. Len(s.events) \in Nat /\ Len(m.events) \in Nat
      BY <1>9
    <3>4. ASSUME NEW k \in Len(s.events) + 1 .. Len(n.events) PROVE n.events[k].index = Len(d)
      <4>1. CASE k = Len(m.events) + 1
        BY <3>1, <3>2, <4>1
      <4>2. CASE k # Len(m.events) + 1
        <5>1. k \in 1 .. Len(m.events) /\ k \in Len(s.events) + 1 .. Len(m.events)
          BY <3>2, <3>3, <4>2
        <5> QED
          BY <1>10, <3>2, <5>1
      <4> QED
        BY <4>1, <4>2
    <3> QED
      BY <3>2, <3>4
  <2> QED
    BY <1>8, <2>1, <2>2
<1> QED
  BY <1>0, <1>1, <1>2, <1>7, <1>9, <1>11 DEF s, d

\* Every break is of a bar of the series.
LEMMA EventsAreOfBars ==
  ASSUME NEW c \in Seq(Shapes), NEW f \in Range(StructureEvents(c, Swings(c)))
  PROVE  f \in Break /\ f.index \in 1 .. Len(c)
<1>1. PICK u \in [0 .. Len(c) -> Walks] :
        /\ u[0] = Unbroken
        /\ \A i \in 1 .. Len(c) : u[i] = BreaksOf(c, Swings(c), u[i - 1], i)
        /\ StructureEvents(c, Swings(c)) = u[Len(c)].events
  BY WalkIs
<1>0. Len(c) \in Nat
  OBVIOUS
<1> DEFINE OfBars(w) == \A k \in 1 .. Len(w.events) : w.events[k] \in Break /\ w.events[k].index \in 1 .. Len(c)
           P == {i \in 0 .. Len(c) : OfBars(u[i])}
<1>2. 0 \in P
  BY <1>0, <1>1 DEF Unbroken
<1>3. ASSUME NEW s \in Walks, NEW n \in Walks, NEW i \in 1 .. Len(c), OfBars(s), Adds(s, n, i)
      PROVE  OfBars(n)
  <2>1. PICK e \in Break : e.index = i /\ n.events = Append(s.events, e)
    BY <1>3 DEF Adds
  <2>2. s.events \in Seq(Break)
    BY DEF Walks
  <2>3. \A k \in 1 .. Len(n.events) : n.events[k] = e \/ (k \in 1 .. Len(s.events) /\ n.events[k] = s.events[k])
    BY <2>1, <2>2
  <2> QED
    BY <1>3, <2>1, <2>3
<1>4. ASSUME NEW i \in 0 + 1 .. Len(c), i - 1 \in P PROVE i \in P
  <2>1. u[i - 1] \in Walks /\ OfBars(u[i - 1]) /\ i \in 1 .. Len(c)
    BY <1>0, <1>1, <1>4
  <2> DEFINE m == BreakOf("HIGH", c, Swings(c), u[i - 1], i)
             n == BreaksOf(c, Swings(c), u[i - 1], i)
  <2>2. /\ m \in Walks /\ n \in Walks
        /\ m = u[i - 1] \/ Adds(u[i - 1], m, i)
        /\ n = m \/ Adds(m, n, i)
    BY <2>1, BreaksAre
  <2> HIDE DEF OfBars, m, n
  <2>3. OfBars(m)
    BY <1>3, <2>1, <2>2
  <2>4. OfBars(n)
    BY <1>3, <2>1, <2>2, <2>3
  <2>5. u[i] = n
    BY <1>1, <2>1 DEF n
  <2> QED
    BY <2>1, <2>4, <2>5
<1>5. \A i \in 0 .. Len(c) : i \in P
  <2> HIDE DEF P
  <2> QED
    BY <1>0, <1>2, <1>4, Along
<1>6. OfBars(u[Len(c)])
  BY <1>0, <1>5
<1>7. u[Len(c)].events \in Seq(Break)
  BY <1>0, <1>1 DEF Walks
<1> QED
  BY <1>1, <1>6, <1>7 DEF Range

-----------------------------------------------------------------------------
(* Shifts: the breaks that confirm a turn.                                 *)

\* The state of the walk: the direction a turn waits in, and the shifts.
Pendings == [pending : {None, "up", "down"}, found : Seq(Break)]
Nothing == [pending |-> None, found |-> <<>>]

\* One break promotes at most itself (promote_confirmed_shifts).
LEMMA PromoteIs ==
  ASSUME NEW s \in Pendings, NEW e \in Break
  PROVE  /\ Promote(s, e) \in Pendings
         /\ Promote(s, e).found \in {s.found, Append(s.found, e)}
<1>1. s.found \in Seq(Break) /\ Append(s.found, e) \in Seq(Break) /\ e.direction \in {"up", "down"}
  BY DEF Pendings, Break
<1> QED
  BY <1>1 DEF Promote, Pendings

\* The recursive function in Shifts.
IsPromotion(u, ev) ==
  u = [k \in 0 .. Len(ev) |->
         IF k = 0 THEN Nothing ELSE Promote(u[k - 1], ev[k])]

\* The shifts are found by such a walk over the breaks.
LEMMA PromotionIs ==
  ASSUME NEW ev \in Seq(Break)
  PROVE  \E u \in [0 .. Len(ev) -> Pendings] :
           /\ u[0] = Nothing
           /\ \A k \in 1 .. Len(ev) : u[k] = Promote(u[k - 1], ev[k])
           /\ Shifts(ev) = u[Len(ev)].found
<1> DEFINE F == [k \in 1 .. Len(ev) |-> [s \in Pendings |-> Promote(s, ev[k])]]
<1>0. Len(ev) \in Nat
  OBVIOUS
<1>1. Nothing \in Pendings
  BY DEF Nothing, Pendings, None
<1>2. \A k \in 0 + 1 .. Len(ev) : \A s \in Pendings : F[k][s] \in Pendings /\ F[k][s] = Promote(s, ev[k])
  BY PromoteIs
<1> HIDE DEF F
<1>3. PICK u \in [0 .. Len(ev) -> Pendings] :
        u[0] = Nothing /\ \A k \in 0 + 1 .. Len(ev) : u[k] = F[k][u[k - 1]]
  <2>1. \A k \in 0 + 1 .. Len(ev) : \A s \in Pendings : F[k][s] \in Pendings
    BY <1>2
  <2>2. 0 \in Nat /\ 0 <= Len(ev)
    BY <1>0
  <2>3. Runs(Pendings, Nothing, 0, Len(ev), F) # {}
    BY <1>0, <1>1, <2>1, <2>2, Recursion
  <2> QED
    BY <2>3 DEF Runs
<1>4. ASSUME NEW k \in 1 .. Len(ev) PROVE u[k] = Promote(u[k - 1], ev[k])
  BY <1>2, <1>3
<1>5. IsPromotion(u, ev)
  BY <1>3, <1>4 DEF IsPromotion
<1> DEFINE v == CHOOSE v : IsPromotion(v, ev)
<1>6. IsPromotion(v, ev)
  BY <1>5
<1>7. Shifts(ev) = v[Len(ev)].found
  BY DEF Shifts, IsPromotion, Nothing
<1> HIDE DEF v
<1> DEFINE P == {k \in 0 .. Len(ev) : v[k] = u[k]}
<1>8. 0 \in P
  BY <1>0, <1>5, <1>6 DEF IsPromotion
<1>9. ASSUME NEW k \in 0 + 1 .. Len(ev), k - 1 \in P PROVE k \in P
  BY <1>5, <1>6, <1>9 DEF IsPromotion
<1>10. \A k \in 0 .. Len(ev) : k \in P
  <2> HIDE DEF P
  <2> QED
    BY <1>0, <1>8, <1>9, Along
<1>11. v[Len(ev)] = u[Len(ev)]
  BY <1>0, <1>10
<1> QED
  BY <1>3, <1>4, <1>7, <1>11

\* The shifts of a longer series go on from those there were.
LEMMA ShiftsGrow ==
  ASSUME NEW old \in Seq(Break), NEW new \in Seq(Break), Continues(old, new)
  PROVE  /\ Shifts(old) \in Seq(Break) /\ Shifts(new) \in Seq(Break)
         /\ Continues(Shifts(old), Shifts(new))
<1>0. /\ Len(old) \in Nat /\ Len(new) \in Nat /\ Len(old) <= Len(new)
      /\ \A k \in 1 .. Len(old) : k \in 1 .. Len(new) /\ new[k] = old[k]
  BY DEF Continues
<1>1. PICK u \in [0 .. Len(old) -> Pendings] :
        /\ u[0] = Nothing
        /\ \A k \in 1 .. Len(old) : u[k] = Promote(u[k - 1], old[k])
        /\ Shifts(old) = u[Len(old)].found
  BY PromotionIs
<1>2. PICK v \in [0 .. Len(new) -> Pendings] :
        /\ v[0] = Nothing
        /\ \A k \in 1 .. Len(new) : v[k] = Promote(v[k - 1], new[k])
        /\ Shifts(new) = v[Len(new)].found
  BY PromotionIs
<1> DEFINE P == {k \in 0 .. Len(old) : v[k] = u[k]}
<1>3. 0 \in P
  BY <1>0, <1>1, <1>2
<1>4. ASSUME NEW k \in 0 + 1 .. Len(old), k - 1 \in P PROVE k \in P
  BY <1>0, <1>1, <1>2, <1>4
<1>5. \A k \in 0 .. Len(old) : k \in P
  <2> HIDE DEF P
  <2> QED
    BY <1>0, <1>3, <1>4, Along
<1>6. v[Len(old)] = u[Len(old)]
  BY <1>0, <1>5
<1>7. ASSUME NEW k \in 0 .. Len(new) PROVE v[k].found \in Seq(Break)
  BY <1>2, <1>7 DEF Pendings
<1>8. Shifts(old) \in Seq(Break) /\ Shifts(new) \in Seq(Break)
  BY <1>0, <1>1, <1>2, <1>6, <1>7
<1> DEFINE Q == {k \in Len(old) .. Len(new) : Continues(Shifts(old), v[k].found)}
<1>9. Len(old) \in Q
  BY <1>0, <1>1, <1>6, <1>8 DEF Continues
<1>10. ASSUME NEW k \in Len(old) + 1 .. Len(new), k - 1 \in Q PROVE k \in Q
  <2>1. k \in 1 .. Len(new) /\ k - 1 \in 0 .. Len(new) /\ new[k] \in Break
    BY <1>0
  <2>2. v[k - 1] \in Pendings /\ v[k] = Promote(v[k - 1], new[k])
    BY <1>2, <2>1
  <2>3. v[k].found \in {v[k - 1].found, Append(v[k - 1].found, new[k])}
    BY <2>1, <2>2, PromoteIs
  <2>4. v[k - 1].found \in Seq(Break)
    BY <1>7, <2>1
  <2>5. Continues(Shifts(old), v[k].found)
    <3>1. Continues(Shifts(old), v[k - 1].found)
      BY <1>10
    <3>2. Continues(Shifts(old), Append(v[k - 1].found, new[k]))
      BY ONLY <1>8, <2>1, <2>4, <3>1, AppendContinues
    <3> QED
      BY <2>3, <3>1, <3>2
  <2> QED
    BY <2>5
<1>11. \A k \in Len(old) .. Len(new) : k \in Q
  <2> HIDE DEF Q
  <2> QED
    BY <1>0, <1>9, <1>10, Along
<1>12. Continues(Shifts(old), v[Len(new)].found)
  BY <1>0, <1>11
<1> QED
  BY <1>2, <1>8, <1>12

-----------------------------------------------------------------------------
(* A turn is a CHoCH, and what follows one without turning is a shift.     *)

\* The breaks up to the k-th that confirm a turn, and the trend after them.
TurnOf(ev, k) == k > 1 /\ ev[k - 1].direction # ev[k].direction
ConfirmsOf(ev, k) == {j \in 1 .. k : j > 1 /\ ~TurnOf(ev, j) /\ TurnOf(ev, j - 1)}
TrendOf(ev) == IF ev = <<>> THEN None ELSE ev[Len(ev)].direction
KindsExact(ev) == \A k \in 1 .. Len(ev) : ev[k].kind = "CHOCH" <=> TurnOf(ev, k)

\* The trend is the direction of the break before, so a CHoCH is a turn.
LEMMA AddKeepsKinds ==
  ASSUME NEW s \in Walks, NEW n \in Walks, NEW i, Adds(s, n, i),
         s.trend = TrendOf(s.events), KindsExact(s.events)
  PROVE  n.trend = TrendOf(n.events) /\ KindsExact(n.events)
<1>1. PICK e \in Break : /\ n.events = Append(s.events, e)
                         /\ n.trend = e.direction
                         /\ e.kind = "CHOCH" <=> s.trend \notin {e.direction, None}
  BY DEF Adds
<1> DEFINE ev == s.events
           fv == n.events
<1>2. /\ ev \in Seq(Break) /\ Len(ev) \in Nat /\ Len(fv) = Len(ev) + 1
      /\ fv[Len(ev) + 1] = e /\ fv # <<>>
      /\ \A k \in 1 .. Len(ev) : fv[k] = ev[k]
  BY <1>1 DEF Walks
<1>3. n.trend = TrendOf(fv)
  BY <1>1, <1>2 DEF TrendOf
<1> HIDE DEF ev, fv
<1>4. ASSUME NEW k \in 1 .. Len(ev) PROVE fv[k].kind = "CHOCH" <=> TurnOf(fv, k)
  <2>1. fv[k] = ev[k] /\ (k > 1 => fv[k - 1] = ev[k - 1])
    BY <1>2
  <2>2. ev[k].kind = "CHOCH" <=> TurnOf(ev, k)
    BY DEF KindsExact, ev
  <2> QED
    BY <2>1, <2>2 DEF TurnOf
<1>5. fv[Len(ev) + 1].kind = "CHOCH" <=> TurnOf(fv, Len(ev) + 1)
  <2>1. CASE Len(ev) = 0
    <3>1. s.trend = None
      BY <1>2, <2>1 DEF TrendOf, ev
    <3>2. ~TurnOf(fv, Len(ev) + 1)
      BY <2>1 DEF TurnOf
    <3> QED
      BY <1>1, <1>2, <3>1, <3>2
  <2>2. CASE Len(ev) # 0
    <3>1. ev # <<>> /\ Len(ev) \in 1 .. Len(ev) /\ Len(ev) + 1 > 1
      BY <1>2, <2>2
    <3>2. s.trend = ev[Len(ev)].direction
      BY <3>1 DEF TrendOf, ev
    <3>3. ev[Len(ev)] \in Break
      BY <1>2, <3>1
    <3>4. ev[Len(ev)].direction # None
      BY <3>3 DEF Break, None
    <3>5. fv[Len(ev) + 1 - 1] = ev[Len(ev)]
      BY <1>2, <3>1
    <3> QED
      BY <1>1, <1>2, <3>1, <3>2, <3>4, <3>5 DEF TurnOf
  <2> QED
    BY <2>1, <2>2
<1>6. KindsExact(fv)
  BY <1>2, <1>4, <1>5 DEF KindsExact
<1> QED
  BY <1>3, <1>6 DEF fv

\* A break is a CHoCH if and only if it turns (detect_structure_events).
LEMMA KindsAreExact ==
  ASSUME NEW c \in Seq(Shapes)
  PROVE  KindsExact(StructureEvents(c, Swings(c)))
<1>1. PICK u \in [0 .. Len(c) -> Walks] :
        /\ u[0] = Unbroken
        /\ \A i \in 1 .. Len(c) : u[i] = BreaksOf(c, Swings(c), u[i - 1], i)
        /\ StructureEvents(c, Swings(c)) = u[Len(c)].events
  BY WalkIs
<1>0. Len(c) \in Nat
  OBVIOUS
<1> DEFINE Right(w) == w.trend = TrendOf(w.events) /\ KindsExact(w.events)
           P == {i \in 0 .. Len(c) : Right(u[i])}
<1>2. 0 \in P
  BY <1>0, <1>1 DEF Unbroken, TrendOf, KindsExact
<1>3. ASSUME NEW i \in 0 + 1 .. Len(c), i - 1 \in P PROVE i \in P
  <2>1. u[i - 1] \in Walks /\ Right(u[i - 1]) /\ i \in 1 .. Len(c)
    BY <1>0, <1>1, <1>3
  <2> DEFINE m == BreakOf("HIGH", c, Swings(c), u[i - 1], i)
             n == BreaksOf(c, Swings(c), u[i - 1], i)
  <2>2. /\ m \in Walks /\ n \in Walks
        /\ m = u[i - 1] \/ Adds(u[i - 1], m, i)
        /\ n = m \/ Adds(m, n, i)
    BY <2>1, BreaksAre
  <2> HIDE DEF m, n
  <2>3. Right(m)
    BY <2>1, <2>2, AddKeepsKinds
  <2>4. Right(n)
    BY <2>2, <2>3, AddKeepsKinds
  <2>5. u[i] = n
    BY <1>1, <2>1 DEF n
  <2> QED
    BY <2>4, <2>5
<1>4. \A i \in 0 .. Len(c) : i \in P
  <2> HIDE DEF P
  <2> QED
    BY <1>0, <1>2, <1>3, Along
<1> QED
  BY <1>0, <1>1, <1>4

\* The shifts found up to a break, and the turn that waits for one.
Kept(s, ev, k) ==
  /\ s.pending = IF k > 0 /\ TurnOf(ev, k) THEN ev[k].direction ELSE None
  /\ Len(s.found) = Cardinality(ConfirmsOf(ev, k))
  /\ \A j \in ConfirmsOf(ev, k) :
       s.found[Cardinality({i \in ConfirmsOf(ev, k) : i <= j})] = ev[j]

\* How many breaks confirm a turn up to one of them.
LEMMA ConfirmsAreFinite ==
  ASSUME NEW ev, NEW k \in Nat
  PROVE  /\ IsFiniteSet(ConfirmsOf(ev, k)) /\ Cardinality(ConfirmsOf(ev, k)) \in Nat
         /\ \A j \in ConfirmsOf(ev, k) :
              Cardinality({i \in ConfirmsOf(ev, k) : i <= j}) \in 1 .. Cardinality(ConfirmsOf(ev, k))
<1> DEFINE C == ConfirmsOf(ev, k)
<1>1. IsFiniteSet(1 .. k) /\ C \subseteq 1 .. k
  BY FS_Interval DEF ConfirmsOf
<1> HIDE DEF C
<1>2. IsFiniteSet(C) /\ Cardinality(C) \in Nat
  BY <1>1, FS_Subset, FS_CardinalityType
<1>3. ASSUME NEW j \in C
      PROVE  Cardinality({i \in C : i <= j}) \in 1 .. Cardinality(C)
  <2> DEFINE D == {i \in C : i <= j}
  <2>1. D \subseteq C /\ D # {}
    BY <1>1
  <2> HIDE DEF D
  <2>2. IsFiniteSet(D) /\ Cardinality(D) \in Nat /\ Cardinality(D) <= Cardinality(C)
    BY <1>2, <2>1, FS_Subset, FS_CardinalityType
  <2>3. Cardinality(D) # 0
    BY <2>1, <2>2, FS_EmptySet
  <2>4. Cardinality(D) \in 1 .. Cardinality(C)
    BY <1>2, <2>2, <2>3
  <2> QED
    BY <2>4 DEF D
<1> QED
  BY <1>2, <1>3 DEF C

\* One break keeps account of the shifts and of the turn that waits.
LEMMA PromoteKeeps ==
  ASSUME NEW ev \in Seq(Break), KindsExact(ev), NEW k \in 1 .. Len(ev),
         NEW s \in Pendings, Kept(s, ev, k - 1)
  PROVE  Kept(Promote(s, ev[k]), ev, k)
<1> DEFINE C == ConfirmsOf(ev, k - 1)
           D == ConfirmsOf(ev, k)
           n == Promote(s, ev[k])
<1>0. k \in Nat /\ k - 1 \in Nat /\ ev[k] \in Break /\ Len(ev) \in Nat
  OBVIOUS
<1>1. ev[k].kind = "CHOCH" <=> TurnOf(ev, k)
  BY DEF KindsExact
<1>2. C = D \ {k} /\ k \notin C
  BY <1>0 DEF ConfirmsOf
<1>3. k \in D <=> k > 1 /\ ~TurnOf(ev, k) /\ TurnOf(ev, k - 1)
  BY <1>0 DEF ConfirmsOf
<1>4. ev[k].direction # None /\ (k > 1 => ev[k - 1] \in Break /\ ev[k - 1].direction # None)
  <2>1. \A e \in Break : e.direction # None
    BY DEF Break, None
  <2>2. k > 1 => ev[k - 1] \in Break
    BY <1>0
  <2> QED
    BY <1>0, <2>1, <2>2
<1>5. /\ s.pending = IF k - 1 > 0 /\ TurnOf(ev, k - 1) THEN ev[k - 1].direction ELSE None
      /\ Len(s.found) = Cardinality(C)
      /\ \A j \in C : s.found[Cardinality({i \in C : i <= j})] = ev[j]
  BY DEF Kept
<1>6. s.found \in Seq(Break)
  BY DEF Pendings
<1>7. \A j \in C : j \in Nat /\ j < k
  BY <1>0 DEF ConfirmsOf
<1>8. /\ IsFiniteSet(C) /\ Cardinality(C) \in Nat
      /\ \A j \in C : Cardinality({i \in C : i <= j}) \in 1 .. Cardinality(C)
  BY <1>0, ConfirmsAreFinite
<1> HIDE DEF C, D
<1>9. n.pending = IF k > 0 /\ TurnOf(ev, k) THEN ev[k].direction ELSE None
  BY <1>0, <1>1 DEF Promote
<1>10. CASE k \in D
  <2>1. ~TurnOf(ev, k) /\ k > 1 /\ s.pending = ev[k - 1].direction
    BY <1>0, <1>3, <1>5, <1>10
  <2>2. ev[k].direction = s.pending
    BY <2>1 DEF TurnOf
  <2>3. n.found = Append(s.found, ev[k])
    BY <1>1, <2>1, <2>2 DEF Promote
  <2>4. D = C \cup {k}
    BY <1>2, <1>10
  <2>5. Cardinality(D) = Cardinality(C) + 1
    BY <1>2, <1>8, <2>4, FS_AddElement
  <2>6. Len(n.found) = Cardinality(D) /\ n.found[Cardinality(D)] = ev[k]
        /\ \A m \in 1 .. Cardinality(C) : n.found[m] = s.found[m]
    BY <1>0, <1>5, <1>6, <2>3, <2>5
  <2> HIDE DEF n
  <2>7. ASSUME NEW j \in D PROVE n.found[Cardinality({i \in D : i <= j})] = ev[j]
    <3>1. CASE j = k
      <4>1. {i \in D : i <= j} = D
        <5>1. \A i \in D : i = k \/ i \in C
          BY <2>4
        <5>2. \A i \in D : i <= k
          BY <1>0, <1>7, <5>1
        <5> QED
          BY <3>1, <5>2
      <4> QED
        BY <2>6, <3>1, <4>1
    <3>2. CASE j # k
      <4>1. j \in C
        BY <2>4, <3>2
      <4>2. {i \in D : i <= j} = {i \in C : i <= j}
        BY <1>0, <1>7, <2>4, <4>1
      <4> QED
        BY <1>5, <1>8, <2>6, <4>1, <4>2
    <3> QED
      BY <3>1, <3>2
  <2> QED
    BY <1>9, <2>6, <2>7 DEF Kept, D, n
<1>11. CASE k \notin D
  <2>1. D = C
    BY <1>2, <1>11
  <2>2. n.found = s.found
    <3>1. CASE TurnOf(ev, k)
      BY <1>1, <3>1 DEF Promote
    <3>2. CASE ~TurnOf(ev, k) /\ k > 1
      <4>1. ~TurnOf(ev, k - 1)
        BY <1>3, <1>11, <3>2
      <4>2. s.pending = None
        BY <1>5, <4>1
      <4> QED
        BY <1>1, <1>4, <3>2, <4>2 DEF Promote
    <3>3. CASE ~TurnOf(ev, k) /\ ~(k > 1)
      <4>1. ~(k - 1 > 0)
        BY <1>0, <3>3
      <4>2. s.pending = None
        BY <1>5, <4>1
      <4> QED
        BY <1>1, <1>4, <3>3, <4>2 DEF Promote
    <3> QED
      BY <3>1, <3>2, <3>3
  <2> HIDE DEF n
  <2> QED
    BY <1>5, <1>9, <2>1, <2>2 DEF Kept, D, n
<1> QED
  BY <1>10, <1>11

\* The shifts are the breaks that confirm a turn, in their order.
LEMMA ShiftsAreExact ==
  ASSUME NEW ev \in Seq(Break), KindsExact(ev)
  PROVE  /\ Len(Shifts(ev)) = Cardinality(ConfirmsOf(ev, Len(ev)))
         /\ \A j \in ConfirmsOf(ev, Len(ev)) :
              Shifts(ev)[Cardinality({i \in ConfirmsOf(ev, Len(ev)) : i <= j})] = ev[j]
<1>0. Len(ev) \in Nat
  OBVIOUS
<1>1. PICK u \in [0 .. Len(ev) -> Pendings] :
        /\ u[0] = Nothing
        /\ \A k \in 1 .. Len(ev) : u[k] = Promote(u[k - 1], ev[k])
        /\ Shifts(ev) = u[Len(ev)].found
  BY PromotionIs
<1> DEFINE P == {k \in 0 .. Len(ev) : Kept(u[k], ev, k)}
<1>2. 0 \in P
  <2>1. ConfirmsOf(ev, 0) = {}
    BY DEF ConfirmsOf
  <2>2. Cardinality({}) = 0
    BY FS_EmptySet
  <2>3. Nothing.pending = None /\ Nothing.found = <<>>
    BY DEF Nothing
  <2>4. Kept(Nothing, ev, 0)
    BY <2>1, <2>2, <2>3 DEF Kept
  <2> QED
    BY <1>0, <1>1, <2>4
<1>3. ASSUME NEW k \in 0 + 1 .. Len(ev), k - 1 \in P PROVE k \in P
  <2>1. k \in 1 .. Len(ev) /\ u[k - 1] \in Pendings /\ Kept(u[k - 1], ev, k - 1)
    BY <1>0, <1>1, <1>3
  <2> QED
    BY <1>1, <2>1, PromoteKeeps
<1>4. \A k \in 0 .. Len(ev) : k \in P
  <2> HIDE DEF P
  <2> QED
    BY <1>0, <1>2, <1>3, Along
<1>5. Kept(u[Len(ev)], ev, Len(ev))
  BY <1>0, <1>4
<1> QED
  BY <1>1, <1>5 DEF Kept

-----------------------------------------------------------------------------
(* Zones, and how far price has traded into them.                          *)

Zones == [up : BOOLEAN, top : Nat, bottom : Nat, origin : Nat, from : Nat]

\* A gap is not empty, and is known within the series (detect_fvgs).
LEMMA GapIs ==
  ASSUME NEW c \in Seq(Shapes), NEW z \in Gaps(c)
  PROVE  z \in Zones /\ z.from \in 1 .. Len(c) /\ z.bottom < z.top
<1>1. PICK i \in 3 .. Len(c) :
        \/ /\ c[i - 2].high < c[i].low
           /\ z = [up |-> TRUE, top |-> c[i].low, bottom |-> c[i - 2].high, origin |-> i, from |-> i]
        \/ /\ c[i - 2].low > c[i].high
           /\ z = [up |-> FALSE, top |-> c[i - 2].low, bottom |-> c[i].high, origin |-> i, from |-> i]
  BY DEF Gaps
<1>2. c[i] \in Shapes /\ c[i - 2] \in Shapes /\ i \in Nat /\ i \in 1 .. Len(c)
  BY <1>1
<1>3. /\ c[i].high \in Nat /\ c[i].low \in Nat
      /\ c[i - 2].high \in Nat /\ c[i - 2].low \in Nat
  BY <1>2, CandleIs
<1>4. CASE z = [up |-> TRUE, top |-> c[i].low, bottom |-> c[i - 2].high, origin |-> i, from |-> i]
                /\ c[i - 2].high < c[i].low
  BY <1>2, <1>3, <1>4 DEF Zones
<1>5. CASE z = [up |-> FALSE, top |-> c[i - 2].low, bottom |-> c[i].high, origin |-> i, from |-> i]
                /\ c[i - 2].low > c[i].high
  BY <1>2, <1>3, <1>5 DEF Zones
<1> QED
  BY <1>1, <1>4, <1>5

\* The bars against a break are of the series, and one is the latest.
LEMMA OpposedIs ==
  ASSUME NEW c \in Seq(Shapes), NEW e \in Break, e.index \in 1 .. Len(c)
  PROVE  /\ Opposed(c, e) \subseteq 1 .. Len(c)
         /\ Opposed(c, e) # {} => Nearest(Opposed(c, e)) \in Opposed(c, e)
<1>1. Opposed(c, e) \subseteq 1 .. Len(c)
  BY PeriodsAreCounts DEF Opposed, Higher
<1>2. Opposed(c, e) \in SUBSET (0 .. Len(c)) /\ Len(c) \in Nat
  BY <1>1
<1> QED
  BY <1>1, <1>2, NearestIs

\* The block of a break.
BlockOf(c, e) ==
  [up |-> e.direction = "up", top |-> c[Nearest(Opposed(c, e))].high,
   bottom |-> c[Nearest(Opposed(c, e))].low,
   origin |-> Nearest(Opposed(c, e)), from |-> e.index]

\* The blocks are those of the breaks that have a bar against them.
LEMMA BlocksAre ==
  ASSUME NEW c, NEW ev
  PROVE  Blocks(c, ev) = {BlockOf(c, e) : e \in {f \in Range(ev) : Opposed(c, f) # {}}}
  BY DEF Blocks, BlockOf

\* A block is not empty, and goes the way its own bar did not.
LEMMA BlockIs ==
  ASSUME NEW c \in Seq(Shapes), NEW e \in Break, e.index \in 1 .. Len(c), Opposed(c, e) # {}
  PROVE  LET z == BlockOf(c, e)
         IN /\ z \in Zones /\ z.from \in 1 .. Len(c) /\ z.bottom < z.top
            /\ z.origin \in 1 .. Len(c)
            /\ z.up = (c[z.origin].close < c[z.origin].open)
<1> DEFINE j == Nearest(Opposed(c, e))
<1>1. j \in Opposed(c, e) /\ j \in 1 .. Len(c) /\ j \in Nat
  BY OpposedIs
<1>2. IF e.direction = "up" THEN c[j].close < c[j].open ELSE c[j].close > c[j].open
  BY <1>1 DEF Opposed
<1>3. c[j] \in Shapes
  BY <1>1
<1>4. /\ c[j].high \in Nat /\ c[j].low \in Nat /\ c[j].open \in Nat /\ c[j].close \in Nat
      /\ c[j].low <= c[j].open /\ c[j].open <= c[j].high
      /\ c[j].low <= c[j].close /\ c[j].close <= c[j].high
  BY <1>3, CandleIs
<1>5. c[j].low < c[j].high
  BY <1>2, <1>4
<1>6. e.index \in Nat
  BY DEF Break
<1>7. BlockOf(c, e) = [up |-> e.direction = "up", top |-> c[j].high, bottom |-> c[j].low,
                       origin |-> j, from |-> e.index]
  BY DEF BlockOf
<1>8. (e.direction = "up") = (c[j].close < c[j].open)
  BY <1>2, <1>4
<1> HIDE DEF j
<1> QED
  BY <1>1, <1>4, <1>5, <1>6, <1>7, <1>8 DEF Zones

\* The blocks of a longer series: those there were, and those of new breaks.
LEMMA BlocksGrow ==
  ASSUME NEW c \in Seq(Shapes), NEW b \in Shapes
  PROVE  LET old == Blocks(c, StructureEvents(c, Swings(c)))
             new == Blocks(Append(c, b), StructureEvents(Append(c, b), Swings(Append(c, b))))
         IN old \subseteq new /\ \A z \in new \ old : z.from = Len(c) + 1
<1> DEFINE d == Append(c, b)
           ev == StructureEvents(c, Swings(c))
           fv == StructureEvents(d, Swings(d))
<1>1. /\ ev \in Seq(Break) /\ fv \in Seq(Break) /\ Continues(ev, fv)
      /\ \A k \in Len(ev) + 1 .. Len(fv) : fv[k].index = Len(c) + 1
  BY EventsGrow
<1>2. \A e \in Range(ev) : e \in Break /\ e.index \in 1 .. Len(c)
  BY EventsAreOfBars
<1>3. \A i \in 1 .. Len(c) : d[i] = c[i]
  BY BarsStay
<1> HIDE DEF d, ev, fv
<1>4. ASSUME NEW e \in Range(ev) PROVE Opposed(d, e) = Opposed(c, e)
  <2>1. \A j \in Higher(1, e.index - Lookback) .. e.index - 1 : j \in 1 .. Len(c)
    BY <1>2, PeriodsAreCounts DEF Higher
  <2> QED
    BY <1>3, <2>1 DEF Opposed
<1>5. ASSUME NEW e \in Range(ev), Opposed(c, e) # {} PROVE BlockOf(d, e) = BlockOf(c, e)
  <2>1. Nearest(Opposed(c, e)) \in 1 .. Len(c)
    BY <1>2, <1>5, OpposedIs
  <2> QED
    BY <1>3, <1>4, <2>1 DEF BlockOf
<1>6. Range(ev) \subseteq Range(fv)
  BY <1>1 DEF Continues, Range
<1>7. ASSUME NEW e \in Range(fv) \ Range(ev) PROVE e.index = Len(c) + 1
  <2>1. PICK k \in 1 .. Len(fv) : e = fv[k]
    BY <1>1 DEF Range
  <2>2. ~(k \in 1 .. Len(ev))
    BY <1>1, <1>7, <2>1 DEF Continues, Range
  <2>3. k \in Len(ev) + 1 .. Len(fv)
    BY <1>1, <2>2
  <2> QED
    BY <1>1, <2>1, <2>3
<1>8. Blocks(c, ev) \subseteq Blocks(d, fv)
  <2> SUFFICES ASSUME NEW z \in Blocks(c, ev) PROVE z \in Blocks(d, fv)
    OBVIOUS
  <2>1. PICK e \in Range(ev) : Opposed(c, e) # {} /\ z = BlockOf(c, e)
    BY BlocksAre
  <2>2. e \in Range(fv) /\ Opposed(d, e) # {} /\ z = BlockOf(d, e)
    BY <1>4, <1>5, <1>6, <2>1
  <2> QED
    BY <2>2, BlocksAre
<1>9. ASSUME NEW z \in Blocks(d, fv) \ Blocks(c, ev) PROVE z.from = Len(c) + 1
  <2>1. PICK e \in Range(fv) : Opposed(d, e) # {} /\ z = BlockOf(d, e)
    BY BlocksAre
  <2>2. e \notin Range(ev)
    <3>1. SUFFICES ASSUME e \in Range(ev) PROVE FALSE
      OBVIOUS
    <3>2. Opposed(c, e) # {} /\ z = BlockOf(c, e)
      BY <1>4, <1>5, <2>1, <3>1
    <3> QED
      BY <1>9, <3>1, <3>2, BlocksAre
  <2>3. z.from = e.index
    BY <2>1 DEF BlockOf
  <2> QED
    BY <1>7, <2>2, <2>3
<1> QED
  BY <1>8, <1>9 DEF d, ev, fv

-----------------------------------------------------------------------------
(* Fills.                                                                  *)

\* How far a zone is filled; the depth is an Int because a bar that does not
\* overlap a zone has a negative one.
Fills == [depth : Int, invalidated : BOOLEAN, at : Nat]
Untouched == [depth |-> 0, invalidated |-> FALSE, at |-> 0]

\* A bar only deepens a fill, and leaves a settled one (update_mitigation).
LEMMA FillByIs ==
  ASSUME NEW s \in Fills, NEW b \in Shapes, NEW i \in Nat, NEW z \in Zones
  PROVE  /\ FillBy(s, b, i, z) \in Fills
         /\ s.depth <= FillBy(s, b, i, z).depth
         /\ Settled(s, z) => FillBy(s, b, i, z) = s
<1>1. /\ b.high \in Nat /\ b.low \in Nat
      /\ z.top \in Int /\ z.bottom \in Int /\ z.up \in BOOLEAN /\ s.depth \in Int
  BY CandleIs DEF Zones, Fills
<1>2. Depth(b, z) \in Int
  BY <1>1 DEF Depth, Higher, Lower
<1>3. Higher(s.depth, Depth(b, z)) \in Int /\ s.depth <= Higher(s.depth, Depth(b, z))
  BY <1>1, <1>2 DEF Higher
<1> QED
  BY <1>1, <1>3 DEF FillBy, Fills

\* The recursive function in Fill.
IsFilling(u, c, z) ==
  u = [i \in z.from .. Len(c) |->
         IF i = z.from THEN Untouched ELSE FillBy(u[i - 1], c[i], i, z)]

\* The fill of a zone is found by such a walk over the bars after it.
LEMMA FillingIs ==
  ASSUME NEW c \in Seq(Shapes), NEW z \in Zones, z.from \in 1 .. Len(c)
  PROVE  \E u \in [z.from .. Len(c) -> Fills] :
           /\ u[z.from] = Untouched
           /\ \A i \in z.from + 1 .. Len(c) : u[i] = FillBy(u[i - 1], c[i], i, z)
           /\ Fill(c, z) = [depth |-> u[Len(c)].depth, mitigated |-> Settled(u[Len(c)], z),
                            at |-> u[Len(c)].at]
<1> DEFINE F == [i \in 1 .. Len(c) |-> [s \in Fills |-> FillBy(s, c[i], i, z)]]
<1>0. Len(c) \in Nat /\ z.from \in Nat /\ z.from <= Len(c) /\ z.from >= 1
  OBVIOUS
<1>1. Untouched \in Fills
  BY DEF Untouched, Fills
<1>2. \A i \in z.from + 1 .. Len(c) : \A s \in Fills : F[i][s] \in Fills /\ F[i][s] = FillBy(s, c[i], i, z)
  <2> SUFFICES ASSUME NEW i \in z.from + 1 .. Len(c), NEW s \in Fills
               PROVE  F[i][s] \in Fills /\ F[i][s] = FillBy(s, c[i], i, z)
    OBVIOUS
  <2>1. i \in 1 .. Len(c) /\ i \in Nat /\ c[i] \in Shapes
    BY <1>0
  <2> QED
    BY <2>1, FillByIs
<1> HIDE DEF F
<1>3. PICK u \in [z.from .. Len(c) -> Fills] :
        u[z.from] = Untouched /\ \A i \in z.from + 1 .. Len(c) : u[i] = F[i][u[i - 1]]
  <2>1. \A i \in z.from + 1 .. Len(c) : \A s \in Fills : F[i][s] \in Fills
    BY <1>2
  <2>2. Runs(Fills, Untouched, z.from, Len(c), F) # {}
    BY <1>0, <1>1, <2>1, Recursion
  <2> QED
    BY <2>2 DEF Runs
<1>4. ASSUME NEW i \in z.from + 1 .. Len(c) PROVE u[i] = FillBy(u[i - 1], c[i], i, z)
  <2>1. u[i - 1] \in Fills
    BY <1>0
  <2> QED
    BY <1>2, <1>3, <2>1
<1>5. IsFilling(u, c, z)
  BY <1>0, <1>3, <1>4 DEF IsFilling
<1> DEFINE v == CHOOSE v : IsFilling(v, c, z)
<1>6. IsFilling(v, c, z)
  BY <1>5
<1>7. Fill(c, z) = [depth |-> v[Len(c)].depth, mitigated |-> Settled(v[Len(c)], z), at |-> v[Len(c)].at]
  BY DEF Fill, IsFilling, Untouched
<1> HIDE DEF v
<1> DEFINE P == {i \in z.from .. Len(c) : v[i] = u[i]}
<1>8. z.from \in P
  BY <1>0, <1>5, <1>6 DEF IsFilling
<1>9. ASSUME NEW i \in z.from + 1 .. Len(c), i - 1 \in P PROVE i \in P
  BY <1>0, <1>5, <1>6, <1>9 DEF IsFilling
<1>10. \A i \in z.from .. Len(c) : i \in P
  <2> HIDE DEF P
  <2> QED
    BY <1>0, <1>8, <1>9, Along
<1>11. v[Len(c)] = u[Len(c)]
  BY <1>0, <1>10
<1> QED
  BY <1>3, <1>4, <1>7, <1>11

\* A bar more fills a zone further or leaves it, and leaves a spent one.
LEMMA FillGrows ==
  ASSUME NEW c \in Seq(Shapes), NEW b \in Shapes, NEW z \in Zones, z.from \in 1 .. Len(c)
  PROVE  /\ Fill(c, z).depth <= Fill(Append(c, b), z).depth
         /\ Fill(c, z).mitigated => Fill(Append(c, b), z) = Fill(c, z)
<1> DEFINE d == Append(c, b)
<1>0. /\ Len(c) \in Nat /\ z.from \in Nat /\ z.from <= Len(c) /\ z.from >= 1
      /\ d \in Seq(Shapes) /\ Len(d) = Len(c) + 1 /\ d[Len(d)] = b
      /\ \A i \in 1 .. Len(c) : d[i] = c[i]
  BY BarsStay
<1>1. PICK u \in [z.from .. Len(c) -> Fills] :
        /\ u[z.from] = Untouched
        /\ \A i \in z.from + 1 .. Len(c) : u[i] = FillBy(u[i - 1], c[i], i, z)
        /\ Fill(c, z) = [depth |-> u[Len(c)].depth, mitigated |-> Settled(u[Len(c)], z), at |-> u[Len(c)].at]
  BY FillingIs
<1>2. z.from \in 1 .. Len(d)
  BY <1>0
<1>3. PICK v \in [z.from .. Len(d) -> Fills] :
        /\ v[z.from] = Untouched
        /\ \A i \in z.from + 1 .. Len(d) : v[i] = FillBy(v[i - 1], d[i], i, z)
        /\ Fill(d, z) = [depth |-> v[Len(d)].depth, mitigated |-> Settled(v[Len(d)], z), at |-> v[Len(d)].at]
  BY <1>0, <1>2, FillingIs
<1> HIDE DEF d
<1> DEFINE P == {i \in z.from .. Len(c) : v[i] = u[i]}
<1>4. z.from \in P
  BY <1>0, <1>1, <1>3
<1>5. ASSUME NEW i \in z.from + 1 .. Len(c), i - 1 \in P PROVE i \in P
  BY <1>0, <1>1, <1>3, <1>5
<1>6. \A i \in z.from .. Len(c) : i \in P
  <2> HIDE DEF P
  <2> QED
    BY <1>0, <1>4, <1>5, Along
<1>7. v[Len(c)] = u[Len(c)] /\ u[Len(c)] \in Fills
  BY <1>0, <1>1, <1>6
<1>8. v[Len(d)] = FillBy(u[Len(c)], b, Len(d), z) /\ Len(d) \in Nat
  <2>1. Len(d) \in z.from + 1 .. Len(d) /\ Len(d) - 1 = Len(c)
    BY <1>0
  <2> QED
    BY <1>0, <1>3, <1>7, <2>1
<1>9. /\ u[Len(c)].depth <= v[Len(d)].depth
      /\ Settled(u[Len(c)], z) => v[Len(d)] = u[Len(c)]
  BY <1>7, <1>8, FillByIs
<1> QED
  BY <1>1, <1>3, <1>9 DEF d

-----------------------------------------------------------------------------
(* A zone is as full as price ever traded into it, and spent by the first  *)
(* bar that traded through it.                                             *)

\* The bars up to the k-th that traded into a zone, and through it.
InOf(c, z, k) == {i \in z.from + 1 .. k : Overlaps(c[i], z)}
ThroughOf(c, z, k) == {i \in z.from + 1 .. k : TradedThrough(c[i], z)}

\* What a fill has kept of them.
Reached(s, c, z, k) ==
  /\ InOf(c, z, k) = {} => s.depth = 0
  /\ InOf(c, z, k) # {} => \E i \in InOf(c, z, k) : s.depth = Depth(c[i], z)
  /\ \A i \in InOf(c, z, k) : Depth(c[i], z) <= s.depth
  /\ Settled(s, z) => s.depth >= Size(z)
  /\ Settled(s, z) <=> ThroughOf(c, z, k) # {}
  /\ ThroughOf(c, z, k) # {} =>
       s.at \in ThroughOf(c, z, k) /\ \A i \in ThroughOf(c, z, k) : s.at <= i

\* Through a zone is in it, and as deep as it is wide.
LEMMA DepthIs ==
  ASSUME NEW b \in Shapes, NEW z \in Zones, z.bottom < z.top
  PROVE  /\ TradedThrough(b, z) => Overlaps(b, z)
         /\ Depth(b, z) \in Int /\ Size(z) \in Nat /\ Size(z) > 0
         /\ Overlaps(b, z) =>
              /\ Depth(b, z) > 0 /\ Depth(b, z) <= Size(z)
              /\ TradedThrough(b, z) <=> Depth(b, z) >= Size(z)
              /\ b.low <= z.bottom /\ b.high >= z.top => TradedThrough(b, z)
<1>1. /\ b.high \in Nat /\ b.low \in Nat /\ b.low <= b.high
      /\ z.top \in Nat /\ z.bottom \in Nat /\ z.up \in BOOLEAN
  BY CandleIs DEF Zones
<1>2. Size(z) \in Nat /\ Size(z) > 0
  BY <1>1 DEF Size
<1>3. CASE z.up
  BY <1>1, <1>2, <1>3 DEF TradedThrough, Overlaps, Depth, Higher, Lower, Size
<1>4. CASE ~z.up
  BY <1>1, <1>2, <1>4 DEF TradedThrough, Overlaps, Depth, Higher, Lower, Size
<1> QED
  BY <1>1, <1>3, <1>4

\* One bar keeps the fill at what the bars so far reached.
LEMMA FillByReaches ==
  ASSUME NEW c \in Seq(Shapes), NEW z \in Zones, z.bottom < z.top, z.from \in 1 .. Len(c),
         NEW k \in z.from + 1 .. Len(c), NEW s \in Fills, Reached(s, c, z, k - 1)
  PROVE  Reached(FillBy(s, c[k], k, z), c, z, k)
<1> DEFINE b == c[k]
           n == FillBy(s, b, k, z)
           I == InOf(c, z, k - 1)
           J == InOf(c, z, k)
           T == ThroughOf(c, z, k - 1)
           U == ThroughOf(c, z, k)
<1>0. k \in Nat /\ z.from \in Nat /\ b \in Shapes /\ k \in 1 .. Len(c)
  BY DEF Zones
<1>1. /\ J = (IF Overlaps(b, z) THEN I \cup {k} ELSE I)
      /\ \A i \in I : i \in Nat /\ i < k /\ i \in 1 .. Len(c)
  <2>1. z.from + 1 .. k = (z.from + 1 .. k - 1) \cup {k}
    BY <1>0
  <2> QED
    BY <1>0, <2>1 DEF InOf
<1>2. /\ U = (IF TradedThrough(b, z) THEN T \cup {k} ELSE T)
      /\ \A i \in T : i \in Nat /\ i < k
  <2>1. z.from + 1 .. k = (z.from + 1 .. k - 1) \cup {k}
    BY <1>0
  <2> QED
    BY <1>0, <2>1 DEF ThroughOf
<1>3. /\ I = {} => s.depth = 0
      /\ I # {} => \E i \in I : s.depth = Depth(c[i], z)
      /\ \A i \in I : Depth(c[i], z) <= s.depth
      /\ Settled(s, z) => s.depth >= Size(z)
      /\ Settled(s, z) <=> T # {}
      /\ T # {} => s.at \in T /\ \A i \in T : s.at <= i
  BY DEF Reached
<1>4. /\ TradedThrough(b, z) => Overlaps(b, z)
      /\ Depth(b, z) \in Int /\ Size(z) \in Nat /\ Size(z) > 0
      /\ Overlaps(b, z) =>
           /\ Depth(b, z) > 0 /\ Depth(b, z) <= Size(z)
           /\ TradedThrough(b, z) <=> Depth(b, z) >= Size(z)
           /\ b.low <= z.bottom /\ b.high >= z.top => TradedThrough(b, z)
  BY <1>0, DepthIs
<1>5. s.depth \in Int /\ s.at \in Nat /\ s.invalidated \in BOOLEAN
  BY DEF Fills
<1>6. \A i \in I : Depth(c[i], z) \in Int
  <2> TAKE i \in I
  <2>1. c[i] \in Shapes
    BY <1>1
  <2> QED
    BY <2>1, DepthIs
<1> HIDE DEF I, J, T, U
<1>7. CASE Settled(s, z)
  <2>1. n = s
    BY <1>7 DEF FillBy
  <2>2. T # {} /\ s.depth >= Size(z) /\ I # {}
    <3>1. T # {} /\ s.depth >= Size(z)
      BY <1>3, <1>7
    <3>2. s.depth # 0
      BY <1>4, <1>5, <3>1
    <3> QED
      BY <1>3, <3>1, <3>2
  <2>3. J # {} /\ (\E i \in J : s.depth = Depth(c[i], z)) /\ \A i \in J : Depth(c[i], z) <= s.depth
    <3>1. I \subseteq J /\ \A i \in J : i \in I \/ (i = k /\ Overlaps(b, z))
      BY <1>1
    <3>2. Overlaps(b, z) => Depth(b, z) <= s.depth
      BY <1>4, <1>5, <2>2
    <3> QED
      BY <1>3, <2>2, <3>1, <3>2
  <2>4. U # {} /\ s.at \in U /\ \A i \in U : s.at <= i
    <3>1. s.at \in T /\ s.at < k
      BY <1>2, <1>3, <2>2
    <3> QED
      BY <1>0, <1>2, <1>3, <1>5, <2>2, <3>1
  <2> HIDE DEF n
  <2> QED
    BY <1>7, <2>1, <2>2, <2>3, <2>4 DEF Reached, J, U, n
<1>8. CASE ~Settled(s, z) /\ ~Overlaps(b, z)
  <2>1. n = s
    BY <1>8 DEF FillBy
  <2>2. J = I /\ U = T
    BY <1>1, <1>2, <1>4, <1>8
  <2> HIDE DEF n
  <2> QED
    BY <1>3, <2>1, <2>2 DEF Reached, J, U, n
<1>9. CASE ~Settled(s, z) /\ Overlaps(b, z)
  <2> DEFINE deep == Higher(s.depth, Depth(b, z))
             beyond == b.low <= z.bottom /\ b.high >= z.top
  <2>1. /\ n.depth = deep /\ n.invalidated = beyond
        /\ n.at = IF beyond \/ deep >= Size(z) THEN k ELSE 0
    BY <1>9 DEF FillBy, Settled
  <2>2. s.depth < Size(z) /\ T = {}
    BY <1>3, <1>4, <1>5, <1>9 DEF Settled
  <2>3. deep >= Size(z) <=> TradedThrough(b, z)
    BY <1>4, <1>5, <1>9, <2>2 DEF Higher
  <2>4. beyond => TradedThrough(b, z)
    BY <1>4, <1>9
  <2> HIDE DEF n, beyond
  <2>5. Settled(n, z) <=> TradedThrough(b, z)
    BY <2>1, <2>3, <2>4 DEF Settled
  <2>6. Settled(n, z) => n.depth >= Size(z)
    BY <2>1, <2>3, <2>5
  <2>7. J = I \cup {k}
    BY <1>1, <1>9
  <2>8. /\ deep \in Int /\ Depth(b, z) <= deep /\ s.depth <= deep
        /\ deep = Depth(b, z) \/ (deep = s.depth /\ I # {})
    BY <1>3, <1>4, <1>5, <1>9 DEF Higher
  <2> HIDE DEF deep
  <2>9. \E i \in J : n.depth = Depth(c[i], z)
    BY <1>3, <2>1, <2>7, <2>8
  <2>10. \A i \in J : Depth(c[i], z) <= n.depth
    <3>1. \A i \in I : Depth(c[i], z) <= deep
      BY <1>3, <1>5, <1>6, <2>8
    <3> QED
      BY <2>1, <2>7, <2>8, <3>1
  <2>11. U = IF TradedThrough(b, z) THEN {k} ELSE {}
    BY <1>2, <2>2
  <2>12. TradedThrough(b, z) => n.at = k
    BY <2>1, <2>3
  <2>13. U # {} => n.at \in U /\ \A i \in U : n.at <= i
    BY <1>0, <2>11, <2>12
  <2> QED
    BY <2>5, <2>6, <2>7, <2>9, <2>10, <2>11, <2>13 DEF Reached, J, U, n
<1> QED
  BY <1>7, <1>8, <1>9

\* The scan that stops early finds what the whole series says.
LEMMA FillIsExact ==
  ASSUME NEW c \in Seq(Shapes), NEW z \in Zones, z.bottom < z.top, z.from \in 1 .. Len(c)
  PROVE  LET after == z.from + 1 .. Len(c)
             in == {i \in after : Overlaps(c[i], z)}
             through == {i \in after : TradedThrough(c[i], z)}
             f == Fill(c, z)
         IN /\ f.mitigated <=> through # {}
            /\ f.mitigated => f.at = First(through)
            /\ in # {} => f.depth = Nearest({Depth(c[i], z) : i \in in})
<1> DEFINE In == InOf(c, z, Len(c))
           Through == ThroughOf(c, z, Len(c))
<1>0. Len(c) \in Nat /\ z.from \in Nat /\ z.from <= Len(c)
  OBVIOUS
<1>1. PICK u \in [z.from .. Len(c) -> Fills] :
        /\ u[z.from] = Untouched
        /\ \A i \in z.from + 1 .. Len(c) : u[i] = FillBy(u[i - 1], c[i], i, z)
        /\ Fill(c, z) = [depth |-> u[Len(c)].depth, mitigated |-> Settled(u[Len(c)], z), at |-> u[Len(c)].at]
  BY FillingIs
<1> DEFINE P == {i \in z.from .. Len(c) : Reached(u[i], c, z, i)}
<1>2. z.from \in P
  <2>1. InOf(c, z, z.from) = {} /\ ThroughOf(c, z, z.from) = {}
    BY <1>0 DEF InOf, ThroughOf
  <2>2. ~Settled(Untouched, z)
    BY DEF Settled, Untouched, Size, Zones
  <2>3. Reached(Untouched, c, z, z.from)
    BY <2>1, <2>2 DEF Reached, Untouched
  <2> QED
    BY <1>0, <1>1, <2>3
<1>3. ASSUME NEW i \in z.from + 1 .. Len(c), i - 1 \in P PROVE i \in P
  <2>1. u[i - 1] \in Fills /\ Reached(u[i - 1], c, z, i - 1)
    BY <1>0, <1>1, <1>3
  <2>2. Reached(FillBy(u[i - 1], c[i], i, z), c, z, i)
    BY <2>1, FillByReaches
  <2> QED
    BY <1>0, <1>1, <2>2
<1>4. \A i \in z.from .. Len(c) : i \in P
  <2> HIDE DEF P
  <2> QED
    BY <1>0, <1>2, <1>3, Along
<1>5. Reached(u[Len(c)], c, z, Len(c)) /\ u[Len(c)] \in Fills
  BY <1>0, <1>1, <1>4
<1> DEFINE s == u[Len(c)]
<1>6. /\ In # {} => \E i \in In : s.depth = Depth(c[i], z)
      /\ \A i \in In : Depth(c[i], z) <= s.depth
      /\ Settled(s, z) <=> Through # {}
      /\ Through # {} => s.at \in Through /\ \A i \in Through : s.at <= i
  BY <1>5 DEF Reached
<1>7. Through \in SUBSET Nat /\ In \in SUBSET (1 .. Len(c))
  BY <1>0 DEF ThroughOf, InOf
<1> HIDE DEF In, Through, s
<1>8. Through # {} => s.at = First(Through)
  <2> SUFFICES ASSUME Through # {} PROVE s.at = First(Through)
    OBVIOUS
  <2>1. First(Through) \in Through /\ \A j \in Through : First(Through) <= j
    BY <1>7, FirstIs
  <2>2. s.at \in Through /\ s.at <= First(Through)
    BY <1>6, <2>1
  <2>3. First(Through) <= s.at /\ s.at \in Nat /\ First(Through) \in Nat
    BY <1>7, <2>1, <2>2
  <2> QED
    BY <2>2, <2>3
<1>9. In # {} => s.depth = Nearest({Depth(c[i], z) : i \in In})
  <2> SUFFICES ASSUME In # {} PROVE s.depth = Nearest({Depth(c[i], z) : i \in In})
    OBVIOUS
  <2> DEFINE D == {Depth(c[i], z) : i \in In}
  <2>1. D \subseteq Int
    <3>1. \A i \in In : c[i] \in Shapes
      BY <1>7
    <3> QED
      BY <3>1, DepthIs
  <2>2. s.depth \in D /\ \A j \in D : j <= s.depth
    BY <1>6
  <2> HIDE DEF D
  <2>3. \A i \in D : (\A j \in D : j <= i) => i = s.depth
    <3> SUFFICES ASSUME NEW i \in D, \A j \in D : j <= i PROVE i = s.depth
      OBVIOUS
    <3>1. i <= s.depth /\ s.depth <= i /\ i \in Int /\ s.depth \in Int
      BY <2>1, <2>2
    <3> QED
      BY <3>1
  <2>4. Nearest(D) = s.depth
    BY <2>2, <2>3 DEF Nearest
  <2> QED
    BY <2>4 DEF D
<1>10. Fill(c, z).mitigated = Settled(s, z) /\ Fill(c, z).at = s.at /\ Fill(c, z).depth = s.depth
  BY <1>1 DEF s
<1> QED
  BY <1>6, <1>8, <1>9, <1>10 DEF In, Through, InOf, ThroughOf

-----------------------------------------------------------------------------
(* Levels, and the bars that sweep them.                                   *)

\* The periods that end before the i-th bar, and the two levels of each.
BarsBefore(c, i, length) ==
  {c[j] : j \in {k \in 1 .. i - 1 : Period(k, length) = Period(i - 1, length)}}
StartsOf(c, length) == {i \in 2 .. Len(c) : Period(i, length) # Period(i - 1, length)}
BuyLevel(c, i, length) ==
  [buy |-> TRUE, num |-> Nearest({b.high : b \in BarsBefore(c, i, length)}), den |-> 1,
   formed |-> i, members |-> {}]
SellLevel(c, i, length) ==
  [buy |-> FALSE, num |-> First({b.low : b \in BarsBefore(c, i, length)}), den |-> 1,
   formed |-> i, members |-> {}]

\* The levels are those of the periods that are over.
LEMMA LevelsAre ==
  ASSUME NEW c, NEW length
  PROVE  Levels(c, length) = {BuyLevel(c, i, length) : i \in StartsOf(c, length)}
                             \cup {SellLevel(c, i, length) : i \in StartsOf(c, length)}
  BY DEF Levels, BuyLevel, SellLevel, BarsBefore, StartsOf

\* A level is of bars before the one that formed it, so it stays.
LEMMA LevelsGrow ==
  ASSUME NEW c \in Seq(Shapes), NEW b \in Shapes, NEW length
  PROVE  /\ Levels(c, length) \subseteq Levels(Append(c, b), length)
         /\ \A p \in Levels(c, length) : p.formed \in 2 .. Len(c) /\ p.members = {}
<1> DEFINE d == Append(c, b)
<1>1. \A i \in 1 .. Len(c) : d[i] = c[i]
  BY BarsStay
<1>2. \A i \in StartsOf(c, length) : i \in 2 .. Len(c) /\ i \in StartsOf(d, length)
  BY BarsStay DEF StartsOf
<1> HIDE DEF d
<1>3. ASSUME NEW i \in StartsOf(c, length) PROVE BarsBefore(d, i, length) = BarsBefore(c, i, length)
  <2>1. \A k \in 1 .. i - 1 : k \in 1 .. Len(c)
    BY <1>2
  <2> QED
    BY <1>1, <2>1 DEF BarsBefore
<1>4. \A i \in StartsOf(c, length) : /\ BuyLevel(d, i, length) = BuyLevel(c, i, length)
                                     /\ SellLevel(d, i, length) = SellLevel(c, i, length)
  BY <1>3 DEF BuyLevel, SellLevel
<1>5. ASSUME NEW p \in Levels(c, length)
      PROVE  p \in Levels(d, length) /\ p.formed \in 2 .. Len(c) /\ p.members = {}
  <2>1. PICK i \in StartsOf(c, length) : p = BuyLevel(c, i, length) \/ p = SellLevel(c, i, length)
    BY LevelsAre
  <2>2. p.formed = i /\ p.members = {}
    BY <2>1 DEF BuyLevel, SellLevel
  <2>3. p \in Levels(d, length)
    BY <1>2, <1>4, <2>1, LevelsAre
  <2> QED
    BY <1>2, <2>2, <2>3
<1> QED
  BY <1>5 DEF d

\* A sweep names the first bar beyond, so no later bar moves it.
LEMMA SweepStays ==
  ASSUME NEW c \in Seq(Shapes), NEW b \in Shapes,
         NEW p, p.formed \in 2 .. Len(c), p.members = {}, Sweep(c, p).at # 0
  PROVE  Sweep(Append(c, b), p) = Sweep(c, p)
<1> DEFINE d == Append(c, b)
           Over(x) == {i \in p.formed .. Len(x) \ p.members : Beyond(x[i], p)}
<1>0. /\ Len(c) \in Nat /\ Len(d) = Len(c) + 1 /\ p.formed \in Nat
      /\ \A i \in 1 .. Len(c) : d[i] = c[i]
  BY BarsStay
<1>1. Over(c) # {}
  BY DEF Sweep
<1>2. Over(c) \in SUBSET Nat /\ Over(d) \in SUBSET Nat
  BY <1>0
<1>3. Over(c) \subseteq Over(d) /\ \A i \in Over(d) : i \in Over(c) \/ i = Len(c) + 1
  BY <1>0
<1>4. \A i \in Over(c) : i \in 1 .. Len(c)
  BY <1>0
<1>5. \A x : Sweep(x, p) =
         IF Over(x) = {} THEN [at |-> 0, rejected |-> FALSE]
         ELSE [at |-> First(Over(x)),
               rejected |-> IF p.buy THEN x[First(Over(x))].close * p.den < p.num
                            ELSE x[First(Over(x))].close * p.den > p.num]
  BY DEF Sweep
<1> HIDE DEF d, Over
<1>6. First(Over(c)) \in Over(c) /\ \A j \in Over(c) : First(Over(c)) <= j
  BY <1>1, <1>2, FirstIs
<1>7. First(Over(d)) \in Over(d) /\ \A j \in Over(d) : First(Over(d)) <= j
  BY <1>1, <1>2, <1>3, FirstIs
<1>8. First(Over(d)) = First(Over(c))
  <2>1. First(Over(d)) <= First(Over(c)) /\ First(Over(c)) \in 1 .. Len(c) /\ First(Over(d)) \in Nat
    BY <1>2, <1>3, <1>4, <1>6, <1>7
  <2>2. First(Over(d)) \in Over(c)
    BY <1>0, <1>3, <1>7, <2>1
  <2>3. First(Over(c)) <= First(Over(d))
    BY <1>6, <2>2
  <2> QED
    BY <2>1, <2>3
<1>9. d[First(Over(c))] = c[First(Over(c))]
  BY <1>0, <1>4, <1>6
<1>10. Sweep(d, p) = Sweep(c, p)
  BY <1>1, <1>3, <1>5, <1>8, <1>9
<1> QED
  BY <1>10 DEF d

-----------------------------------------------------------------------------
(* Opening ranges.                                                         *)

\* The session of a day, its window and its range.
SessionOf(c, d) == {i \in 1 .. Len(c) : Period(i, DayBars) = d /\ Clock(i) >= SessionStart}
WindowOf(c, d) ==
  {First(SessionOf(c, d))} \cup {i \in SessionOf(c, d) : Clock(i) < SessionStart + OpeningBars}
OpeningOf(c, d) ==
  [day |-> d, start |-> First(SessionOf(c, d)),
   high |-> Nearest({c[i].high : i \in WindowOf(c, d)}),
   low |-> First({c[i].low : i \in WindowOf(c, d)})]

\* The opening ranges are those of the days that have had a session.
LEMMA OpeningsAre ==
  ASSUME NEW c
  PROVE  OpeningRanges(c) =
           {OpeningOf(c, d) : d \in {e \in 0 .. Period(Len(c), DayBars) : SessionOf(c, e) # {}}}
  BY DEF OpeningRanges, OpeningOf, WindowOf, SessionOf

\* The rest of a division.
LEMMA RestIs ==
  ASSUME NEW a \in Int, NEW z \in Nat \ {0}
  PROVE  a % z = a - (a \div z) * z
OBVIOUS

\* A product is no smaller for a larger factor.
LEMMA TimesIsMonotone ==
  ASSUME NEW a \in Int, NEW b \in Int, NEW z \in Nat, a <= b
  PROVE  a * z <= b * z
<1>1. (b - a) * z >= 0
  OBVIOUS
<1>2. (b - a) * z = b * z - a * z /\ b * z \in Int /\ a * z \in Int
  OBVIOUS
<1> QED
  BY <1>1, <1>2

\* The next bar is of the same day, one later, or of the next day.
LEMMA NextClock ==
  ASSUME NEW n \in Nat \ {0}
  PROVE  /\ Period(n, DayBars) \in Nat /\ Period(n + 1, DayBars) \in Nat
         /\ Period(n, DayBars) <= Period(n + 1, DayBars)
         /\ Period(n + 1, DayBars) = Period(n, DayBars) => Clock(n + 1) = Clock(n) + 1
         /\ \A i \in 1 .. n : Period(i, DayBars) <= Period(n, DayBars)
<1>0. DayBars \in Nat \ {0}
  BY PeriodsAreCounts
<1> DEFINE q == (n - 1) \div DayBars
           r == (n - 1) % DayBars
<1>1. q \in Int /\ q * DayBars <= n - 1 /\ n - 1 < q * DayBars + DayBars
  BY <1>0, DivIs
<1>2. \A a \in Int : a % DayBars = a - (a \div DayBars) * DayBars
  BY <1>0, RestIs
<1>3. Period(n, DayBars) = q /\ Clock(n) = r /\ r = (n - 1) - q * DayBars
  BY <1>2 DEF Period, Clock
<1>4. /\ Period(n + 1, DayBars) = n \div DayBars
      /\ Clock(n + 1) = n - (n \div DayBars) * DayBars
  BY <1>2 DEF Period, Clock
<1> HIDE DEF q, r
<1>5. q >= 0
  <2>1. CASE q < 0
    <3>1. q + 1 <= 0
      BY <1>1, <2>1
    <3>2. (q + 1) * DayBars <= 0
      BY <1>0, <1>1, <3>1, TimesIsMonotone, 0 * DayBars = 0
    <3>3. (q + 1) * DayBars = q * DayBars + DayBars
      BY <1>0, <1>1
    <3> QED
      BY <1>0, <1>1, <3>2, <3>3
  <2> QED
    BY <1>1, <2>1
<1>6. n \div DayBars = q \/ n \div DayBars = q + 1
  <2>1. q * DayBars \in Int
    BY <1>0, <1>1
  <2>2. CASE n < q * DayBars + DayBars
    BY <1>0, <1>1, <2>1, <2>2, QuotientIs
  <2>3. CASE n >= q * DayBars + DayBars
    <3>1. (q + 1) * DayBars = q * DayBars + DayBars
      BY <1>0, <1>1
    <3>2. (q + 1) * DayBars <= n /\ n < (q + 1) * DayBars + DayBars
      BY <1>0, <1>1, <2>1, <2>3, <3>1
    <3> QED
      BY <1>0, <1>1, <3>2, QuotientIs
  <2> QED
    BY <1>0, <2>1, <2>2, <2>3
<1>7. ASSUME NEW i \in 1 .. n PROVE Period(i, DayBars) <= q
  <2> DEFINE p == (i - 1) \div DayBars
  <2>1. p \in Int /\ p * DayBars <= i - 1
    BY <1>0, DivIs
  <2> HIDE DEF p
  <2>2. CASE p > q
    <3>1. (q + 1) * DayBars <= p * DayBars
      BY <1>0, <1>1, <2>1, <2>2, TimesIsMonotone
    <3>2. (q + 1) * DayBars = q * DayBars + DayBars /\ p * DayBars \in Int /\ q * DayBars \in Int
      BY <1>0, <1>1, <2>1
    <3> QED
      BY <1>0, <1>1, <2>1, <3>1, <3>2
  <2> QED
    BY <1>1, <2>1, <2>2 DEF p, Period
<1> QED
  BY <1>0, <1>1, <1>3, <1>4, <1>5, <1>6, <1>7

\* The first bar of a set stays when later ones are added.
LEMMA FirstStays ==
  ASSUME NEW P \in SUBSET Nat, NEW Q \in SUBSET Nat, P # {}, P \subseteq Q,
         NEW n \in Nat, \A i \in P : i <= n, \A i \in Q : i \in P \/ i > n
  PROVE  First(Q) = First(P) /\ First(P) \in P
<1>1. First(P) \in P /\ \A j \in P : First(P) <= j
  BY FirstIs
<1>2. First(Q) \in Q /\ \A j \in Q : First(Q) <= j
  BY FirstIs
<1>3. First(Q) <= First(P) /\ First(Q) \in Nat /\ First(P) \in Nat /\ First(P) <= n
  BY <1>1, <1>2
<1>4. First(Q) \in P
  BY <1>2, <1>3
<1> QED
  BY <1>1, <1>3, <1>4

\* The bar after the window of a session, or of another day, is not in it.
LEMMA OpeningsStay ==
  ASSUME NEW c \in Seq(Shapes), c # <<>>, NEW b \in Shapes, NEW r \in OpeningRanges(c),
         \/ Clock(Len(c)) + 1 >= SessionStart + OpeningBars
         \/ Period(Len(c), DayBars) # r.day
  PROVE  r \in OpeningRanges(Append(c, b))
<1> DEFINE d == Append(c, b)
           n == Len(c)
<1>0. n \in Nat \ {0} /\ Len(d) = n + 1 /\ \A i \in 1 .. n : d[i] = c[i]
  BY BarsStay
<1>1. PICK e \in 0 .. Period(n, DayBars) : SessionOf(c, e) # {} /\ r = OpeningOf(c, e)
  BY OpeningsAre
<1>2. r.day = e
  BY <1>1 DEF OpeningOf
<1>3. /\ Period(n, DayBars) \in Nat /\ Period(n + 1, DayBars) \in Nat
      /\ Period(n, DayBars) <= Period(n + 1, DayBars)
      /\ Period(n + 1, DayBars) = Period(n, DayBars) => Clock(n + 1) = Clock(n) + 1
  BY <1>0, NextClock
<1> HIDE DEF d, n
<1>4. Period(n + 1, DayBars) = e => Clock(n + 1) >= SessionStart + OpeningBars
  <2>1. SUFFICES ASSUME Period(n + 1, DayBars) = e
                 PROVE  Clock(n + 1) >= SessionStart + OpeningBars
    OBVIOUS
  <2>2. Period(n, DayBars) = e
    BY <1>1, <1>3, <2>1
  <2> QED
    BY <1>2, <1>3, <2>1, <2>2 DEF n
<1>5. /\ SessionOf(c, e) \in SUBSET Nat /\ SessionOf(d, e) \in SUBSET Nat
      /\ \A i \in SessionOf(c, e) : i \in 1 .. n /\ i \in SessionOf(d, e)
      /\ \A i \in SessionOf(d, e) : i \in SessionOf(c, e) \/ (i = n + 1 /\ Period(n + 1, DayBars) = e)
  BY <1>0 DEF SessionOf, n
<1>6. First(SessionOf(d, e)) = First(SessionOf(c, e)) /\ First(SessionOf(c, e)) \in SessionOf(c, e)
  <2>1. \A i \in SessionOf(c, e) : i <= n
    BY <1>0, <1>5
  <2>2. \A i \in SessionOf(d, e) : i \in SessionOf(c, e) \/ i > n
    BY <1>0, <1>5
  <2>3. n \in Nat /\ SessionOf(c, e) \subseteq SessionOf(d, e)
    BY <1>0, <1>5
  <2> QED
    BY <1>1, <1>5, <2>1, <2>2, <2>3, FirstStays
<1>7. /\ SessionStart + OpeningBars \in Int /\ n + 1 \in Nat /\ Clock(n + 1) \in Int
  <2>1. n + 1 \in Nat /\ SessionStart + OpeningBars \in Int
    BY <1>0, PeriodsAreCounts
  <2>2. \A i \in Nat : (i - 1) % DayBars \in Int
    BY PeriodsAreCounts
  <2>3. Clock(n + 1) \in Int
    BY <2>1, <2>2 DEF Clock
  <2> QED
    BY <2>1, <2>3
<1>8. WindowOf(d, e) = WindowOf(c, e)
  <2>1. \A i : i \in SessionOf(d, e) /\ Clock(i) < SessionStart + OpeningBars
               <=> i \in SessionOf(c, e) /\ Clock(i) < SessionStart + OpeningBars
    BY <1>4, <1>5, <1>7
  <2> QED
    BY <1>6, <2>1 DEF WindowOf
<1>9. \A i \in WindowOf(c, e) : d[i] = c[i]
  BY <1>0, <1>5, <1>6 DEF WindowOf
<1>10. OpeningOf(d, e) = OpeningOf(c, e)
  BY <1>6, <1>8, <1>9 DEF OpeningOf
<1>11. e \in 0 .. Period(Len(d), DayBars) /\ SessionOf(d, e) # {}
  BY <1>0, <1>1, <1>3, <1>5
<1>12. r \in OpeningRanges(d)
  BY <1>1, <1>10, <1>11, OpeningsAre
<1> QED
  BY <1>12 DEF d

-----------------------------------------------------------------------------
(* The analysis of a series, and of the series with a bar more.            *)

LevelsOf(c) == Levels(c, DayBars) \cup Levels(c, WeekBars)

\* What analyze returns, part by part (SMCEngine.analyze).
LEMMA AnalyzeIs ==
  ASSUME NEW c
  PROVE  /\ Analyze(c).swings = Swings(c)
         /\ Analyze(c).labels = [s \in Swings(c) |-> Label(Swings(c), s)]
         /\ Analyze(c).events = StructureEvents(c, Swings(c))
         /\ Analyze(c).shifts = Shifts(StructureEvents(c, Swings(c)))
         /\ Analyze(c).gaps = Tracked(c, Gaps(c))
         /\ Analyze(c).blocks = Tracked(c, Blocks(c, StructureEvents(c, Swings(c))))
         /\ Analyze(c).levels = [p \in LevelsOf(c) |-> Sweep(c, p)]
         /\ Analyze(c).openings = OpeningRanges(c)
  BY DEF Analyze, LevelsOf

\* The invariant: the context is the analysis of the bars there are.
Analysed ==
  /\ candles \in Seq(Shapes) /\ candles # <<>>
  /\ context = Analyze(candles)

\* The context is of the bars there are, after every bar.
LEMMA AlwaysAnalysed == Spec => []Analysed
<1>1. Init => Analysed
  <2> SUFFICES ASSUME Init PROVE Analysed
    OBVIOUS
  <2>1. PICK b \in Shapes : candles = <<b>>
    BY DEF Init
  <2>2. <<b>> \in Seq(Shapes) /\ <<b>> # <<>>
    OBVIOUS
  <2> QED
    BY <2>1, <2>2 DEF Init, Analysed
<1>2. Analysed /\ [Next]_vars => Analysed'
  <2> SUFFICES ASSUME Analysed, [Next]_vars PROVE Analysed'
    OBVIOUS
  <2>1. CASE Next
    <3>1. PICK b \in Shapes : candles' = Append(candles, b) /\ context' = Analyze(candles')
      BY <2>1 DEF Next, Bar
    <3>2. candles' \in Seq(Shapes) /\ Len(candles') = Len(candles) + 1 /\ Len(candles) \in Nat
      BY <3>1, BarsStay DEF Analysed
    <3>3. candles' # <<>>
      BY <3>2
    <3> QED
      BY <3>1, <3>2, <3>3 DEF Analysed
  <2>2. CASE UNCHANGED vars
    BY <2>2 DEF Analysed, vars
  <2> QED
    BY <2>1, <2>2
<1> QED
  BY <1>1, <1>2, PTL DEF Spec

\* Zones of a series, told apart by how they are found.
LEMMA ZonesGrow ==
  ASSUME NEW c \in Seq(Shapes), NEW b \in Shapes,
         NEW S, \A z \in S : z \in Zones /\ z.from \in 1 .. Len(c),
         NEW T, S \subseteq T
  PROVE  /\ DOMAIN Tracked(c, S) = S /\ DOMAIN Tracked(Append(c, b), T) = T
         /\ \A z \in S :
              /\ Tracked(c, S)[z].depth <= Tracked(Append(c, b), T)[z].depth
              /\ Tracked(c, S)[z].mitigated => Tracked(Append(c, b), T)[z] = Tracked(c, S)[z]
<1>1. DOMAIN Tracked(c, S) = S /\ DOMAIN Tracked(Append(c, b), T) = T
  BY DEF Tracked
<1>2. ASSUME NEW z \in S
      PROVE  /\ Tracked(c, S)[z].depth <= Tracked(Append(c, b), T)[z].depth
             /\ Tracked(c, S)[z].mitigated => Tracked(Append(c, b), T)[z] = Tracked(c, S)[z]
  <2>1. Tracked(c, S)[z] = Fill(c, z) /\ Tracked(Append(c, b), T)[z] = Fill(Append(c, b), z)
    BY DEF Tracked
  <2>2. z \in Zones /\ z.from \in 1 .. Len(c)
    OBVIOUS
  <2> QED
    BY ONLY <2>1, <2>2, FillGrows, c \in Seq(Shapes), b \in Shapes
<1> QED
  BY <1>1, <1>2

BlocksOf(c) == Blocks(c, StructureEvents(c, Swings(c)))

\* What holds of every order block of a series.
LEMMA BlocksAreZones ==
  ASSUME NEW c \in Seq(Shapes), NEW z \in BlocksOf(c)
  PROVE  /\ z \in Zones /\ z.from \in 1 .. Len(c) /\ z.bottom < z.top
         /\ z.origin \in 1 .. Len(c)
         /\ z.up = (c[z.origin].close < c[z.origin].open)
<1>1. PICK e \in Range(StructureEvents(c, Swings(c))) : Opposed(c, e) # {} /\ z = BlockOf(c, e)
  BY BlocksAre DEF BlocksOf
<1>2. e \in Break /\ e.index \in 1 .. Len(c)
  BY EventsAreOfBars
<1> QED
  BY <1>1, <1>2, BlockIs

\* One bar more, over all that analyze returned.
LEMMA BarRetractsNothing ==
  ASSUME Analysed, Bar
  PROVE  /\ SwingsStand /\ LabelsStand /\ EventsStand
         /\ ZonesStand(context.gaps, context'.gaps)
         /\ ZonesStand(context.blocks, context'.blocks)
         /\ LevelsStand /\ OpeningsStand
<1>1. PICK b \in Shapes : candles' = Append(candles, b) /\ context' = Analyze(candles')
  BY DEF Bar
<1> DEFINE c == candles
           d == Append(candles, b)
           ev == StructureEvents(c, Swings(c))
           fv == StructureEvents(d, Swings(d))
<1>0. /\ c \in Seq(Shapes) /\ c # <<>> /\ Len(c) \in Nat /\ d \in Seq(Shapes) /\ Len(d) = Len(c) + 1
      /\ Now = Len(c) /\ Now' = Len(c) + 1
  BY <1>1, BarsStay DEF Analysed, Now
<1>2. /\ context.swings = Swings(c)
      /\ context.labels = [s \in Swings(c) |-> Label(Swings(c), s)]
      /\ context.events = ev /\ context.shifts = Shifts(ev)
      /\ context.gaps = Tracked(c, Gaps(c)) /\ context.blocks = Tracked(c, BlocksOf(c))
      /\ context.levels = [p \in LevelsOf(c) |-> Sweep(c, p)]
      /\ context.openings = OpeningRanges(c)
  BY AnalyzeIs DEF Analysed, BlocksOf
<1>3. /\ context'.swings = Swings(d)
      /\ context'.labels = [s \in Swings(d) |-> Label(Swings(d), s)]
      /\ context'.events = fv /\ context'.shifts = Shifts(fv)
      /\ context'.gaps = Tracked(d, Gaps(d)) /\ context'.blocks = Tracked(d, BlocksOf(d))
      /\ context'.levels = [p \in LevelsOf(d) |-> Sweep(d, p)]
      /\ context'.openings = OpeningRanges(d)
  BY <1>1, AnalyzeIs DEF BlocksOf
<1>4. /\ Swings(c) \subseteq Swings(d)
      /\ \A s \in Swings(d) \ Swings(c) : Confirmed(s) = Len(c) + 1
  BY <1>0, SwingsGrow
<1>5. SwingsStand
  BY <1>0, <1>2, <1>3, <1>4 DEF SwingsStand
<1>6. LabelsStand
  <2>1. \A s \in Swings(c) : Label(Swings(d), s) = Label(Swings(c), s)
    BY <1>0, LabelsStay
  <2> HIDE DEF c, d
  <2> QED
    BY <1>2, <1>3, <1>4, <2>1 DEF LabelsStand
<1>7. /\ ev \in Seq(Break) /\ fv \in Seq(Break) /\ Continues(ev, fv)
      /\ \A k \in Len(ev) + 1 .. Len(fv) : fv[k].index = Len(c) + 1
  BY <1>0, EventsGrow
<1>8. /\ Shifts(ev) \in Seq(Break) /\ Shifts(fv) \in Seq(Break) /\ Continues(Shifts(ev), Shifts(fv))
  <2> HIDE DEF ev, fv
  <2> QED
    BY <1>7, ShiftsGrow
<1>9. EventsStand
  <2> HIDE DEF ev, fv
  <2>1. IsPrefix(ev, fv) /\ IsPrefix(Shifts(ev), Shifts(fv))
    BY <1>7, <1>8, ContinuesIsPrefix
  <2>2. ASSUME NEW e \in Range(fv) \ Range(ev) PROVE e.index = Len(c) + 1
    <3>1. PICK k \in 1 .. Len(fv) : e = fv[k]
      BY <1>7 DEF Range
    <3>2. k \notin 1 .. Len(ev)
      BY <1>7, <2>2, <3>1 DEF Continues, Range
    <3>3. k \in Len(ev) + 1 .. Len(fv)
      BY <1>7, <3>1, <3>2
    <3> QED
      BY <1>7, <3>1, <3>3
  <2> QED
    BY <1>0, <1>2, <1>3, <2>1, <2>2 DEF EventsStand
<1>10. ZonesStand(context.gaps, context'.gaps)
  <2>1. \A z \in Gaps(c) : z \in Zones /\ z.from \in 1 .. Len(c)
    BY <1>0, GapIs
  <2>2. Gaps(c) \subseteq Gaps(d) /\ \A z \in Gaps(d) \ Gaps(c) : z.from = Len(c) + 1
    BY <1>0, GapsGrow
  <2>3. /\ DOMAIN context.gaps = Gaps(c) /\ DOMAIN context'.gaps = Gaps(d)
        /\ \A z \in Gaps(c) : /\ context.gaps[z].depth <= context'.gaps[z].depth
                              /\ context.gaps[z].mitigated => context'.gaps[z] = context.gaps[z]
    BY <1>0, <1>2, <1>3, <2>1, <2>2, ZonesGrow
  <2> HIDE DEF c, d
  <2> QED
    BY <1>0, <2>2, <2>3 DEF ZonesStand
<1>11. ZonesStand(context.blocks, context'.blocks)
  <2>1. \A z \in BlocksOf(c) : z \in Zones /\ z.from \in 1 .. Len(c)
    BY <1>0, BlocksAreZones
  <2>2. BlocksOf(c) \subseteq BlocksOf(d) /\ \A z \in BlocksOf(d) \ BlocksOf(c) : z.from = Len(c) + 1
    BY <1>0, BlocksGrow DEF BlocksOf
  <2>3. /\ DOMAIN context.blocks = BlocksOf(c) /\ DOMAIN context'.blocks = BlocksOf(d)
        /\ \A z \in BlocksOf(c) : /\ context.blocks[z].depth <= context'.blocks[z].depth
                                  /\ context.blocks[z].mitigated => context'.blocks[z] = context.blocks[z]
    BY <1>0, <1>2, <1>3, <2>1, <2>2, ZonesGrow
  <2> HIDE DEF c, d
  <2> QED
    BY <1>0, <2>2, <2>3 DEF ZonesStand
<1>12. LevelsStand
  <2>1. LevelsOf(c) \subseteq LevelsOf(d) /\ \A p \in LevelsOf(c) : p.formed \in 2 .. Len(c) /\ p.members = {}
    BY <1>0, LevelsGrow DEF LevelsOf
  <2>2. \A p \in LevelsOf(c) : Sweep(c, p).at # 0 => Sweep(d, p) = Sweep(c, p)
    BY <1>0, <2>1, SweepStays
  <2> HIDE DEF c, d
  <2> QED
    BY <1>2, <1>3, <2>1, <2>2 DEF LevelsStand
<1>13. OpeningsStand
  <2>1. \A r \in OpeningRanges(c) :
          Clock(Len(c)) + 1 >= SessionStart + OpeningBars \/ Period(Len(c), DayBars) # r.day
            => r \in OpeningRanges(d)
    BY <1>0, OpeningsStay
  <2> HIDE DEF c, d
  <2> QED
    BY <1>0, <1>2, <1>3, <2>1 DEF OpeningsStand
<1> QED
  BY <1>5, <1>6, <1>9, <1>10, <1>11, <1>12, <1>13

\* No look-ahead, for every series: swings, their labels, breaks, shifts, gaps,
\* order blocks, levels, sweeps and opening ranges stay as they were reported,
\* and what is new is dated by the bar that made it known (SMCEngine.analyze
\* over a growing series).
THEOREM NothingIsRetracted == Spec => NothingRetracted
<1>1. Analysed /\ [Next]_vars =>
        [ /\ SwingsStand /\ LabelsStand /\ EventsStand
          /\ ZonesStand(context.gaps, context'.gaps)
          /\ ZonesStand(context.blocks, context'.blocks)
          /\ LevelsStand /\ OpeningsStand ]_vars
  BY BarRetractsNothing DEF Next
<1> QED
  BY <1>1, AlwaysAnalysed, PTL DEF Spec, NothingRetracted

\* Zones of either kind are as full as price made them.
LEMMA ZonesAreExact ==
  ASSUME candles \in Seq(Shapes), NEW S,
         \A z \in S : z \in Zones /\ z.from \in 1 .. Len(candles) /\ z.bottom < z.top
  PROVE  ZonesExact(Tracked(candles, S))
<1> DEFINE t == Tracked(candles, S)
<1>1. DOMAIN t = S /\ \A z \in S : t[z] = Fill(candles, z)
  BY DEF Tracked
<1> HIDE DEF t
<1>2. ASSUME NEW z \in S
      PROVE  LET after == z.from + 1 .. Now
                 in == {i \in after : Overlaps(candles[i], z)}
                 through == {i \in after : TradedThrough(candles[i], z)}
             IN /\ t[z].mitigated <=> through # {}
                /\ t[z].mitigated => t[z].at = First(through)
                /\ in # {} => t[z].depth = Nearest({Depth(candles[i], z) : i \in in})
  BY <1>1, FillIsExact DEF Now
<1>3. ZonesExact(t)
  BY <1>1, <1>2 DEF ZonesExact
<1> QED
  BY <1>3 DEF t

\* Breaks turn when they are a CHoCH, and shifts confirm the turns.
LEMMA EventsAreExact ==
  ASSUME Analysed
  PROVE  EventsExact
<1> DEFINE ev == StructureEvents(candles, Swings(candles))
           confirms == {k \in DOMAIN context.events : k > 1 /\ ~Turns(k) /\ Turns(k - 1)}
<1>1. context.events = ev /\ context.shifts = Shifts(ev) /\ candles \in Seq(Shapes)
  BY AnalyzeIs DEF Analysed
<1>2. ev \in Seq(Break) /\ KindsExact(ev)
  BY <1>1, EventsGrow, KindsAreExact DEF Analysed
<1> HIDE DEF ev
<1>3. DOMAIN ev = 1 .. Len(ev) /\ \A k : Turns(k) <=> TurnOf(ev, k)
  BY <1>1, <1>2 DEF Turns, TurnOf
<1>4. confirms = ConfirmsOf(ev, Len(ev))
  BY <1>1, <1>3 DEF ConfirmsOf
<1>5. /\ Len(Shifts(ev)) = Cardinality(ConfirmsOf(ev, Len(ev)))
      /\ \A j \in ConfirmsOf(ev, Len(ev)) :
           Shifts(ev)[Cardinality({i \in ConfirmsOf(ev, Len(ev)) : i <= j})] = ev[j]
  BY <1>2, ShiftsAreExact
<1>6. \A k \in DOMAIN ev : ev[k].kind = "CHOCH" <=> Turns(k)
  BY <1>2, <1>3 DEF KindsExact
<1> HIDE DEF confirms
<1>7. /\ Len(context.shifts) = Cardinality(confirms)
      /\ \A k \in confirms :
           context.shifts[Cardinality({j \in confirms : j <= k})] = context.events[k]
  BY <1>1, <1>4, <1>5
<1> QED
  BY <1>1, <1>6, <1>7 DEF EventsExact, confirms

\* The two together, for any series that was analysed.
LEMMA AnalysedIsExact == Analysed => AnalysisExact
<1> SUFFICES ASSUME Analysed PROVE AnalysisExact
  OBVIOUS
<1>1. /\ context.gaps = Tracked(candles, Gaps(candles))
      /\ context.blocks = Tracked(candles, BlocksOf(candles))
      /\ candles \in Seq(Shapes)
  BY AnalyzeIs DEF Analysed, BlocksOf
<1>2. ZonesExact(context.gaps)
  BY <1>1, GapIs, ZonesAreExact
<1>3. ZonesExact(context.blocks)
  BY <1>1, BlocksAreZones, ZonesAreExact
<1> QED
  BY <1>2, <1>3, EventsAreExact DEF AnalysisExact

\* The scans that stop early and the trend kept along the way give what the
\* whole series says, however long it is (update_mitigation,
\* detect_structure_events, promote_confirmed_shifts).
THEOREM AnalysisIsExact == Spec => []AnalysisExact
  BY AlwaysAnalysed, AnalysedIsExact, PTL

-----------------------------------------------------------------------------
(* Scanner: what it finds in a series.                                     *)

\* Detections, as a function of the bars.
DetectionsOf(c) ==
  {[type |-> e.kind, at |-> e.index, up |-> e.direction = "up", from |-> e.index] :
     e \in Range(StructureEvents(c, Swings(c)))}
  \cup {[type |-> "fair_value_gap", at |-> z.origin, up |-> z.up, from |-> z.from] : z \in Gaps(c)}
  \cup {[type |-> "order_block", at |-> z.origin, up |-> z.up, from |-> z.from] : z \in BlocksOf(c)}

\* The detections follow from the bars alone.
LEMMA DetectionsAre == Analysed => Detections = DetectionsOf(candles)
<1> SUFFICES ASSUME Analysed PROVE Detections = DetectionsOf(candles)
  OBVIOUS
<1>1. /\ context.events = StructureEvents(candles, Swings(candles))
      /\ context.gaps = Tracked(candles, Gaps(candles))
      /\ context.blocks = Tracked(candles, BlocksOf(candles))
  BY AnalyzeIs DEF Analysed, BlocksOf
<1>2. \A S : DOMAIN Tracked(candles, S) = S
  BY DEF Tracked
<1>3. DOMAIN context.gaps = Gaps(candles) /\ DOMAIN context.blocks = BlocksOf(candles)
  BY <1>1, <1>2
<1> QED
  BY <1>1, <1>3 DEF Detections, DetectionsOf

\* All that can be found in n bars.
Kinds == {"BOS", "CHOCH", "fair_value_gap", "order_block"}
Found(n) == [type : Kinds, at : 1 .. n, up : BOOLEAN, from : 1 .. n]

\* What a row is of, its bar tells: when it was known, or which way it goes.
LEMMA DetectionIs ==
  ASSUME NEW c \in Seq(Shapes), NEW d \in DetectionsOf(c)
  PROVE  /\ d \in Found(Len(c))
         /\ d.type # "order_block" => d.at = d.from
         /\ d.type = "order_block" => d.up = (c[d.at].close < c[d.at].open)
<1>1. CASE \E e \in Range(StructureEvents(c, Swings(c))) :
             d = [type |-> e.kind, at |-> e.index, up |-> e.direction = "up", from |-> e.index]
  <2>1. PICK e \in Range(StructureEvents(c, Swings(c))) :
          d = [type |-> e.kind, at |-> e.index, up |-> e.direction = "up", from |-> e.index]
    BY <1>1
  <2>2. e.kind \in {"BOS", "CHOCH"} /\ e.index \in 1 .. Len(c)
    BY EventsAreOfBars DEF Break
  <2> QED
    BY <2>1, <2>2 DEF Found, Kinds
<1>2. CASE \E z \in Gaps(c) : d = [type |-> "fair_value_gap", at |-> z.origin, up |-> z.up, from |-> z.from]
  <2>1. PICK z \in Gaps(c) : d = [type |-> "fair_value_gap", at |-> z.origin, up |-> z.up, from |-> z.from]
    BY <1>2
  <2>2. z.from \in 1 .. Len(c) /\ z.up \in BOOLEAN
    BY GapIs DEF Zones
  <2>3. z.origin = z.from
    BY DEF Gaps
  <2> QED
    BY <2>1, <2>2, <2>3 DEF Found, Kinds
<1>3. CASE \E z \in BlocksOf(c) : d = [type |-> "order_block", at |-> z.origin, up |-> z.up, from |-> z.from]
  <2>1. PICK z \in BlocksOf(c) : d = [type |-> "order_block", at |-> z.origin, up |-> z.up, from |-> z.from]
    BY <1>3
  <2>2. /\ z.from \in 1 .. Len(c) /\ z.up \in BOOLEAN /\ z.origin \in 1 .. Len(c)
        /\ z.up = (c[z.origin].close < c[z.origin].open)
    BY BlocksAreZones DEF Zones
  <2> QED
    BY <2>1, <2>2 DEF Found, Kinds
<1> QED
  BY <1>1, <1>2, <1>3 DEF DetectionsOf

\* A bar more adds detections known with it, and takes none away.
LEMMA DetectionsGrow ==
  ASSUME NEW c \in Seq(Shapes), NEW b \in Shapes
  PROVE  /\ DetectionsOf(c) \subseteq DetectionsOf(Append(c, b))
         /\ \A d \in DetectionsOf(Append(c, b)) \ DetectionsOf(c) : d.from = Len(c) + 1
<1> DEFINE x == Append(c, b)
           ev == StructureEvents(c, Swings(c))
           fv == StructureEvents(x, Swings(x))
<1>1. Range(ev) \subseteq Range(fv) /\ \A e \in Range(fv) \ Range(ev) : e.index = Len(c) + 1
  <2>1. /\ ev \in Seq(Break) /\ fv \in Seq(Break) /\ Continues(ev, fv)
        /\ \A k \in Len(ev) + 1 .. Len(fv) : fv[k].index = Len(c) + 1
    BY EventsGrow
  <2> HIDE DEF ev, fv
  <2>2. Range(ev) \subseteq Range(fv)
    BY <2>1 DEF Continues, Range
  <2>3. ASSUME NEW e \in Range(fv) \ Range(ev) PROVE e.index = Len(c) + 1
    <3>1. PICK k \in 1 .. Len(fv) : e = fv[k]
      BY <2>1 DEF Range
    <3>2. k \notin 1 .. Len(ev)
      BY <2>1, <2>3, <3>1 DEF Continues, Range
    <3>3. k \in Len(ev) + 1 .. Len(fv)
      BY <2>1, <3>1, <3>2
    <3> QED
      BY <2>1, <3>1, <3>3
  <2> QED
    BY <2>2, <2>3
<1>2. Gaps(c) \subseteq Gaps(x) /\ \A z \in Gaps(x) \ Gaps(c) : z.from = Len(c) + 1
  BY GapsGrow
<1>3. BlocksOf(c) \subseteq BlocksOf(x) /\ \A z \in BlocksOf(x) \ BlocksOf(c) : z.from = Len(c) + 1
  BY BlocksGrow DEF BlocksOf
<1> HIDE DEF x
<1>4. DetectionsOf(c) \subseteq DetectionsOf(x)
  BY <1>1, <1>2, <1>3 DEF DetectionsOf
<1>5. \A d \in DetectionsOf(x) \ DetectionsOf(c) : d.from = Len(c) + 1
  BY <1>1, <1>2, <1>3 DEF DetectionsOf
<1> QED
  BY <1>4, <1>5 DEF x

\* Of a series there are finitely many detections.
LEMMA FoundIsFinite ==
  ASSUME NEW n \in Nat
  PROVE  IsFiniteSet(Found(n))
<1> DEFINE S == (Kinds \X (1 .. n)) \X (BOOLEAN \X (1 .. n))
           f == [x \in S |-> [type |-> x[1][1], at |-> x[1][2], up |-> x[2][1], from |-> x[2][2]]]
<1>1. IsFiniteSet(Kinds) /\ IsFiniteSet(BOOLEAN) /\ IsFiniteSet(1 .. n)
  <2>1. \A x : IsFiniteSet({x})
    BY FS_Singleton
  <2>2. \A x, y : IsFiniteSet({x} \cup {y})
    BY <2>1, FS_Union
  <2>3. IsFiniteSet(({"BOS"} \cup {"CHOCH"}) \cup ({"fair_value_gap"} \cup {"order_block"}))
    BY ONLY <2>2, FS_Union
  <2>4. /\ Kinds = ({"BOS"} \cup {"CHOCH"}) \cup ({"fair_value_gap"} \cup {"order_block"})
        /\ BOOLEAN = {TRUE} \cup {FALSE}
    BY DEF Kinds
  <2>5. IsFiniteSet(BOOLEAN)
    BY <2>2, <2>4
  <2> QED
    BY <2>3, <2>4, <2>5, FS_Interval
<1>2. IsFiniteSet(Kinds \X (1 .. n)) /\ IsFiniteSet(BOOLEAN \X (1 .. n))
  BY <1>1, FS_Product
<1>3. IsFiniteSet(S)
  BY <1>2, FS_Product
<1>4. f \in [S -> Found(n)]
  BY DEF Found
<1>5. \A d \in Found(n) : \E x \in S : f[x] = d
  <2> SUFFICES ASSUME NEW d \in Found(n) PROVE \E x \in S : f[x] = d
    OBVIOUS
  <2> DEFINE x == <<<<d.type, d.at>>, <<d.up, d.from>>>>
  <2>1. x \in S
    BY DEF Found
  <2>2. f[x] = d
    BY <2>1 DEF Found
  <2> QED
    BY <2>1, <2>2
<1> HIDE DEF S, f
<1>6. f \in Surjection(S, Found(n))
  BY <1>4, <1>5 DEF Surjection
<1> QED
  BY <1>3, <1>6, FS_Surjection

-----------------------------------------------------------------------------
(* Scanner: the rows of setups.                                            *)

\* The rows of what was known by a bar, and how many there should be of each.
RowsUpTo(c, n) == {RowOf(d) : d \in {e \in DetectionsOf(c) : e.from <= n}}
Shown(c, row) == {d \in DetectionsOf(c) : RowOf(d) = row}

\* So every row has a count.
LEMMA ShownIsFinite ==
  ASSUME NEW c \in Seq(Shapes), NEW row
  PROVE  IsFiniteSet(Shown(c, row)) /\ Cardinality(Shown(c, row)) \in Nat
<1>1. Shown(c, row) \subseteq Found(Len(c)) /\ Len(c) \in Nat
  BY DetectionIs DEF Shown
<1> QED
  BY <1>1, FoundIsFinite, FS_Subset, FS_CardinalityType

\* Candidates, as a function of the bars.
CandidatesExact ==
  /\ DOMAIN Candidates = RowsUpTo(candles, Len(candles))
  /\ Candidates = [row \in DOMAIN Candidates |-> Cardinality(Shown(candles, row))]

\* The candidates of a pass are the rows of all that is known.
LEMMA CandidatesAre == Analysed => CandidatesExact
<1> SUFFICES ASSUME Analysed PROVE CandidatesExact
  OBVIOUS
<1>1. Detections = DetectionsOf(candles) /\ candles \in Seq(Shapes)
  BY DetectionsAre DEF Analysed
<1>2. \A d \in DetectionsOf(candles) : d.from <= Len(candles)
  <2> SUFFICES ASSUME NEW d \in DetectionsOf(candles) PROVE d.from <= Len(candles)
    OBVIOUS
  <2>1. d \in Found(Len(candles))
    BY <1>1, DetectionIs
  <2> QED
    BY <1>1, <2>1 DEF Found
<1>3. RowsUpTo(candles, Len(candles)) = {RowOf(d) : d \in DetectionsOf(candles)}
  BY <1>2 DEF RowsUpTo
<1>4. Candidates = [row \in {RowOf(d) : d \in DetectionsOf(candles)} |-> Cardinality(Shown(candles, row))]
  BY <1>1 DEF Candidates, Shown
<1> QED
  BY <1>3, <1>4 DEF CandidatesExact

\* A bar more leaves what was known by an earlier one, row by row.
LEMMA RowsGrow ==
  ASSUME NEW c \in Seq(Shapes), NEW b \in Shapes
  PROVE  /\ \A n \in 0 .. Len(c) : RowsUpTo(Append(c, b), n) = RowsUpTo(c, n)
         /\ RowsUpTo(c, Len(c)) \subseteq RowsUpTo(Append(c, b), Len(c) + 1)
         /\ \A row : Cardinality(Shown(c, row)) <= Cardinality(Shown(Append(c, b), row))
<1> DEFINE x == Append(c, b)
<1>1. /\ DetectionsOf(c) \subseteq DetectionsOf(x)
      /\ \A d \in DetectionsOf(x) \ DetectionsOf(c) : d.from = Len(c) + 1
  BY DetectionsGrow
<1>2. x \in Seq(Shapes) /\ Len(x) = Len(c) + 1 /\ Len(c) \in Nat
  BY BarsStay
<1> HIDE DEF x
<1>3. ASSUME NEW n \in 0 .. Len(c) PROVE RowsUpTo(x, n) = RowsUpTo(c, n)
  <2>1. \A d : d \in DetectionsOf(x) /\ d.from <= n <=> d \in DetectionsOf(c) /\ d.from <= n
    BY <1>1, <1>2
  <2> QED
    BY <2>1 DEF RowsUpTo
<1>4. RowsUpTo(c, Len(c)) \subseteq RowsUpTo(x, Len(c) + 1)
  <2>1. \A d \in DetectionsOf(c) : d.from <= Len(c) => d.from <= Len(c) + 1
    <3> SUFFICES ASSUME NEW d \in DetectionsOf(c) PROVE d.from <= Len(c) => d.from <= Len(c) + 1
      OBVIOUS
    <3>1. d.from \in Nat
      BY <1>2, DetectionIs DEF Found
    <3> QED
      BY <1>2, <3>1
  <2> QED
    BY <1>1, <2>1 DEF RowsUpTo
<1>5. ASSUME NEW row PROVE Cardinality(Shown(c, row)) <= Cardinality(Shown(x, row))
  <2>1. Shown(c, row) \subseteq Shown(x, row) /\ IsFiniteSet(Shown(x, row))
    BY <1>1, <1>2, ShownIsFinite DEF Shown
  <2> QED
    BY <2>1, FS_Subset
<1> QED
  BY <1>3, <1>4, <1>5 DEF x

\* What was known by a bar is known.
LEMMA RowsWithin ==
  ASSUME NEW c \in Seq(Shapes), NEW n \in 0 .. Len(c)
  PROVE  RowsUpTo(c, n) \subseteq RowsUpTo(c, Len(c))
<1>1. \A d \in DetectionsOf(c) : d.from <= n => d.from <= Len(c)
  <2> SUFFICES ASSUME NEW d \in DetectionsOf(c), d.from <= n PROVE d.from <= Len(c)
    OBVIOUS
  <2>1. d.from \in 1 .. Len(c) /\ Len(c) \in Nat
    BY DetectionIs DEF Found
  <2> QED
    BY <2>1
<1> QED
  BY <1>1 DEF RowsUpTo

\* What is journaled by its type and its moment is journaled as it is.
LEMMA RowsAgree ==
  ASSUME NEW c \in Seq(Shapes), NEW n \in 0 .. Len(c),
         NEW r \in RowsUpTo(c, n), NEW s \in RowsUpTo(c, Len(c)), r.type = s.type, r.at = s.at
  PROVE  s \in RowsUpTo(c, n)
<1>1. PICK d \in DetectionsOf(c) : d.from <= n /\ r = RowOf(d)
  BY DEF RowsUpTo
<1>2. PICK e \in DetectionsOf(c) : s = RowOf(e)
  BY DEF RowsUpTo
<1>3. d.type = e.type /\ d.at = e.at
  BY <1>1, <1>2 DEF RowOf
<1>4. CASE d.type = "order_block"
  <2>1. d.up = e.up
    BY <1>3, <1>4, DetectionIs
  <2> QED
    BY <1>1, <1>2, <1>3, <2>1 DEF RowOf
<1>5. CASE d.type # "order_block"
  <2>1. e.from = d.from
    BY <1>3, <1>5, DetectionIs
  <2> QED
    BY <1>1, <1>2, <2>1 DEF RowsUpTo
<1> QED
  BY <1>4, <1>5

\* The setups are those known by some bar, the last a pass has read or a
\* later one, and no more of each than the series shows.
Booked ==
  /\ \E n \in 0 .. Len(candles) : scanned <= n /\ DOMAIN setups = RowsUpTo(candles, n)
  /\ \A row \in DOMAIN setups : setups[row] \in Nat /\ setups[row] <= Candidates[row]

\* A pass books what is missing, once, and nothing else (_persist_new_setups).
LEMMA PassBooksAll ==
  ASSUME Analysed, Booked
  PROVE  LET rows == setups (+) NewSetups
         IN /\ DOMAIN rows = DOMAIN Candidates
            /\ \A row \in DOMAIN rows : rows[row] \in Nat /\ rows[row] <= Candidates[row]
<1> DEFINE rows == Candidates
<1>1. /\ DOMAIN rows = RowsUpTo(candles, Len(candles))
      /\ rows = [row \in DOMAIN rows |-> Cardinality(Shown(candles, row))]
  BY CandidatesAre DEF CandidatesExact
<1>2. candles \in Seq(Shapes) /\ Len(candles) \in Nat
  BY DEF Analysed
<1>3. PICK n \in 0 .. Len(candles) : DOMAIN setups = RowsUpTo(candles, n)
  BY DEF Booked
<1>4. \A row \in DOMAIN setups : setups[row] \in Nat /\ setups[row] <= rows[row]
  BY DEF Booked
<1>5. \A row \in DOMAIN rows : rows[row] \in Nat
  BY <1>1, <1>2, ShownIsFinite
<1> HIDE DEF rows
<1>6. DOMAIN setups \subseteq DOMAIN rows
  BY <1>1, <1>2, <1>3, RowsWithin
<1>7. CASE DOMAIN rows = {}
  <2>1. rows = EmptyBag
    BY <1>1, <1>7 DEF EmptyBag, SetToBag
  <2>2. NewSetups = EmptyBag /\ DOMAIN EmptyBag = {}
    BY <2>1 DEF NewSetups, rows, EmptyBag, SetToBag
  <2>3. DOMAIN setups = {}
    BY <1>6, <1>7
  <2>4. DOMAIN (setups (+) NewSetups) = {}
    BY <2>2, <2>3 DEF (+)
  <2> QED
    BY <1>7, <2>4 DEF rows
<1>8. CASE DOMAIN rows # {}
  <2> DEFINE keys == {<<row.type, row.at>> : row \in DOMAIN setups}
             missing == {row \in DOMAIN rows : <<row.type, row.at>> \notin keys}
  <2>1. Journaled(DOMAIN rows) = DOMAIN setups
    <3> DEFINE T == {row.at : row \in DOMAIN rows}
    <3>1. T \in SUBSET Nat /\ T # {}
      <4>1. \A row \in DOMAIN rows : row.at \in Nat
        BY <1>1, <1>2, DetectionIs DEF RowsUpTo, RowOf, Found
      <4> QED
        BY <1>8, <4>1
    <3> HIDE DEF T
    <3>2. First(T) \in Nat /\ \A j \in T : First(T) <= j
      BY <3>1, FirstIs
    <3>3. \A row \in DOMAIN setups : row.at >= First(T)
      BY <1>6, <3>1, <3>2 DEF T
    <3> QED
      BY <3>3 DEF Journaled, T
  <2>2. rows # EmptyBag
    BY <1>8 DEF EmptyBag, SetToBag
  <2>3. NewSetups = [row \in missing |-> rows[row]]
    BY <2>1, <2>2 DEF NewSetups, rows
  <2>4. DOMAIN setups \cup missing = DOMAIN rows
    <3>1. ASSUME NEW s \in DOMAIN rows, s \notin missing PROVE s \in DOMAIN setups
      <4>1. PICK r \in DOMAIN setups : r.type = s.type /\ r.at = s.at
        BY <3>1
      <4> QED
        BY <1>1, <1>2, <1>3, <4>1, RowsAgree
    <3> QED
      BY <1>6, <3>1
  <2>5. \A row \in missing : row \in DOMAIN rows /\ row \notin DOMAIN setups
    OBVIOUS
  <2> HIDE DEF missing
  <2> DEFINE all == setups (+) NewSetups
  <2>6. DOMAIN NewSetups = missing /\ \A row \in missing : NewSetups[row] = rows[row]
    BY <2>3
  <2>7. /\ DOMAIN all = DOMAIN rows
        /\ \A row \in DOMAIN rows :
             all[row] = (IF row \in DOMAIN setups THEN setups[row] ELSE 0)
                        + (IF row \in missing THEN rows[row] ELSE 0)
    BY <2>4, <2>6 DEF (+)
  <2> HIDE DEF all
  <2>8. ASSUME NEW row \in DOMAIN rows PROVE all[row] \in Nat /\ all[row] <= rows[row]
    <3>1. CASE row \in missing
      <4>1. all[row] = 0 + rows[row]
        BY <2>5, <2>7, <3>1
      <4> QED
        BY <1>5, <4>1
    <3>2. CASE row \notin missing
      <4>1. all[row] = setups[row] + 0 /\ row \in DOMAIN setups
        BY <2>4, <2>7, <3>2
      <4> QED
        BY <1>4, <1>5, <4>1
    <3> QED
      BY <3>1, <3>2
  <2> QED
    BY <2>7, <2>8 DEF all, rows
<1> QED
  BY <1>7, <1>8

-----------------------------------------------------------------------------
(* Scanner: the signals.                                                   *)

\* A target lies beyond the entry, away from the stop.
LEMMA TargetWins ==
  ASSUME NEW e \in Int, NEW s \in Int, NEW m \in Nat \ {0}
  PROVE  /\ s < e => e < e + (e - s) * m
         /\ e < s => e + (e - s) * m < e
<1>1. CASE s < e
  <2>1. (e - s) * m > 0 /\ (e - s) * m \in Int
    BY <1>1
  <2> QED
    BY <1>1, <2>1
<1>2. CASE e < s
  <2>1. (s - e) * m > 0 /\ (s - e) * m \in Int
    BY <1>2
  <2>2. (e - s) * m = -((s - e) * m)
    OBVIOUS
  <2> QED
    BY <1>2, <2>1, <2>2
<1> QED
  BY <1>1, <1>2

\* Entry and stop are prices, of a zone that is or of a swing that is.
LEMMA PricesAre ==
  ASSUME Analysed, NEW s, NEW direction, NEW b \in EntryAndStop(s, direction)
  PROVE  b.entry \in Int /\ b.stop \in Int
<1>1. candles \in Seq(Shapes) /\ candles # <<>> /\ Len(candles) \in Nat /\ context = Analyze(candles)
  BY DEF Analysed
<1>2. /\ context.swings = Swings(candles) /\ context.zone = ZoneOf(candles, Swings(candles))
      /\ DOMAIN context.gaps = Gaps(candles) /\ DOMAIN context.blocks = BlocksOf(candles)
  BY <1>1, AnalyzeIs DEF BlocksOf, Tracked, Analyze
<1>3. ASSUME NEW zones, zones \subseteq Zones, NEW up \in BOOLEAN, NEW r \in Retest(zones, up)
      PROVE  r.entry \in Int /\ r.stop \in Int
  <2>1. PICK z \in zones :
          r = [entry |-> (Unit \div 2) * (z.top + z.bottom),
               stop |-> IF up THEN Unit * z.bottom - BufferOf(z) ELSE Unit * z.top + BufferOf(z)]
    BY <1>3 DEF Retest
  <2>2. z.top \in Int /\ z.bottom \in Int
    BY <1>3 DEF Zones
  <2>3. (Unit \div 2) = 20 /\ Unit = 40
    BY DEF Unit
  <2> QED
    BY <2>1, <2>2, <2>3 DEF BufferOf, Size
<1>4. Live(context.gaps, direction) \subseteq Zones
  BY <1>1, <1>2, GapIs DEF Live
<1>5. Live(context.blocks, direction) \subseteq Zones
  BY <1>1, <1>2, BlocksAreZones DEF Live
<1>6. CASE s.entry = "fvg_retest"
  <2>1. b \in Retest(Live(context.gaps, direction), direction = "up")
    BY <1>6 DEF EntryAndStop
  <2> QED
    BY <1>3, <1>4, <2>1
<1>7. CASE s.entry = "order_block_retest"
  <2>1. b \in Retest(Live(context.blocks, direction), direction = "up")
    BY <1>7 DEF EntryAndStop
  <2> QED
    BY <1>3, <1>5, <2>1
<1>8. CASE s.entry # "fvg_retest" /\ s.entry # "order_block_retest"
  <2> DEFINE edges == OfType(context.swings, IF direction = "up" THEN "LOW" ELSE "HIGH")
  <2>1. /\ context.zone # None
        /\ b = [entry |-> Unit * Last(candles).close, stop |-> Unit * Latest(edges).price]
    BY <1>8 DEF EntryAndStop
  <2>2. OfType(Swings(candles), "HIGH") # {} /\ OfType(Swings(candles), "LOW") # {}
    BY <1>2, <2>1 DEF ZoneOf
  <2>3. edges # {} /\ edges \in SUBSET Swings(candles)
    BY <1>2, <2>2 DEF OfType
  <2> HIDE DEF edges
  <2>4. Latest(edges).price \in Nat
    BY <1>1, <2>3, LatestIs, SwingIs
  <2>5. Last(candles).close \in Nat
    <3>1. Len(candles) \in 1 .. Len(candles)
      BY <1>1
    <3>2. candles[Len(candles)] \in Shapes
      BY <1>1, <3>1
    <3> QED
      BY <3>2, CandleIs DEF Last
  <2> QED
    BY <2>1, <2>4, <2>5 DEF Unit
<1> QED
  BY <1>6, <1>7, <1>8

\* A signal that is written has its stop on the losing side.
LEMMA SignalsAreBracketed ==
  ASSUME Analysed, NEW k \in DOMAIN Strategies, NEW row \in Evaluate(Strategies[k])
  PROVE  Bracketed(row)
<1> DEFINE s == Strategies[k]
           direction == IF s.direction # None THEN s.direction ELSE Bias
<1>1. s.minimumRR \in Nat \ {0}
  BY StrategiesAreStored DEF IsStrategy
<1>2. PICK b \in EntryAndStop(s, direction) :
        /\ ~WrongSide(direction, b)
        /\ row = [direction |-> direction, entry |-> b.entry, stop |-> b.stop,
                  target |-> b.entry + (b.entry - b.stop) * s.minimumRR]
  BY DEF Evaluate
<1> HIDE DEF s, direction
<1>3. b.entry \in Int /\ b.stop \in Int
  BY <1>2, PricesAre
<1>4. CASE direction = "up"
  <2>1. b.stop < b.entry
    BY <1>2, <1>3, <1>4 DEF WrongSide
  <2>2. b.entry < b.entry + (b.entry - b.stop) * s.minimumRR
    BY ONLY <1>1, <1>3, <2>1, TargetWins
  <2> QED
    BY <1>2, <1>4, <2>1, <2>2 DEF Bracketed
<1>5. CASE direction # "up"
  <2>1. b.entry < b.stop
    BY <1>2, <1>3, <1>5 DEF WrongSide
  <2>2. b.entry + (b.entry - b.stop) * s.minimumRR < b.entry
    BY ONLY <1>1, <1>3, <2>1, TargetWins
  <2> QED
    BY <1>2, <1>5, <2>1, <2>2 DEF Bracketed
<1> QED
  BY <1>4, <1>5

-----------------------------------------------------------------------------
(* Scanner: bars and passes.                                               *)

\* The scanner only reads the series: whatever it does, the series and its
\* analysis behave as if it were not there (ScannerWorker.run_once), so what is
\* proved of them holds beside it.
THEOREM ScannerReadsTheSeries == ScannerSpec => Spec
<1>1. ScannerInit => Init
  BY DEF ScannerInit
<1>2. [ScannerNext]_svars => [Next]_vars
  BY DEF ScannerNext, BarArrives, Pass, Next, svars, vars
<1> QED
  BY <1>1, <1>2, PTL DEF ScannerSpec, Spec

\* What a pass that ended has said was not said of fewer bars.
Signals ==
  /\ DOMAIN signals = DOMAIN Strategies
  /\ \A k \in DOMAIN signals : \A row \in signals[k] : Bracketed(row)
  /\ scanned = Len(candles) => \A k \in DOMAIN signals : Evaluate(Strategies[k]) \subseteq signals[k]

\* The invariant of the scanner.
Journaling == scanned \in 0 .. Len(candles) /\ Booked /\ Signals

\* A bar arrives between passes: what is booked stays, and the pass is old.
LEMMA BarArrivesKeeps ==
  ASSUME Analysed, Analysed', Journaling, BarArrives
  PROVE  Journaling'
<1>1. PICK b \in Shapes : candles' = Append(candles, b)
  BY DEF BarArrives, Bar
<1>2. UNCHANGED <<setups, signals, scanned>>
  BY DEF BarArrives
<1>3. candles \in Seq(Shapes) /\ Len(candles) \in Nat /\ Len(candles') = Len(candles) + 1 /\ candles' \in Seq(Shapes)
  BY <1>1, BarsStay DEF Analysed
<1>4. scanned' \in 0 .. Len(candles') /\ scanned' # Len(candles')
  BY <1>2, <1>3 DEF Journaling
<1>5. Booked'
  <2>1. PICK n \in 0 .. Len(candles) : scanned <= n /\ DOMAIN setups = RowsUpTo(candles, n)
    BY DEF Journaling, Booked
  <2>2. /\ RowsUpTo(candles', n) = RowsUpTo(candles, n) /\ n \in 0 .. Len(candles')
        /\ RowsUpTo(candles, Len(candles)) \subseteq RowsUpTo(candles', Len(candles'))
        /\ \A row : Cardinality(Shown(candles, row)) <= Cardinality(Shown(candles', row))
    BY <1>1, <1>3, RowsGrow
  <2>3. /\ DOMAIN Candidates = RowsUpTo(candles, Len(candles))
        /\ Candidates = [row \in DOMAIN Candidates |-> Cardinality(Shown(candles, row))]
    BY CandidatesAre DEF CandidatesExact
  <2>4. CandidatesExact'
    BY CandidatesAre, PTL
  <2>5. ASSUME NEW row \in DOMAIN setups PROVE setups[row] \in Nat /\ setups[row] <= Candidates'[row]
    <3>1. setups[row] \in Nat /\ setups[row] <= Candidates[row]
      BY DEF Journaling, Booked
    <3>2. row \in DOMAIN Candidates
      BY <1>3, <2>1, <2>3, RowsWithin
    <3>3. row \in DOMAIN Candidates'
      BY <2>2, <2>3, <2>4, <3>2 DEF CandidatesExact
    <3>4. /\ Candidates[row] = Cardinality(Shown(candles, row))
          /\ Candidates'[row] = Cardinality(Shown(candles', row))
      BY <2>3, <2>4, <3>2, <3>3 DEF CandidatesExact
    <3>5. /\ Cardinality(Shown(candles, row)) \in Nat /\ Cardinality(Shown(candles', row)) \in Nat
          /\ Cardinality(Shown(candles, row)) <= Cardinality(Shown(candles', row))
      BY <1>3, <2>2, ShownIsFinite
    <3> QED
      BY <3>1, <3>4, <3>5
  <2> QED
    BY <1>2, <2>1, <2>2, <2>5 DEF Booked
<1>6. Signals'
  BY <1>2, <1>4 DEF Signals, Journaling
<1> QED
  BY <1>4, <1>5, <1>6 DEF Journaling

\* A pass, whole or cut short: all is booked, and the strategies before the
\* cut have spoken.
LEMMA PassKeeps ==
  ASSUME Analysed, Journaling, NEW n \in 0 .. Len(Strategies), Pass(n)
  PROVE  Journaling'
<1>1. /\ candles \in Seq(Shapes) /\ Len(candles) \in Nat /\ candles' = candles /\ context' = context
      /\ setups' = setups (+) NewSetups
      /\ signals' = [k \in DOMAIN signals |-> IF k <= n THEN Signalled(k) ELSE signals[k]]
      /\ scanned' = IF n = Len(Strategies) THEN Len(candles) ELSE scanned
  BY DEF Pass, Analysed, vars
<1>2. scanned' \in 0 .. Len(candles')
  BY <1>1 DEF Journaling
<1>3. Candidates' = Candidates
  BY <1>1 DEF Candidates, Detections
<1>4. Booked'
  <2>1. /\ DOMAIN setups' = DOMAIN Candidates
        /\ \A row \in DOMAIN setups' : setups'[row] \in Nat /\ setups'[row] <= Candidates[row]
    BY <1>1, PassBooksAll DEF Journaling
  <2>2. DOMAIN Candidates = RowsUpTo(candles, Len(candles))
    BY CandidatesAre DEF CandidatesExact
  <2>3. Len(candles) \in 0 .. Len(candles) /\ scanned' <= Len(candles)
    BY <1>1, <1>2
  <2> QED
    BY <1>1, <1>3, <2>1, <2>2, <2>3 DEF Booked
<1>5. Signals'
  <2>1. ASSUME NEW k \in DOMAIN Strategies PROVE Evaluate(Strategies[k])' = Evaluate(Strategies[k])
    BY <1>1 DEF Evaluate, Bias, Holds, Events, Live, Sweeps, SweepsOf, EntryAndStop
  <2>2. DOMAIN signals' = DOMAIN Strategies /\ DOMAIN signals = DOMAIN Strategies
    BY <1>1 DEF Journaling, Signals
  <2>3. ASSUME NEW k \in DOMAIN Strategies
        PROVE  /\ signals'[k] = Evaluate(Strategies[k]) \/ signals'[k] = signals[k]
               /\ k <= n => Evaluate(Strategies[k]) \subseteq signals'[k]
    BY <1>1, <2>2 DEF Signalled
  <2>4. ASSUME NEW k \in DOMAIN Strategies, NEW row \in signals'[k] PROVE Bracketed(row)
    BY <2>2, <2>3, <2>4, SignalsAreBracketed DEF Journaling, Signals
  <2>5. ASSUME scanned' = Len(candles'), NEW k \in DOMAIN Strategies
        PROVE  Evaluate(Strategies[k]) \subseteq signals'[k]
    <3>1. CASE n = Len(Strategies)
      <4>1. k <= n
        BY <3>1, StrategiesAreStored
      <4> QED
        BY <2>3, <4>1
    <3>2. CASE n # Len(Strategies)
      <4>1. Evaluate(Strategies[k]) \subseteq signals[k]
        BY <1>1, <2>2, <2>5, <3>2 DEF Journaling, Signals
      <4> QED
        BY <2>3, <4>1
    <3> QED
      BY <3>1, <3>2
  <2> QED
    BY <2>1, <2>2, <2>4, <2>5 DEF Signals
<1> QED
  BY <1>2, <1>4, <1>5 DEF Journaling

\* What the journals keep through any bars and passes.
LEMMA AlwaysJournaled == ScannerSpec => [](Analysed /\ Journaling)
<1>1. ScannerInit /\ Analysed => Journaling
  <2> SUFFICES ASSUME ScannerInit, Analysed PROVE Journaling
    OBVIOUS
  <2>1. /\ setups = EmptyBag /\ DOMAIN EmptyBag = {} /\ scanned = 0
        /\ signals = [k \in DOMAIN Strategies |-> {}]
    BY DEF ScannerInit, EmptyBag, SetToBag
  <2>2. candles \in Seq(Shapes) /\ Len(candles) \in Nat /\ Len(candles) # 0
    BY DEF Analysed
  <2>3. RowsUpTo(candles, 0) = {}
    <3> SUFFICES ASSUME NEW d \in DetectionsOf(candles), d.from <= 0 PROVE FALSE
      BY DEF RowsUpTo
    <3>1. d.from \in 1 .. Len(candles)
      BY <2>2, DetectionIs DEF Found
    <3> QED
      BY <3>1
  <2>4. Booked
    BY <2>1, <2>2, <2>3 DEF Booked
  <2>5. Signals
    BY <2>1, <2>2 DEF Signals
  <2> QED
    BY <2>1, <2>2, <2>4, <2>5 DEF Journaling
<1>2. Analysed /\ Analysed' /\ Journaling /\ [ScannerNext]_svars => Journaling'
  <2> SUFFICES ASSUME Analysed, Analysed', Journaling, [ScannerNext]_svars PROVE Journaling'
    OBVIOUS
  <2>1. CASE BarArrives
    BY <2>1, BarArrivesKeeps
  <2>2. CASE \E n \in 0 .. Len(Strategies) : Pass(n)
    BY <2>2, PassKeeps
  <2>3. CASE UNCHANGED svars
    <3>1. UNCHANGED <<candles, context, setups, signals, scanned>>
      BY <2>3 DEF svars
    <3>2. Candidates' = Candidates
      BY <3>1 DEF Candidates, Detections
    <3>3. ASSUME NEW k \in DOMAIN Strategies PROVE Evaluate(Strategies[k])' = Evaluate(Strategies[k])
      BY <3>1 DEF Evaluate, Bias, Holds, Events, Live, Sweeps, SweepsOf, EntryAndStop
    <3>4. Booked'
      BY <3>1, <3>2 DEF Journaling, Booked
    <3>5. Signals'
      BY <3>1, <3>3 DEF Journaling, Signals
    <3> QED
      BY <3>1, <3>4, <3>5 DEF Journaling
  <2> QED
    BY <2>1, <2>2, <2>3 DEF ScannerNext
<1> QED
  BY <1>1, <1>2, ScannerReadsTheSeries, AlwaysAnalysed, PTL DEF ScannerSpec

\* For any strategies, bars and passes, ended or cut short by a call that raises:
\* setups hold no repetition and nothing retracted, no signal has its stop on
\* the winning side, and a pass that ended left nothing out
\* (ScannerWorker.run_once, _persist_new_setups).
THEOREM JournalsFollow == ScannerSpec => []JournalFollows
<1>1. Analysed /\ Journaling => JournalFollows
  <2> SUFFICES ASSUME Analysed, Journaling PROVE JournalFollows
    OBVIOUS
  <2>1. /\ DOMAIN Candidates = RowsUpTo(candles, Len(candles))
        /\ candles \in Seq(Shapes) /\ Len(candles) \in Nat
    BY CandidatesAre DEF CandidatesExact, Analysed
  <2>2. PICK n \in 0 .. Len(candles) : scanned <= n /\ DOMAIN setups = RowsUpTo(candles, n)
    BY DEF Journaling, Booked
  <2>3. RowsStand(Candidates)
    <3>1. \A row \in DOMAIN setups : row \in DOMAIN Candidates
      BY <2>1, <2>2, RowsWithin
    <3> QED
      BY <3>1 DEF Journaling, Booked, RowsStand
  <2>4. scanned = Now => DOMAIN setups = DOMAIN Candidates
    BY <2>1, <2>2 DEF Now
  <2> QED
    BY <2>3, <2>4 DEF JournalFollows, Journaling, Signals, Now
<1> QED
  BY <1>1, AlwaysJournaled, PTL
=============================================================================
