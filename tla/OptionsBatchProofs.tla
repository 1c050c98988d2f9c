-------------------------- MODULE OptionsBatchProofs --------------------------
(***************************************************************************)
(* What a call that places and unwinds the legs of a strategy may rely on, *)
(* for any strategies, any positions before them and any number of faults. *)
(*                                                                         *)
(* The invariant says of every call that was not cut short: the tables are *)
(* behind by what is being saved and no more (MirrorInv); a leg is sent by *)
(* the first call or by none, and finds its contract untouched (StartInv,  *)
(* CurInv); what was sent and answered is held to the lot (EffectInv), and *)
(* known unless an answer is missing (BrokerInv); and what is still to be  *)
(* unwound is exactly what its leg newly opened (OpenedInv).               *)
(***************************************************************************)
EXTENDS OptionsBatch, TLAPS

USE BatchesAssumption, BoundsAssumption

LegKey(s)    == <<"leg", s>>
UnwindKey(s) == <<"unwind", s>>

Final == {"MONITORING", "PARTIALLY_FILLED", "ACKNOWLEDGED", "REJECTED", "FAILED"}
Statuses == Final \cup {"none", "SUBMITTED"}
Jobs  == [kind : {"leg", "unwind"}, sym : Symbols, side : Sides, qty : Nat \ {0}]

TypeInv ==
  /\ batch \in Batches /\ start \in [Symbols -> Int]
  /\ approved \in [DOMAIN batch -> Nat] /\ underHalt \in BOOLEAN
  /\ pc \in {"idle", "next", "wait", "order", "position", "halt"}
  /\ phase \in {"legs", "unwind"}
  /\ work \in Seq(Jobs) /\ opened \in Seq(Jobs)
  /\ cur \in [size : Nat, before : Int]
  /\ reducing \in BOOLEAN /\ halted \in BOOLEAN
  /\ results \in Seq(Statuses)
  /\ orders \in [Keys -> Statuses]
  /\ rows \in [Keys -> Statuses]
  /\ book \in [Symbols -> Int] /\ saved \in [Symbols -> Int] /\ real \in [Symbols -> Int]
  /\ sent \in [Keys -> Nat]
  /\ answer \in {"none", "refused", "failed", "intact", "nothing", "partly"}

\* The jobs of a call, and the halt it may only reduce under.
WorkInv ==
  /\ \A j \in 1 .. Len(opened) : opened[j].kind = "unwind"
  /\ \A j \in 1 .. Len(work) : work[j].kind = IF phase = "legs" THEN "leg" ELSE "unwind"
  /\ pc \in {"wait", "order", "position"} => work # <<>>
  /\ pc = "halt" => phase = "unwind"
  /\ pc # "idle" /\ underHalt => reducing

\* No call was cut short.
Sane == lapses \cap {"raised", "interrupted"} = {}

\* The tables are behind by what is being saved.
MirrorInv ==
  /\ \A k \in Keys : orders[k] = rows[k] \/ (pc \in {"wait", "order"} /\ k = Key(Job))
  /\ \A s \in Symbols : book[s] = saved[s] \/ (pc \in {"order", "position"} /\ s = Job.sym)

\* An order is sent once, and is settled before the next one.
OrdersInv ==
  /\ \A k \in Keys : sent[k] <= 1 /\ (orders[k] = "none" => sent[k] = 0)
  /\ \A k \in Keys : orders[k] = "SUBMITTED" <=> pc = "wait" /\ k = Key(Job)
  /\ pc \in {"order", "position"} => orders[Key(Job)] \in Final
  /\ \A k \in Keys : /\ orders[k] = "PARTIALLY_FILLED" => "partial" \in lapses
                     /\ orders[k] = "ACKNOWLEDGED" => "resting" \in lapses
  /\ \A s \in Symbols :
       orders[UnwindKey(s)] # "none" => orders[LegKey(s)] \in {"MONITORING", "PARTIALLY_FILLED"}

\* The legs done and the legs to do are the batch.
LegsInv ==
  pc # "idle" /\ phase = "legs" =>
    /\ Len(results) + Len(work) = Len(batch)
    /\ \A j \in 1 .. Len(work) :
         LET leg == batch[Len(results) + j] IN
         work[j].sym = leg.sym /\ work[j].side = leg.side /\ work[j].qty = leg.qty
    /\ \A i \in 1 .. Len(results) : results[i] = orders[LegKey(batch[i].sym)] /\ results[i] \in Final

\* An unwind means that a leg is not established, and never will be.
BrokenInv ==
  phase = "unwind" \/ (\E s \in Symbols : orders[UnwindKey(s)] # "none") =>
    \E i \in DOMAIN batch : orders[LegKey(batch[i].sym)] \in Final \ {"MONITORING"}

\* How much of a leg is approved where nothing of the batch is known yet.
ApprovedSize(leg) == IF Reduces(batch, start) THEN Least(leg.qty, Abs(start[leg.sym])) ELSE leg.qty

\* A leg is sent by the first call or not at all, and finds its contract as
\* it was approved for.
StartInv ==
  /\ \A s \in Symbols : orders[LegKey(s)] = "none" => book[s] = start[s] /\ real[s] = start[s]
  /\ \A s \in Symbols : orders[LegKey(s)] # "none" => \E i \in DOMAIN batch : batch[i].sym = s
  /\ (\E i \in DOMAIN batch : orders[LegKey(batch[i].sym)] = "none") =>
       IF pc = "idle" THEN \A k \in Keys : orders[k] = "none"
       ELSE phase = "legs" /\ reducing = Reduces(batch, start) /\ approved = Sizes(batch, start)

\* The order being sent.
CurInv ==
  /\ pc = "wait" /\ phase = "legs" =>
       /\ cur.before = start[Job.sym] /\ book[Job.sym] = start[Job.sym] /\ real[Job.sym] = start[Job.sym]
       /\ cur.size = ApprovedSize(Job) /\ reducing = Reduces(batch, start)
       /\ approved = Sizes(batch, start)
  /\ pc = "wait" /\ phase = "unwind" => cur.size = Least(Job.qty, Abs(book[Job.sym]))
  /\ pc \in {"order", "position"} /\ phase = "legs" /\ cur.size > 0 =>
       /\ cur.before = start[Job.sym] /\ orders[UnwindKey(Job.sym)] = "none"
       /\ (book[Job.sym] - start[Job.sym]) * Job.side >= 0

\* What executed, as long as no unwind touched it.
EffectInv ==
  \A i \in DOMAIN batch :
    LET s == batch[i].sym IN
    /\ orders[LegKey(s)] = "REJECTED" => real[s] = start[s]
    /\ EachContractOnce /\ orders[LegKey(s)] = "MONITORING" /\ orders[UnwindKey(s)] = "none"
         => real[s] = start[s] + batch[i].side * approved[i]

\* The book is what the broker holds, but where an answer is missing.
BrokerInv ==
  "resting" \notin lapses =>
    \A s \in Symbols :
      real[s] = book[s] \/ orders[LegKey(s)] = "FAILED" \/ orders[UnwindKey(s)] = "FAILED"

\* What is still to be unwound is exactly what its leg newly opened.
OpenedInv ==
  pc # "idle" =>
    /\ \A j \in 1 .. Len(opened) :
         LET s == opened[j].sym IN
         orders[UnwindKey(s)] \in {"none", "SUBMITTED"} =>
           /\ opened[j].qty = NewlyOpened(start[s], book[s])
           /\ book[s] * opened[j].side < 0
           /\ orders[LegKey(s)] \in {"MONITORING", "PARTIALLY_FILLED"}
    /\ phase = "unwind" =>
         /\ \A j \in 1 .. Len(work) : \E m \in 1 .. Len(opened) : work[j] = opened[m]
         /\ work # <<>> => \A s \in Symbols : orders[LegKey(s)] # "FAILED"

SaneInv ==
  /\ MirrorInv /\ OrdersInv /\ LegsInv /\ BrokenInv /\ StartInv
  /\ CurInv /\ EffectInv /\ BrokerInv /\ OpenedInv

IInv == TypeInv /\ WorkInv /\ (Sane => SaneInv)
-----------------------------------------------------------------------------
(* Signs and sizes.                                                        *)
LEMMA AbsIs ==
  ASSUME NEW n \in Int
  PROVE  /\ Abs(n) \in Nat
         /\ n >= 0 => Abs(n) = n
         /\ n <= 0 => Abs(n) = -n
BY DEF Abs

LEMMA Opposite ==
  ASSUME NEW n \in Int, NEW side \in Sides
  PROVE  /\ n * side \in Int /\ n * (-side) \in Int /\ -side \in Sides
         /\ n * side < 0 <=> (side = 1 /\ n < 0) \/ (side = -1 /\ n > 0)
         /\ n * (-side) < 0 <=> n * side > 0
         /\ n * side > 0 <=> (side = 1 /\ n > 0) \/ (side = -1 /\ n < 0)
         /\ n * side >= 0 <=> (side = 1 /\ n >= 0) \/ (side = -1 /\ n <= 0)
<1>0. side \in Int /\ (side = 1 \/ side + 1 = 0)
  BY DEF Sides
<1>1. CASE side = 1
  <2>1. -side = -1 /\ n * side = n /\ n * (-side) = -n
    BY <1>1
  <2> QED
    BY <1>1, <2>1 DEF Sides
<1>2. CASE side + 1 = 0
  <2>1. -side = 1 /\ n * (-side) = n /\ n * side = -n
    BY <1>0, <1>2
  <2> QED
    BY <1>0, <1>2, <2>1 DEF Sides
<1> QED
  BY ONLY <1>0, <1>1, <1>2, Zenon

LEMMA SignOfProduct ==
  ASSUME NEW m \in Int, NEW n \in Int
  PROVE  /\ m * n \in Int
         /\ m * n <= 0 <=> (m <= 0 /\ n >= 0) \/ (m >= 0 /\ n <= 0)
         /\ m * n > 0 <=> (m < 0 /\ n < 0) \/ (m > 0 /\ n > 0)
<1>1. CASE m > 0 /\ n > 0
  BY <1>1
<1>2. CASE m > 0 /\ n < 0
  BY <1>2
<1>3. CASE m < 0 /\ n > 0
  BY <1>3
<1>4. CASE m < 0 /\ n < 0
  BY <1>4
<1>5. CASE m = 0 \/ n = 0
  BY <1>5
<1> QED
  BY <1>1, <1>2, <1>3, <1>4, <1>5

LEMMA LeastIs ==
  ASSUME NEW m \in Nat, NEW n \in Nat
  PROVE  Least(m, n) \in Nat /\ Least(m, n) <= m /\ Least(m, n) <= n
BY DEF Least

(* What a fill newly opened lies on the side of the fill, and giving it    *)
(* back ends at what was there before, or flat where the fill turned over. *)
LEMMA NewlyOpenedIs ==
  ASSUME NEW before \in Int, NEW after \in Int
  PROVE  /\ NewlyOpened(before, after) \in Nat
         /\ NewlyOpened(before, after) <= Abs(after)
         /\ before * after > 0 =>
              \/ NewlyOpened(before, after) = 0
              \/ NewlyOpened(before, after) = Abs(after) - Abs(before)
         /\ \A side \in Sides :
              (after - before) * side >= 0 /\ NewlyOpened(before, after) > 0 => after * side > 0
<1>0. Abs(before) \in Nat /\ Abs(after) \in Nat
  BY AbsIs
<1>1. /\ NewlyOpened(before, after) \in Nat
      /\ NewlyOpened(before, after) <= Abs(after)
      /\ before * after > 0 =>
           \/ NewlyOpened(before, after) = 0
           \/ NewlyOpened(before, after) = Abs(after) - Abs(before)
  BY <1>0, SignOfProduct DEF NewlyOpened
<1>2. ASSUME NEW side \in Sides, (after - before) * side >= 0, NewlyOpened(before, after) > 0
      PROVE  after * side > 0
  <2>1. (side = 1 /\ after >= before) \/ (side = -1 /\ after <= before)
    BY <1>2, Opposite
  <2>2. after # 0
    BY <1>1, <1>2, AbsIs
  <2>3. (side = 1 /\ after > 0) \/ (side = -1 /\ after < 0)
    <3>1. CASE before * after <= 0
      BY <2>1, <2>2, <3>1, SignOfProduct
    <3>2. CASE before * after > 0
      <4>1. Abs(after) > Abs(before)
        BY <1>0, <1>2, <3>2, SignOfProduct DEF NewlyOpened
      <4> QED
        BY <2>1, <3>2, <4>1, AbsIs, SignOfProduct
    <3> QED
      BY <3>1, <3>2, SignOfProduct
  <2> QED
    BY <2>3, Opposite
<1> QED
  BY ONLY <1>1, <1>2
-----------------------------------------------------------------------------
(* Keys and jobs.                                                          *)
LEMMA KeysApart ==
  /\ \A s \in Symbols : LegKey(s) \in Keys /\ UnwindKey(s) \in Keys
  /\ \A s, t : LegKey(s) # UnwindKey(t)
  /\ \A s, t : LegKey(s) = LegKey(t) => s = t
  /\ \A s, t : UnwindKey(s) = UnwindKey(t) => s = t
  /\ \A k \in Keys : \E s \in Symbols : k = LegKey(s) \/ k = UnwindKey(s)
BY DEF LegKey, UnwindKey, Keys

LEMMA LegsOfBatch ==
  ASSUME TypeInv
  PROVE  /\ batch \in Seq(Legs) /\ Len(batch) \in Nat /\ DOMAIN batch = 1 .. Len(batch)
         /\ \A i \in DOMAIN batch :
              batch[i].sym \in Symbols /\ batch[i].side \in Sides /\ batch[i].qty \in Nat \ {0}
<1>1. batch \in Seq(Legs)
  BY DEF TypeInv
<1>2. \A i \in DOMAIN batch : batch[i] \in Legs
  BY <1>1
<1> QED
  BY <1>1, <1>2 DEF Legs

LEMMA SizesAre ==
  ASSUME TypeInv, NEW positions \in [Symbols -> Int]
  PROVE  Sizes(batch, positions) \in [DOMAIN batch -> Nat]
<1>1. \A i \in DOMAIN batch : batch[i].sym \in Symbols /\ batch[i].qty \in Nat
  BY LegsOfBatch
<1>2. \A i \in DOMAIN batch : Least(batch[i].qty, Abs(positions[batch[i].sym])) \in Nat
  BY <1>1, AbsIs, LeastIs
<1> QED
  BY <1>1, <1>2 DEF Sizes

(* The job at hand and its key.                                            *)
LEMMA JobIs ==
  ASSUME TypeInv, WorkInv, work # <<>>
  PROVE  /\ Job \in Jobs /\ Job = work[1] /\ Len(work) >= 1 /\ Len(work) \in Nat
         /\ Job.sym \in Symbols /\ Job.side \in Sides /\ Job.qty \in Nat /\ Job.qty > 0
         /\ Key(Job) \in Keys
         /\ phase = "legs" => Job.kind = "leg" /\ Key(Job) = LegKey(Job.sym)
         /\ phase = "unwind" => Job.kind = "unwind" /\ Key(Job) = UnwindKey(Job.sym)
<1>1. Len(work) >= 1 /\ Len(work) \in Nat /\ Job = work[1] /\ Job \in Jobs
  BY DEF TypeInv, Job
<1>2. Job.kind = IF phase = "legs" THEN "leg" ELSE "unwind"
  BY <1>1 DEF WorkInv
<1>3. /\ Job.sym \in Symbols /\ Job.side \in Sides /\ Job.qty \in Nat /\ Job.qty > 0
      /\ Job.kind \in {"leg", "unwind"}
  BY <1>1 DEF Jobs
<1> QED
  BY <1>1, <1>2, <1>3 DEF Key, Keys, LegKey, UnwindKey
-----------------------------------------------------------------------------
LEMMA InitInv == Init => IInv
<1> SUFFICES ASSUME Init PROVE IInv
  OBVIOUS
<1>1. TypeInv
  <2>1. start \in [Symbols -> Int]
    BY DEF Init
  <2>2. /\ orders \in [Keys -> Statuses] /\ rows \in [Keys -> Statuses]
        /\ sent \in [Keys -> Nat]
    BY DEF Init, Statuses
  <2>3. work \in Seq(Jobs) /\ opened \in Seq(Jobs) /\ results \in Seq(Statuses)
    BY DEF Init
  <2>4. /\ book = start /\ saved = start /\ real = start /\ results = <<>>
        /\ batch \in Batches /\ pc = "idle" /\ phase = "legs" /\ answer = "none"
        /\ reducing = FALSE /\ halted \in BOOLEAN
    BY DEF Init
  <2>5. cur \in [size : Nat, before : Int]
    BY DEF Init, NoOrder
  <2>6. approved \in [DOMAIN batch -> Nat] /\ underHalt \in BOOLEAN
    <3>1. \A i \in DOMAIN batch : batch[i] \in Legs
      BY <2>4
    <3>2. \A i \in DOMAIN batch : /\ batch[i].sym \in Symbols /\ batch[i].qty \in Nat
                                    /\ Least(batch[i].qty, Abs(start[batch[i].sym])) \in Nat
      BY <2>1, <3>1, AbsIs, LeastIs DEF Legs
    <3> QED
      BY <3>2 DEF Init, Sizes
  <2> QED
    BY <2>1, <2>2, <2>3, <2>4, <2>5, <2>6 DEF TypeInv
<1>2. WorkInv
  BY DEF Init, WorkInv
<1>3. SaneInv
  <2>1. /\ \A k \in Keys : orders[k] = "none" /\ rows[k] = "none" /\ sent[k] = 0
        /\ \A s \in Symbols : LegKey(s) \in Keys /\ UnwindKey(s) \in Keys
        /\ book = start /\ saved = start /\ real = start
        /\ pc = "idle" /\ phase = "legs" /\ opened = <<>>
    BY KeysApart DEF Init
  <2>2. \A i \in DOMAIN batch : batch[i].sym \in Symbols
    BY <1>1, LegsOfBatch
  <2> QED
    BY <2>1, <2>2 DEF SaneInv, MirrorInv, OrdersInv, LegsInv, BrokenInv, StartInv, CurInv, EffectInv,
       BrokerInv, OpenedInv, Final
<1> QED
  BY <1>1, <1>2, <1>3 DEF IInv
-----------------------------------------------------------------------------
(* What was opened lies in the contracts.                                  *)
LEMMA OpenedAre ==
  ASSUME TypeInv
  PROVE  /\ Len(opened) \in Nat
         /\ \A j \in 1 .. Len(opened) :
              /\ opened[j].sym \in Symbols /\ opened[j].side \in Sides
              /\ opened[j].qty \in Nat /\ opened[j].qty > 0
<1>1. Len(opened) \in Nat /\ \A j \in 1 .. Len(opened) : opened[j] \in Jobs
  BY DEF TypeInv
<1>2. \A o \in Jobs : o.sym \in Symbols /\ o.side \in Sides /\ o.qty \in Nat /\ o.qty > 0
  BY DEF Jobs
<1> QED
  BY ONLY <1>1, <1>2
-----------------------------------------------------------------------------
(* Steps that leave the orders, the positions and the call's work alone.   *)
LEMMA QuietInv ==
  ASSUME IInv,
         UNCHANGED <<fixedVars, callVars, orders, rows, book, saved, real, sent>>,
         lapses \subseteq lapses',
         answer' \in {"none", "refused", "failed", "intact", "nothing", "partly"},
         halted' \in BOOLEAN,
         \/ pc' = pc
         \/ pc = "next" /\ phase = "legs" /\ work = <<>> /\ pc' = "idle"
         \/ pc = "next" /\ phase = "unwind" /\ pc' = "halt"
         \/ pc = "halt" /\ pc' = "idle"
  PROVE  IInv'
<1> USE DEF callVars, fixedVars
<1>0. pc' = pc \/ (pc \in {"next", "halt"} /\ pc' \in {"idle", "halt"})
  OBVIOUS
<1>1. TypeInv'
  BY DEF IInv, TypeInv
<1>2. WorkInv'
  BY DEF IInv, WorkInv
<1>3. SUFFICES ASSUME Sane' PROVE SaneInv'
  BY <1>1, <1>2 DEF IInv
<1>4. Sane /\ SaneInv
  BY <1>3 DEF IInv, Sane
<1>5. MirrorInv'
  BY <1>0, <1>4 DEF SaneInv, MirrorInv, Job
<1>6. OrdersInv'
  BY <1>0, <1>4 DEF SaneInv, OrdersInv, Job
<1>7. LegsInv'
  BY <1>0, <1>4 DEF SaneInv, LegsInv
<1>8. BrokenInv'
  BY <1>4 DEF SaneInv, BrokenInv
<1>9. StartInv'
  <2>1. CASE pc' = pc
    BY <1>4, <2>1 DEF SaneInv, StartInv, Reduces, Sizes
  <2>2. CASE pc = "next" /\ phase = "legs" /\ work = <<>> /\ pc' = "idle"
    <3>1. \A i \in DOMAIN batch : orders[LegKey(batch[i].sym)] # "none"
      <4>1. Len(results) = Len(batch)
        BY <1>4, <2>2 DEF SaneInv, LegsInv, IInv, TypeInv
      <4> QED
        BY <1>4, <2>2, <4>1, LegsOfBatch DEF SaneInv, LegsInv, Final, IInv
    <3> QED
      BY <1>4, <3>1 DEF SaneInv, StartInv
  <2>3. CASE phase = "unwind"
    BY <1>0, <1>4, <2>3 DEF SaneInv, StartInv
  <2> QED
    BY <2>1, <2>2, <2>3 DEF IInv, WorkInv
<1>10. CurInv'
  BY <1>0, <1>4 DEF SaneInv, CurInv, Job, Reduces, Sizes, ApprovedSize
<1>11. EffectInv'
  BY <1>4 DEF SaneInv, EffectInv, EachContractOnce
<1>12. BrokerInv'
  BY <1>4 DEF SaneInv, BrokerInv
<1>13. OpenedInv'
  BY <1>0, <1>4 DEF SaneInv, OpenedInv
<1> QED
  BY <1>5, <1>6, <1>7, <1>8, <1>9, <1>10, <1>11, <1>12, <1>13 DEF SaneInv

(* A call that is cut short: only the types are of interest from then on.  *)
LEMMA CutInv ==
  ASSUME IInv, ~Sane',
         UNCHANGED <<fixedVars, callVars, rows, saved, sent, halted>>,
         orders' \in {orders, rows}, book' \in {book, saved},
         real' \in [Symbols -> Int],
         pc' = "idle", answer' \in {answer, "failed"}
  PROVE  IInv'
<1>1. TypeInv'
  BY DEF IInv, TypeInv, callVars, fixedVars
<1>2. WorkInv'
  BY DEF IInv, WorkInv, callVars, fixedVars
<1> QED
  BY <1>1, <1>2 DEF IInv

(* The legs of the batch become the work of the call.                      *)
LEMMA BeginInv == IInv /\ Begin => IInv'
<1> SUFFICES ASSUME IInv, Begin PROVE IInv'
  OBVIOUS
<1>1. /\ batch' = batch /\ start' = start /\ orders' = orders /\ rows' = rows /\ book' = book
      /\ saved' = saved /\ real' = real /\ halted' = halted /\ sent' = sent /\ lapses' = lapses
      /\ pc = "idle" /\ pc' = "next" /\ phase' = "legs" /\ results' = <<>> /\ opened' = <<>>
      /\ cur' = NoOrder /\ answer' = "none"
      /\ reducing' = Reduces(batch, book) /\ underHalt' = halted /\ (halted => reducing')
      /\ approved' = IF \A k \in Keys : orders[k] = "none" THEN Sizes(batch, book) ELSE approved
  BY DEF Begin, memoryVars, tableVars, Sound
<1>2. /\ work' \in Seq(Jobs) /\ Len(work') = Len(batch)
      /\ \A j \in 1 .. Len(batch) :
           /\ work'[j].kind = "leg" /\ work'[j].sym = batch[j].sym
           /\ work'[j].side = batch[j].side /\ work'[j].qty = batch[j].qty
  <2> DEFINE job(i) == [kind |-> "leg", sym |-> batch[i].sym, side |-> batch[i].side, qty |-> batch[i].qty]
  <2>1. Len(batch) \in Nat /\ DOMAIN batch = 1 .. Len(batch) /\ \A i \in DOMAIN batch : job(i) \in Jobs
    BY LegsOfBatch DEF IInv, Jobs
  <2>2. work' = [i \in 1 .. Len(batch) |-> job(i)]
    BY <2>1 DEF Begin
  <2>3. \A i \in 1 .. Len(batch) :
          /\ job(i).kind = "leg" /\ job(i).sym = batch[i].sym
          /\ job(i).side = batch[i].side /\ job(i).qty = batch[i].qty
    OBVIOUS
  <2> HIDE DEF job
  <2> QED
    BY <2>1, <2>2, <2>3
<1>3. TypeInv'
  <2>1. reducing' \in BOOLEAN
    BY <1>1 DEF Reduces
  <2>2. cur' \in [size : Nat, before : Int] /\ results' \in Seq(Statuses) /\ opened' \in Seq(Jobs)
    BY <1>1 DEF NoOrder
  <2>3. Sizes(batch, book) \in [DOMAIN batch -> Nat]
    BY SizesAre DEF IInv, TypeInv
  <2>4. approved' \in [DOMAIN batch -> Nat] /\ underHalt' \in BOOLEAN
    BY <1>1, <2>3 DEF IInv, TypeInv
  <2> QED
    BY <1>1, <1>2, <2>1, <2>2, <2>4 DEF IInv, TypeInv
<1>4. WorkInv'
  BY <1>1, <1>2 DEF WorkInv
<1>5. SUFFICES ASSUME Sane' PROVE SaneInv'
  BY <1>3, <1>4 DEF IInv
<1>6. Sane /\ SaneInv
  BY <1>1, <1>5 DEF IInv, Sane
<1>7. MirrorInv'
  BY <1>1, <1>6 DEF SaneInv, MirrorInv
<1>8. OrdersInv'
  BY <1>1, <1>6 DEF SaneInv, OrdersInv
<1>9. LegsInv'
  <2>1. Len(batch) \in Nat
    BY LegsOfBatch DEF IInv
  <2> QED
    BY <1>1, <1>2, <2>1 DEF LegsInv
<1>10. BrokenInv'
  BY <1>1, <1>6 DEF SaneInv, BrokenInv
<1>11. StartInv'
  <2>1. ASSUME NEW i \in DOMAIN batch, orders[LegKey(batch[i].sym)] = "none"
        PROVE  reducing' = Reduces(batch, start) /\ approved' = Sizes(batch, start)
    <3>1. \A k \in Keys : orders[k] = "none"
      BY <1>1, <1>6, <2>1 DEF SaneInv, StartInv
    <3>2. book = start
      <4>1. \A s \in Symbols : book[s] = start[s]
        BY <1>6, <3>1, KeysApart DEF SaneInv, StartInv
      <4> QED
        BY <4>1 DEF IInv, TypeInv
    <3> QED
      BY <1>1, <3>1, <3>2
  <2> QED
    BY <1>1, <1>6, <2>1 DEF SaneInv, StartInv, Reduces, Sizes
<1>12. CurInv'
  BY <1>1 DEF CurInv
<1>13. EffectInv'
  <2>1. ASSUME NEW i \in DOMAIN batch, orders[LegKey(batch[i].sym)] = "MONITORING"
        PROVE  approved' = approved
    <3>1. LegKey(batch[i].sym) \in Keys
      BY LegsOfBatch, KeysApart DEF IInv
    <3> QED
      BY <1>1, <2>1, <3>1
  <2> QED
    BY <1>1, <1>6, <2>1 DEF SaneInv, EffectInv, EachContractOnce
<1>14. BrokerInv'
  BY <1>1, <1>6 DEF SaneInv, BrokerInv
<1>15. OpenedInv'
  BY <1>1 DEF OpenedInv
<1> QED
  BY <1>7, <1>8, <1>9, <1>10, <1>11, <1>12, <1>13, <1>14, <1>15 DEF SaneInv

(* The broker's positions stay numbers, whatever was executed.             *)
LEMMA ExecutesIs ==
  ASSUME IInv, pc = "wait", NEW n \in Int, Executes(n)
  PROVE  real' \in [Symbols -> Int]
<1>1. Job.sym \in Symbols /\ Job.side \in Int
  BY JobIs DEF IInv, WorkInv, Sides
<1>2. real[Job.sym] + Job.side * n \in Int
  <2>1. real[Job.sym] \in Int /\ Job.side * n \in Int
    BY <1>1 DEF IInv, TypeInv
  <2> QED
    BY <2>1
<1> QED
  BY <1>1, <1>2 DEF IInv, TypeInv, Executes

(* The next order goes out: its key is new and its contract as the leg, or *)
(* the unwind, was sized for.                                              *)
LEMMA SendInv == IInv /\ Send => IInv'
<1> SUFFICES ASSUME IInv, Send PROVE IInv'
  OBVIOUS
<1> DEFINE s == Job.sym
           k == Key(Job)
<1>1. /\ approved' = approved /\ underHalt' = underHalt
      /\ batch' = batch /\ start' = start /\ rows' = rows /\ book' = book /\ saved' = saved
      /\ real' = real /\ halted' = halted /\ lapses' = lapses /\ phase' = phase /\ work' = work
      /\ reducing' = reducing /\ results' = results /\ opened' = opened /\ answer' = answer
      /\ pc = "next" /\ pc' = "wait" /\ work # <<>> /\ orders[k] = "none"
      /\ orders' = [orders EXCEPT ![k] = "SUBMITTED"]
      /\ sent' = [sent EXCEPT ![k] = @ + 1]
      /\ cur' = [size |-> Size(Job), before |-> book[s]]
      /\ Job' = Job /\ k' = k /\ s' = s
  BY DEF Send, fixedVars, tableVars, Sound, Job, Key
<1>2. /\ Job = work[1] /\ Len(work) >= 1 /\ Len(work) \in Nat
      /\ s \in Symbols /\ Job.side \in Sides /\ Job.qty \in Nat /\ Job.qty > 0 /\ k \in Keys
      /\ phase = "legs" => Job.kind = "leg" /\ k = LegKey(s)
      /\ phase = "unwind" => Job.kind = "unwind" /\ k = UnwindKey(s)
  BY <1>1, JobIs DEF IInv
<1> HIDE DEF s, k
<1>3. /\ orders' \in [Keys -> Statuses] /\ sent' \in [Keys -> Nat]
      /\ \A h \in Keys : orders'[h] = IF h = k THEN "SUBMITTED" ELSE orders[h]
      /\ \A h \in Keys : sent'[h] = IF h = k THEN sent[h] + 1 ELSE sent[h]
  BY <1>1, <1>2 DEF IInv, TypeInv, Statuses
<1>4. Abs(book[s]) \in Nat /\ book[s] \in Int
  BY <1>2, AbsIs DEF IInv, TypeInv
<1>5. TypeInv'
  <2>1. Size(Job) \in Nat
    BY <1>2, <1>4, LeastIs DEF Size, s
  <2>2. cur' \in [size : Nat, before : Int]
    BY <1>1, <1>4, <2>1
  <2> QED
    BY <1>1, <1>3, <2>2 DEF IInv, TypeInv
<1>6. WorkInv'
  BY <1>1 DEF IInv, WorkInv
<1>7. SUFFICES ASSUME Sane' PROVE SaneInv'
  BY <1>5, <1>6 DEF IInv
<1>8. Sane /\ SaneInv
  BY <1>1, <1>7 DEF IInv, Sane
<1>9. \A t \in Symbols : /\ LegKey(t) \in Keys /\ UnwindKey(t) \in Keys
                         /\ k = LegKey(t) => phase = "legs" /\ t = s
                         /\ k = UnwindKey(t) => phase = "unwind" /\ t = s
  BY <1>2, KeysApart DEF IInv, TypeInv
<1>10. \A i \in DOMAIN batch : batch[i].sym \in Symbols
  BY LegsOfBatch DEF IInv
<1>11. phase = "unwind" => orders[LegKey(s)] \in {"MONITORING", "PARTIALLY_FILLED"}
  BY <1>1, <1>2, <1>8 DEF SaneInv, OpenedInv, s
<1>12. phase = "legs" =>
         LET i == Len(results) + 1 IN
         /\ i \in DOMAIN batch /\ s = batch[i].sym
         /\ Job.side = batch[i].side /\ Job.qty = batch[i].qty
  <2> SUFFICES ASSUME phase = "legs"
               PROVE  LET i == Len(results) + 1 IN
                      /\ i \in DOMAIN batch /\ s = batch[i].sym
                      /\ Job.side = batch[i].side /\ Job.qty = batch[i].qty
    OBVIOUS
  <2>1. Len(results) \in Nat
    BY DEF IInv, TypeInv
  <2>2. /\ Len(results) + Len(work) = Len(batch)
        /\ work[1].sym = batch[Len(results) + 1].sym
        /\ work[1].side = batch[Len(results) + 1].side
        /\ work[1].qty = batch[Len(results) + 1].qty
    BY <1>1, <1>2, <1>8 DEF SaneInv, LegsInv
  <2> QED
    BY <1>2, <2>1, <2>2, LegsOfBatch DEF IInv, s
<1>13. MirrorInv'
  BY <1>1, <1>3, <1>8 DEF SaneInv, MirrorInv, k
<1>14. OrdersInv'
  <2>1. \A h \in Keys : sent'[h] <= 1 /\ (orders'[h] = "none" => sent'[h] = 0)
    BY <1>1, <1>2, <1>3, <1>8 DEF SaneInv, OrdersInv, IInv, TypeInv
  <2>2. \A h \in Keys : orders'[h] = "SUBMITTED" <=> pc' = "wait" /\ h = k
    BY <1>1, <1>3, <1>8 DEF SaneInv, OrdersInv
  <2>3. \A h \in Keys : /\ orders'[h] = "PARTIALLY_FILLED" => "partial" \in lapses
                        /\ orders'[h] = "ACKNOWLEDGED" => "resting" \in lapses
    BY <1>3, <1>8 DEF SaneInv, OrdersInv
  <2>4. \A t \in Symbols :
          orders'[UnwindKey(t)] # "none" => orders'[LegKey(t)] \in {"MONITORING", "PARTIALLY_FILLED"}
    BY <1>1, <1>3, <1>8, <1>9, <1>11 DEF SaneInv, OrdersInv, IInv, TypeInv
  <2> QED
    BY <1>1, <2>1, <2>2, <2>3, <2>4 DEF OrdersInv, k
<1>15. LegsInv'
  <2> SUFFICES ASSUME phase = "legs" PROVE LegsInv'
    BY <1>1 DEF LegsInv
  <2>1. /\ Len(results) + Len(work) = Len(batch)
        /\ \A j \in 1 .. Len(work) :
             LET leg == batch[Len(results) + j] IN
             work[j].sym = leg.sym /\ work[j].side = leg.side /\ work[j].qty = leg.qty
        /\ \A i \in 1 .. Len(results) : results[i] = orders[LegKey(batch[i].sym)] /\ results[i] \in Final
    BY <1>1, <1>8 DEF SaneInv, LegsInv
  <2>2. \A i \in 1 .. Len(results) : batch[i].sym \in Symbols
    <3>1. Len(results) \in Nat /\ Len(batch) \in Nat /\ DOMAIN batch = 1 .. Len(batch)
      BY LegsOfBatch DEF IInv, TypeInv
    <3>2. Len(results) <= Len(batch)
      BY ONLY <1>2, <2>1, <3>1
    <3> QED
      BY ONLY <1>10, <3>1, <3>2
  <2>3. \A i \in 1 .. Len(results) : orders'[LegKey(batch[i].sym)] = orders[LegKey(batch[i].sym)]
    BY <1>1, <1>3, <1>9, <2>1, <2>2 DEF Final
  <2> QED
    BY <1>1, <2>1, <2>3 DEF LegsInv
<1>16. BrokenInv'
  <2>1. phase = "unwind" \/ (\E t \in Symbols : orders[UnwindKey(t)] # "none") =>
          \E i \in DOMAIN batch : orders'[LegKey(batch[i].sym)] \in Final \ {"MONITORING"}
    BY <1>1, <1>3, <1>8, <1>9, <1>10 DEF SaneInv, BrokenInv, Final
  <2>2. (\E t \in Symbols : orders'[UnwindKey(t)] # "none") =>
          phase = "unwind" \/ (\E t \in Symbols : orders[UnwindKey(t)] # "none")
    BY <1>3, <1>9
  <2> QED
    BY <1>1, <2>1, <2>2 DEF BrokenInv
<1>17. StartInv'
  <2>1. \A t \in Symbols : orders'[LegKey(t)] = "none" => book[t] = start[t] /\ real[t] = start[t]
    BY <1>3, <1>8, <1>9 DEF SaneInv, StartInv
  <2>2. \A t \in Symbols : orders'[LegKey(t)] # "none" => \E i \in DOMAIN batch : batch[i].sym = t
    BY <1>3, <1>8, <1>9, <1>12 DEF SaneInv, StartInv
  <2>3. (\E i \in DOMAIN batch : orders'[LegKey(batch[i].sym)] = "none") =>
          phase = "legs" /\ reducing = Reduces(batch, start) /\ approved = Sizes(batch, start)
    BY <1>1, <1>3, <1>8, <1>9, <1>10 DEF SaneInv, StartInv
  <2> QED
    BY <1>1, <2>1, <2>2, <2>3 DEF StartInv, Reduces, Sizes
<1>18. CurInv'
  <2>1. ASSUME phase = "legs"
        PROVE  /\ cur'.before = start[s] /\ book[s] = start[s] /\ real[s] = start[s]
               /\ cur'.size = ApprovedSize(Job) /\ reducing = Reduces(batch, start)
               /\ approved = Sizes(batch, start)
    <3>1. book[s] = start[s] /\ real[s] = start[s]
      BY <1>1, <1>2, <1>8, <2>1 DEF SaneInv, StartInv
    <3>2. reducing = Reduces(batch, start) /\ approved = Sizes(batch, start)
      BY <1>1, <1>2, <1>8, <1>12, <2>1 DEF SaneInv, StartInv
    <3> QED
      BY <1>1, <1>2, <2>1, <3>1, <3>2 DEF Size, ApprovedSize, s
  <2>2. phase = "unwind" => cur'.size = Least(Job.qty, Abs(book[s]))
    BY <1>1, <1>2 DEF Size, s
  <2> QED
    BY <1>1, <2>1, <2>2 DEF CurInv, ApprovedSize, Reduces, Sizes, s
<1>19. EffectInv'
  BY <1>1, <1>3, <1>8, <1>9, <1>10 DEF SaneInv, EffectInv, EachContractOnce
<1>20. BrokerInv'
  BY <1>1, <1>3, <1>8, <1>9 DEF SaneInv, BrokerInv
<1>21. OpenedInv'
  <2>1. \A j \in 1 .. Len(opened) : opened[j].sym \in Symbols
    BY OpenedAre DEF IInv
  <2> QED
    BY <1>1, <1>3, <1>8, <1>9, <2>1 DEF SaneInv, OpenedInv
<1> QED
  BY <1>13, <1>14, <1>15, <1>16, <1>17, <1>18, <1>19, <1>20, <1>21 DEF SaneInv

(* The key is known, and so is its order's end.                            *)
LEMMA DedupeInv == IInv /\ Dedupe => IInv'
<1> SUFFICES ASSUME IInv, Dedupe PROVE IInv'
  OBVIOUS
<1>1. /\ approved' = approved /\ underHalt' = underHalt
      /\ batch' = batch /\ start' = start /\ rows' = rows /\ book' = book /\ saved' = saved
      /\ real' = real /\ halted' = halted /\ lapses' = lapses /\ phase' = phase /\ work' = work
      /\ reducing' = reducing /\ results' = results /\ opened' = opened /\ answer' = answer
      /\ orders' = orders /\ sent' = sent
      /\ pc = "next" /\ pc' = "order" /\ work # <<>> /\ orders[Key(Job)] # "none"
      /\ cur' = [size |-> 0, before |-> book[Job.sym]]
      /\ Job' = Job
  BY DEF Dedupe, fixedVars, memoryVars, tableVars, Sound, Job
<1>2. Key(Job) \in Keys /\ Job.sym \in Symbols
  BY <1>1, JobIs DEF IInv
<1>3. TypeInv'
  <2>1. cur' \in [size : Nat, before : Int]
    BY <1>1, <1>2 DEF IInv, TypeInv
  <2> QED
    BY <1>1, <2>1 DEF IInv, TypeInv
<1>4. WorkInv'
  BY <1>1 DEF IInv, WorkInv
<1>5. SUFFICES ASSUME Sane' PROVE SaneInv'
  BY <1>3, <1>4 DEF IInv
<1>6. Sane /\ SaneInv
  BY <1>1, <1>5 DEF IInv, Sane
<1>7. MirrorInv'
  BY <1>1, <1>6 DEF SaneInv, MirrorInv
<1>8. OrdersInv'
  <2>1. orders[Key(Job)] \in Final
    BY <1>1, <1>2, <1>6 DEF SaneInv, OrdersInv, IInv, TypeInv, Statuses
  <2>2. Key(Job)' = Key(Job)
    BY <1>1 DEF Key
  <2>3. pc # "wait" /\ pc' # "wait"
    BY <1>1
  <2> QED
    BY <1>1, <1>6, <2>1, <2>2, <2>3 DEF SaneInv, OrdersInv
<1>9. LegsInv'
  BY <1>1, <1>6 DEF SaneInv, LegsInv
<1>10. BrokenInv'
  BY <1>1, <1>6 DEF SaneInv, BrokenInv
<1>11. StartInv'
  BY <1>1, <1>6 DEF SaneInv, StartInv, Reduces, Sizes
<1>12. CurInv'
  BY <1>1 DEF CurInv
<1>13. EffectInv'
  BY <1>1, <1>6 DEF SaneInv, EffectInv, EachContractOnce
<1>14. BrokerInv'
  BY <1>1, <1>6 DEF SaneInv, BrokerInv
<1>15. OpenedInv'
  BY <1>1, <1>6 DEF SaneInv, OpenedInv
<1> QED
  BY <1>7, <1>8, <1>9, <1>10, <1>11, <1>12, <1>13, <1>14, <1>15 DEF SaneInv

(* The broker's answer, whatever it is: the order settles at status, the   *)
(* book moves by what the answer says was filled and the broker's own      *)
(* position by what was executed.                                          *)
LEMMA SettleInv ==
  ASSUME IInv,
         NEW status \in Final, NEW filled \in Nat, NEW executed \in Nat,
         Settle(status, filled), Executes(executed),
         filled <= cur.size, executed <= cur.size,
         status = "MONITORING" => filled = cur.size /\ executed = cur.size,
         status = "PARTIALLY_FILLED" => filled = executed /\ "partial" \in lapses',
         status = "ACKNOWLEDGED" => filled = 0 /\ "resting" \in lapses',
         status = "REJECTED" => filled = 0 /\ executed = 0,
         status = "FAILED" => filled = 0,
         lapses \subseteq lapses'
  PROVE  IInv'
<1> DEFINE s == Job.sym
           k == Key(Job)
<1>1. /\ approved' = approved /\ underHalt' = underHalt
      /\ batch' = batch /\ start' = start /\ rows' = rows /\ saved' = saved /\ halted' = halted
      /\ phase' = phase /\ work' = work /\ cur' = cur /\ reducing' = reducing
      /\ results' = results /\ opened' = opened /\ answer' = answer /\ sent' = sent
      /\ pc = "wait" /\ pc' = "order"
      /\ orders' = [orders EXCEPT ![k] = status]
      /\ book' = [book EXCEPT ![s] = @ + Job.side * filled]
      /\ real' = [real EXCEPT ![s] = @ + Job.side * executed]
      /\ Job' = Job /\ k' = k /\ s' = s
  BY DEF Settle, Executes, fixedVars, callVars, tableVars, Job, Key
<1>2. /\ Job = work[1] /\ Len(work) >= 1 /\ Len(work) \in Nat
      /\ s \in Symbols /\ Job.side \in Sides /\ Job.qty \in Nat /\ Job.qty > 0 /\ k \in Keys
      /\ phase = "legs" => Job.kind = "leg" /\ k = LegKey(s)
      /\ phase = "unwind" => Job.kind = "unwind" /\ k = UnwindKey(s)
  <2>1. work # <<>>
    BY <1>1 DEF IInv, WorkInv
  <2> QED
    BY <2>1, JobIs DEF IInv
<1> HIDE DEF s, k
<1>3. Job.side * filled \in Int /\ Job.side * executed \in Int /\ (Job.side * filled) * Job.side = filled
  <2>1. Job.side = 1 \/ Job.side + 1 = 0
    BY <1>2 DEF Sides
  <2>2. CASE Job.side = 1
    BY <2>2
  <2>3. CASE Job.side + 1 = 0
    <3>1. Job.side \in Int
      BY <1>2 DEF Sides
    <3>2. Job.side * filled = -filled /\ Job.side * executed = -executed
      BY <2>3, <3>1
    <3>3. (-filled) * Job.side = filled
      BY <2>3, <3>1
    <3> QED
      BY <3>2, <3>3
  <2> QED
    BY <2>1, <2>2, <2>3
<1>4. /\ orders' \in [Keys -> Statuses] /\ book' \in [Symbols -> Int] /\ real' \in [Symbols -> Int]
      /\ \A h \in Keys : orders'[h] = IF h = k THEN status ELSE orders[h]
      /\ \A t \in Symbols : book'[t] = IF t = s THEN book[s] + Job.side * filled ELSE book[t]
      /\ \A t \in Symbols : real'[t] = IF t = s THEN real[s] + Job.side * executed ELSE real[t]
  <2>1. orders \in [Keys -> Statuses] /\ book \in [Symbols -> Int] /\ real \in [Symbols -> Int]
    BY DEF IInv, TypeInv
  <2>2. status \in Statuses
    BY DEF Statuses
  <2>3. book[s] + Job.side * filled \in Int /\ real[s] + Job.side * executed \in Int
    BY <1>2, <1>3, <2>1
  <2>4. /\ orders' \in [Keys -> Statuses]
        /\ \A h \in Keys : orders'[h] = IF h = k THEN status ELSE orders[h]
    BY <1>1, <1>2, <2>1, <2>2
  <2>5. /\ book' \in [Symbols -> Int]
        /\ \A t \in Symbols : book'[t] = IF t = s THEN book[s] + Job.side * filled ELSE book[t]
    BY <1>1, <1>2, <2>1, <2>3
  <2>6. /\ real' \in [Symbols -> Int]
        /\ \A t \in Symbols : real'[t] = IF t = s THEN real[s] + Job.side * executed ELSE real[t]
    BY <1>1, <1>2, <2>1, <2>3
  <2> QED
    BY <2>4, <2>5, <2>6
<1>5. TypeInv'
  BY <1>1, <1>4 DEF IInv, TypeInv
<1>6. WorkInv'
  BY <1>1 DEF IInv, WorkInv
<1>7. SUFFICES ASSUME Sane' PROVE SaneInv'
  BY <1>5, <1>6 DEF IInv
<1>8. Sane /\ SaneInv
  BY <1>7 DEF IInv, Sane
<1>9. \A t \in Symbols : /\ LegKey(t) \in Keys /\ UnwindKey(t) \in Keys
                         /\ k = LegKey(t) => phase = "legs" /\ t = s
                         /\ k = UnwindKey(t) => phase = "unwind" /\ t = s
  BY <1>2, KeysApart DEF IInv, TypeInv
<1>10. \A i \in DOMAIN batch : batch[i].sym \in Symbols
  BY LegsOfBatch DEF IInv
<1>11. /\ orders[k] = "SUBMITTED" /\ orders'[k] = status
       /\ \A h \in Keys : orders[h] = "SUBMITTED" <=> h = k
       /\ phase = "legs" => orders[UnwindKey(s)] = "none"
       /\ phase = "unwind" => orders[LegKey(s)] \in {"MONITORING", "PARTIALLY_FILLED"}
  <2>1. \A h \in Keys : orders[h] = "SUBMITTED" <=> h = k
    BY <1>1, <1>8 DEF SaneInv, OrdersInv, k
  <2>2. orders[UnwindKey(s)] # "none" => orders[LegKey(s)] \in {"MONITORING", "PARTIALLY_FILLED"}
    BY <1>2, <1>8 DEF SaneInv, OrdersInv
  <2> QED
    BY <1>2, <1>4, <1>9, <2>1, <2>2
<1>12. phase = "legs" \/ phase = "unwind"
  BY DEF IInv, TypeInv
<1>13. phase = "legs" =>
         LET i == Len(results) + 1 IN
         /\ i \in DOMAIN batch /\ s = batch[i].sym
         /\ Job.side = batch[i].side /\ Job.qty = batch[i].qty
  <2> SUFFICES ASSUME phase = "legs"
               PROVE  LET i == Len(results) + 1 IN
                      /\ i \in DOMAIN batch /\ s = batch[i].sym
                      /\ Job.side = batch[i].side /\ Job.qty = batch[i].qty
    OBVIOUS
  <2>1. Len(results) \in Nat
    BY DEF IInv, TypeInv
  <2>2. /\ Len(results) + Len(work) = Len(batch)
        /\ work[1].sym = batch[Len(results) + 1].sym
        /\ work[1].side = batch[Len(results) + 1].side
        /\ work[1].qty = batch[Len(results) + 1].qty
    BY <1>1, <1>2, <1>8 DEF SaneInv, LegsInv
  <2> QED
    BY <1>2, <2>1, <2>2, LegsOfBatch DEF IInv, s
<1>14. phase = "legs" =>
         /\ cur.before = start[s] /\ book[s] = start[s] /\ real[s] = start[s]
         /\ cur.size = ApprovedSize(Job) /\ approved = Sizes(batch, start)
  BY <1>1, <1>8 DEF SaneInv, CurInv, s
<1>15. MirrorInv'
  BY <1>1, <1>4, <1>8 DEF SaneInv, MirrorInv, k, s
<1>16. OrdersInv'
  <2>1. \A h \in Keys : sent[h] <= 1 /\ (orders'[h] = "none" => sent[h] = 0)
    BY <1>4, <1>8 DEF SaneInv, OrdersInv, Final
  <2>2. \A h \in Keys : orders'[h] # "SUBMITTED"
    BY <1>4, <1>11 DEF Final
  <2>3. \A h \in Keys : /\ orders'[h] = "PARTIALLY_FILLED" => "partial" \in lapses'
                        /\ orders'[h] = "ACKNOWLEDGED" => "resting" \in lapses'
    BY <1>4, <1>8 DEF SaneInv, OrdersInv
  <2>4. \A t \in Symbols :
          orders'[UnwindKey(t)] # "none" => orders'[LegKey(t)] \in {"MONITORING", "PARTIALLY_FILLED"}
    BY <1>4, <1>8, <1>9, <1>11 DEF SaneInv, OrdersInv
  <2> QED
    BY <1>1, <1>11, <2>1, <2>2, <2>3, <2>4 DEF OrdersInv, k
<1>17. LegsInv'
  <2> SUFFICES ASSUME phase = "legs" PROVE LegsInv'
    BY <1>1 DEF LegsInv
  <2>1. /\ Len(results) + Len(work) = Len(batch)
        /\ \A j \in 1 .. Len(work) :
             LET leg == batch[Len(results) + j] IN
             work[j].sym = leg.sym /\ work[j].side = leg.side /\ work[j].qty = leg.qty
        /\ \A i \in 1 .. Len(results) : results[i] = orders[LegKey(batch[i].sym)] /\ results[i] \in Final
    BY <1>1, <1>8 DEF SaneInv, LegsInv
  <2>2. \A i \in 1 .. Len(results) : batch[i].sym \in Symbols
    <3>1. Len(results) \in Nat /\ Len(batch) \in Nat /\ DOMAIN batch = 1 .. Len(batch)
      BY LegsOfBatch DEF IInv, TypeInv
    <3>2. Len(results) <= Len(batch)
      BY ONLY <1>2, <2>1, <3>1
    <3> QED
      BY ONLY <1>10, <3>1, <3>2
  <2>3. \A i \in 1 .. Len(results) : orders'[LegKey(batch[i].sym)] = orders[LegKey(batch[i].sym)]
    BY <1>4, <1>9, <1>11, <2>1, <2>2 DEF Final
  <2> QED
    BY <1>1, <2>1, <2>3 DEF LegsInv
<1>18. BrokenInv'
  <2>1. phase = "unwind" \/ (\E t \in Symbols : orders[UnwindKey(t)] # "none") =>
          \E i \in DOMAIN batch : orders'[LegKey(batch[i].sym)] \in Final \ {"MONITORING"}
    BY <1>4, <1>8, <1>9, <1>10, <1>11 DEF SaneInv, BrokenInv, Final
  <2>2. (\E t \in Symbols : orders'[UnwindKey(t)] # "none") =>
          phase = "unwind" \/ (\E t \in Symbols : orders[UnwindKey(t)] # "none")
    BY <1>4, <1>9
  <2> QED
    BY <1>1, <2>1, <2>2 DEF BrokenInv
<1>19. StartInv'
  <2>1. \A t \in Symbols : orders'[LegKey(t)] = "none" => book'[t] = start[t] /\ real'[t] = start[t]
    <3>1. \A t \in Symbols : orders'[LegKey(t)] = "none" => orders[LegKey(t)] = "none" /\ t # s
      BY <1>2, <1>4, <1>9, <1>11, <1>12 DEF Final
    <3> QED
      BY <1>4, <1>8, <3>1 DEF SaneInv, StartInv
  <2>2. \A t \in Symbols : orders'[LegKey(t)] # "none" => \E i \in DOMAIN batch : batch[i].sym = t
    BY <1>4, <1>8, <1>9, <1>11 DEF SaneInv, StartInv
  <2>3. (\E i \in DOMAIN batch : orders'[LegKey(batch[i].sym)] = "none") =>
          phase = "legs" /\ reducing = Reduces(batch, start) /\ approved = Sizes(batch, start)
    BY <1>1, <1>4, <1>8, <1>9, <1>10, <1>11 DEF SaneInv, StartInv, Final
  <2> QED
    BY <1>1, <2>1, <2>2, <2>3 DEF StartInv, Reduces, Sizes
<1>20. CurInv'
  <2> SUFFICES ASSUME phase = "legs"
               PROVE  /\ cur.before = start[s] /\ orders'[UnwindKey(s)] = "none"
                      /\ (book'[s] - start[s]) * Job.side >= 0
    BY <1>1 DEF CurInv, s
  <2>1. start[s] \in Int
    BY <1>2 DEF IInv, TypeInv
  <2>2. book'[s] - start[s] = Job.side * filled
    BY <1>2, <1>3, <1>4, <1>14, <2>1
  <2>3. (book'[s] - start[s]) * Job.side = filled
    BY ONLY <1>3, <2>2
  <2> QED
    BY <1>2, <1>4, <1>9, <1>11, <1>14, <2>3
<1>21. EffectInv'
  <2> SUFFICES ASSUME NEW i \in DOMAIN batch
               PROVE  /\ orders'[LegKey(batch[i].sym)] = "REJECTED" => real'[batch[i].sym] = start[batch[i].sym]
                      /\ /\ EachContractOnce
                         /\ orders'[LegKey(batch[i].sym)] = "MONITORING"
                         /\ orders'[UnwindKey(batch[i].sym)] = "none"
                         => real'[batch[i].sym] = start[batch[i].sym] + batch[i].side * approved[i]
    BY <1>1 DEF EffectInv, EachContractOnce
  <2>1. CASE batch[i].sym # s
    BY <1>4, <1>8, <1>9, <1>10, <2>1 DEF SaneInv, EffectInv
  <2>2. CASE batch[i].sym = s /\ phase = "unwind"
    <3>1. orders'[LegKey(s)] = orders[LegKey(s)] /\ orders'[UnwindKey(s)] # "none"
      BY <1>2, <1>4, <1>9, <1>11, <2>2 DEF Final
    <3> QED
      BY <1>11, <2>2, <3>1
  <2>3. CASE batch[i].sym = s /\ phase = "legs"
    <3>1. real'[s] = start[s] + Job.side * executed
      BY <1>2, <1>4, <1>14, <2>3
    <3>2. orders'[LegKey(s)] = status
      BY <1>2, <1>11, <2>3
    <3>3. status = "REJECTED" => real'[s] = start[s]
      <4>1. start[s] \in Int /\ Job.side * 0 = 0
        BY <1>2 DEF IInv, TypeInv, Sides
      <4> QED
        BY <3>1, <4>1
    <3>4. EachContractOnce => Job.side = batch[i].side /\ Job.qty = batch[i].qty
      BY <1>13, <2>3 DEF EachContractOnce
    <3>5. EachContractOnce => ApprovedSize(Job) = approved[i]
      BY <1>14, <2>3, <3>4 DEF ApprovedSize, Sizes, s
    <3> QED
      BY <1>14, <2>3, <3>1, <3>2, <3>3, <3>4, <3>5
  <2>4. \/ batch[i].sym # s
        \/ batch[i].sym = s /\ phase = "unwind"
        \/ batch[i].sym = s /\ phase = "legs"
    BY ONLY <1>12
  <2> QED
    BY ONLY <2>1, <2>2, <2>3, <2>4
<1>22. BrokerInv'
  <2> SUFFICES ASSUME "resting" \notin lapses', NEW t \in Symbols,
                      orders'[LegKey(t)] # "FAILED", orders'[UnwindKey(t)] # "FAILED"
               PROVE  real'[t] = book'[t]
    BY DEF BrokerInv
  <2>1. CASE t # s
    BY <1>4, <1>8, <1>9, <2>1 DEF SaneInv, BrokerInv
  <2>2. CASE t = s
    <3>1. status # "FAILED" /\ status # "ACKNOWLEDGED"
      BY <1>2, <1>11, <1>12, <2>2
    <3>2. filled = executed
      BY <3>1 DEF Final
    <3>3. real[s] = book[s]
      <4>1. "resting" \notin lapses
        OBVIOUS
      <4>2. orders[LegKey(s)] # "FAILED" /\ orders[UnwindKey(s)] # "FAILED"
        BY <1>2, <1>11, <1>12
      <4> QED
        BY <1>2, <1>8, <4>1, <4>2 DEF SaneInv, BrokerInv
    <3> QED
      BY <1>2, <1>4, <2>2, <3>2, <3>3
  <2> QED
    BY <2>1, <2>2
<1>23. OpenedInv'
  <2>1. ASSUME NEW j \in 1 .. Len(opened),
               orders'[UnwindKey(opened[j].sym)] \in {"none", "SUBMITTED"}
        PROVE  /\ opened[j].qty = NewlyOpened(start[opened[j].sym], book'[opened[j].sym])
               /\ book'[opened[j].sym] * opened[j].side < 0
               /\ orders'[LegKey(opened[j].sym)] \in {"MONITORING", "PARTIALLY_FILLED"}
    <3>1. opened[j].sym \in Symbols
      BY OpenedAre DEF IInv
    <3>2. /\ orders[UnwindKey(opened[j].sym)] \in {"none", "SUBMITTED"}
          /\ k # UnwindKey(opened[j].sym)
      BY <1>4, <1>9, <2>1, <3>1 DEF Final
    <3>3. /\ opened[j].qty = NewlyOpened(start[opened[j].sym], book[opened[j].sym])
          /\ book[opened[j].sym] * opened[j].side < 0
          /\ orders[LegKey(opened[j].sym)] \in {"MONITORING", "PARTIALLY_FILLED"}
      BY <1>1, <1>8, <3>2 DEF SaneInv, OpenedInv
    <3>4. k # LegKey(opened[j].sym)
      BY <1>11, <3>3
    <3>5. opened[j].sym # s
      BY <1>2, <1>12, <3>2, <3>4
    <3> QED
      BY <1>4, <1>9, <3>1, <3>3, <3>4, <3>5
  <2>2. phase = "unwind" =>
          /\ \A j \in 1 .. Len(work) : \E m \in 1 .. Len(opened) : work[j] = opened[m]
          /\ work # <<>> => \A t \in Symbols : orders'[LegKey(t)] # "FAILED"
    BY <1>1, <1>4, <1>8, <1>9 DEF SaneInv, OpenedInv
  <2> QED
    BY <1>1, <2>1, <2>2 DEF OpenedInv
<1> QED
  BY <1>15, <1>16, <1>17, <1>18, <1>19, <1>20, <1>21, <1>22, <1>23 DEF SaneInv

(* The order's row follows its order ...                                   *)
LEMMA SaveOrderInv == IInv /\ SaveOrder => IInv'
<1> SUFFICES ASSUME IInv, SaveOrder PROVE IInv'
  OBVIOUS
<1>1. /\ approved' = approved /\ underHalt' = underHalt
      /\ batch' = batch /\ start' = start /\ book' = book /\ saved' = saved /\ real' = real
      /\ halted' = halted /\ lapses' = lapses /\ phase' = phase /\ work' = work /\ cur' = cur
      /\ reducing' = reducing /\ results' = results /\ opened' = opened /\ answer' = answer
      /\ orders' = orders /\ sent' = sent
      /\ pc = "order" /\ pc' = "position"
      /\ rows' = [rows EXCEPT ![Key(Job)] = orders[Key(Job)]]
      /\ Job' = Job /\ Key(Job)' = Key(Job)
  BY DEF SaveOrder, fixedVars, callVars, memoryVars, Sound, Job, Key
<1>2. Key(Job) \in Keys
  BY <1>1, JobIs DEF IInv, WorkInv
<1>3. /\ rows' \in [Keys -> Statuses]
      /\ \A h \in Keys : rows'[h] = IF h = Key(Job) THEN orders[h] ELSE rows[h]
  BY <1>1, <1>2 DEF IInv, TypeInv
<1>4. TypeInv'
  BY <1>1, <1>3 DEF IInv, TypeInv
<1>5. WorkInv'
  BY <1>1 DEF IInv, WorkInv
<1>6. SUFFICES ASSUME Sane' PROVE SaneInv'
  BY <1>4, <1>5 DEF IInv
<1>7. Sane /\ SaneInv
  BY <1>1, <1>6 DEF IInv, Sane
<1>8. MirrorInv'
  BY <1>1, <1>3, <1>7 DEF SaneInv, MirrorInv
<1>9. OrdersInv'
  <2>1. pc # "wait" /\ pc' # "wait" /\ pc \in {"order", "position"}
    BY <1>1
  <2> QED
    BY <1>1, <1>7, <2>1 DEF SaneInv, OrdersInv
<1>10. LegsInv'
  BY <1>1, <1>7 DEF SaneInv, LegsInv
<1>11. BrokenInv'
  BY <1>1, <1>7 DEF SaneInv, BrokenInv
<1>12. StartInv'
  BY <1>1, <1>7 DEF SaneInv, StartInv, Reduces, Sizes
<1>13. CurInv'
  BY <1>1, <1>7 DEF SaneInv, CurInv
<1>14. EffectInv'
  BY <1>1, <1>7 DEF SaneInv, EffectInv, EachContractOnce
<1>15. BrokerInv'
  BY <1>1, <1>7 DEF SaneInv, BrokerInv
<1>16. OpenedInv'
  BY <1>1, <1>7 DEF SaneInv, OpenedInv
<1> QED
  BY <1>8, <1>9, <1>10, <1>11, <1>12, <1>13, <1>14, <1>15, <1>16 DEF SaneInv

(* ... and the position's its position; what the leg newly opened is       *)
(* noted for an unwind.                                                    *)
LEMMA SavePositionInv == IInv /\ SavePosition => IInv'
<1> SUFFICES ASSUME IInv, SavePosition PROVE IInv'
  OBVIOUS
<1> DEFINE s == Job.sym
           k == Key(Job)
           status == orders[Key(Job)]
           n == IF cur.size > 0 /\ status \in {"MONITORING", "PARTIALLY_FILLED"}
                THEN NewlyOpened(cur.before, book[Job.sym]) ELSE 0
           o == [kind |-> "unwind", sym |-> Job.sym, side |-> -Job.side, qty |-> n]
<1>1. /\ approved' = approved /\ underHalt' = underHalt
      /\ batch' = batch /\ start' = start /\ book' = book /\ rows' = rows /\ real' = real
      /\ halted' = halted /\ lapses' = lapses /\ phase' = phase /\ cur' = cur
      /\ reducing' = reducing /\ answer' = answer /\ orders' = orders /\ sent' = sent
      /\ pc = "position" /\ pc' = "next"
      /\ saved' = [saved EXCEPT ![s] = book[s]]
      /\ work' = Tail(work)
      /\ phase = "legs" => results' = Append(results, status)
      /\ phase = "legs" => opened' = IF n > 0 THEN Append(opened, o) ELSE opened
      /\ phase = "unwind" => results' = results /\ opened' = opened
  BY DEF SavePosition, fixedVars, memoryVars, Sound
<1>2. /\ Job = work[1] /\ Len(work) >= 1 /\ Len(work) \in Nat /\ Job \in Jobs
      /\ s \in Symbols /\ Job.side \in Sides /\ Job.qty \in Nat /\ Job.qty > 0 /\ k \in Keys
      /\ phase = "legs" => k = LegKey(s)
      /\ phase = "unwind" => k = UnwindKey(s)
  <2>1. work # <<>>
    BY <1>1 DEF IInv, WorkInv
  <2> QED
    BY <2>1, JobIs DEF IInv
<1>3. /\ Tail(work) \in Seq(Jobs) /\ Len(Tail(work)) = Len(work) - 1
      /\ \A j \in 1 .. Len(work) - 1 : Tail(work)[j] = work[j + 1]
  BY <1>2 DEF IInv, TypeInv
<1>4. n \in Nat /\ (n > 0 => o \in Jobs /\ o.kind = "unwind" /\ o.sym = s /\ o.side = -Job.side /\ o.qty = n)
  <2>1. n \in Nat
    <3>1. cur.before \in Int /\ book[s] \in Int
      BY <1>2 DEF IInv, TypeInv
    <3> QED
      BY <3>1, NewlyOpenedIs
  <2>2. -Job.side \in Sides
    BY <1>2, Opposite
  <2> HIDE DEF n
  <2> QED
    BY <1>2, <2>1, <2>2 DEF Jobs
<1>5. phase = "legs" => status \in Statuses
  BY <1>2 DEF IInv, TypeInv
<1>6. /\ n > 0 => cur.size > 0 /\ status \in {"MONITORING", "PARTIALLY_FILLED"}
      /\ n > 0 => n = NewlyOpened(cur.before, book[s])
  OBVIOUS
<1> HIDE DEF s, k, status, n, o
<1>7. /\ saved' \in [Symbols -> Int]
      /\ \A t \in Symbols : saved'[t] = IF t = s THEN book[t] ELSE saved[t]
  BY <1>1, <1>2 DEF IInv, TypeInv
<1>8. phase = "legs" \/ phase = "unwind"
  BY DEF IInv, TypeInv
<1>9. /\ opened \in Seq(Jobs) /\ results \in Seq(Statuses) /\ Len(opened) \in Nat /\ Len(results) \in Nat
  BY DEF IInv, TypeInv
<1>10. \/ opened' = opened
       \/ /\ phase = "legs" /\ n > 0
          /\ opened' \in Seq(Jobs) /\ Len(opened') = Len(opened) + 1 /\ opened'[Len(opened) + 1] = o
          /\ \A j \in 1 .. Len(opened) : opened'[j] = opened[j]
  <2>1. CASE phase = "legs" /\ n > 0
    <3>1. opened' = Append(opened, o) /\ o \in Jobs
      BY <1>1, <1>4, <2>1
    <3> QED
      BY <1>9, <2>1, <3>1
  <2>2. CASE ~(phase = "legs" /\ n > 0)
    BY <1>1, <1>8, <2>2
  <2> QED
    BY ONLY <2>1, <2>2
<1>11. TypeInv'
  <2>1. results' \in Seq(Statuses)
    BY <1>1, <1>5, <1>8, <1>9
  <2>2. opened' \in Seq(Jobs)
    BY <1>9, <1>10
  <2> QED
    BY <1>1, <1>3, <1>7, <2>1, <2>2 DEF IInv, TypeInv
<1>12. WorkInv'
  <2>1. \A j \in 1 .. Len(opened') : opened'[j].kind = "unwind"
    BY <1>4, <1>9, <1>10 DEF IInv, WorkInv
  <2>2. \A j \in 1 .. Len(work') : work'[j].kind = IF phase' = "legs" THEN "leg" ELSE "unwind"
    BY <1>1, <1>2, <1>3 DEF IInv, WorkInv
  <2>3. pc' # "idle" /\ underHalt' => reducing'
    BY <1>1 DEF IInv, WorkInv
  <2> QED
    BY <1>1, <2>1, <2>2, <2>3 DEF WorkInv
<1>13. SUFFICES ASSUME Sane' PROVE SaneInv'
  BY <1>11, <1>12 DEF IInv
<1>14. Sane /\ SaneInv
  BY <1>1, <1>13 DEF IInv, Sane
<1>15. status \in Final /\ status = orders[k]
  BY <1>1, <1>14 DEF SaneInv, OrdersInv, status, k
<1>16. MirrorInv'
  BY <1>1, <1>7, <1>14 DEF SaneInv, MirrorInv, s
<1>17. OrdersInv'
  <2>1. pc # "wait" /\ pc' # "wait" /\ pc' \notin {"order", "position"}
    BY <1>1
  <2> QED
    BY <1>1, <1>14, <2>1 DEF SaneInv, OrdersInv
<1>18. LegsInv'
  <2> SUFFICES ASSUME phase = "legs" PROVE LegsInv'
    BY <1>1 DEF LegsInv
  <2>1. /\ Len(results) + Len(work) = Len(batch)
        /\ \A j \in 1 .. Len(work) :
             /\ work[j].sym = batch[Len(results) + j].sym
             /\ work[j].side = batch[Len(results) + j].side
             /\ work[j].qty = batch[Len(results) + j].qty
        /\ \A i \in 1 .. Len(results) : results[i] = orders[LegKey(batch[i].sym)] /\ results[i] \in Final
    BY <1>1, <1>14 DEF SaneInv, LegsInv
  <2>2. /\ Len(results') = Len(results) + 1 /\ results'[Len(results) + 1] = status
        /\ \A i \in 1 .. Len(results) : results'[i] = results[i]
    BY <1>1, <1>5, <1>9
  <2>3. status = orders[LegKey(batch[Len(results) + 1].sym)]
    BY <1>2, <1>15, <2>1 DEF s
  <2>4. \A i \in 1 .. Len(results') : results'[i] = orders[LegKey(batch[i].sym)] /\ results'[i] \in Final
    BY <1>9, <1>15, <2>1, <2>2, <2>3
  <2>5. Len(results') + Len(work') = Len(batch)
    BY <1>1, <1>2, <1>3, <1>9, <2>1, <2>2
  <2>6. \A j \in 1 .. Len(work') :
          /\ work'[j].sym = batch[Len(results') + j].sym
          /\ work'[j].side = batch[Len(results') + j].side
          /\ work'[j].qty = batch[Len(results') + j].qty
    <3> SUFFICES ASSUME NEW j \in 1 .. Len(work')
                 PROVE  /\ work'[j].sym = batch[Len(results') + j].sym
                        /\ work'[j].side = batch[Len(results') + j].side
                        /\ work'[j].qty = batch[Len(results') + j].qty
      OBVIOUS
    <3>1. j \in 1 .. Len(work) - 1 /\ j + 1 \in 1 .. Len(work) /\ Len(results') + j = Len(results) + (j + 1)
      BY <1>1, <1>2, <1>3, <1>9, <2>2
    <3> QED
      BY <1>1, <1>3, <2>1, <3>1
  <2> QED
    BY <1>1, <2>4, <2>5, <2>6 DEF LegsInv
<1>19. BrokenInv'
  BY <1>1, <1>14 DEF SaneInv, BrokenInv
<1>20. StartInv'
  BY <1>1, <1>14 DEF SaneInv, StartInv, Reduces, Sizes
<1>21. CurInv'
  BY <1>1 DEF CurInv
<1>22. EffectInv'
  BY <1>1, <1>14 DEF SaneInv, EffectInv, EachContractOnce
<1>23. BrokerInv'
  BY <1>1, <1>14 DEF SaneInv, BrokerInv
<1>24. OpenedInv'
  <2>1. ASSUME NEW j \in 1 .. Len(opened'),
               orders[UnwindKey(opened'[j].sym)] \in {"none", "SUBMITTED"}
        PROVE  /\ opened'[j].qty = NewlyOpened(start[opened'[j].sym], book[opened'[j].sym])
               /\ book[opened'[j].sym] * opened'[j].side < 0
               /\ orders[LegKey(opened'[j].sym)] \in {"MONITORING", "PARTIALLY_FILLED"}
    <3>1. CASE j \in 1 .. Len(opened) /\ opened'[j] = opened[j]
      BY <1>1, <1>14, <2>1, <3>1 DEF SaneInv, OpenedInv
    <3>2. CASE phase = "legs" /\ n > 0 /\ opened'[j] = o
      <4>1. /\ cur.before = start[s]
            /\ (book[s] - start[s]) * Job.side >= 0
        BY <1>1, <1>6, <1>14, <3>2 DEF SaneInv, CurInv, s
      <4>2. n = NewlyOpened(start[s], book[s])
        BY <1>6, <3>2, <4>1
      <4>3. start[s] \in Int /\ book[s] \in Int
        BY <1>2 DEF IInv, TypeInv
      <4>4. book[s] * Job.side > 0
        BY <1>2, <3>2, <4>1, <4>2, <4>3, NewlyOpenedIs
      <4>5. book[s] * (-Job.side) < 0
        BY <1>2, <4>3, <4>4, Opposite
      <4>6. orders[LegKey(s)] \in {"MONITORING", "PARTIALLY_FILLED"}
        BY <1>2, <1>6, <1>15, <3>2
      <4> QED
        BY <1>4, <3>2, <4>2, <4>5, <4>6
    <3> QED
      BY <1>9, <1>10, <3>1, <3>2
  <2>2. phase = "unwind" =>
          /\ \A j \in 1 .. Len(work') : \E m \in 1 .. Len(opened') : work'[j] = opened'[m]
          /\ work' # <<>> => \A t \in Symbols : orders[LegKey(t)] # "FAILED"
    <3> SUFFICES ASSUME phase = "unwind"
                 PROVE  /\ \A j \in 1 .. Len(work') : \E m \in 1 .. Len(opened') : work'[j] = opened'[m]
                        /\ work' # <<>> => \A t \in Symbols : orders[LegKey(t)] # "FAILED"
      OBVIOUS
    <3>1. \A j \in 1 .. Len(work) : \E m \in 1 .. Len(opened) : work[j] = opened[m]
      BY <1>1, <1>14 DEF SaneInv, OpenedInv
    <3>2. work # <<>> /\ \A t \in Symbols : orders[LegKey(t)] # "FAILED"
      BY <1>1, <1>14 DEF SaneInv, OpenedInv, IInv, WorkInv
    <3> QED
      BY <1>1, <1>2, <1>3, <3>1, <3>2
  <2> QED
    BY <1>1, <2>1, <2>2 DEF OpenedInv
<1> QED
  BY <1>16, <1>17, <1>18, <1>19, <1>20, <1>21, <1>22, <1>23, <1>24 DEF SaneInv

(* What was opened becomes the work, if every leg's fate is known.         *)
LEMMA RemediateInv == IInv /\ Remediate => IInv'
<1> SUFFICES ASSUME IInv, Remediate PROVE IInv'
  OBVIOUS
<1>1. /\ approved' = approved /\ underHalt' = underHalt
      /\ batch' = batch /\ start' = start /\ book' = book /\ rows' = rows /\ saved' = saved
      /\ real' = real /\ halted' = halted /\ lapses' = lapses /\ cur' = cur
      /\ reducing' = reducing /\ answer' = answer /\ orders' = orders /\ sent' = sent
      /\ results' = results /\ opened' = opened
      /\ pc = "next" /\ pc' = "next" /\ phase = "legs" /\ phase' = "unwind" /\ work = <<>>
      /\ work' = IF Unknown = {} THEN opened ELSE <<>>
      /\ Established # DOMAIN results
  BY DEF Remediate, LegsDone, fixedVars, memoryVars, tableVars, Sound
<1>2. TypeInv'
  <2>1. work' \in Seq(Jobs)
    BY <1>1 DEF IInv, TypeInv
  <2> QED
    BY <1>1, <2>1 DEF IInv, TypeInv
<1>3. WorkInv'
  BY <1>1 DEF IInv, WorkInv
<1>4. SUFFICES ASSUME Sane' PROVE SaneInv'
  BY <1>2, <1>3 DEF IInv
<1>5. Sane /\ SaneInv
  BY <1>1, <1>4 DEF IInv, Sane
<1>6. /\ DOMAIN results = DOMAIN batch
      /\ \A i \in DOMAIN batch : results[i] = orders[LegKey(batch[i].sym)] /\ results[i] \in Final
  <2>1. /\ Len(results) + Len(work) = Len(batch)
        /\ \A i \in 1 .. Len(results) : results[i] = orders[LegKey(batch[i].sym)] /\ results[i] \in Final
    BY <1>1, <1>5 DEF SaneInv, LegsInv
  <2>2. Len(work) = 0 /\ Len(results) \in Nat /\ DOMAIN results = 1 .. Len(results)
    BY <1>1 DEF IInv, TypeInv
  <2> QED
    BY <2>1, <2>2, LegsOfBatch DEF IInv
<1>7. MirrorInv'
  BY <1>1, <1>5 DEF SaneInv, MirrorInv
<1>8. OrdersInv'
  BY <1>1, <1>5 DEF SaneInv, OrdersInv
<1>9. LegsInv'
  BY <1>1 DEF LegsInv
<1>10. BrokenInv'
  <2>1. PICK i \in DOMAIN results : results[i] # "MONITORING"
    BY <1>1 DEF Established
  <2> QED
    BY <1>1, <1>6, <2>1 DEF BrokenInv
<1>11. StartInv'
  <2>1. \A i \in DOMAIN batch : orders[LegKey(batch[i].sym)] # "none"
    BY <1>6 DEF Final
  <2> QED
    BY <1>1, <1>5, <2>1 DEF SaneInv, StartInv
<1>12. CurInv'
  BY <1>1 DEF CurInv
<1>13. EffectInv'
  BY <1>1, <1>5 DEF SaneInv, EffectInv, EachContractOnce
<1>14. BrokerInv'
  BY <1>1, <1>5 DEF SaneInv, BrokerInv
<1>15. OpenedInv'
  <2>1. work' # <<>> => \A s \in Symbols : orders[LegKey(s)] # "FAILED"
    <3> SUFFICES ASSUME Unknown = {}, NEW s \in Symbols, orders[LegKey(s)] = "FAILED" PROVE FALSE
      BY <1>1
    <3>1. PICK i \in DOMAIN batch : batch[i].sym = s
      BY <1>5 DEF SaneInv, StartInv
    <3> QED
      BY <1>6, <3>1 DEF Unknown
  <2>2. \A j \in 1 .. Len(work') : \E m \in 1 .. Len(opened) : work'[j] = opened[m]
    BY <1>1
  <2> QED
    BY <1>1, <1>5, <2>1, <2>2 DEF SaneInv, OpenedInv
<1> QED
  BY <1>7, <1>8, <1>9, <1>10, <1>11, <1>12, <1>13, <1>14, <1>15 DEF SaneInv

(* A process that dies between two calls finds in the tables what it had.  *)
LEMMA CrashInv == IInv /\ Crash => IInv'
<1> SUFFICES ASSUME IInv, Crash PROVE IInv'
  OBVIOUS
<1>1. /\ UNCHANGED <<fixedVars, callVars, rows, saved, sent, halted>>
      /\ orders' = rows /\ book' = saved
  BY DEF Crash, tableVars
<1>2. CASE pc = "idle"
  <2>1. pc' = "idle" /\ answer' = answer /\ lapses' = lapses /\ real' = real
    BY <1>2 DEF Crash
  <2>2. CASE Sane
    <3>1. \A k \in Keys : orders[k] = rows[k]
      BY <1>2, <2>2 DEF IInv, SaneInv, MirrorInv
    <3>2. \A s \in Symbols : book[s] = saved[s]
      BY <1>2, <2>2 DEF IInv, SaneInv, MirrorInv
    <3>3. orders' = orders /\ book' = book
      BY <1>1, <3>1, <3>2 DEF IInv, TypeInv
    <3>4. answer \in {"none", "refused", "failed", "intact", "nothing", "partly"} /\ halted \in BOOLEAN
      BY DEF IInv, TypeInv
    <3> QED
      BY <1>1, <1>2, <2>1, <3>3, <3>4, QuietInv
  <2>3. CASE ~Sane
    <3>1. ~Sane' /\ real' \in [Symbols -> Int]
      BY <2>1, <2>3 DEF Sane, IInv, TypeInv
    <3> QED
      BY <1>1, <2>1, <3>1, CutInv
  <2> QED
    BY <2>2, <2>3
<1>3. CASE pc # "idle"
  <2>1. pc' = "idle" /\ answer' = "failed" /\ ~Sane'
    BY <1>3 DEF Crash, Leave, Lapse, Sane
  <2>2. real' \in [Symbols -> Int]
    <3>1. CASE real' = real
      BY <3>1 DEF IInv, TypeInv
    <3>2. CASE pc = "wait" /\ Executes(cur.size)
      <4>1. cur.size \in Int
        BY DEF IInv, TypeInv
      <4> QED
        BY <3>2, <4>1, ExecutesIs
    <3> QED
      BY <3>1, <3>2 DEF Crash
  <2> QED
    BY <1>1, <2>1, <2>2, CutInv
<1> QED
  BY <1>2, <1>3

(* Another order between two calls moves the book, the table, the broker   *)
(* and what the positions are but for the strategy alike.                  *)
LEMMA ElsewhereInv ==
  ASSUME IInv, NEW s \in Symbols, NEW n \in -MaxHeld .. MaxHeld, Elsewhere(s, n)
  PROVE  IInv'
<1>1. /\ batch' = batch /\ approved' = approved /\ underHalt' = underHalt /\ pc' = pc /\ pc = "idle"
      /\ phase' = phase /\ work' = work /\ cur' = cur /\ reducing' = reducing /\ results' = results
      /\ opened' = opened /\ orders' = orders /\ rows' = rows /\ halted' = halted /\ sent' = sent
      /\ answer' = answer /\ lapses' = lapses
  BY DEF Elsewhere, callVars
<1>2. /\ start' \in [Symbols -> Int] /\ book' \in [Symbols -> Int]
      /\ saved' \in [Symbols -> Int] /\ real' \in [Symbols -> Int]
      /\ \A t \in Symbols : t # s => /\ start'[t] = start[t] /\ book'[t] = book[t]
                                     /\ saved'[t] = saved[t] /\ real'[t] = real[t]
      /\ start'[s] = start[s] + n /\ book'[s] = book[s] + n /\ real'[s] = real[s] + n
      /\ saved'[s] = book'[s]
  <2>1. n \in Int /\ start[s] \in Int /\ book[s] \in Int /\ real[s] \in Int
    BY DEF IInv, TypeInv
  <2>2. start[s] + n \in Int /\ book[s] + n \in Int /\ real[s] + n \in Int
    BY <2>1
  <2>3. book' \in [Symbols -> Int] /\ book'[s] = book[s] + n
    BY <2>2 DEF Elsewhere, IInv, TypeInv
  <2> QED
    BY <2>2, <2>3 DEF Elsewhere, IInv, TypeInv
<1>3. TypeInv'
  BY <1>1, <1>2 DEF IInv, TypeInv
<1>4. WorkInv'
  BY <1>1 DEF IInv, WorkInv
<1>5. SUFFICES ASSUME Sane' PROVE SaneInv'
  BY <1>3, <1>4 DEF IInv
<1>6. Sane /\ SaneInv
  BY <1>1, <1>5 DEF IInv, Sane
<1>7. \A t \in Symbols : /\ start[t] \in Int /\ book[t] \in Int /\ real[t] \in Int
                         /\ book[t] = start[t] => book'[t] = start'[t]
                         /\ real[t] = start[t] => real'[t] = start'[t]
                         /\ real[t] = book[t] => real'[t] = book'[t]
                         /\ book[t] = saved[t] => book'[t] = saved'[t]
                         /\ \A e \in Int : real[t] = start[t] + e => real'[t] = start'[t] + e
  <2>1. n \in Int /\ \A t \in Symbols : start[t] \in Int /\ book[t] \in Int /\ real[t] \in Int
    BY DEF IInv, TypeInv
  <2>2. ASSUME NEW t \in Symbols
        PROVE  /\ book[t] = start[t] => book'[t] = start'[t]
               /\ real[t] = start[t] => real'[t] = start'[t]
               /\ real[t] = book[t] => real'[t] = book'[t]
               /\ book[t] = saved[t] => book'[t] = saved'[t]
               /\ \A e \in Int : real[t] = start[t] + e => real'[t] = start'[t] + e
    <3>1. CASE t = s
      <4>1. \A e \in Int : real[s] = start[s] + e => real[s] + n = (start[s] + n) + e
        BY <2>1
      <4> QED
        BY <1>2, <3>1, <4>1
    <3>2. CASE t # s
      BY <1>2, <3>2
    <3> QED
      BY <3>1, <3>2
  <2> QED
    BY <2>1, <2>2
<1>8. \A i \in DOMAIN batch : batch[i].sym \in Symbols /\ batch[i].side * approved[i] \in Int
  <2>1. \A i \in DOMAIN batch : batch[i].sym \in Symbols /\ batch[i].side \in Int
    BY LegsOfBatch DEF IInv, Sides
  <2>2. \A i \in DOMAIN batch : approved[i] \in Int
    BY DEF IInv, TypeInv
  <2> QED
    BY <2>1, <2>2
<1>9. MirrorInv'
  BY <1>1, <1>6, <1>7 DEF SaneInv, MirrorInv
<1>10. OrdersInv'
  BY <1>1, <1>6 DEF SaneInv, OrdersInv
<1>11. LegsInv'
  BY <1>1 DEF LegsInv
<1>12. BrokenInv'
  BY <1>1, <1>6 DEF SaneInv, BrokenInv
<1>13. StartInv'
  BY <1>1, <1>6, <1>7 DEF SaneInv, StartInv
<1>14. CurInv'
  BY <1>1 DEF CurInv
<1>15. EffectInv'
  BY <1>1, <1>6, <1>7, <1>8 DEF SaneInv, EffectInv, EachContractOnce
<1>16. BrokerInv'
  BY <1>1, <1>6, <1>7 DEF SaneInv, BrokerInv
<1>17. OpenedInv'
  BY <1>1 DEF OpenedInv
<1> QED
  BY <1>9, <1>10, <1>11, <1>12, <1>13, <1>14, <1>15, <1>16, <1>17 DEF SaneInv

LEMMA NextInv == IInv /\ [Next]_vars => IInv'
<1> SUFFICES ASSUME IInv, [Next]_vars PROVE IInv'
  OBVIOUS
<1>0. /\ answer \in {"none", "refused", "failed", "intact", "nothing", "partly"}
      /\ halted \in BOOLEAN /\ cur.size \in Nat
      /\ {"MONITORING", "PARTIALLY_FILLED", "ACKNOWLEDGED", "REJECTED", "FAILED"} \subseteq Final
  BY DEF IInv, TypeInv, Final
<1> USE DEF fixedVars, memoryVars, tableVars, Sound, Leave, Lapse
<1>1. CASE Begin
  BY <1>1, BeginInv
<1>2. CASE Refuse
  BY <1>0, <1>2, QuietInv DEF Refuse
<1>3. CASE Send
  BY <1>3, SendInv
<1>4. CASE Dedupe
  BY <1>4, DedupeInv
<1>5. CASE Fills
  <2>1. Settle("MONITORING", cur.size) /\ Executes(cur.size) /\ lapses' = lapses
    BY <1>5 DEF Fills
  <2> QED
    BY <1>0, <2>1, SettleInv
<1>6. ASSUME NEW n \in 1 .. cur.size, FillsPartly(n) PROVE IInv'
  <2>1. /\ Settle("PARTIALLY_FILLED", n) /\ Executes(n) /\ n \in Nat /\ n <= cur.size
        /\ lapses' = lapses \cup {"partial"}
    BY <1>0, <1>6 DEF FillsPartly
  <2> QED
    BY <1>0, <2>1, SettleInv
<1>7. CASE Acknowledges
  <2>1. /\ Settle("ACKNOWLEDGED", 0) /\ lapses' = lapses \cup {"resting"}
        /\ Executes(0) \/ Executes(cur.size)
    BY <1>7 DEF Acknowledges
  <2>2. CASE Executes(0)
    BY <1>0, <2>1, <2>2, SettleInv
  <2>3. CASE Executes(cur.size)
    BY <1>0, <2>1, <2>3, SettleInv
  <2> QED
    BY <2>1, <2>2, <2>3
<1>8. CASE Rejects
  <2>1. Settle("REJECTED", 0) /\ Executes(0) /\ lapses' = lapses
    BY <1>8 DEF Rejects
  <2> QED
    BY <1>0, <2>1, SettleInv
<1>9. CASE Unanswered
  <2>1. /\ Settle("FAILED", 0) /\ lapses' = lapses
        /\ Executes(0) \/ Executes(cur.size)
    BY <1>9 DEF Unanswered
  <2>2. CASE Executes(0)
    BY <1>0, <2>1, <2>2, SettleInv
  <2>3. CASE Executes(cur.size)
    BY <1>0, <2>1, <2>3, SettleInv
  <2> QED
    BY <2>1, <2>2, <2>3
<1>10. CASE SaveOrder
  BY <1>10, SaveOrderInv
<1>11. CASE SavePosition
  BY <1>11, SavePositionInv
<1>12. CASE Intact
  BY <1>0, <1>12, QuietInv DEF Intact, LegsDone
<1>13. CASE NothingReached
  BY <1>0, <1>13, QuietInv DEF NothingReached, LegsDone
<1>14. CASE Remediate
  BY <1>14, RemediateInv
<1>15. CASE Unwound
  BY <1>0, <1>15, QuietInv DEF Unwound
<1>16. CASE Halt
  BY <1>0, <1>16, QuietInv DEF Halt
<1>17. CASE SubmitRaises
  <2>1. real' \in [Symbols -> Int]
    BY <1>0, <1>17, ExecutesIs DEF SubmitRaises
  <2> QED
    BY <1>17, <2>1, CutInv DEF SubmitRaises, Sane
<1>18. CASE WriteRaises
  <2>1. real' \in [Symbols -> Int]
    BY <1>18 DEF WriteRaises, IInv, TypeInv
  <2> QED
    BY <1>18, <2>1, CutInv DEF WriteRaises, Sane
<1>19. CASE Resume
  BY <1>0, <1>19, QuietInv DEF Resume
<1>20. CASE Crash
  BY <1>20, CrashInv
<1>21. ASSUME NEW s \in Symbols, NEW n \in -MaxHeld .. MaxHeld, Elsewhere(s, n) PROVE IInv'
  BY <1>21, ElsewhereInv
<1>22. CASE HaltElsewhere
  BY <1>0, <1>22, QuietInv DEF HaltElsewhere
<1>23. CASE UNCHANGED vars
  BY <1>0, <1>23, QuietInv DEF vars
<1> QED
  BY <1>1, <1>2, <1>3, <1>4, <1>5, <1>6, <1>7, <1>8, <1>9, <1>10, <1>11, <1>12, <1>13, <1>14, <1>15,
     <1>16, <1>17, <1>18, <1>19, <1>20, <1>21, <1>22, <1>23 DEF Next

LEMMA SpecInv == Spec => []IInv
  BY InitInv, NextInv, PTL DEF Spec
-----------------------------------------------------------------------------
(* A retry sends nothing again: an order of a call that was not cut short  *)
(* is known by its key, in memory and after a restart (create_order on     *)
(* (user, batch, contract)).                                               *)
THEOREM LegsSubmittedOnce == Spec => []OneSubmissionPerLeg
<1>1. IInv => OneSubmissionPerLeg
  BY DEF IInv, Sane, SaneInv, OrdersInv, OneSubmissionPerLeg
<1> QED
  BY <1>1, SpecInv, PTL

(* A call that ends without an unwind leaves a leg that is established as  *)
(* approved, and a leg that was rejected as it was.                        *)
LEMMA EndOfLegs ==
  ASSUME IInv, Sane, LegsDone
  PROVE  /\ DOMAIN results = DOMAIN batch
         /\ \A i \in DOMAIN batch : results[i] = orders[LegKey(batch[i].sym)] /\ results[i] \in Final
<1>1. /\ Len(results) + Len(work) = Len(batch)
      /\ \A i \in 1 .. Len(results) : results[i] = orders[LegKey(batch[i].sym)] /\ results[i] \in Final
  BY DEF IInv, SaneInv, LegsInv, LegsDone
<1>2. Len(work) = 0 /\ Len(results) \in Nat /\ DOMAIN results = 1 .. Len(results)
  BY DEF IInv, TypeInv, LegsDone
<1> QED
  BY <1>1, <1>2, LegsOfBatch DEF IInv

LEMMA EstablishedIsApproved ==
  ASSUME IInv, Sane, EachContractOnce,
         \A i \in DOMAIN batch : orders[LegKey(batch[i].sym)] = "MONITORING"
  PROVE  real = Approved
<1>1. \A s \in Symbols : orders[UnwindKey(s)] = "none"
  BY DEF IInv, SaneInv, BrokenInv
<1>2. ASSUME NEW s \in Symbols PROVE real[s] = Approved[s]
  <2> DEFINE legs == {i \in DOMAIN batch : batch[i].sym = s}
  <2>1. Approved[s] = IF legs = {} THEN start[s]
                      ELSE LET leg == CHOOSE i \in legs : TRUE
                           IN start[s] + batch[leg].side * approved[leg]
    BY DEF Approved
  <2>2. CASE legs = {}
    <3>1. orders[LegKey(s)] = "none"
      BY <2>2 DEF IInv, SaneInv, StartInv
    <3> QED
      BY <2>1, <2>2, <3>1 DEF IInv, SaneInv, StartInv
  <2>3. CASE legs # {}
    <3>1. PICK i \in DOMAIN batch : i = (CHOOSE j \in legs : TRUE) /\ batch[i].sym = s
      BY <2>3
    <3>2. real[s] = start[s] + batch[i].side * approved[i]
      BY <1>1, <3>1 DEF IInv, SaneInv, EffectInv
    <3> QED
      BY <2>1, <2>3, <3>1, <3>2
  <2> QED
    BY <2>2, <2>3
<1>3. real \in [Symbols -> Int] /\ DOMAIN Approved = Symbols
  BY DEF IInv, TypeInv, Approved
<1>4. Approved = [s \in Symbols |-> Approved[s]] /\ real = [s \in Symbols |-> real[s]]
  BY <1>3 DEF Approved
<1> QED
  BY <1>2, <1>4

(* "intact" is the answer of the call that just ended: since then only     *)
(* other orders moved the positions, which move what the positions are but *)
(* for the strategy alike.                                                 *)
AnswerInv == answer = "intact" /\ Sane => pc = "idle" /\ (EachContractOnce => real = Approved)

LEMMA ApprovedShifts ==
  ASSUME IInv, NEW s \in Symbols, NEW n \in Int, batch' = batch, approved' = approved,
         real' = [real EXCEPT ![s] = @ + n], start' = [start EXCEPT ![s] = @ + n], real = Approved
  PROVE  real' = Approved'
<1> DEFINE legs(t) == {i \in DOMAIN batch : batch[i].sym = t}
           leg(t) == CHOOSE i \in legs(t) : TRUE
           own(t) == IF legs(t) = {} THEN 0 ELSE batch[leg(t)].side * approved[leg(t)]
<1>1. \A t \in Symbols : own(t) \in Int
  <2>1. \A t \in Symbols : legs(t) # {} => leg(t) \in DOMAIN batch
    OBVIOUS
  <2>2. \A i \in DOMAIN batch : batch[i].side \in Int /\ approved[i] \in Int
    <3>1. \A i \in DOMAIN batch : batch[i].side \in Int
      BY LegsOfBatch DEF IInv, Sides
    <3> QED
      BY <3>1 DEF IInv, TypeInv
  <2> HIDE DEF legs, leg
  <2> QED
    BY <2>1, <2>2
<1>2. start \in [Symbols -> Int] /\ real \in [Symbols -> Int]
  BY DEF IInv, TypeInv
<1>3. \A t \in Symbols : Approved[t] = start[t] + own(t)
  BY <1>2 DEF Approved
<1>4. \A t \in Symbols : Approved'[t] = start'[t] + own(t)
  <2>1. \A t \in Symbols : start'[t] \in Int
    BY <1>2
  <2> QED
    BY <2>1 DEF Approved
<1> HIDE DEF own
<1>5. \A t \in Symbols : real'[t] = Approved'[t]
  <2> SUFFICES ASSUME NEW t \in Symbols PROVE real'[t] = start'[t] + own(t)
    BY <1>4
  <2>1. real[t] = start[t] + own(t)
    BY <1>3
  <2>2. CASE t = s
    <3>1. real'[t] = real[t] + n /\ start'[t] = start[t] + n
      BY <1>2, <2>2
    <3> QED
      BY <1>1, <1>2, <2>1, <3>1
  <2>3. CASE t # s
    BY <1>2, <2>1, <2>3
  <2> QED
    BY <2>2, <2>3
<1>6. real' \in [Symbols -> Int] /\ DOMAIN Approved' = Symbols
  BY <1>2 DEF Approved
<1>7. Approved' = [t \in Symbols |-> Approved'[t]]
  BY DEF Approved
<1> QED
  BY <1>5, <1>6, <1>7

LEMMA AnswerNext == IInv /\ AnswerInv /\ [Next]_vars => AnswerInv'
<1> SUFFICES ASSUME IInv, AnswerInv, [Next]_vars, answer' = "intact", Sane'
             PROVE  pc' = "idle" /\ (EachContractOnce' => real' = Approved')
  BY DEF AnswerInv
<1> USE DEF fixedVars, memoryVars, tableVars, callVars, Sound, Leave, Lapse
<1>0. Sane
  BY DEF Sane, Next, vars, Begin, Refuse, Send, Dedupe, Fills, FillsPartly, Acknowledges, Rejects, Unanswered,
         SaveOrder, SavePosition, Intact, NothingReached, Remediate, Unwound, Halt, SubmitRaises, WriteRaises,
         Resume, HaltElsewhere, Elsewhere, Crash
<1>1. CASE Intact
  <2>1. /\ UNCHANGED <<batch, start, approved, real, orders>> /\ pc' = "idle" /\ LegsDone
        /\ Established = DOMAIN results
    BY <1>1 DEF Intact
  <2>2. \A i \in DOMAIN batch : orders[LegKey(batch[i].sym)] = "MONITORING"
    BY <1>0, <2>1, EndOfLegs DEF Established
  <2>3. EachContractOnce => real = Approved
    BY <1>0, <2>2, EstablishedIsApproved
  <2> QED
    BY <2>1, <2>3 DEF EachContractOnce, Approved
<1>2. ASSUME NEW s \in Symbols, NEW n \in -MaxHeld .. MaxHeld, Elsewhere(s, n)
      PROVE  pc' = "idle" /\ (EachContractOnce' => real' = Approved')
  <2>1. /\ answer = "intact" /\ pc' = pc /\ batch' = batch /\ approved' = approved
        /\ real' = [real EXCEPT ![s] = @ + n] /\ start' = [start EXCEPT ![s] = @ + n]
    BY <1>2 DEF Elsewhere
  <2>2. pc = "idle" /\ (EachContractOnce => real = Approved)
    BY <1>0, <2>1 DEF AnswerInv
  <2>3. ASSUME real = Approved PROVE real' = Approved'
    <3>1. n \in Int
      OBVIOUS
    <3> QED
      BY <2>1, <2>3, <3>1, ApprovedShifts
  <2> QED
    BY <2>1, <2>2, <2>3 DEF EachContractOnce
<1>3. CASE ~Intact /\ ~(\E s \in Symbols, n \in -MaxHeld .. MaxHeld : Elsewhere(s, n))
  <2>1. answer = "intact" /\ UNCHANGED <<batch, start, approved, real>> /\ pc = "idle" /\ pc' = "idle"
    <3>1. answer = "intact" => pc = "idle"
      BY <1>0 DEF AnswerInv
    <3>2. answer' = answer
      BY <1>3 DEF Next, vars, Begin, Refuse, Send, Dedupe, Fills, FillsPartly, Acknowledges, Rejects, Unanswered,
         Settle, SaveOrder, SavePosition, NothingReached, Remediate, Unwound, Halt, SubmitRaises, WriteRaises,
         Resume, HaltElsewhere, Crash
    <3>3. pc = "idle"
      BY <3>1, <3>2
    <3> QED
      BY <1>3, <3>2, <3>3 DEF Next, vars, Begin, Refuse, Send, Dedupe, Fills, FillsPartly, Acknowledges, Rejects,
         Unanswered, Settle, SaveOrder, SavePosition, NothingReached, Remediate, Unwound, Halt, SubmitRaises,
         WriteRaises, Resume, HaltElsewhere, Crash, LegsDone
  <2> QED
    BY <1>0, <2>1 DEF AnswerInv, EachContractOnce, Approved
<1> QED
  BY <1>1, <1>2, <1>3

(* A strategy reported intact was executed as approved, each leg whole and *)
(* once, also for a retry that finds every leg known, an account resumed   *)
(* in between, and whatever other orders of the user did since: an unwind  *)
(* leaves a leg that is never established any more                         *)
(* (_remediate_partial_batch).                                             *)
THEOREM IntactIsExecuted == Spec => []IntactMeansExecuted
<1>1. Init => AnswerInv
  BY DEF Init, AnswerInv
<1>2. AnswerInv => IntactMeansExecuted
  BY DEF AnswerInv, Sane, IntactMeansExecuted
<1> QED
  BY <1>1, <1>2, AnswerNext, SpecInv, PTL DEF Spec
-----------------------------------------------------------------------------
(* A fill against a position that is no larger than it.                    *)
LEMMA Shrinks ==
  ASSUME NEW n \in Int, NEW side \in Sides, NEW m \in Nat, n * side < 0, m <= Abs(n)
  PROVE  /\ Abs(n + side * m) = Abs(n) - m
         /\ n * (n + side * m) >= 0
<1>1. (side = 1 /\ n < 0) \/ (side + 1 = 0 /\ n > 0)
  BY Opposite
<1>2. CASE side = 1 /\ n < 0
  <2>1. side * m = m /\ Abs(n) = -n
    BY <1>2, AbsIs
  <2>2. n + m <= 0 /\ n + m \in Int
    BY <1>2, <2>1
  <2> QED
    BY <1>2, <2>1, <2>2, AbsIs, SignOfProduct
<1>3. CASE side + 1 = 0 /\ n > 0
  <2>1. side * m = -m /\ Abs(n) = n
    <3>1. side \in Int
      BY DEF Sides
    <3> QED
      BY <1>3, <3>1, AbsIs
  <2>2. n - m >= 0 /\ n - m \in Int /\ n + (-m) = n - m
    BY <1>3, <2>1
  <2> QED
    BY <1>3, <2>1, <2>2, AbsIs, SignOfProduct
<1> QED
  BY <1>1, <1>2, <1>3

(* The only steps of a call that move a position in memory or at the       *)
(* broker.                                                                 *)
LEMMA Moves ==
  ASSUME IInv, [Next]_vars, Sane', pc # "idle"
  PROVE  \/ book' = book /\ real' = real
         \/ /\ pc = "wait" /\ pc' = "order" /\ Sane
            /\ Job.sym \in Symbols /\ Job.side \in Sides
            /\ \E filled \in 0 .. cur.size, executed \in 0 .. cur.size :
                 /\ \A t \in Symbols : book'[t] = IF t = Job.sym THEN book[t] + Job.side * filled ELSE book[t]
                 /\ \A t \in Symbols : real'[t] = IF t = Job.sym THEN real[t] + Job.side * executed ELSE real[t]
<1> USE DEF fixedVars, memoryVars, tableVars, callVars, Sound, Leave, Lapse
<1>1. ASSUME NEW status, NEW filled \in 0 .. cur.size, NEW executed \in 0 .. cur.size,
             Settle(status, filled), Executes(executed), lapses \subseteq lapses'
      PROVE  /\ pc = "wait" /\ pc' = "order" /\ Sane
             /\ Job.sym \in Symbols /\ Job.side \in Sides
             /\ \E f \in 0 .. cur.size, e \in 0 .. cur.size :
                  /\ \A t \in Symbols : book'[t] = IF t = Job.sym THEN book[t] + Job.side * f ELSE book[t]
                  /\ \A t \in Symbols : real'[t] = IF t = Job.sym THEN real[t] + Job.side * e ELSE real[t]
  <2>1. pc = "wait" /\ pc' = "order" /\ Sane
    BY <1>1 DEF Settle, Sane
  <2>2. Job.sym \in Symbols /\ Job.side \in Sides
    BY <2>1, JobIs DEF IInv, WorkInv
  <2>3. \A t \in Symbols : book'[t] = IF t = Job.sym THEN book[t] + Job.side * filled ELSE book[t]
    BY <1>1, <2>2 DEF Settle, IInv, TypeInv
  <2>4. \A t \in Symbols : real'[t] = IF t = Job.sym THEN real[t] + Job.side * executed ELSE real[t]
    BY <1>1, <2>2 DEF Executes, IInv, TypeInv
  <2> QED
    BY <2>1, <2>2, <2>3, <2>4
<1>2. 0 \in 0 .. cur.size /\ cur.size \in 0 .. cur.size /\ \A n \in 1 .. cur.size : n \in 0 .. cur.size
  BY DEF IInv, TypeInv
<1>3. CASE Fills \/ Acknowledges \/ Rejects \/ Unanswered \/ \E n \in 1 .. cur.size : FillsPartly(n)
  <2>1. PICK status \in Final, filled \in 0 .. cur.size, executed \in 0 .. cur.size :
          Settle(status, filled) /\ Executes(executed) /\ lapses \subseteq lapses'
    <3>1. {"MONITORING", "PARTIALLY_FILLED", "ACKNOWLEDGED", "REJECTED", "FAILED"} \subseteq Final
      BY DEF Final
    <3>2. CASE Fills
      BY <1>2, <3>1, <3>2 DEF Fills
    <3>3. CASE Acknowledges
      BY <1>2, <3>1, <3>3 DEF Acknowledges
    <3>4. CASE Rejects
      BY <1>2, <3>1, <3>4 DEF Rejects
    <3>5. CASE Unanswered
      BY <1>2, <3>1, <3>5 DEF Unanswered
    <3>6. CASE \E n \in 1 .. cur.size : FillsPartly(n)
      BY <1>2, <3>1, <3>6 DEF FillsPartly
    <3> QED
      BY <1>3, <3>2, <3>3, <3>4, <3>5, <3>6
  <2> QED
    BY <1>1, <2>1
<1>4. CASE Crash
  BY <1>4 DEF Crash, Sane
<1>5. CASE SubmitRaises
  BY <1>5 DEF SubmitRaises, Sane
<1>6. CASE UNCHANGED vars \/ Begin \/ Refuse \/ Send \/ Dedupe \/ SaveOrder \/ SavePosition \/ Intact
           \/ NothingReached \/ Remediate \/ Unwound \/ Halt \/ WriteRaises \/ Resume \/ HaltElsewhere
  BY <1>6 DEF vars, Begin, Refuse, Send, Dedupe, SaveOrder, SavePosition, Intact, NothingReached,
              Remediate, Unwound, Halt, WriteRaises, Resume, HaltElsewhere
<1>7. ~(\E s \in Symbols, n \in -MaxHeld .. MaxHeld : Elsewhere(s, n))
  BY DEF Elsewhere
<1> QED
  BY <1>3, <1>4, <1>5, <1>6, <1>7 DEF Next

(* An unwind on its way is against the position, and no larger than what   *)
(* its leg newly opened of it.                                             *)
LEMMA UnwindFits ==
  ASSUME IInv, Sane, pc = "wait", phase = "unwind"
  PROVE  LET s == Job.sym IN
         /\ book[s] * Job.side < 0
         /\ cur.size = NewlyOpened(start[s], book[s]) /\ cur.size <= Abs(book[s])
         /\ orders[LegKey(s)] \in {"MONITORING", "PARTIALLY_FILLED"}
         /\ orders[UnwindKey(s)] = "SUBMITTED"
<1>1. /\ Job = work[1] /\ Len(work) >= 1 /\ Len(work) \in Nat
      /\ Job.sym \in Symbols /\ Job.qty \in Nat
      /\ Key(Job) \in Keys /\ Key(Job) = UnwindKey(Job.sym)
  BY JobIs DEF IInv, WorkInv
<1>2. orders[UnwindKey(Job.sym)] = "SUBMITTED"
  BY <1>1 DEF IInv, SaneInv, OrdersInv
<1>3. PICK m \in 1 .. Len(opened) : Job = opened[m]
  BY <1>1 DEF IInv, SaneInv, OpenedInv
<1>4. /\ Job.qty = NewlyOpened(start[Job.sym], book[Job.sym])
      /\ book[Job.sym] * Job.side < 0
      /\ orders[LegKey(Job.sym)] \in {"MONITORING", "PARTIALLY_FILLED"}
  BY <1>2, <1>3 DEF IInv, SaneInv, OpenedInv
<1>5. start[Job.sym] \in Int /\ book[Job.sym] \in Int
  BY <1>1 DEF IInv, TypeInv
<1>6. Job.qty <= Abs(book[Job.sym]) /\ Abs(book[Job.sym]) \in Nat
  BY <1>4, <1>5, NewlyOpenedIs, AbsIs
<1>7. cur.size = Job.qty
  BY <1>1, <1>6 DEF IInv, SaneInv, CurInv, Least
<1> QED
  BY <1>2, <1>4, <1>6, <1>7

(* Unwinding gives back what the call opened and no more (_submit_leg:     *)
(* "unwinding 50 would open a fresh position of its own").                 *)
THEOREM UnwindGivesBackOnly == Spec => UnwindStopsAtStart
<1>1. ASSUME IInv, [Next]_vars, pc # "idle", phase = "unwind", lapses' \cap {"raised", "interrupted"} = {}, NEW s \in Symbols
      PROVE  \/ book'[s] = book[s]
             \/ /\ Abs(book'[s]) < Abs(book[s]) /\ book[s] * book'[s] >= 0
                /\ book[s] * start[s] > 0 => Abs(book'[s]) >= Abs(start[s])
  <2>1. Sane'
    BY <1>1 DEF Sane
  <2>2. CASE book' = book
    BY <2>2
  <2>3. CASE book' # book
    <3>1. PICK filled \in 0 .. cur.size, executed \in 0 .. cur.size :
            /\ \A t \in Symbols : book'[t] = IF t = Job.sym THEN book[t] + Job.side * filled ELSE book[t]
            /\ \A t \in Symbols : real'[t] = IF t = Job.sym THEN real[t] + Job.side * executed ELSE real[t]
      BY <1>1, <2>1, <2>3, Moves
    <3>2. pc = "wait" /\ Sane /\ Job.sym \in Symbols /\ Job.side \in Sides
      BY <1>1, <2>1, <2>3, Moves
    <3>3. CASE s # Job.sym
      BY <3>1, <3>3
    <3>4. CASE s = Job.sym
      <4>1. /\ book[s] * Job.side < 0 /\ cur.size = NewlyOpened(start[s], book[s])
            /\ cur.size <= Abs(book[s])
        BY <1>1, <3>2, <3>4, UnwindFits
      <4>2. start[s] \in Int /\ book[s] \in Int /\ cur.size \in Nat /\ filled \in Nat /\ filled <= cur.size
        BY <1>1 DEF IInv, TypeInv
      <4>3. Abs(book[s]) \in Nat /\ Abs(start[s]) \in Nat
        BY <4>2, AbsIs
      <4>4. filled <= Abs(book[s])
        BY <4>1, <4>2, <4>3
      <4>5. book'[s] = book[s] + Job.side * filled
        BY <3>1, <3>4
      <4>6. Abs(book'[s]) = Abs(book[s]) - filled /\ book[s] * book'[s] >= 0
        BY <3>2, <4>1, <4>2, <4>4, <4>5, Shrinks
      <4>7. CASE filled = 0
        <5>1. Job.side * 0 = 0
          BY <3>2 DEF Sides
        <5> QED
          BY <4>2, <4>5, <4>7, <5>1
      <4>8. CASE filled > 0
        <5>1. Abs(book'[s]) < Abs(book[s])
          BY <4>2, <4>3, <4>6, <4>8
        <5>2. ASSUME book[s] * start[s] > 0 PROVE Abs(book'[s]) >= Abs(start[s])
          <6>1. start[s] * book[s] > 0
            BY <4>2, <5>2, SignOfProduct
          <6>2. \/ NewlyOpened(start[s], book[s]) = 0
                \/ NewlyOpened(start[s], book[s]) = Abs(book[s]) - Abs(start[s])
            BY <4>2, <6>1, NewlyOpenedIs
          <6>3. cur.size = Abs(book[s]) - Abs(start[s])
            BY <4>1, <4>2, <4>8, <6>2
          <6> QED
            BY <4>2, <4>3, <4>6, <6>3
        <5> QED
          BY <4>6, <5>1, <5>2
      <4> QED
        BY <4>2, <4>7, <4>8
    <3> QED
      BY <3>3, <3>4
  <2> QED
    BY <2>2, <2>3
<1>2. IInv /\ [Next]_vars
        => (pc # "idle" /\ phase = "unwind" /\ lapses' \cap {"raised", "interrupted"} = {} =>
              \A s \in Symbols :
                \/ book'[s] = book[s]
                \/ /\ Abs(book'[s]) < Abs(book[s]) /\ book[s] * book'[s] >= 0
                   /\ book[s] * start[s] > 0 => Abs(book'[s]) >= Abs(start[s]))
  BY <1>1
<1> QED
  BY <1>2, SpecInv, PTL DEF Spec, UnwindStopsAtStart

(* Unwind orders go out only while the book is what the broker holds, but  *)
(* for unwinds that were themselves left unanswered                        *)
(* (_remediate_partial_batch: an unknown leg is never unwound).            *)
THEOREM UnwindsAreInformed == Spec => UnwindKnowsTheMarket
<1>1. ASSUME IInv, [Next]_vars, lapses \cap {"resting", "raised", "interrupted"} = {},
             NEW s \in Symbols, NEW t \in Symbols,
             sent'[<<"unwind", s>>] > sent[<<"unwind", s>>], orders[<<"unwind", t>>] # "FAILED"
      PROVE  real[t] = book[t]
  <2>1. sent[<<"unwind", s>>] \in Nat /\ sent \in [Keys -> Nat]
    BY <1>1, KeysApart DEF IInv, TypeInv, UnwindKey
  <2>2. sent' # sent
    BY <1>1, <2>1
  <2>3. Send
    BY <1>1, <2>2 DEF Next, vars, Begin, Refuse, Dedupe, Fills, FillsPartly, Acknowledges, Rejects, Unanswered,
         Settle, SaveOrder, SavePosition, Intact, NothingReached, Remediate, Unwound, Halt, SubmitRaises,
         WriteRaises, Resume, HaltElsewhere, Elsewhere, Crash
  <2>4. pc = "next" /\ work # <<>> /\ sent' = [sent EXCEPT ![Key(Job)] = @ + 1]
    BY <2>3 DEF Send
  <2>5. Key(Job) = UnwindKey(s)
    BY <1>1, <2>1, <2>4, JobIs DEF IInv, UnwindKey
  <2>6. phase = "unwind"
    BY <1>1, <2>4, <2>5, JobIs, KeysApart DEF IInv, TypeInv
  <2>7. orders[LegKey(t)] # "FAILED"
    BY <1>1, <2>4, <2>6 DEF IInv, Sane, SaneInv, OpenedInv
  <2> QED
    BY <1>1, <2>7 DEF IInv, Sane, SaneInv, BrokerInv, UnwindKey
<1>2. IInv /\ [Next]_vars
        => (lapses \cap {"resting", "raised", "interrupted"} = {} =>
              \A s, t \in Symbols :
                sent'[<<"unwind", s>>] > sent[<<"unwind", s>>] /\ orders[<<"unwind", t>>] # "FAILED"
                  => real[t] = book[t])
  BY <1>1
<1> QED
  BY <1>2, SpecInv, PTL DEF Spec, UnwindKnowsTheMarket
LEMMA LapsesStay == [Next]_vars => lapses \subseteq lapses'
BY DEF Next, vars, Begin, Refuse, Send, Dedupe, Fills, FillsPartly, Acknowledges, Rejects, Unanswered,
       SaveOrder, SavePosition, Intact, NothingReached, Remediate, Unwound, Halt, SubmitRaises, WriteRaises,
       Resume, HaltElsewhere, Elsewhere, Crash, Sound, Lapse

(* An order of a call let through a halt is against the position at the    *)
(* broker, and no larger.                                                  *)
LEMMA HaltedFits ==
  ASSUME IInv, Sane, "resting" \notin lapses, underHalt, pc = "wait"
  PROVE  real[Job.sym] * Job.side < 0 /\ cur.size <= Abs(real[Job.sym])
<1>1. /\ Job = work[1] /\ Len(work) >= 1 /\ Len(work) \in Nat
      /\ Job.sym \in Symbols /\ Job.side \in Sides /\ Job.qty \in Nat
  BY JobIs DEF IInv, WorkInv
<1>2. start[Job.sym] \in Int /\ book[Job.sym] \in Int /\ Len(results) \in Nat /\ Len(batch) \in Nat
  BY <1>1, LegsOfBatch DEF IInv, TypeInv
<1>3. CASE phase = "legs"
  <2>1. Reduces(batch, start) /\ real[Job.sym] = start[Job.sym] /\ cur.size = ApprovedSize(Job)
    BY <1>3 DEF IInv, WorkInv, SaneInv, CurInv
  <2>2. /\ Len(results) + Len(work) = Len(batch)
        /\ \A j \in 1 .. Len(work) :
             /\ work[j].sym = batch[Len(results) + j].sym
             /\ work[j].side = batch[Len(results) + j].side
    BY <1>3 DEF IInv, SaneInv, LegsInv
  <2>3. Len(results) + 1 \in DOMAIN batch /\ 1 \in 1 .. Len(work)
    BY <1>1, <1>2, <2>2, LegsOfBatch DEF IInv
  <2>4. start[Job.sym] * Job.side < 0
    BY <1>1, <2>1, <2>2, <2>3 DEF Reduces
  <2>5. cur.size = Least(Job.qty, Abs(start[Job.sym]))
    BY <2>1 DEF ApprovedSize
  <2>6. Abs(start[Job.sym]) \in Nat
    BY <1>2, AbsIs
  <2>7. cur.size <= Abs(start[Job.sym])
    BY <1>1, <2>5, <2>6, LeastIs
  <2> QED
    BY <2>1, <2>4, <2>7
<1>4. CASE phase = "unwind"
  <2>1. /\ book[Job.sym] * Job.side < 0 /\ cur.size <= Abs(book[Job.sym])
        /\ orders[LegKey(Job.sym)] \in {"MONITORING", "PARTIALLY_FILLED"}
        /\ orders[UnwindKey(Job.sym)] = "SUBMITTED"
    BY <1>4, UnwindFits
  <2>2. real[Job.sym] = book[Job.sym]
    BY <1>1, <2>1 DEF IInv, SaneInv, BrokerInv
  <2> QED
    BY <2>1, <2>2
<1>5. phase \in {"legs", "unwind"}
  BY DEF IInv, TypeInv
<1> QED
  BY ONLY <1>3, <1>4, <1>5

(* A call let through a halt grows and turns over no position at the       *)
(* broker (execute_options_strategy lets a reducing strategy through, and  *)
(* clamps each of its legs and unwinds to what is open).                   *)
THEOREM CallUnderHaltOnlyShrinks == Spec => HaltedOnlyReduces
<1>1. ASSUME IInv, [Next]_vars, pc # "idle", underHalt,
             lapses' \cap {"resting", "raised", "interrupted"} = {}, NEW s \in Symbols
      PROVE  Abs(real'[s]) <= Abs(real[s]) /\ real[s] * real'[s] >= 0
  <2>1. Sane' /\ "resting" \notin lapses
    BY <1>1, LapsesStay DEF Sane
  <2>2. real[s] \in Int /\ Abs(real[s]) \in Nat /\ real[s] * real[s] >= 0
    <3>1. real[s] \in Int
      BY <1>1 DEF IInv, TypeInv
    <3>2. real[s] * real[s] > 0 \/ real[s] = 0
      BY <3>1, SignOfProduct
    <3> QED
      BY <3>1, <3>2, AbsIs
  <2>3. CASE real' = real
    BY <2>2, <2>3
  <2>4. CASE real' # real
    <3>1. PICK filled \in 0 .. cur.size, executed \in 0 .. cur.size :
            /\ \A t \in Symbols : book'[t] = IF t = Job.sym THEN book[t] + Job.side * filled ELSE book[t]
            /\ \A t \in Symbols : real'[t] = IF t = Job.sym THEN real[t] + Job.side * executed ELSE real[t]
      BY <1>1, <2>1, <2>4, Moves
    <3>2. pc = "wait" /\ Sane /\ Job.sym \in Symbols /\ Job.side \in Sides
      BY <1>1, <2>1, <2>4, Moves
    <3>3. CASE s # Job.sym
      BY <2>2, <3>1, <3>3
    <3>4. CASE s = Job.sym
      <4>1. real[s] * Job.side < 0 /\ cur.size <= Abs(real[s])
        BY <1>1, <2>1, <3>2, <3>4, HaltedFits
      <4>2. cur.size \in Nat /\ executed \in Nat /\ executed <= Abs(real[s])
        BY <1>1, <2>2, <4>1 DEF IInv, TypeInv
      <4>3. real'[s] = real[s] + Job.side * executed
        BY <3>1, <3>4
      <4>4. Abs(real'[s]) = Abs(real[s]) - executed /\ real[s] * real'[s] >= 0
        BY <2>2, <3>2, <4>1, <4>2, <4>3, Shrinks
      <4> QED
        BY <2>2, <4>2, <4>4
    <3> QED
      BY <3>3, <3>4
  <2> QED
    BY <2>3, <2>4
<1>2. IInv /\ [Next]_vars
        => (pc # "idle" /\ underHalt /\ lapses' \cap {"resting", "raised", "interrupted"} = {} =>
              \A s \in Symbols : Abs(real'[s]) <= Abs(real[s]) /\ real[s] * real'[s] >= 0)
  BY <1>1
<1> QED
  BY <1>2, SpecInv, PTL DEF Spec, HaltedOnlyReduces

(* When no leg was filled, in part or at all, and none rests, the          *)
(* positions are as they were.                                             *)
LEMMA RejectedLeavesStart ==
  ASSUME IInv, Sane, \A i \in DOMAIN batch : orders[LegKey(batch[i].sym)] = "REJECTED"
  PROVE  real = start
<1>1. ASSUME NEW s \in Symbols PROVE real[s] = start[s]
  <2>1. CASE orders[LegKey(s)] = "none"
    BY <2>1 DEF IInv, SaneInv, StartInv
  <2>2. CASE orders[LegKey(s)] # "none"
    <3>1. PICK i \in DOMAIN batch : batch[i].sym = s
      BY <2>2 DEF IInv, SaneInv, StartInv
    <3> QED
      BY <3>1 DEF IInv, SaneInv, EffectInv
  <2> QED
    BY <2>1, <2>2
<1> QED
  BY <1>1 DEF IInv, TypeInv

(* A call that returns leaves the approved strategy, or the positions as   *)
(* they are without it, or a halted account (the three ends of             *)
(* execute_options_strategy after its legs).                               *)
THEOREM NothingIsKeptQuietly == Spec => NothingKeptQuietly
<1>1. ASSUME IInv, [Next]_vars, pc # "idle", pc' = "idle", EachContractOnce,
             lapses' \subseteq {"resumed"}
      PROVE  halted' \/ real' \in {start, Approved}
  <2>1. Sane /\ "partial" \notin lapses /\ "resting" \notin lapses
    BY <1>1, LapsesStay DEF Sane
  <2>2. Intact \/ NothingReached \/ Halt
    <3>1. ~SubmitRaises /\ ~WriteRaises /\ ~Crash
      BY <1>1 DEF SubmitRaises, WriteRaises, Crash, Leave, Lapse
    <3> QED
      BY <1>1, <3>1 DEF Next, vars, Begin, Refuse, Send, Dedupe, Fills, FillsPartly, Acknowledges, Rejects,
         Unanswered, Settle, SaveOrder, SavePosition, Remediate, Unwound, Resume, HaltElsewhere, Elsewhere,
         callVars, LegsDone
  <2>3. CASE Intact
    <3>1. LegsDone /\ Established = DOMAIN results /\ real' = real
      BY <2>3 DEF Intact
    <3>2. \A i \in DOMAIN batch : orders[LegKey(batch[i].sym)] = "MONITORING"
      BY <1>1, <2>1, <3>1, EndOfLegs DEF Established
    <3> QED
      BY <1>1, <2>1, <3>1, <3>2, EstablishedIsApproved
  <2>4. CASE NothingReached
    <3>1. LegsDone /\ Established = {} /\ Unknown = {} /\ real' = real
      BY <2>4 DEF NothingReached
    <3>2. ASSUME NEW i \in DOMAIN batch PROVE orders[LegKey(batch[i].sym)] = "REJECTED"
      <4>1. /\ i \in DOMAIN results /\ results[i] = orders[LegKey(batch[i].sym)]
            /\ results[i] \in Final
        BY <1>1, <2>1, <3>1, EndOfLegs
      <4>2. results[i] # "MONITORING" /\ results[i] # "FAILED"
        BY <3>1, <4>1 DEF Established, Unknown
      <4>3. LegKey(batch[i].sym) \in Keys
        BY <1>1, LegsOfBatch, KeysApart DEF IInv
      <4>4. results[i] # "PARTIALLY_FILLED" /\ results[i] # "ACKNOWLEDGED"
        BY <1>1, <2>1, <4>1, <4>3 DEF IInv, SaneInv, OrdersInv
      <4> QED
        BY <4>1, <4>2, <4>4 DEF Final
    <3> QED
      BY <1>1, <2>1, <3>1, <3>2, RejectedLeavesStart
  <2>5. CASE Halt
    BY <2>5 DEF Halt
  <2> QED
    BY <2>2, <2>3, <2>4, <2>5
<1>2. IInv /\ [Next]_vars
        => (pc # "idle" /\ pc' = "idle" /\ EachContractOnce /\ lapses' \subseteq {"resumed"} =>
              halted' \/ real' \in {start, Approved})
  BY <1>1
<1> QED
  BY <1>2, SpecInv, PTL DEF Spec, NothingKeptQuietly
=============================================================================
