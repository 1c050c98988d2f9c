------------------------ MODULE ProtectiveStopsProofs ------------------------
(***************************************************************************)
(* For positions of any size, any number of stops, faults, crashes and     *)
(* resumes: the position is guarded by exactly its own stop whenever no    *)
(* handler is at work, or the account is halted, and two stops never rest  *)
(* against it.  The argument: the only stop that can be resting is the one *)
(* the book names, and a new one is placed only where none rests.  The one *)
(* exception is a closed position whose stop could not be cancelled and    *)
(* whose process died: its account is halted, so nothing opens again.      *)
(***************************************************************************)
EXTENDS ProtectiveStops, FiniteSetTheorems, SequenceTheorems, TLAPS

Kinds == {"interrupted", "unsaved", "unanswered", "fired", "expired", "resumed"}
Book  == [qty : Int, pid : Nat]
Stops == [qty : Int, status : {"resting", "fired", "cancelled"}]

\* What the argument needs of the types: a stop the book names was placed.
TypeInv ==
  /\ pc \in {"idle", "admitted", "journal", "cancel", "check", "place", "halt", "notify", "save"}
  /\ want \in Int
  /\ book \in Book /\ row \in Book
  /\ stops \in Seq(Stops)
  /\ lapses \in SUBSET Kinds
  /\ pc \in {"cancel", "check"} => book.pid \in DOMAIN stops
  /\ pc = "place" => book.pid = NoId /\ book.qty # 0
  /\ book.pid # NoId => book.pid \in DOMAIN stops
  /\ row.pid # NoId => row.pid \in DOMAIN stops

\* Nothing went wrong except that stops fired, which only takes some away.
Orderly == lapses \subseteq {"fired"}

\* A position of nobody's that a stop may still rest against: it was closed,
\* its stop could not be cancelled, the account was halted for it, and the
\* process that knew the stop's id is gone.
Orphaned ==
  /\ halted /\ pc = "idle" /\ book = Flat /\ row.qty = 0
  /\ \E i \in Nat : Resting \subseteq {i}

\* The book names the only stop that can be resting.
NamedInv == Orderly => Resting \subseteq {book.pid} \/ Orphaned

\* Between two requests the row is what a restart needs.
RowInv ==
  Orderly /\ pc \in {"idle", "admitted"} => book = row \/ (book = Flat /\ row.qty = 0)

\* Once the stop is dealt with, a flat position has none, or the halt stands.
FlatInv ==
  Orderly =>
    /\ pc \in {"idle", "admitted", "save"} /\ book.qty = 0 => halted \/ Resting = {}
    /\ pc = "place" => Resting = {}
    /\ pc = "notify" => halted

\* A position that is not flat has its own stop, of its size, and no other.
Guarded == Resting = {book.pid} /\ stops[book.pid].qty = -book.qty

GuardInv ==
  lapses = {} /\ ~halted /\ pc \in {"idle", "admitted", "save"} /\ book.qty # 0 => Guarded

IInv == TypeInv /\ NamedInv /\ RowInv /\ FlatInv /\ GuardInv
-----------------------------------------------------------------------------
\* What the steps at the broker do to the resting stops.

LEMMA RestingPlaces ==
  ASSUME stops \in Seq(Stops)
  PROVE  /\ \A i : i \in Resting <=> i \in 1 .. Len(stops) /\ stops[i].status = "resting"
         /\ NoId \notin DOMAIN stops
<1>1. DOMAIN stops = 1 .. Len(stops) /\ Len(stops) \in Nat
  BY LenProperties
<1> QED
  BY <1>1 DEF Resting, NoId

LEMMA RestingAppended ==
  ASSUME stops \in Seq(Stops), NEW x \in Stops, stops' = Append(stops, x)
  PROVE  /\ stops' \in Seq(Stops)
         /\ DOMAIN stops' = DOMAIN stops \cup {Len(stops) + 1}
         /\ Len(stops') = Len(stops) + 1 /\ Len(stops') \in DOMAIN stops'
         /\ stops'[Len(stops')] = x
         /\ \A i \in DOMAIN stops : stops'[i] = stops[i]
         /\ x.status # "resting" => Resting' = Resting
         /\ x.status = "resting" => Resting' = Resting \cup {Len(stops')}
<1>1. /\ stops' \in Seq(Stops) /\ Len(stops') = Len(stops) + 1 /\ Len(stops) \in Nat
      /\ DOMAIN stops = 1 .. Len(stops) /\ DOMAIN stops' = 1 .. Len(stops')
      /\ stops'[Len(stops')] = x
      /\ \A i \in 1 .. Len(stops) : stops'[i] = stops[i]
  BY AppendProperties, LenProperties
<1>2. /\ DOMAIN stops' = DOMAIN stops \cup {Len(stops) + 1}
      /\ Len(stops') \in DOMAIN stops'
  BY <1>1
<1> QED
  BY <1>1, <1>2 DEF Resting

\* A stop that ends stops resting, whatever it ends as.
LEMMA RestingEnded ==
  ASSUME stops \in Seq(Stops), NEW k \in DOMAIN stops, NEW s \in {"fired", "cancelled"},
         \/ stops' = [stops EXCEPT ![k].status = s]
         \/ stops' = [stops EXCEPT ![k].status = IF @ = "resting" THEN s ELSE @]
  PROVE  /\ stops' \in Seq(Stops)
         /\ DOMAIN stops' = DOMAIN stops
         /\ Resting' = Resting \ {k}
         /\ \A i \in DOMAIN stops : stops'[i].qty = stops[i].qty
<1>1. /\ DOMAIN stops = 1 .. Len(stops) /\ Len(stops) \in Nat
      /\ \A i \in DOMAIN stops : stops[i] \in Stops
  BY LenProperties, ElementOfSeq
<1>2. PICK t \in {"resting", "fired", "cancelled"} :
        stops' = [stops EXCEPT ![k].status = t] /\ t # "resting"
  BY <1>1 DEF Stops
<1>3. /\ DOMAIN stops' = DOMAIN stops
      /\ \A i \in DOMAIN stops :
           stops'[i] = IF i = k THEN [stops[k] EXCEPT !.status = t] ELSE stops[i]
  BY <1>2
<1>4. \A i \in DOMAIN stops :
        stops'[i] \in Stops /\ stops'[i].qty = stops[i].qty
        /\ stops'[i].status = IF i = k THEN t ELSE stops[i].status
  BY <1>1, <1>3 DEF Stops
<1>5. stops' \in Seq(Stops)
  BY <1>1, <1>2, <1>3, <1>4, ExceptSeq
<1>6. Resting' = Resting \ {k}
  BY <1>2, <1>3, <1>4 DEF Resting
<1> QED
  BY <1>3, <1>4, <1>5, <1>6

LEMMA AfterCancelFacts ==
  ASSUME TypeInv
  PROVE  /\ AfterCancel \in {"place", "save"}
         /\ AfterCancel = "place" => book.qty # 0
         /\ AfterCancel = "save" => book.qty = 0
BY DEF AfterCancel
-----------------------------------------------------------------------------
\* One step per action.

LEMMA InitInv == Init => IInv
<1> SUFFICES ASSUME Init PROVE IInv
  OBVIOUS
<1>1. stops = <<>> /\ stops \in Seq(Stops) /\ Resting = {}
  BY EmptySeq DEF Init, Resting
<1>2. book = Flat /\ row = Flat /\ Flat \in Book /\ Flat.pid = NoId /\ Flat.qty = 0
  BY DEF Init, Flat, Book, NoId
<1> QED
  BY <1>1, <1>2 DEF Init, IInv, TypeInv, NamedInv, RowInv, FlatInv, GuardInv, Orderly, NoId

\* Only a reducing order passes a halt, so nothing opens against an orphan.
LEMMA BeginInv ==
  ASSUME IInv, NEW n \in Int, Begin(n)
  PROVE  IInv'
<1>1. /\ pc = "idle" /\ pc' = "admitted" /\ ~Orphaned
      /\ want' \in Int /\ UNCHANGED <<book, row, stops, halted, lapses, Resting>>
  BY DEF Begin, Orphaned, Flat, Resting, brokerVars, alertVars, Sound
<1> QED
  BY <1>1 DEF IInv, TypeInv, NamedInv, RowInv, FlatInv, GuardInv, Orderly, Guarded

LEMMA FillInv ==
  ASSUME IInv, Fill
  PROVE  IInv'
<1>1. /\ pc = "admitted" /\ pc' = "journal" /\ ~Orphaned
      /\ UNCHANGED <<want, row, stops, halted, lapses, Resting>>
  BY DEF Fill, Orphaned, Resting, alertVars, Sound
<1>2. book' \in Book /\ book'.pid = book.pid
  BY DEF Fill, IInv, TypeInv, Book
<1> QED
  BY <1>1, <1>2 DEF IInv, TypeInv, NamedInv, RowInv, FlatInv, GuardInv, Orderly

LEMMA RefusedInv ==
  ASSUME IInv, Refused \/ OrderUnanswered
  PROVE  IInv'
<1>1. /\ pc = "admitted" /\ pc' = "save" /\ ~Orphaned
      /\ UNCHANGED <<want, book, row, stops, halted, Resting>>
      /\ lapses' = lapses \/ lapses' = lapses \cup {"unanswered"}
  BY DEF Refused, OrderUnanswered, Orphaned, Resting, brokerVars, alertVars, Sound, Lapse
<1>2. lapses' \in SUBSET Kinds
  BY <1>1 DEF IInv, TypeInv, Kinds
<1>3. CASE lapses' = lapses
  BY <1>1, <1>2, <1>3 DEF IInv, TypeInv, NamedInv, RowInv, FlatInv, GuardInv, Orderly, Guarded
<1>4. CASE lapses' # lapses
  <2>1. ~Orderly' /\ lapses' # {}
    BY <1>1, <1>4 DEF Orderly
  <2> QED
    BY <1>1, <1>2, <2>1 DEF IInv, TypeInv, NamedInv, RowInv, FlatInv, GuardInv
<1> QED
  BY <1>3, <1>4

LEMMA JournalInv ==
  ASSUME IInv, Journal
  PROVE  IInv'
<1>1. /\ pc = "journal" /\ pc' = (IF book.pid # NoId THEN "cancel" ELSE AfterCancel) /\ ~Orphaned
      /\ UNCHANGED <<want, book, row, stops, halted, lapses, Resting>>
  BY DEF Journal, Orphaned, Resting, brokerVars, alertVars, Sound
<1>2. book.pid = NoId /\ Orderly => Resting = {}
  BY <1>1, RestingPlaces DEF IInv, TypeInv, NamedInv, Resting
<1>3. CASE book.pid # NoId
  BY <1>1, <1>3 DEF IInv, TypeInv, NamedInv, RowInv, FlatInv, GuardInv, Orderly
<1>4. CASE book.pid = NoId
  <2>1. pc' = AfterCancel
    BY <1>1, <1>4
  <2> QED
    BY <1>1, <1>2, <1>4, <2>1, AfterCancelFacts
       DEF IInv, TypeInv, NamedInv, RowInv, FlatInv, GuardInv, Orderly
<1> QED
  BY <1>3, <1>4

\* The old stop is gone, so none rests.
LEMMA OldStopGone ==
  ASSUME IInv, stops' \in Seq(Stops), DOMAIN stops' = DOMAIN stops,
         Orderly => Resting' = {},
         book' = [book EXCEPT !.pid = NoId], pc' = AfterCancel,
         UNCHANGED <<want, row, halted, lapses>>
  PROVE  IInv'
<1>1. book' \in Book /\ book'.pid = NoId /\ book'.qty = book.qty
  BY DEF IInv, TypeInv, Book, NoId
<1> QED
  BY <1>1, AfterCancelFacts DEF IInv, TypeInv, NamedInv, RowInv, FlatInv, GuardInv, Orderly

LEMMA CancelOldInv ==
  ASSUME IInv, CancelOld
  PROVE  IInv'
<1>1. /\ pc = "cancel" /\ pc' = AfterCancel /\ ~Orphaned /\ book.pid \in DOMAIN stops
      /\ stops' = [stops EXCEPT ![book.pid].status = IF @ = "resting" THEN "cancelled" ELSE @]
      /\ book' = [book EXCEPT !.pid = NoId]
      /\ UNCHANGED <<want, row, halted, lapses>> /\ stops \in Seq(Stops)
  BY DEF CancelOld, Orphaned, alertVars, Sound, IInv, TypeInv
<1>2. /\ stops' \in Seq(Stops) /\ DOMAIN stops' = DOMAIN stops
      /\ Resting' = Resting \ {book.pid}
  BY <1>1, RestingEnded
<1>3. Orderly => Resting' = {}
  BY <1>1, <1>2 DEF IInv, NamedInv
<1> QED
  BY <1>1, <1>2, <1>3, OldStopGone

LEMMA CancelRaisesInv ==
  ASSUME IInv, CancelRaises
  PROVE  IInv'
<1>1. /\ pc = "cancel" /\ pc' = "check" /\ ~Orphaned /\ book.pid \in DOMAIN stops
      /\ UNCHANGED <<want, book, row, halted, lapses>> /\ stops \in Seq(Stops)
  BY DEF CancelRaises, Orphaned, alertVars, Sound, IInv, TypeInv
<1>2. /\ stops' \in Seq(Stops) /\ DOMAIN stops' = DOMAIN stops
      /\ Resting' \subseteq Resting
  <2>1. CASE stops' = [stops EXCEPT ![book.pid].status = IF @ = "resting" THEN "cancelled" ELSE @]
    BY <1>1, <2>1, RestingEnded
  <2>2. CASE stops' = stops
    BY <1>1, <2>2 DEF Resting
  <2> QED
    BY <2>1, <2>2 DEF CancelRaises
<1> QED
  BY <1>1, <1>2 DEF IInv, TypeInv, NamedInv, RowInv, FlatInv, GuardInv, Orderly

LEMMA CheckInv ==
  ASSUME IInv, Check
  PROVE  IInv'
<1>1. /\ pc = "check" /\ ~Orphaned /\ stops \in Seq(Stops)
      /\ UNCHANGED <<want, row, stops, halted, lapses, Resting>>
  BY DEF Check, Orphaned, Resting, brokerVars, alertVars, Sound, IInv, TypeInv
<1>2. CASE pc' = "halt" /\ UNCHANGED book
  BY <1>1, <1>2 DEF IInv, TypeInv, NamedInv, RowInv, FlatInv, GuardInv, Orderly
<1>3. CASE /\ stops[book.pid].status # "resting"
           /\ book' = [book EXCEPT !.pid = NoId] /\ pc' = AfterCancel
  <2>1. Orderly => Resting' = {}
    BY <1>1, <1>3 DEF IInv, NamedInv, Resting
  <2> QED
    BY <1>1, <1>3, <2>1, OldStopGone
<1> QED
  BY <1>2, <1>3 DEF Check

\* A new stop comes to a position that has none.
LEMMA PlacedInv ==
  ASSUME IInv, pc = "place", pc' = "save", NEW s \in {"resting", "fired"},
         stops' = Append(stops, Stop(s)),
         book' = [book EXCEPT !.pid = Len(stops')],
         UNCHANGED <<want, row, halted>>,
         lapses' = IF s = "fired" THEN lapses \cup {"fired"} ELSE lapses
  PROVE  IInv'
<1>1. Stop(s) \in Stops /\ Stop(s).status = s /\ Stop(s).qty = -book.qty
  BY DEF Stop, Stops, IInv, TypeInv, Book
<1>2. /\ stops' \in Seq(Stops) /\ Len(stops') \in DOMAIN stops' /\ Len(stops') \in Nat
      /\ DOMAIN stops \subseteq DOMAIN stops'
      /\ stops'[Len(stops')] = Stop(s)
      /\ s # "resting" => Resting' = Resting
      /\ s = "resting" => Resting' = Resting \cup {Len(stops')}
  BY <1>1, RestingAppended, LenProperties DEF IInv, TypeInv
<1>3. book' \in Book /\ book'.pid = Len(stops') /\ book'.qty = book.qty /\ book.qty # 0
  BY <1>2 DEF IInv, TypeInv, Book
<1>4. lapses' \in SUBSET Kinds /\ (Orderly' => Orderly)
  BY DEF IInv, TypeInv, Kinds, Orderly
<1>5. Orderly => Resting = {}
  BY DEF IInv, FlatInv
<1>6. TypeInv'
  BY <1>2, <1>3, <1>4 DEF IInv, TypeInv
<1>7. NamedInv' /\ RowInv' /\ FlatInv'
  BY <1>2, <1>3, <1>4, <1>5 DEF NamedInv, RowInv, FlatInv
<1>8. GuardInv'
  <2>1. SUFFICES ASSUME lapses' = {} PROVE Guarded'
    BY DEF GuardInv
  <2>2. s = "resting" /\ Orderly
    BY <2>1 DEF Orderly
  <2> QED
    BY <1>1, <1>2, <1>3, <1>5, <2>2 DEF Guarded
<1> QED
  BY <1>6, <1>7, <1>8 DEF IInv

LEMMA PlaceInv ==
  ASSUME IInv, PlaceStop \/ PlaceThrough
  PROVE  IInv'
<1>1. CASE PlaceStop
  BY <1>1, PlacedInv DEF PlaceStop, alertVars, Sound
<1>2. CASE PlaceThrough
  BY <1>2, PlacedInv DEF PlaceThrough, alertVars, Lapse
<1> QED
  BY <1>1, <1>2

\* A stop that is not placed, or may rest unknown: the halt comes next.
LEMMA StopFailsInv ==
  ASSUME IInv, StopRefused \/ StopUnanswered
  PROVE  IInv'
<1>1. /\ pc = "place" /\ pc' = "halt" /\ ~Orphaned
      /\ UNCHANGED <<want, book, row, halted>>
  BY DEF StopRefused, StopUnanswered, Orphaned, alertVars
<1>2. CASE UNCHANGED <<stops, lapses>>
  <2>1. Resting' = Resting
    BY <1>2 DEF Resting
  <2> QED
    BY <1>1, <1>2, <2>1 DEF IInv, TypeInv, NamedInv, RowInv, FlatInv, GuardInv, Orderly
<1>3. CASE stops' = Append(stops, Stop("resting")) /\ Lapse("unanswered")
  <2>1. Stop("resting") \in Stops /\ stops \in Seq(Stops)
    BY DEF Stop, Stops, IInv, TypeInv, Book
  <2>2. stops' \in Seq(Stops) /\ DOMAIN stops \subseteq DOMAIN stops'
    BY <1>3, <2>1, RestingAppended
  <2>3. lapses' \in SUBSET Kinds /\ ~Orderly' /\ lapses' # {}
    BY <1>3 DEF Lapse, Orderly, IInv, TypeInv, Kinds
  <2> QED
    BY <1>1, <2>2, <2>3 DEF IInv, TypeInv, NamedInv, RowInv, FlatInv, GuardInv
<1> QED
  BY <1>2, <1>3 DEF StopRefused, StopUnanswered, brokerVars, Sound

LEMMA HaltInv ==
  ASSUME IInv, Halt \/ Notify
  PROVE  IInv'
<1>1. /\ pc \in {"halt", "notify"} /\ pc' \in {"notify", "save"} /\ ~Orphaned
      /\ UNCHANGED <<want, book, row, stops, lapses, Resting>>
      /\ Orderly => halted'
  BY DEF Halt, Notify, Orphaned, Resting, brokerVars, Sound, IInv, FlatInv
<1> QED
  BY <1>1 DEF IInv, TypeInv, NamedInv, RowInv, FlatInv, GuardInv, Orderly

LEMMA SaveInv ==
  ASSUME IInv, Save
  PROVE  IInv'
<1>1. /\ pc = "save" /\ pc' = "idle" /\ ~Orphaned /\ row' = book /\ want' \in Int
      /\ UNCHANGED <<book, stops, halted, lapses, Resting>>
  BY DEF Save, Orphaned, Resting, brokerVars, alertVars, Sound
<1> QED
  BY <1>1 DEF IInv, TypeInv, NamedInv, RowInv, FlatInv, GuardInv, Orderly, Guarded

LEMMA HandlerRaisesInv ==
  ASSUME IInv, HandlerRaises
  PROVE  IInv'
<1>1. /\ pc' = "idle" /\ want' \in Int /\ UNCHANGED <<book, row, stops>>
      /\ lapses' = lapses \cup {"unsaved"}
  BY DEF HandlerRaises, brokerVars, Lapse
<1>2. lapses' \in SUBSET Kinds /\ ~Orderly' /\ lapses' # {}
  BY <1>1 DEF Orderly, IInv, TypeInv, Kinds
<1> QED
  BY <1>1, <1>2 DEF IInv, TypeInv, NamedInv, RowInv, FlatInv, GuardInv, NoId

\* The broker fires a stop: one less rests.
LEMMA StopFiresInv ==
  ASSUME IInv, NEW i \in DOMAIN stops, StopFires(i)
  PROVE  IInv'
<1>1. /\ UNCHANGED <<pc, want, book, row, halted>>
      /\ lapses' = lapses \cup {"fired"} /\ stops \in Seq(Stops)
  BY DEF StopFires, handlerVars, alertVars, Lapse, IInv, TypeInv
<1>2. /\ stops' \in Seq(Stops) /\ DOMAIN stops' = DOMAIN stops
      /\ Resting' = Resting \ {i}
  BY <1>1, RestingEnded DEF StopFires
<1>3. lapses' \in SUBSET Kinds /\ (Orderly' => Orderly) /\ lapses' # {}
  BY <1>1 DEF Orderly, IInv, TypeInv, Kinds
<1>4. Orphaned => Orphaned'
  BY <1>1, <1>2 DEF Orphaned
<1> QED
  BY <1>1, <1>2, <1>3, <1>4 DEF IInv, TypeInv, NamedInv, RowInv, FlatInv, GuardInv

LEMMA StopExpiresInv ==
  ASSUME IInv, NEW i \in DOMAIN stops, StopExpires(i)
  PROVE  IInv'
<1>1. /\ UNCHANGED <<pc, want, book, row, halted>>
      /\ lapses' = lapses \cup {"expired"} /\ stops \in Seq(Stops)
  BY DEF StopExpires, handlerVars, alertVars, Lapse, IInv, TypeInv
<1>2. stops' \in Seq(Stops) /\ DOMAIN stops' = DOMAIN stops
  BY <1>1, RestingEnded DEF StopExpires
<1>3. lapses' \in SUBSET Kinds /\ ~Orderly' /\ lapses' # {}
  BY <1>1 DEF Orderly, IInv, TypeInv, Kinds
<1> QED
  BY <1>1, <1>2, <1>3 DEF IInv, TypeInv, NamedInv, RowInv, FlatInv, GuardInv

\* What a restart finds at the broker.
LEMMA CrashLeavesStops ==
  ASSUME TypeInv, Crash
  PROVE  /\ stops' \in Seq(Stops) /\ DOMAIN stops \subseteq DOMAIN stops'
         /\ pc = "idle" => stops' = stops
<1>1. stops \in Seq(Stops)
  BY DEF TypeInv
<1>2. CASE stops' = stops
  BY <1>1, <1>2
<1>3. CASE pc = "place" /\ stops' = Append(stops, Stop("resting"))
  <2>1. Stop("resting") \in Stops
    BY DEF Stop, Stops, TypeInv, Book
  <2> QED
    BY <1>1, <1>3, <2>1, RestingAppended
<1>4. CASE pc = "cancel" /\ stops' = [stops EXCEPT ![book.pid].status = "cancelled"]
  BY <1>1, <1>4, RestingEnded DEF TypeInv
<1> QED
  BY <1>2, <1>3, <1>4 DEF Crash, brokerVars

\* A restart while no handler is at work restores the position, unless it is
\* flat: then its stop is gone as well, or the account is halted for it.
LEMMA CrashInv ==
  ASSUME IInv, Crash
  PROVE  IInv'
<1>1. /\ pc' = "idle" /\ want' \in Int /\ UNCHANGED <<row, halted>>
      /\ book' = IF row.qty = 0 THEN Flat ELSE row
      /\ lapses' = IF pc = "idle" THEN lapses ELSE lapses \cup {"interrupted"}
  BY DEF Crash, alertVars
<1>2. /\ stops' \in Seq(Stops) /\ DOMAIN stops \subseteq DOMAIN stops'
      /\ pc = "idle" => stops' = stops /\ Resting' = Resting
  BY CrashLeavesStops DEF IInv, Resting
<1>3. Flat \in Book /\ Flat.pid = NoId /\ Flat.qty = 0
  BY DEF Flat, Book, NoId
<1>4. TypeInv'
  BY <1>1, <1>2, <1>3 DEF IInv, TypeInv, Kinds, NoId
<1>5. CASE pc = "idle"
  <2>1. RowInv'
    BY <1>1, <1>3 DEF RowInv
  <2>2. FlatInv'
    <3>1. SUFFICES ASSUME Orderly, book'.qty = 0, ~halted PROVE Resting = {}
      BY <1>1, <1>2, <1>5 DEF FlatInv, Orderly
    <3>2. book.qty = 0
      BY <1>1, <1>3, <1>5, <3>1 DEF IInv, RowInv
    <3> QED
      BY <1>5, <3>1, <3>2 DEF IInv, FlatInv
  <2>3. NamedInv'
    <3>1. SUFFICES ASSUME Orderly PROVE Resting' \subseteq {book'.pid} \/ Orphaned'
      BY <1>1, <1>5 DEF NamedInv, Orderly
    <3>2. CASE row.qty # 0
      <4>1. book' = book /\ ~Orphaned
        BY <1>1, <1>5, <3>1, <3>2 DEF IInv, RowInv, Orphaned
      <4> QED
        BY <1>2, <1>5, <3>1, <4>1 DEF IInv, NamedInv
    <3>3. CASE row.qty = 0 /\ Resting = {}
      BY <1>2, <1>5, <3>3
    <3>4. CASE row.qty = 0 /\ Resting # {}
      <4>1. book.qty = 0
        BY <1>3, <1>5, <3>1, <3>4 DEF IInv, RowInv
      <4>2. halted
        BY <1>5, <3>1, <3>4, <4>1 DEF IInv, FlatInv
      <4>3. \E i \in Nat : Resting \subseteq {i}
        BY <3>1 DEF IInv, NamedInv, Orphaned, TypeInv, Book
      <4> QED
        BY <1>1, <1>2, <1>5, <3>4, <4>2, <4>3 DEF Orphaned
    <3> QED
      BY <3>2, <3>3, <3>4
  <2>4. GuardInv'
    BY <1>1, <1>2, <1>3, <1>5 DEF IInv, RowInv, GuardInv, Guarded, Orderly
  <2> QED
    BY <1>4, <2>1, <2>2, <2>3, <2>4 DEF IInv
<1>6. CASE pc # "idle"
  <2>1. ~Orderly' /\ lapses' # {}
    BY <1>1, <1>6 DEF Orderly
  <2> QED
    BY <1>4, <2>1 DEF IInv, NamedInv, RowInv, FlatInv, GuardInv
<1> QED
  BY <1>5, <1>6

\* The pass only reads the two sides; it may halt the account.
LEMMA ReconcileInv ==
  ASSUME IInv, Reconcile \/ Unreachable \/ PassRaises \/ BuildStack
  PROVE  IInv'
<1>1. /\ UNCHANGED <<pc, want, book, row, stops, lapses, Resting>>
      /\ halted' = TRUE \/ halted' = halted
  BY DEF Reconcile, ReadOrders, ReadPositions, InSync, FindDifference, AskHalted, HaltAccount,
         Tell, Unreachable, PassRaises, BuildStack, handlerVars, brokerVars, alertVars, Sound,
         Resting
<1>2. Orphaned => Orphaned'
  BY <1>1 DEF Orphaned
<1> QED
  BY <1>1, <1>2 DEF IInv, TypeInv, NamedInv, RowInv, FlatInv, GuardInv, Orderly, Guarded

LEMMA ResumeInv ==
  ASSUME IInv, Resume
  PROVE  IInv'
<1>1. /\ UNCHANGED <<pc, want, book, row, stops>>
      /\ lapses' = lapses \cup {"resumed"}
  BY DEF Resume, handlerVars, brokerVars, Lapse
<1>2. lapses' \in SUBSET Kinds /\ ~Orderly' /\ lapses' # {}
  BY <1>1 DEF Orderly, IInv, TypeInv, Kinds
<1> QED
  BY <1>1, <1>2 DEF IInv, TypeInv, NamedInv, RowInv, FlatInv, GuardInv

LEMMA NextInv == IInv /\ [Next]_vars => IInv'
<1> SUFFICES ASSUME IInv, [Next]_vars PROVE IInv'
  OBVIOUS
<1>1. CASE \E n \in -MaxQty .. MaxQty : n # 0 /\ Begin(n)
  BY <1>1, BeginInv, BoundsAssumption
<1>2. CASE Proceed
  BY <1>2, FillInv, RefusedInv, JournalInv, CancelOldInv, CancelRaisesInv, CheckInv,
     PlaceInv, StopFailsInv, HaltInv, SaveInv DEF Proceed
<1>3. CASE OrderUnanswered \/ StopUnanswered \/ HandlerRaises
  BY <1>3, RefusedInv, StopFailsInv, HandlerRaisesInv
<1>4. CASE \E i \in DOMAIN stops : StopFires(i) \/ StopExpires(i)
  BY <1>4, StopFiresInv, StopExpiresInv
<1>5. CASE Crash
  BY <1>5, CrashInv
<1>6. CASE BuildStack \/ Reconcile \/ Unreachable \/ PassRaises
  BY <1>6, ReconcileInv
<1>7. CASE Resume
  BY <1>7, ResumeInv
<1>8. CASE UNCHANGED vars
  <2>1. UNCHANGED <<pc, want, book, row, stops, halted, lapses, Resting>>
    BY <1>8 DEF vars, handlerVars, brokerVars, alertVars, Resting
  <2> QED
    BY <2>1 DEF IInv, TypeInv, NamedInv, RowInv, FlatInv, GuardInv, Orderly, Guarded, Orphaned
<1> QED
  BY <1>1, <1>2, <1>3, <1>4, <1>5, <1>6, <1>7, <1>8 DEF Next
-----------------------------------------------------------------------------
LEMMA Invariant == Spec => []IInv
BY InitInv, NextInv, PTL DEF Spec

\* For every size of position, and through every add, exit and flip: with no
\* handler at work the position has its own stop resting at the broker, of
\* its size and on the other side, or the account is halted
\* (ensure_protective_stop, api/orders.py).
THEOREM PositionsGuarded == Spec => []ProtectedAtRest
<1>1. IInv => ProtectedAtRest
  BY DEF IInv, FlatInv, GuardInv, Guarded, Orderly, ProtectedAtRest
<1> QED
  BY <1>1, Invariant, PTL

\* Whatever the broker's answers to a cancellation, and though stops fire
\* between two awaits: two never rest against one position, not even when a
\* restart has forgotten the id of one (cancel_protective_stop,
\* _is_no_longer_resting, persistence.load_open_positions).
THEOREM StopsNeverDouble == Spec => []OneStopRests
<1>1. IInv => OneStopRests
  <2> SUFFICES ASSUME IInv, Orderly PROVE Cardinality(Resting) <= 1
    BY DEF OneStopRests, Orderly
  <2>1. PICK i : Resting \subseteq {i}
    BY DEF IInv, NamedInv, Orphaned
  <2>2. IsFiniteSet({i}) /\ Cardinality({i}) = 1
    BY FS_Singleton
  <2> QED
    BY <2>1, <2>2, FS_Subset
<1> QED
  BY <1>1, Invariant, PTL
=============================================================================
