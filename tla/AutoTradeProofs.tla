---------------------------- MODULE AutoTradeProofs ----------------------------
(***************************************************************************)
(* For any strategies, instruments, caps and bounds: no day of the window  *)
(* has more entries than the cap, a restart between two passes forgets     *)
(* nothing, and a trade is journaled against whatever opened it, with the  *)
(* exceptions each property names.  The argument: nothing is entered under *)
(* a day after the window's, the window counts every entry of its day and  *)
(* no more than the rows and the journal of that day do, and a stamp       *)
(* belongs to the open position of its pair.                               *)
(***************************************************************************)
EXTENDS AutoTrade, FiniteSetTheorems, TLAPS

USE LimitsAssumption, TouchesAssumption, BoundsAssumption, InstrumentsAssumption, NobodyAssumption

Owners    == Strategies \cup {Nobody}
Positions == [open : BOOLEAN, owner : Owners, ver : Nat]
Hits      == SUBSET {"stop", "target"}
Bars      == [t : Nat, day : Days, hits : Hits, fresh : BOOLEAN]
Deeds     == {"nothing", "stopped", "gained", "entered"}
Looks     == [strategy : Owners, inst : Instruments \cup {Nobody}, day : Days, hits : Hits,
              before : Positions, did : Deeds]
Windows   == [trades : Nat, pnl : Int, day : Days]
Working   == pc \in {"candle", "save", "journal"}

\* No write was lost; nor was a bar behind the window traded; what the cap
\* is claimed under.
NoneLost == "unwritten" \notin lapses
Clean    == {"unwritten", "late"} \cap lapses = {}
Trusted  == "restarted" \notin lapses \/ Clean

\* Every variable has its type; a pair being processed is one of the pass's.
TypeInv ==
  /\ stored \in [Pairs -> Bars]
  /\ day \in Days
  /\ active \subseteq Strategies
  /\ version \in [Strategies -> Nat]
  /\ pc \in {"rest", "pass", "candle", "save", "journal"}
  /\ todo \subseteq Pairs
  /\ pass \in [entries : BOOLEAN, active : SUBSET Strategies, version : [Strategies -> Nat]]
  /\ cur \in Looks
  /\ Working => cur.strategy \in Strategies /\ cur.inst \in Instruments
  /\ halted \in BOOLEAN
  /\ booted \in BOOLEAN
  /\ pos \in [Instruments -> Positions]
  /\ window \in Windows
  /\ stamps \in [Pairs -> {NoStamp} \cup [ver : Nat, day : Days]]
  /\ rows \in [Instruments -> {Unset} \cup Days]
  /\ journal \in [opened : [Days -> Nat], pnl : [Days -> Int]]
  /\ entries \in [Days -> Nat]

\* What is known of the bars and of the pair being processed: no bar is of
\* tomorrow, and what a clean bar did, it did on the window's day.
FlightInv ==
  /\ \A p \in Pairs : stored[p].day <= day
  /\ window.day <= day
  /\ ~booted => \A i \in Instruments : ~pos[i].open
  /\ Working => booted /\ cur.day <= day
  /\ pc = "candle" => cur.before = pos[cur.inst]
  /\ pc \in {"save", "journal"} /\ cur.did # "nothing" /\ Clean => cur.day = window.day
  /\ pc = "save" /\ cur.did = "entered" =>
       pos[cur.inst] = [open |-> TRUE, owner |-> cur.strategy, ver |-> pass.version[cur.strategy]]
  /\ pc = "save" /\ Closed => ~pos[cur.inst].open /\ cur.before.open
  /\ pc = "journal" => Closed /\ ~pos[cur.inst].open /\ cur.before.open

\* A change of the book that is not in its row yet.
Unsaved(i) == pc = "save" /\ cur.did # "nothing" /\ cur.inst = i

\* Book and rows agree on what is open, but for the bar being processed.
BookInv ==
  booted /\ NoneLost => \A i \in Instruments :
    IF Unsaved(i) THEN pos[i].open <=> rows[i] = Unset ELSE pos[i].open <=> rows[i] # Unset

\* The position a stamp of the instrument is about: the open one, and after
\* its close the one just closed, until it is journaled.
Stamped(i) == IF pc \in {"save", "journal"} /\ Closed /\ cur.inst = i THEN cur.before ELSE pos[i]

\* A position opened by a living process and written to its row has its
\* stamp, with its version.
HasStamp(i) ==
  LET k == <<Stamped(i).owner, i>> IN stamps[k] # NoStamp /\ stamps[k].ver = Stamped(i).ver
NeedsStamp(i) ==
  Stamped(i).open /\ Stamped(i).owner # Nobody /\ ~(Unsaved(i) /\ cur.did = "entered")

\* A stamp is about the position its pair opened, and none is missing.
StampInv ==
  NoneLost =>
    /\ \A s \in Strategies, i \in Instruments :
         stamps[<<s, i>>] # NoStamp => Stamped(i).open /\ Stamped(i).owner = s
    /\ \A i \in Instruments : NeedsStamp(i) => HasStamp(i)

\* The day a row will be journaled as opened on: its stamp's, or its own.
OpenedOn(i) ==
  IF Stamped(i).owner # Nobody /\ stamps[<<Stamped(i).owner, i>>] # NoStamp
  THEN stamps[<<Stamped(i).owner, i>>].day ELSE rows[i]

\* The entries of a day in the tables, and what they miss of the bar being
\* processed.  A restart counts every row of the day, also one whose bar is
\* of an earlier day.
RowsOf(d) == {i \in Instruments : rows[i] = d}
Opened(d) == {i \in RowsOf(d) : OpenedOn(i) = d}
Counted(d) == journal.opened[d] + Cardinality(Opened(d))
PendingEntry ==
  IF \/ pc = "save" /\ cur.did = "entered" /\ cur.day = day
     \/ pc = "journal" /\ StampOf(OwnerKey).day = day
  THEN 1 ELSE 0
Gain(did) == IF did = "stopped" THEN -1 ELSE IF did = "gained" THEN 1 ELSE 0
PendingGain == IF pc \in {"save", "journal"} THEN Gain(cur.did) ELSE 0

\* Nothing is entered under a day after the window's.
Edge == IF booted THEN window.day ELSE day
EdgeInv == \A d \in Days : d > Edge => entries[d] = 0

\* The window counts every entry of its day.
CapInv ==
  Trusted =>
    /\ \A d \in Days : entries[d] <= TradeCap
    /\ booted => entries[window.day] <= window.trades
    /\ ~booted /\ "restarted" \notin lapses => \A d \in Days : entries[d] = 0

\* The tables count every entry of today, and the window of today counts no
\* more than they do.
TableInv ==
  Clean =>
    /\ \A d \in Days : d > Edge => journal.pnl[d] = 0
    /\ entries[day] <= Counted(day) + PendingEntry
    /\ booted /\ window.day = day =>
         /\ window.trades <= Counted(day) + PendingEntry
         /\ window.pnl = journal.pnl[day] + PendingGain

IInv == TypeInv /\ FlightInv /\ BookInv /\ StampInv /\ EdgeInv /\ CapInv /\ TableInv
-----------------------------------------------------------------------------
\* The sets of rows are finite, and count.
LEMMA CountType ==
  ASSUME TypeInv, NEW d \in Days
  PROVE  /\ IsFiniteSet(RowsOf(d)) /\ Cardinality(RowsOf(d)) \in Nat
         /\ IsFiniteSet(Opened(d)) /\ Cardinality(Opened(d)) \in Nat
         /\ Cardinality(Opened(d)) <= Cardinality(RowsOf(d))
         /\ Counted(d) \in Nat
<1>1. IsFiniteSet(RowsOf(d)) /\ Cardinality(RowsOf(d)) \in Nat
  BY FS_Subset, FS_CardinalityType DEF RowsOf
<1>2. Opened(d) \subseteq RowsOf(d)
  BY DEF Opened
<1>3. /\ IsFiniteSet(Opened(d)) /\ Cardinality(Opened(d)) \in Nat
      /\ Cardinality(Opened(d)) <= Cardinality(RowsOf(d))
  BY <1>1, <1>2, FS_Subset, FS_CardinalityType
<1>4. journal.opened[d] \in Nat
  BY DEF TypeInv
<1> QED
  BY <1>1, <1>3, <1>4 DEF Counted

\* Of two finite sets of instruments the larger counts no less.
LEMMA MoreRows ==
  ASSUME NEW S \in SUBSET Instruments, NEW T \in SUBSET Instruments, S \subseteq T
  PROVE  /\ IsFiniteSet(S) /\ Cardinality(S) \in Nat /\ Cardinality(T) \in Nat
         /\ Cardinality(S) <= Cardinality(T)
<1>1. IsFiniteSet(S) /\ IsFiniteSet(T)
  BY FS_Subset
<1> QED
  BY <1>1, FS_Subset, FS_CardinalityType

LEMMA IdleType == Idle \in Looks
BY DEF Idle, Looks, Hits, Owners, Positions, Flat, Deeds, Days, Unset

LEMMA InitInv == Init => IInv
<1> SUFFICES ASSUME Init PROVE IInv
  OBVIOUS
<1>1. TypeInv
  <2>1. NoBar \in Bars /\ FreshCount \in Windows
    BY DEF NoBar, Bars, Hits, Days, FreshCount, Windows
  <2>2. /\ stored \in [Pairs -> Bars] /\ window \in Windows /\ cur \in Looks
        /\ pos \in [Instruments -> Positions]
    BY <2>1, IdleType DEF Init, Flat, Positions, Owners, Unset
  <2>3. /\ stamps \in [Pairs -> {NoStamp} \cup [ver : Nat, day : Days]]
        /\ rows \in [Instruments -> {Unset} \cup Days]
        /\ journal \in [opened : [Days -> Nat], pnl : [Days -> Int]]
        /\ entries \in [Days -> Nat]
    BY DEF Init, EmptyRows, EmptyDays
  <2>4. pass \in [entries : BOOLEAN, active : SUBSET Strategies, version : [Strategies -> Nat]]
    BY DEF Init, NoPass
  <2>5. day \in Days /\ version \in [Strategies -> Nat] /\ todo \subseteq Pairs
    BY DEF Init, Days
  <2>6. active \subseteq Strategies /\ pc = "rest" /\ halted \in BOOLEAN /\ booted \in BOOLEAN
    BY Zenon DEF Init
  <2> QED
    BY <2>2, <2>3, <2>4, <2>5, <2>6 DEF TypeInv, Working
<1>2. FlightInv
  <2>1. \A p \in Pairs : stored[p].day = 1
    BY DEF Init, NoBar
  <2> QED
    BY <2>1 DEF Init, FlightInv, Working, Flat, FreshCount
<1>3. BookInv
  BY DEF Init, BookInv
<1>4. StampInv
  BY DEF Init, StampInv, NeedsStamp, HasStamp, Stamped, Flat, Pairs
<1>5. \A d \in Days : entries[d] = 0 /\ journal.pnl[d] = 0
  BY DEF Init, EmptyDays
<1>6. EdgeInv /\ CapInv
  BY <1>5 DEF Init, EdgeInv, CapInv
<1>7. TableInv
  <2>1. Counted(day) \in Nat /\ PendingEntry = 0 /\ day \in Days
    BY <1>1, CountType DEF TypeInv, Init, PendingEntry
  <2> QED
    BY <1>5, <2>1 DEF Init, TableInv
<1> QED
  BY <1>1, <1>2, <1>3, <1>4, <1>6, <1>7 DEF IInv
-----------------------------------------------------------------------------
\* What the argument reads of the account's memory and tables.
books == <<day, booted, pos, window, stamps, rows, journal, entries, lapses>>

\* The entries of a day are found in the same rows, if the stamps are.
LEMMA SameRows ==
  ASSUME UNCHANGED <<rows, stamps, journal>>, \A i \in Instruments : Stamped(i)' = Stamped(i)
  PROVE  \A d : Opened(d)' = Opened(d) /\ Counted(d)' = Counted(d)
<1>1. \A i \in Instruments : OpenedOn(i)' = OpenedOn(i)
  BY DEF OpenedOn
<1>2. \A d : Opened(d)' = Opened(d)
  BY <1>1 DEF Opened, RowsOf
<1> QED
  BY <1>2 DEF Counted

\* Steps that leave memory and tables alone, while a bar is processed or not.
LEMMA KeepInv ==
  ASSUME IInv, TypeInv', UNCHANGED books, \A p \in Pairs : stored'[p].day <= day,
         \/ UNCHANGED <<pc, cur>> /\ pass.version' = pass.version
         \/ ~Working /\ ~Working'
  PROVE  IInv'
<1> USE DEF books
<1>1. FlightInv'
  BY DEF IInv, FlightInv, Working, Closed, Clean
<1>2. BookInv'
  BY DEF IInv, BookInv, Unsaved, Working, NoneLost
<1>3. \A i \in Instruments : Stamped(i)' = Stamped(i) /\ (Unsaved(i) <=> Unsaved(i)')
  BY DEF Stamped, Unsaved, Working, Closed
<1>4. StampInv'
  <2>1. (cur'.did = "entered" <=> cur.did = "entered") \/ \A i \in Instruments : ~Unsaved(i)
    BY DEF Unsaved, Working
  <2> QED
    BY <1>3, <2>1 DEF IInv, StampInv, NeedsStamp, HasStamp, NoneLost
<1>5. EdgeInv' /\ CapInv'
  BY DEF IInv, EdgeInv, Edge, CapInv, Trusted, Clean
<1>6. TableInv'
  <2>1. \A d : Counted(d)' = Counted(d)
    BY <1>3, SameRows
  <2>2. PendingEntry' = PendingEntry /\ PendingGain' = PendingGain
    BY DEF PendingEntry, PendingGain, Gain, Working, StampOf, OwnerKey
  <2> QED
    BY <2>1, <2>2 DEF IInv, TableInv, Edge, Clean
<1> QED
  BY <1>1, <1>2, <1>4, <1>5, <1>6 DEF IInv

\* Book and window are built, or were already; a bar may be taken with it.
LEMMA BootInv ==
  ASSUME IInv, TypeInv', Boot, pc = "pass",
         UNCHANGED <<stored, day, stamps, rows, journal, entries, lapses>>,
         \/ pc' = "pass"
         \/ pc' = "candle" /\ cur'.before = Book[cur'.inst] /\ cur'.day <= day
  PROVE  IInv'
<1>0. booted' /\ pos' = Book /\ window' = Window
  BY DEF Boot
<1>1. FlightInv'
  <2>1. day \in Int
    BY DEF IInv, TypeInv, Days
  <2>2. window'.day <= day
    BY <1>0, <2>1 DEF IInv, FlightInv, Window, RebuiltWindow
  <2> QED
    BY <1>0, <2>2 DEF IInv, FlightInv, Working, Closed
<1>2. BookInv'
  BY <1>0 DEF IInv, BookInv, Unsaved, NoneLost, Book, RestoredBook, Flat
<1>3. /\ \A i \in Instruments : Stamped(i) = pos[i] /\ Stamped(i)' = pos'[i]
      /\ booted => \A i \in Instruments : pos'[i] = pos[i]
      /\ ~booted => \A i \in Instruments : ~pos[i].open /\ pos'[i].owner = Nobody
  <2>1. \A i \in Instruments : Stamped(i) = pos[i] /\ Stamped(i)' = pos'[i]
    BY DEF Stamped
  <2>2. booted => \A i \in Instruments : pos'[i] = pos[i]
    BY <1>0 DEF Book
  <2>3. ~booted => \A i \in Instruments : ~pos[i].open /\ pos'[i].owner = Nobody
    BY <1>0 DEF Book, RestoredBook, Flat, IInv, FlightInv
  <2> QED
    BY <2>1, <2>2, <2>3
<1>4. StampInv'
  BY <1>3 DEF IInv, StampInv, NeedsStamp, HasStamp, NoneLost, Unsaved
<1>5. /\ day \in Days /\ Counted(day) \in Nat /\ Cardinality(RowsOf(day)) \in Nat
      /\ journal.opened[day] \in Nat /\ journal.pnl[day] \in Int /\ entries \in [Days -> Nat]
      /\ window.day \in Days /\ entries[day] \in Nat
  BY CountType DEF IInv, TypeInv, Windows
<1>6. /\ PendingEntry' = 0 /\ PendingGain' = 0
      /\ PendingEntry = 0 /\ PendingGain = 0
  BY DEF PendingEntry, PendingGain, Gain
<1>7. CASE booted
  <2>1. window' = window /\ Edge' = Edge
    BY <1>0, <1>7 DEF Window, Edge
  <2>2. \A d : Counted(d)' = Counted(d)
    BY <1>3, <1>7, SameRows
  <2>3. EdgeInv' /\ CapInv'
    BY <1>0, <1>7, <2>1 DEF IInv, EdgeInv, CapInv, Trusted, Clean
  <2>4. TableInv'
    BY <1>0, <1>6, <1>7, <2>1, <2>2 DEF IInv, TableInv, Clean
  <2> QED
    BY <1>1, <1>2, <1>4, <2>3, <2>4 DEF IInv
<1>8. CASE ~booted
  <2>1. /\ window'.trades = journal.opened[day] + Cardinality(RowsOf(day))
        /\ window'.pnl = journal.pnl[day] /\ window'.day = day
        /\ Edge' = day /\ Edge = day
    BY <1>0, <1>8 DEF Window, RebuiltWindow, RowsOf, Edge
  <2>2. Counted(day)' = journal.opened[day] + Cardinality(RowsOf(day))
    <3>1. \A i \in Instruments : OpenedOn(i)' = rows[i]
      BY <1>3, <1>8 DEF OpenedOn
    <3>2. Opened(day)' = RowsOf(day)
      BY <3>1 DEF Opened, RowsOf
    <3> QED
      BY <3>2 DEF Counted
  <2>3. Counted(day) <= journal.opened[day] + Cardinality(RowsOf(day))
    <3>1. Cardinality(Opened(day)) \in Nat /\ Cardinality(Opened(day)) <= Cardinality(RowsOf(day))
      BY <1>5, CountType DEF IInv
    <3> QED
      BY <1>5, <3>1 DEF Counted
  <2>4. EdgeInv'
    BY <2>1 DEF IInv, EdgeInv
  <2>5. CapInv'
    <3>1. Clean => entries[day] <= Counted(day)
      BY <1>5, <1>6 DEF IInv, TableInv
    <3>2. Trusted => entries[day] <= window'.trades
      BY <1>5, <1>8, <2>1, <2>3, <3>1 DEF IInv, CapInv, Trusted
    <3> QED
      BY <1>0, <2>1, <3>2 DEF IInv, CapInv, Trusted, Clean
  <2>6. TableInv'
    <3>1. Clean => entries[day] <= Counted(day)
      BY <1>5, <1>6 DEF IInv, TableInv
    <3>2. Clean => entries[day] <= Counted(day)'
      BY <1>5, <2>2, <2>3, <3>1
    <3> QED
      BY <1>5, <1>6, <2>1, <2>2, <3>2 DEF IInv, TableInv, Clean
  <2> QED
    BY <1>1, <1>2, <1>4, <2>4, <2>5, <2>6 DEF IInv
<1> QED
  BY <1>7, <1>8
-----------------------------------------------------------------------------
\* The type of what a building of book and window leaves.
LEMMA BootType ==
  ASSUME TypeInv, Boot
  PROVE  booted' \in BOOLEAN /\ pos' \in [Instruments -> Positions] /\ window' \in Windows
<1>1. RestoredBook \in [Instruments -> Positions]
  BY DEF RestoredBook, Flat, Positions, Owners, Unset
<1>2. RebuiltWindow \in Windows
  <2>1. day \in Days
    BY DEF TypeInv
  <2>2. Cardinality(RowsOf(day)) \in Nat /\ journal.opened[day] \in Nat /\ journal.pnl[day] \in Int
    BY <2>1, CountType DEF TypeInv
  <2> QED
    BY <2>1, <2>2 DEF RebuiltWindow, RowsOf, Windows
<1> QED
  BY <1>1, <1>2 DEF TypeInv, Boot, Book, Window

\* The worker begins or ends a pass.
LEMMA PassInv == IInv /\ (StartPass \/ EndPass) => IInv'
<1> SUFFICES ASSUME IInv, StartPass \/ EndPass PROVE IInv'
  OBVIOUS
<1>1. /\ ~Working /\ ~Working' /\ UNCHANGED books
      /\ UNCHANGED <<stored, active, version, halted>>
  BY DEF StartPass, EndPass, Rest, Working, books, memoryVars, tableVars, Quiet, NoFault, marketVars, settingVars
<1>2. cur' \in Looks /\ todo' \subseteq Pairs
  BY IdleType DEF IInv, TypeInv, StartPass, EndPass, Rest, Pairs
<1>3. pass' \in [entries : BOOLEAN, active : SUBSET Strategies, version : [Strategies -> Nat]]
  <2>1. CASE StartPass
    BY <2>1 DEF IInv, TypeInv, StartPass
  <2>2. CASE EndPass
    BY <2>2 DEF EndPass, Rest, NoPass
  <2> QED
    BY <2>1, <2>2
<1>4. pc' \in {"rest", "pass"}
  BY DEF StartPass, EndPass, Rest
<1>5. TypeInv'
  BY <1>1, <1>2, <1>3, <1>4 DEF IInv, TypeInv, books
<1> QED
  BY <1>1, <1>5, KeepInv DEF IInv, FlightInv

\* Bars, settings and the halt change around the worker.
LEMMA SurroundingsInv ==
  ASSUME IInv, Worker, UNCHANGED <<day>>,
         stored' \in [Pairs -> Bars], \A p \in Pairs : stored'[p].day <= day,
         active' \subseteq Strategies, version' \in [Strategies -> Nat], halted' \in BOOLEAN
  PROVE  IInv'
<1>1. UNCHANGED books /\ UNCHANGED <<pc, cur, pass, todo>>
  BY DEF Worker, passVars, memoryVars, tableVars, books
<1>2. TypeInv'
  BY <1>1 DEF IInv, TypeInv, books, Working
<1> QED
  BY <1>1, <1>2, KeepInv

LEMMA EnvironmentInv ==
  ASSUME IInv,
         \/ Switch \/ HaltOrResume
         \/ \E p \in Pairs : NewBar(p) \/ FeedStops(p)
         \/ \E s \in Strategies : SwitchStrategy(s) \/ Edit(s)
  PROVE  IInv'
<1>0. /\ stored \in [Pairs -> Bars] /\ active \subseteq Strategies
      /\ version \in [Strategies -> Nat] /\ halted \in BOOLEAN /\ day \in Days
      /\ \A p \in Pairs : stored[p].day <= day
  BY DEF IInv, TypeInv, FlightInv
<1> USE DEF marketVars, settingVars
<1>1. CASE Switch
  BY <1>0, <1>1, SurroundingsInv DEF Switch
<1>2. CASE HaltOrResume
  <2>1. halted' \in BOOLEAN
    BY <1>2 DEF HaltOrResume
  <2> QED
    BY <1>0, <1>2, <2>1, SurroundingsInv DEF HaltOrResume
<1>3. ASSUME NEW p \in Pairs, NewBar(p) PROVE IInv'
  <2>1. PICK t \in 1 .. MaxBar, d \in stored[p].day .. day, hits \in Touches :
          stored' = [stored EXCEPT ![p] = [t |-> t, day |-> d, hits |-> hits, fresh |-> TRUE]]
    BY <1>3 DEF NewBar
  <2>2. d \in Days /\ d <= day
    <3>1. stored[p].day \in Days
      BY <1>0 DEF Bars
    <3> QED
      BY <1>0, <3>1 DEF Days
  <2>3. [t |-> t, day |-> d, hits |-> hits, fresh |-> TRUE] \in Bars
    BY <2>2 DEF Bars, Hits
  <2>4. stored' \in [Pairs -> Bars] /\ \A q \in Pairs : stored'[q].day <= day
    BY <1>0, <2>1, <2>2, <2>3
  <2> QED
    BY <1>0, <1>3, <2>4, SurroundingsInv DEF NewBar
<1>4. ASSUME NEW p \in Pairs, FeedStops(p) PROVE IInv'
  <2>1. stored[p] \in Bars
    BY <1>0
  <2>2. /\ [stored[p] EXCEPT !.fresh = FALSE] \in Bars
        /\ [stored[p] EXCEPT !.fresh = FALSE].day = stored[p].day
    BY <2>1 DEF Bars
  <2>3. stored' = [stored EXCEPT ![p] = [stored[p] EXCEPT !.fresh = FALSE]]
    BY <1>0, <1>4 DEF FeedStops
  <2>4. stored' \in [Pairs -> Bars] /\ \A q \in Pairs : stored'[q].day <= day
    BY <1>0, <2>2, <2>3
  <2> QED
    BY <1>0, <1>4, <2>4, SurroundingsInv DEF FeedStops
<1>5. ASSUME NEW s \in Strategies, SwitchStrategy(s) PROVE IInv'
  BY <1>0, <1>5, SurroundingsInv DEF SwitchStrategy
<1>6. ASSUME NEW s \in Strategies, Edit(s) PROVE IInv'
  <2>1. version' \in [Strategies -> Nat]
    BY <1>0, <1>6 DEF Edit
  <2> QED
    BY <1>0, <1>6, <2>1, SurroundingsInv DEF Edit
<1> QED
  BY <1>1, <1>2, <1>3, <1>4, <1>5, <1>6

\* Midnight: no entry and no loss of the new day yet.
LEMMA NextDayInv == IInv /\ NextDay => IInv'
<1> SUFFICES ASSUME IInv, NextDay PROVE IInv'
  OBVIOUS
<1>1. /\ day' = day + 1 /\ day' \in Days /\ day \in Days /\ day < day'
      /\ UNCHANGED <<stored, active, version, halted, pc, todo, pass, cur>>
      /\ UNCHANGED <<booted, pos, window, stamps, rows, journal, entries, lapses>>
  BY DEF IInv, TypeInv, NextDay, Days, Worker, passVars, memoryVars, tableVars, settingVars
<1>2. TypeInv'
  BY <1>1 DEF IInv, TypeInv, Working
<1>3. /\ window.day \in Days /\ window.day <= day /\ window.day < day'
      /\ \A p \in Pairs : stored[p].day \in Days /\ stored[p].day <= day
      /\ cur.day \in Days
  <2>1. window.day \in Days /\ cur.day \in Days
    BY DEF IInv, TypeInv, Looks, Windows
  <2>2. window.day <= day /\ \A p \in Pairs : stored[p] \in Bars /\ stored[p].day <= day
    BY DEF IInv, TypeInv, FlightInv
  <2>3. window.day < day'
    BY <1>1, <2>1, <2>2 DEF Days
  <2> QED
    BY <2>1, <2>2, <2>3 DEF Bars
<1>4. FlightInv'
  <2>1. \A p \in Pairs : stored[p].day <= day'
    BY <1>1, <1>3 DEF Days
  <2>2. window.day <= day' /\ (cur.day <= day => cur.day <= day')
    BY <1>1, <1>3 DEF Days
  <2> QED
    BY <1>1, <2>1, <2>2 DEF IInv, FlightInv, Working, Closed, Clean
<1>5. BookInv' /\ StampInv'
  BY <1>1 DEF IInv, BookInv, StampInv, NeedsStamp, HasStamp, NoneLost, Unsaved, Stamped, Closed
<1>6. Edge \in Days /\ Edge <= day /\ Edge <= Edge'
  BY <1>1, <1>3 DEF Edge, Days
<1>7. EdgeInv'
  <2>1. Edge' \in Days
    BY <1>1, <1>3 DEF Edge
  <2> QED
    BY <1>1, <1>6, <2>1 DEF IInv, EdgeInv, Days
<1>8. CapInv'
  BY <1>1 DEF IInv, CapInv, Trusted, Clean
<1>9. TableInv'
  <2>1. Counted(day)' \in Nat /\ PendingEntry' \in {0, 1}
    <3>1. PICK d \in Days : d = day'
      BY <1>1
    <3>2. \A i \in Instruments : Stamped(i)' = Stamped(i)
      BY <1>1 DEF Stamped, Closed
    <3>3. Counted(d)' = Counted(d)
      BY <1>1, <3>2, SameRows
    <3>4. Counted(d) \in Nat
      BY CountType DEF IInv
    <3>5. Counted(day)' = Counted(d)'
      BY <3>1 DEF Counted, Opened, RowsOf
    <3> QED
      BY <3>3, <3>4, <3>5 DEF PendingEntry
  <2>2. entries[day'] = 0
    BY <1>1, <1>6 DEF IInv, EdgeInv, Days
  <2>3. Clean => \A d \in Days : d > Edge' => journal.pnl[d] = 0
    <3>1. Edge' \in Days
      BY <1>1, <1>3 DEF Edge
    <3>2. \A d \in Days : d > Edge' => d > Edge
      BY <1>6, <3>1 DEF Days
    <3> QED
      BY <3>2 DEF IInv, TableInv
  <2>4. window.day # day'
    BY <1>1, <1>3 DEF Days
  <2>5. 0 <= Counted(day)' + PendingEntry'
    BY <2>1
  <2> QED
    BY <1>1, <2>2, <2>3, <2>4, <2>5 DEF TableInv, Clean
<1> QED
  BY <1>2, <1>4, <1>5, <1>7, <1>8, <1>9 DEF IInv

\* A pair is looked at: its bar is left alone, taken or left for later.
LEMMA LookInv ==
  ASSUME IInv, NEW s \in Strategies, NEW i \in Instruments, Skip(s, i) \/ Take(s, i) \/ Defer(s, i)
  PROVE  IInv'
<1>0. /\ pc = "pass" /\ Boot
      /\ UNCHANGED <<active, version, halted, pass>>
      /\ UNCHANGED <<stored, day, stamps, rows, journal, entries, lapses>>
  BY DEF Skip, Take, Defer, Wanted, tableVars, Quiet, NoFault, marketVars, settingVars, Fault
<1>1. CASE Skip(s, i) \/ Defer(s, i)
  <2>1. pc' = "pass" /\ cur' = cur /\ todo' = todo \ {<<s, i>>}
    BY <1>0, <1>1 DEF Skip, Defer
  <2>2. TypeInv'
    BY <1>0, <2>1, BootType DEF IInv, TypeInv, Working
  <2> QED
    BY <1>0, <2>1, <2>2, BootInv
<1>2. CASE Take(s, i)
  <2>1. /\ pc' = "candle" /\ todo' = todo
        /\ cur' = [strategy |-> s, inst |-> i,
                   day |-> stored[<<s, i>>].day, hits |-> stored[<<s, i>>].hits,
                   before |-> Book[i], did |-> "nothing"]
    BY <1>2 DEF Take
  <2>2. Book[i] \in Positions
    BY <1>0, BootType DEF IInv, Boot
  <2>3. /\ stored[<<s, i>>].day \in Days /\ stored[<<s, i>>].hits \in Hits
        /\ stored[<<s, i>>].day <= day
    <3>1. <<s, i>> \in Pairs
      BY DEF Pairs
    <3>2. stored[<<s, i>>] \in Bars /\ stored[<<s, i>>].day <= day
      BY <3>1 DEF IInv, TypeInv, FlightInv
    <3> QED
      BY <3>2 DEF Bars
  <2>4. cur' \in Looks
    BY <2>1, <2>2, <2>3 DEF Looks, Owners, Deeds
  <2>5. cur'.strategy \in Strategies /\ cur'.inst \in Instruments
        /\ cur'.before = Book[cur'.inst] /\ cur'.day <= day
    BY <2>1, <2>3
  <2>6. TypeInv'
    BY <1>0, <2>1, <2>4, <2>5, BootType DEF IInv, TypeInv, Working
  <2> QED
    BY <1>0, <2>1, <2>5, <2>6, BootInv
<1> QED
  BY <1>1, <1>2
-----------------------------------------------------------------------------
\* What a bar finds: the window on the bar's day, or ahead of it.
LEMMA CandleFacts ==
  ASSUME IInv, pc = "candle"
  PROVE  /\ cur.strategy \in Strategies /\ cur.inst \in Instruments /\ booted
         /\ cur.before = pos[cur.inst]
         /\ day \in Days /\ Counted(day) \in Nat /\ entries \in [Days -> Nat]
         /\ journal.pnl \in [Days -> Int]
         /\ Rolled \in Windows /\ Rolled.day <= day
         /\ ~(cur.day < window.day) => cur.day = Rolled.day
         /\ cur.day <= day
         /\ \A d \in Days : d > Rolled.day => entries[d] = 0
         /\ Trusted => /\ \A d \in Days : entries[d] <= TradeCap
                       /\ entries[Rolled.day] <= Rolled.trades
         /\ Clean => /\ \A d \in Days : d > Rolled.day => journal.pnl[d] = 0
                     /\ entries[day] <= Counted(day)
                     /\ Rolled.day = day => Rolled.trades <= Counted(day) /\ Rolled.pnl = journal.pnl[day]
<1>1. /\ cur.strategy \in Strategies /\ cur.inst \in Instruments /\ booted
      /\ cur.before = pos[cur.inst] /\ cur.day <= day /\ window.day <= day
  BY DEF IInv, TypeInv, FlightInv, Working
<1>2. /\ day \in Days /\ Counted(day) \in Nat /\ entries \in [Days -> Nat]
      /\ journal.pnl \in [Days -> Int] /\ cur.day \in Days /\ window \in Windows /\ window.day \in Days
  BY CountType DEF IInv, TypeInv, Looks, Windows
<1>3. PendingEntry = 0 /\ PendingGain = 0 /\ Edge = window.day
  BY <1>1 DEF PendingEntry, PendingGain, Gain, Edge
<1>4. Clean => entries[day] <= Counted(day)
  BY <1>2, <1>3 DEF IInv, TableInv
<1>5. CASE cur.day > window.day
  <2>1. Rolled = [trades |-> 0, pnl |-> 0, day |-> cur.day]
    BY <1>5 DEF Rolled
  <2>2. Rolled \in Windows /\ Rolled.day = cur.day /\ Rolled.trades = 0 /\ Rolled.pnl = 0
    BY <1>2, <2>1 DEF Windows
  <2>3. \A d \in Days : d > Rolled.day => d > window.day
    BY <1>2, <1>5, <2>2 DEF Days
  <2>4. entries[cur.day] = 0 /\ \A d \in Days : d > Rolled.day => entries[d] = 0
    BY <1>2, <1>3, <1>5, <2>3 DEF IInv, EdgeInv
  <2>5. Clean => journal.pnl[cur.day] = 0 /\ \A d \in Days : d > Rolled.day => journal.pnl[d] = 0
    BY <1>2, <1>3, <1>5, <2>3 DEF IInv, TableInv
  <2> QED
    BY <1>1, <1>2, <1>4, <2>2, <2>4, <2>5 DEF IInv, CapInv
<1>6. CASE ~(cur.day > window.day)
  <2>1. Rolled = window
    BY <1>6 DEF Rolled
  <2>2. ~(cur.day < window.day) => cur.day = Rolled.day
    BY <1>2, <1>6, <2>1 DEF Days
  <2>3. /\ \A d \in Days : d > Rolled.day => entries[d] = 0
        /\ Trusted => /\ \A d \in Days : entries[d] <= TradeCap
                      /\ entries[Rolled.day] <= Rolled.trades
    BY <1>1, <1>3, <2>1 DEF IInv, EdgeInv, CapInv
  <2>4. Clean => /\ \A d \in Days : d > Rolled.day => journal.pnl[d] = 0
                 /\ Rolled.day = day => Rolled.trades <= Counted(day) /\ Rolled.pnl = journal.pnl[day]
    <3>1. journal.pnl[day] \in Int /\ window.trades \in Nat
      BY <1>2 DEF Windows
    <3> QED
      BY <1>1, <1>2, <1>3, <2>1, <3>1 DEF IInv, TableInv
  <2> QED
    BY <1>1, <1>2, <1>4, <2>1, <2>2, <2>3, <2>4
<1> QED
  BY <1>5, <1>6

\* A bar behind the window ends what is claimed of counters, and nothing else.
LEMMA CountingFacts ==
  ASSUME Counting
  PROVE  /\ NoneLost' <=> NoneLost
         /\ Clean' => Clean /\ ~(cur.day < window.day)
         /\ Trusted' => Trusted
<1>1. "restarted" \in lapses' <=> "restarted" \in lapses
  BY DEF Counting, Lapse
<1>2. (NoneLost' <=> NoneLost) /\ (Clean' => Clean /\ ~(cur.day < window.day))
  BY DEF Counting, Lapse, NoneLost, Clean
<1> QED
  BY <1>1, <1>2 DEF Trusted

\* The types after a bar was fed: what the engine did, and the new window.
LEMMA FeedType ==
  ASSUME IInv, pc = "candle", NEW did \in Deeds, Feed(did),
         UNCHANGED <<stored, active, version, halted, todo, pass, booted, stamps, rows, journal>>,
         day' = day,
         pos' \in [Instruments -> Positions], window' \in Windows, entries' \in [Days -> Nat]
  PROVE  /\ TypeInv'
         /\ pc' = "save" /\ cur'.did = did /\ cur'.inst = cur.inst /\ cur'.day = cur.day
         /\ cur'.strategy = cur.strategy /\ cur'.before = cur.before
<1>1. cur \in Looks
  BY DEF IInv, TypeInv
<1>2. pc' = "save" /\ cur' = [cur EXCEPT !.did = did]
  BY DEF Feed
<1>3. /\ cur' \in Looks
      /\ cur'.did = did /\ cur'.inst = cur.inst /\ cur'.day = cur.day
      /\ cur'.strategy = cur.strategy /\ cur'.before = cur.before
  BY <1>1, <1>2 DEF Looks
<1>4. TypeInv'
  BY <1>2, <1>3 DEF IInv, TypeInv, Working
<1> QED
  BY <1>2, <1>3, <1>4

\* The bar changed nothing, with or without a position.
LEMMA NothingInv ==
  ASSUME IInv, pc = "candle", Feed("nothing"), window' = Rolled, pos' = pos,
         UNCHANGED <<stored, active, version, halted, todo, pass, booted, stamps, rows, journal>>,
         UNCHANGED <<day, entries, lapses>>
  PROVE  IInv'
<1>1. /\ TypeInv'
      /\ pc' = "save" /\ cur'.did = "nothing" /\ cur'.inst = cur.inst /\ cur'.before = cur.before
      /\ cur'.day = cur.day
  <2>1. pos' \in [Instruments -> Positions] /\ window' \in Windows /\ entries' \in [Days -> Nat]
    BY CandleFacts DEF IInv, TypeInv
  <2> QED
    BY <2>1, FeedType DEF Deeds
<1>2. FlightInv'
  BY <1>1, CandleFacts DEF IInv, FlightInv, Closed, Working
<1>3. BookInv'
  BY <1>1, CandleFacts DEF IInv, BookInv, Unsaved, NoneLost
<1>4. \A i \in Instruments : Stamped(i) = pos[i] /\ Stamped(i)' = pos[i] /\ ~Unsaved(i) /\ ~Unsaved(i)'
  BY <1>1 DEF Stamped, Closed, Unsaved
<1>5. StampInv'
  BY <1>4 DEF IInv, StampInv, NeedsStamp, HasStamp, NoneLost
<1>6. Edge' = Rolled.day
  BY CandleFacts DEF Edge
<1>7. EdgeInv' /\ CapInv'
  BY <1>6, CandleFacts DEF EdgeInv, CapInv, Trusted, Clean
<1>8. TableInv'
  <2>1. \A d : Counted(d)' = Counted(d)
    BY <1>4, SameRows
  <2>2. PendingEntry' = 0 /\ PendingGain' = 0
    BY <1>1 DEF PendingEntry, PendingGain, Gain
  <2>3. Rolled.trades \in Nat /\ journal.pnl[day] \in Int /\ entries[day] \in Nat
    BY CandleFacts DEF Windows
  <2> QED
    BY <1>6, <2>1, <2>2, <2>3, CandleFacts DEF TableInv, Clean
<1> QED
  BY <1>1, <1>2, <1>3, <1>5, <1>7, <1>8 DEF IInv

\* A bracket was hit: the position closes, its row and its stamp are still there.
LEMMA ClosesInv ==
  ASSUME IInv, pc = "candle", pos[cur.inst].open,
         NEW did \in {"stopped", "gained"}, Feed(did), Counting,
         pos' = [pos EXCEPT ![cur.inst] = Flat],
         window' \in Windows,
         window'.trades = Rolled.trades, window'.day = Rolled.day,
         window'.pnl = Rolled.pnl + Gain(did),
         UNCHANGED <<stored, active, version, halted, todo, pass, booted, stamps, rows, journal>>,
         UNCHANGED <<day, entries>>
  PROVE  IInv'
<1>1. /\ TypeInv'
      /\ pc' = "save" /\ cur'.did = did /\ cur'.inst = cur.inst /\ cur'.before = cur.before
      /\ cur'.day = cur.day
  <2>1. pos' \in [Instruments -> Positions]
    BY DEF IInv, TypeInv, Flat, Positions, Owners, Unset
  <2>2. entries' \in [Days -> Nat]
    BY DEF IInv, TypeInv
  <2>3. did \in Deeds
    BY DEF Deeds
  <2> QED
    BY <2>1, <2>2, <2>3, FeedType
<1>2. /\ Closed' /\ cur'.did # "entered" /\ cur'.did # "nothing"
      /\ ~pos'[cur.inst].open
  BY <1>1, CandleFacts DEF Closed, Flat, IInv, TypeInv
<1>3. /\ NoneLost' => NoneLost
      /\ Clean' => Clean /\ cur.day = Rolled.day
      /\ Trusted' => Trusted
  BY CountingFacts, CandleFacts
<1>4. FlightInv'
  BY <1>1, <1>2, <1>3, CandleFacts DEF IInv, FlightInv, Working
<1>5. \A i \in Instruments : i # cur.inst => pos'[i] = pos[i]
  BY DEF IInv, TypeInv
<1>6. BookInv'
  BY <1>1, <1>2, <1>3, <1>5, CandleFacts DEF IInv, BookInv, Unsaved
<1>7. \A i \in Instruments : Stamped(i)' = Stamped(i)
  BY <1>1, <1>2, <1>5, CandleFacts DEF Stamped
<1>8. StampInv'
  BY <1>2, <1>3, <1>7 DEF IInv, StampInv, NeedsStamp, HasStamp, Unsaved
<1>9. Edge' = Rolled.day
  BY CandleFacts DEF Edge
<1>10. EdgeInv' /\ CapInv'
  BY <1>3, <1>9, CandleFacts DEF EdgeInv, CapInv
<1>11. TableInv'
  <2>1. \A d : Counted(d)' = Counted(d)
    BY <1>7, SameRows
  <2>2. PendingEntry' = 0 /\ PendingGain' = Gain(did) /\ Gain(did) \in Int
    BY <1>1, <1>2 DEF PendingEntry, PendingGain, Gain
  <2>3. Rolled.trades \in Nat /\ journal.pnl[day] \in Int /\ entries[day] \in Nat
    BY CandleFacts DEF Windows
  <2> QED
    BY <1>3, <1>9, <2>1, <2>2, <2>3, CandleFacts DEF TableInv
<1> QED
  BY <1>1, <1>4, <1>6, <1>8, <1>10, <1>11 DEF IInv

LEMMA ExitInv == IInv /\ (Exit \/ NoEntry) => IInv'
<1> SUFFICES ASSUME IInv, Exit \/ NoEntry PROVE IInv'
  OBVIOUS
<1>1. CASE Exit /\ cur.hits # {}
  <2>1. PICK did \in {"stopped", "gained"} :
          did = IF "stop" \in cur.hits THEN "stopped" ELSE "gained"
    OBVIOUS
  <2>2. /\ pc = "candle" /\ pos[cur.inst].open /\ Feed(did) /\ Counting
        /\ pos' = [pos EXCEPT ![cur.inst] = Flat]
        /\ UNCHANGED <<stored, active, version, halted, todo, pass, booted, stamps, rows, journal>>
        /\ UNCHANGED <<day, entries>>
    BY <1>1, <2>1 DEF Exit, tableVars, Quiet, marketVars, settingVars
  <2>3. /\ window' \in Windows
        /\ window'.trades = Rolled.trades /\ window'.day = Rolled.day
        /\ window'.pnl = Rolled.pnl + Gain(did)
    <3>1. PICK w \in Windows : w = Rolled
      BY <2>2, CandleFacts
    <3>2. PICK gain \in Int : gain = Gain(did)
      BY DEF Gain
    <3>3. (IF "stop" \in cur.hits THEN -1 ELSE 1) = gain
      BY <2>1, <3>2 DEF Gain
    <3>4. window' = [w EXCEPT !.pnl = @ + gain]
      BY <1>1, <3>1, <3>3 DEF Exit
    <3> QED
      BY <3>1, <3>2, <3>4 DEF Windows
  <2> QED
    BY <2>2, <2>3, ClosesInv
<1>2. CASE (Exit /\ cur.hits = {}) \/ NoEntry
  <2>1. /\ pc = "candle" /\ Feed("nothing") /\ window' = Rolled /\ pos' = pos
        /\ UNCHANGED <<stored, active, version, halted, todo, pass, booted, stamps, rows, journal>>
        /\ UNCHANGED <<day, entries, lapses>>
    BY <1>2 DEF Exit, NoEntry, tableVars, Quiet, NoFault, marketVars, settingVars
  <2> QED
    BY <2>1, NothingInv
<1> QED
  BY <1>1, <1>2

\* An entry: the window has room for it, so its day has.
LEMMA EnterInv == IInv /\ Enter => IInv'
<1> SUFFICES ASSUME IInv, Enter PROVE IInv'
  OBVIOUS
<1> DEFINE new == [open |-> TRUE, owner |-> cur.strategy, ver |-> pass.version[cur.strategy]]
<1>0. /\ pc = "candle" /\ ~pos[cur.inst].open /\ Rolled.trades < TradeCap /\ Feed("entered")
      /\ Counting /\ pos' = [pos EXCEPT ![cur.inst] = new]
      /\ entries' = [entries EXCEPT ![Rolled.day] = @ + 1]
      /\ UNCHANGED <<stored, active, version, halted, todo, pass, booted, stamps, rows, journal>>
      /\ UNCHANGED day
  BY DEF Enter, GateOpen, tableVars, Quiet, marketVars, settingVars
<1>1. /\ window' \in Windows
      /\ window'.trades = Rolled.trades + 1 /\ window'.day = Rolled.day /\ window'.pnl = Rolled.pnl
      /\ Rolled.trades \in Nat /\ Rolled.day \in Days
  <2>1. PICK w \in Windows : w = Rolled
    BY <1>0, CandleFacts
  <2>2. window' = [w EXCEPT !.trades = @ + 1]
    BY <2>1 DEF Enter
  <2> QED
    BY <2>1, <2>2 DEF Windows
<1>2. /\ entries' \in [Days -> Nat]
      /\ entries'[Rolled.day] = entries[Rolled.day] + 1 /\ entries[Rolled.day] \in Nat
      /\ \A d \in Days : d # Rolled.day => entries'[d] = entries[d]
  BY <1>0, <1>1 DEF IInv, TypeInv
<1>3. /\ TypeInv'
      /\ pc' = "save" /\ cur'.did = "entered" /\ cur'.inst = cur.inst /\ cur'.day = cur.day
      /\ cur'.strategy = cur.strategy /\ cur'.before = cur.before
  <2>1. new \in Positions
    BY <1>0, CandleFacts DEF IInv, TypeInv, Positions, Owners
  <2>2. pos' \in [Instruments -> Positions]
    BY <1>0, <2>1 DEF IInv, TypeInv
  <2>3. "entered" \in Deeds
    BY DEF Deeds
  <2> QED
    BY <1>0, <1>1, <1>2, <2>2, <2>3, FeedType
<1>4. /\ ~Closed' /\ pos'[cur.inst] = new
      /\ \A i \in Instruments : i # cur.inst => pos'[i] = pos[i]
  BY <1>0, <1>3, CandleFacts DEF Closed, IInv, TypeInv
<1>5. /\ NoneLost' => NoneLost
      /\ Clean' => Clean /\ cur.day = Rolled.day
      /\ Trusted' => Trusted
  BY <1>0, CountingFacts, CandleFacts
<1>6. FlightInv'
  <2>1. window'.day <= day /\ cur'.day <= day
    BY <1>0, <1>1, <1>3, CandleFacts
  <2> QED
    BY <1>0, <1>1, <1>3, <1>4, <1>5, <2>1, CandleFacts DEF IInv, FlightInv, Working
<1>7. BookInv'
  BY <1>0, <1>3, <1>4, <1>5, CandleFacts DEF IInv, BookInv, Unsaved
<1>8. \A i \in Instruments : Stamped(i) = pos[i] /\ Stamped(i)' = pos'[i] /\ ~Unsaved(i)
  BY <1>0, <1>4 DEF Stamped, Unsaved
<1>9. StampInv'
  <2>1. \A i \in Instruments : i = cur.inst => Unsaved(i)' /\ cur'.did = "entered"
    BY <1>3 DEF Unsaved
  <2>2. ASSUME NoneLost, NEW s \in Strategies, NEW i \in Instruments, stamps[<<s, i>>] # NoStamp
        PROVE  pos'[i].open /\ pos'[i].owner = s
    BY <1>0, <1>4, <1>8, <2>2 DEF IInv, StampInv
  <2>3. ASSUME NoneLost, NEW i \in Instruments, NeedsStamp(i)' PROVE HasStamp(i)'
    <3>1. i # cur.inst
      BY <2>1, <2>3 DEF NeedsStamp
    <3>2. Stamped(i)' = Stamped(i)
      BY <1>4, <1>8, <3>1
    <3>3. NeedsStamp(i)
      BY <1>8, <2>3, <3>2 DEF NeedsStamp
    <3> QED
      BY <1>0, <2>3, <3>2, <3>3 DEF IInv, StampInv, HasStamp
  <2> QED
    BY <1>0, <1>5, <1>8, <2>2, <2>3 DEF StampInv
<1>10. Edge' = Rolled.day
  BY <1>0, <1>1, CandleFacts DEF Edge
<1>11. EdgeInv'
  <2>1. \A d \in Days : d > Rolled.day => d # Rolled.day
    BY <1>1 DEF Days
  <2> QED
    BY <1>0, <1>2, <1>10, <2>1, CandleFacts DEF EdgeInv
<1>12. CapInv'
  <2>1. Trusted => \A d \in Days : entries[d] <= TradeCap
    BY <1>0, CandleFacts
  <2>2. Trusted => entries'[Rolled.day] <= window'.trades /\ entries'[Rolled.day] <= TradeCap
    BY <1>0, <1>1, <1>2, CandleFacts
  <2>3. Trusted => \A d \in Days : entries'[d] <= TradeCap
    BY <1>2, <2>1, <2>2
  <2> QED
    BY <1>0, <1>1, <1>5, <2>2, <2>3, CandleFacts DEF CapInv
<1>13. ASSUME Clean', NEW d \in Days PROVE Counted(d)' >= Counted(d) /\ Counted(d)' \in Nat /\ Counted(d) \in Nat
  <2>1. rows[cur.inst] = Unset /\ cur.inst \in Instruments
    BY <1>0, <1>5, <1>8, <1>13, CandleFacts DEF IInv, BookInv, Clean, NoneLost
  <2>2. \A i \in Opened(d) : i \in Instruments /\ rows[i] = d /\ i # cur.inst
    BY <2>1 DEF Opened, RowsOf, Days, Unset
  <2>3. \A i \in Opened(d) : OpenedOn(i)' = OpenedOn(i)
    BY <1>0, <1>4, <1>8, <2>2 DEF OpenedOn
  <2>4. Opened(d) \subseteq Opened(d)'
    BY <1>0, <2>2, <2>3 DEF Opened, RowsOf
  <2>5. Cardinality(Opened(d)) \in Nat /\ Cardinality(Opened(d)') \in Nat
        /\ Cardinality(Opened(d)) <= Cardinality(Opened(d)')
    <3>1. Opened(d) \in SUBSET Instruments /\ Opened(d)' \in SUBSET Instruments
      BY <1>0 DEF Opened, RowsOf
    <3> QED
      BY <2>4, <3>1, MoreRows
  <2>6. journal.opened[d] \in Nat
    BY DEF IInv, TypeInv
  <2> QED
    BY <1>0, <2>5, <2>6 DEF Counted
<1>14. TableInv'
  <2> SUFFICES ASSUME Clean' PROVE TableInv'
    BY DEF TableInv
  <2>1. /\ Clean /\ cur.day = Rolled.day /\ day \in Days /\ Rolled.day <= day
        /\ entries[day] \in Nat /\ journal.pnl[day] \in Int
    BY <1>0, <1>5, CandleFacts
  <2>2. Counted(day)' >= Counted(day) /\ Counted(day)' \in Nat /\ Counted(day) \in Nat
    <3>1. PICK d \in Days : d = day
      BY <2>1
    <3>2. Counted(d)' >= Counted(d) /\ Counted(d)' \in Nat /\ Counted(d) \in Nat
      BY <1>13
    <3>3. Counted(day)' = Counted(d)'
      BY <1>0, <3>1 DEF Counted, Opened, RowsOf
    <3> QED
      BY <3>1, <3>2, <3>3
  <2>3. PendingEntry' = (IF cur.day = day THEN 1 ELSE 0) /\ PendingGain' = 0
    BY <1>0, <1>3, <1>4 DEF PendingEntry, PendingGain, Gain
  <2>4. entries[day] <= Counted(day)
    BY <1>0, <2>1, CandleFacts
  <2>5. CASE Rolled.day = day
    <3>1. Rolled.trades <= Counted(day) /\ Rolled.pnl = journal.pnl[day]
      BY <1>0, <2>1, <2>5, CandleFacts
    <3>2. PendingEntry' = 1 /\ entries'[day] = entries[day] + 1
      BY <1>2, <2>1, <2>3, <2>5
    <3>3. entries'[day] <= Counted(day)' + 1 /\ window'.trades <= Counted(day)' + 1
          /\ window'.pnl = journal.pnl[day] + 0
      BY <1>1, <2>1, <2>2, <2>4, <3>1, <3>2
    <3> QED
      BY <1>0, <1>10, <2>1, <2>3, <3>2, <3>3, CandleFacts DEF TableInv
  <2>6. CASE Rolled.day # day
    <3>1. entries'[day] = entries[day] /\ PendingEntry' = 0
      BY <1>2, <2>1, <2>3, <2>6
    <3>2. entries'[day] <= Counted(day)' + 0
      BY <2>1, <2>2, <2>4, <3>1
    <3> QED
      BY <1>0, <1>1, <1>10, <2>1, <2>6, <3>1, <3>2, CandleFacts DEF TableInv
  <2> QED
    BY <2>5, <2>6
<1> QED
  BY <1>3, <1>6, <1>7, <1>9, <1>11, <1>12, <1>14 DEF IInv
-----------------------------------------------------------------------------
\* The row a bar is written to.
LEMMA WrittenFacts ==
  ASSUME IInv, pc = "save"
  PROVE  \E v \in {Unset} \cup Days :
           /\ Written = [rows EXCEPT ![cur.inst] = v]
           /\ v = IF ~pos[cur.inst].open THEN Unset ELSE IF rows[cur.inst] = Unset THEN day ELSE rows[cur.inst]
<1>1. cur.inst \in Instruments /\ day \in Days /\ rows[cur.inst] \in {Unset} \cup Days
  BY DEF IInv, TypeInv, Working
<1> QED
  BY <1>1 DEF Written

\* A stamp that is popped names a day; the position's owner is a strategy, or
\* unknown.
LEMMA OwnerFacts ==
  ASSUME IInv, Working
  PROVE  /\ OwnerKey \in Pairs
         /\ OwnerKey[2] = cur.inst
         /\ StampOf(OwnerKey).day \in Days
<1>1. /\ cur.strategy \in Strategies /\ cur.inst \in Instruments
      /\ cur.before \in Positions /\ cur.day \in Days
  BY DEF IInv, TypeInv, Looks
<1>2. OwnerKey \in Pairs /\ OwnerKey[2] = cur.inst
  BY <1>1 DEF OwnerKey, Pairs, Positions, Owners
<1>3. stamps[OwnerKey] \in {NoStamp} \cup [ver : Nat, day : Days]
  BY <1>2 DEF IInv, TypeInv
<1> QED
  BY <1>1, <1>2, <1>3 DEF StampOf

LEMMA SaveType ==
  ASSUME IInv, Save
  PROVE  TypeInv'
<1>0. /\ pc = "save" /\ rows' = Written
      /\ cur.strategy \in Strategies /\ cur.inst \in Instruments /\ cur.day \in Days
      /\ UNCHANGED <<stored, active, version, halted, pass, day, booted, pos, window, journal, entries>>
  BY DEF Save, Quiet, NoFault, marketVars, settingVars, IInv, TypeInv, Working, Looks
<1>1. rows' \in [Instruments -> {Unset} \cup Days]
  BY <1>0, WrittenFacts DEF IInv, TypeInv
<1>2. stamps' \in [Pairs -> {NoStamp} \cup [ver : Nat, day : Days]]
  <2>1. [ver |-> pass.version[cur.strategy], day |-> cur.day] \in [ver : Nat, day : Days]
    BY <1>0 DEF IInv, TypeInv
  <2> QED
    BY <2>1 DEF Save, IInv, TypeInv
<1>3. CASE Closed
  BY <1>0, <1>1, <1>2, <1>3 DEF Save, IInv, TypeInv, Working
<1>4. CASE ~Closed
  <2>1. pc' = "pass" /\ cur' = Idle /\ todo' \subseteq Pairs
    BY <1>4 DEF Save, Finish, IInv, TypeInv
  <2> QED
    BY <1>0, <1>1, <1>2, <2>1, IdleType DEF IInv, TypeInv, Working
<1> QED
  BY <1>3, <1>4

\* What the writes leave alone: the cap is not about the tables.
LEMMA WritesKeepCap ==
  ASSUME IInv, UNCHANGED <<day, booted, window, entries, lapses>>
  PROVE  EdgeInv' /\ CapInv'
BY DEF IInv, EdgeInv, Edge, CapInv, Trusted, Clean

\* The bar changed nothing, so its row is what it was.
LEMMA SaveNothingInv ==
  ASSUME IInv, Save, cur.did = "nothing"
  PROVE  IInv'
<1>0. /\ pc = "save" /\ pc' = "pass" /\ rows' = Written /\ stamps' = stamps
      /\ cur.inst \in Instruments
      /\ UNCHANGED <<stored, pass, day, booted, pos, window, journal, entries, lapses>>
  BY DEF Save, Closed, Finish, Quiet, NoFault, marketVars, IInv, TypeInv, Working
<1>1. TypeInv'
  BY SaveType
<1>2. FlightInv'
  BY <1>0 DEF IInv, FlightInv, Working
<1>3. EdgeInv' /\ CapInv'
  BY <1>0, WritesKeepCap
<1>4. CASE ~NoneLost
  BY <1>0, <1>1, <1>2, <1>3, <1>4 DEF IInv, BookInv, StampInv, TableInv, NoneLost, Clean
<1>5. CASE NoneLost
  <2>1. pos[cur.inst].open <=> rows[cur.inst] # Unset
    BY <1>0, <1>5 DEF IInv, FlightInv, BookInv, Unsaved, Working
  <2>2. rows' = rows
    <3>1. Written = [rows EXCEPT ![cur.inst] = rows[cur.inst]]
      BY <1>0, <2>1, WrittenFacts
    <3> QED
      BY <1>0, <3>1 DEF IInv, TypeInv
  <2>3. \A i \in Instruments : /\ Stamped(i) = pos[i] /\ Stamped(i)' = pos[i]
                               /\ ~Unsaved(i) /\ ~Unsaved(i)'
    BY <1>0 DEF Stamped, Closed, Unsaved
  <2>4. BookInv' /\ StampInv'
    BY <1>0, <2>2, <2>3 DEF IInv, BookInv, StampInv, NeedsStamp, HasStamp, NoneLost
  <2>5. TableInv'
    <3>1. \A d : Counted(d)' = Counted(d)
      BY <1>0, <2>2, <2>3, SameRows
    <3>2. PendingEntry' = 0 /\ PendingGain' = 0 /\ PendingEntry = 0 /\ PendingGain = 0
      BY <1>0 DEF PendingEntry, PendingGain, Gain
    <3> QED
      BY <1>0, <3>1, <3>2 DEF IInv, TableInv, Edge, Clean
  <2> QED
    BY <1>1, <1>2, <1>3, <2>4, <2>5 DEF IInv
<1> QED
  BY <1>4, <1>5

\* The entry's row is created and its stamp made: the tables count it now.
LEMMA SaveEnteredInv ==
  ASSUME IInv, Save, cur.did = "entered"
  PROVE  IInv'
<1> DEFINE new == [ver |-> pass.version[cur.strategy], day |-> cur.day]
<1>0. /\ pc = "save" /\ pc' = "pass" /\ rows' = Written
      /\ stamps' = [stamps EXCEPT ![<<cur.strategy, cur.inst>>] = new]
      /\ cur.inst \in Instruments /\ cur.strategy \in Strategies /\ day \in Days /\ cur.day \in Days
      /\ UNCHANGED <<stored, pass, day, booted, pos, window, journal, entries, lapses>>
  BY DEF Save, Closed, Finish, Quiet, NoFault, marketVars, IInv, TypeInv, Working, Looks
<1>1. TypeInv'
  BY SaveType
<1>2. FlightInv'
  BY <1>0 DEF IInv, FlightInv, Working
<1>3. EdgeInv' /\ CapInv'
  BY <1>0, WritesKeepCap
<1>4. CASE ~NoneLost
  BY <1>0, <1>1, <1>2, <1>3, <1>4 DEF IInv, BookInv, StampInv, TableInv, NoneLost, Clean
<1>5. CASE NoneLost
  <2>1. /\ pos[cur.inst].open /\ pos[cur.inst].owner = cur.strategy
        /\ pos[cur.inst].ver = pass.version[cur.strategy]
        /\ booted
    BY <1>0 DEF IInv, FlightInv, Working
  <2>2. rows[cur.inst] = Unset
    BY <1>0, <1>5, <2>1 DEF IInv, BookInv, Unsaved
  <2>3. rows' = [rows EXCEPT ![cur.inst] = day]
    BY <1>0, <2>1, <2>2, WrittenFacts
  <2>4. \A i \in Instruments : /\ Stamped(i) = pos[i] /\ Stamped(i)' = pos[i] /\ ~Unsaved(i)'
                               /\ i # cur.inst => ~Unsaved(i)
    BY <1>0 DEF Stamped, Closed, Unsaved
  <2>5. /\ rows'[cur.inst] = day /\ \A i \in Instruments : i # cur.inst => rows'[i] = rows[i]
        /\ stamps'[<<cur.strategy, cur.inst>>] = new
        /\ \A s \in Strategies, i \in Instruments :
             s # cur.strategy \/ i # cur.inst => stamps'[<<s, i>>] = stamps[<<s, i>>]
    BY <1>0, <2>3 DEF IInv, TypeInv, Pairs
  <2>6. day # Unset /\ new # NoStamp
    BY <1>0 DEF Days, Unset, NoStamp
  <2>7. BookInv'
    BY <1>0, <1>5, <2>1, <2>4, <2>5, <2>6 DEF IInv, BookInv, NoneLost
  <2>8. StampInv'
    <3>1. ASSUME NEW s \in Strategies, NEW i \in Instruments, stamps'[<<s, i>>] # NoStamp
          PROVE  pos[i].open /\ pos[i].owner = s
      BY <1>5, <2>1, <2>4, <2>5, <3>1 DEF IInv, StampInv
    <3>2. ASSUME NEW i \in Instruments, NeedsStamp(i)' PROVE HasStamp(i)'
      <4>1. CASE i = cur.inst
        BY <1>0, <2>1, <2>4, <2>5, <2>6, <4>1 DEF HasStamp
      <4>2. CASE i # cur.inst
        <5>1. NeedsStamp(i) /\ HasStamp(i)
          BY <1>0, <1>5, <2>4, <3>2, <4>2 DEF NeedsStamp, IInv, StampInv
        <5>2. pos[i].owner \in Strategies
          BY <1>0, <2>4, <5>1 DEF NeedsStamp, IInv, TypeInv, Positions, Owners
        <5> QED
          BY <1>0, <2>4, <2>5, <4>2, <5>1, <5>2 DEF HasStamp
      <4> QED
        BY <4>1, <4>2
    <3> QED
      BY <1>0, <2>4, <3>1, <3>2 DEF StampInv
  <2>9. Counted(day)' >= Counted(day) + (IF cur.day = day THEN 1 ELSE 0)
        /\ Counted(day)' \in Nat /\ Counted(day) \in Nat
    <3>1. PICK d \in Days : d = day
      BY <1>0
    <3>2. \A i \in Opened(d) : i \in Instruments /\ i # cur.inst /\ rows[i] = d
      BY <2>2, <3>1, <2>6 DEF Opened, RowsOf
    <3>3. \A i \in Opened(d) : OpenedOn(i)' = OpenedOn(i)
      <4> SUFFICES ASSUME NEW i \in Opened(d) PROVE OpenedOn(i)' = OpenedOn(i)
        OBVIOUS
      <4>1. i \in Instruments /\ i # cur.inst
        BY <3>2
      <4>2. pos[i].owner \in Owners
        BY <4>1 DEF IInv, TypeInv, Positions
      <4>3. pos[i].owner # Nobody => stamps'[<<pos[i].owner, i>>] = stamps[<<pos[i].owner, i>>]
        BY <2>5, <4>1, <4>2 DEF Owners
      <4> QED
        BY <2>4, <2>5, <4>1, <4>3 DEF OpenedOn
    <3>4. Opened(d) \subseteq Opened(d)' /\ cur.inst \notin Opened(d)
      BY <2>5, <3>2, <3>3 DEF Opened, RowsOf
    <3>5. cur.day = day => cur.inst \in Opened(d)'
      <4>1. cur.strategy # Nobody
        BY <1>0
      <4>2. PICK i \in Instruments : i = cur.inst
        BY <1>0
      <4>3. Stamped(i)' = pos[i] /\ stamps'[<<cur.strategy, i>>] = new
        BY <2>4, <2>5, <4>2
      <4>4. OpenedOn(i)' = cur.day
        BY <1>0, <2>1, <2>6, <4>1, <4>2, <4>3 DEF OpenedOn
      <4>5. cur.day = day => i \in Opened(d)'
        BY <2>5, <3>1, <4>2, <4>4 DEF Opened, RowsOf
      <4> QED
        BY <4>2, <4>5
    <3>6. Opened(d) \in SUBSET Instruments /\ Opened(d)' \in SUBSET Instruments
      BY <1>0 DEF Opened, RowsOf
    <3>7. /\ IsFiniteSet(Opened(d))
          /\ Cardinality(Opened(d)) \in Nat /\ Cardinality(Opened(d)') \in Nat
          /\ Cardinality(Opened(d)) <= Cardinality(Opened(d)')
      BY <3>4, <3>6, MoreRows
    <3>8. cur.day = day => Cardinality(Opened(d)) + 1 <= Cardinality(Opened(d)')
      <4> SUFFICES ASSUME cur.day = day PROVE Cardinality(Opened(d)) + 1 <= Cardinality(Opened(d)')
        OBVIOUS
      <4>1. Cardinality(Opened(d) \cup {cur.inst}) = Cardinality(Opened(d)) + 1
        BY <3>4, <3>7, FS_AddElement
      <4>2. Opened(d) \cup {cur.inst} \in SUBSET Instruments /\ Opened(d) \cup {cur.inst} \subseteq Opened(d)'
        BY <1>0, <3>4, <3>5, <3>6
      <4>3. Cardinality(Opened(d) \cup {cur.inst}) <= Cardinality(Opened(d)')
        BY <3>6, <4>2, MoreRows
      <4> QED
        BY <4>1, <4>3
    <3>9. journal.opened[d] \in Nat
      BY DEF IInv, TypeInv
    <3>10. Counted(d)' >= Counted(d) + (IF cur.day = day THEN 1 ELSE 0)
           /\ Counted(d)' \in Nat /\ Counted(d) \in Nat
      BY <1>0, <3>7, <3>8, <3>9 DEF Counted
    <3>11. Counted(day)' = Counted(d)'
      BY <1>0, <3>1 DEF Counted, Opened, RowsOf
    <3> QED
      BY <3>1, <3>10, <3>11
  <2>10. TableInv'
    <3>1. /\ PendingEntry' = 0 /\ PendingGain' = 0 /\ PendingGain = 0
          /\ PendingEntry = (IF cur.day = day THEN 1 ELSE 0)
      BY <1>0 DEF PendingEntry, PendingGain, Gain
    <3>2. entries[day] \in Nat /\ window.trades \in Nat /\ journal.pnl[day] \in Int
      BY <1>0 DEF IInv, TypeInv, Windows
    <3> QED
      BY <1>0, <2>9, <3>1, <3>2 DEF IInv, TableInv, Edge, Clean
  <2> QED
    BY <1>1, <1>2, <1>3, <2>7, <2>8, <2>10 DEF IInv
<1> QED
  BY <1>4, <1>5

\* The closed position's row goes; what it counted for is owed by the journal.
LEMMA SaveClosedInv ==
  ASSUME IInv, Save, Closed
  PROVE  IInv'
<1>0. /\ pc = "save" /\ pc' = "journal" /\ rows' = Written /\ stamps' = stamps
      /\ cur' = cur /\ cur.did # "entered" /\ cur.did # "nothing"
      /\ cur.inst \in Instruments /\ day \in Days
      /\ UNCHANGED <<stored, pass, day, booted, pos, window, journal, entries, lapses>>
  BY DEF Save, Closed, Finish, Quiet, NoFault, marketVars, IInv, TypeInv, Working
<1>1. TypeInv'
  BY SaveType
<1>2. Closed' /\ ~pos[cur.inst].open /\ cur.before.open /\ booted
  BY <1>0 DEF Closed, IInv, FlightInv, Working
<1>3. FlightInv'
  BY <1>0, <1>2 DEF IInv, FlightInv, Working, Clean
<1>4. EdgeInv' /\ CapInv'
  BY <1>0, WritesKeepCap
<1>5. rows'[cur.inst] = Unset /\ \A i \in Instruments : i # cur.inst => rows'[i] = rows[i]
  BY <1>0, <1>2, WrittenFacts DEF IInv, TypeInv
<1>6. \A i \in Instruments : /\ Stamped(i)' = Stamped(i) /\ ~Unsaved(i)'
                             /\ i # cur.inst => ~Unsaved(i)
  BY <1>0, <1>2 DEF Stamped, Unsaved
<1>7. BookInv'
  BY <1>0, <1>2, <1>5, <1>6 DEF IInv, BookInv, NoneLost
<1>8. StampInv'
  BY <1>0, <1>6 DEF IInv, StampInv, NeedsStamp, HasStamp, NoneLost
<1>9. ASSUME Clean PROVE TableInv'
  <2>1. PICK d \in Days : d = day
    BY <1>0
  <2>2. /\ Counted(day)' \in Nat /\ Counted(day) \in Nat
        /\ Counted(day)' >= Counted(day) - (IF cur.inst \in Opened(d) THEN 1 ELSE 0)
    <3> DEFINE T == Opened(d) \ {cur.inst}
    <3>1. \A i \in T : i \in Instruments /\ rows'[i] = d /\ OpenedOn(i)' = OpenedOn(i)
      BY <1>0, <1>5, <1>6 DEF Opened, RowsOf, OpenedOn
    <3>2. T \subseteq Opened(d)'
      BY <3>1 DEF Opened, RowsOf
    <3>3. T \in SUBSET Instruments /\ Opened(d)' \in SUBSET Instruments
      BY DEF Opened, RowsOf
    <3>4. IsFiniteSet(Opened(d)) /\ Cardinality(Opened(d)) \in Nat
      BY CountType DEF IInv
    <3>5. Cardinality(T) = Cardinality(Opened(d)) - (IF cur.inst \in Opened(d) THEN 1 ELSE 0)
      <4>1. PICK S \in SUBSET Instruments : S = Opened(d)
        BY DEF Opened, RowsOf
      <4>2. IsFiniteSet(S) /\ Cardinality(S) \in Nat
        BY <3>4, <4>1
      <4>3. Cardinality(S \ {cur.inst}) = IF cur.inst \in S THEN Cardinality(S) - 1 ELSE Cardinality(S)
        BY ONLY <4>2, FS_RemoveElement
      <4> QED
        BY <4>1, <4>2, <4>3
    <3> HIDE DEF T
    <3>6. /\ Cardinality(T) \in Nat /\ Cardinality(Opened(d)') \in Nat
          /\ Cardinality(T) <= Cardinality(Opened(d)')
      BY <3>2, <3>3, MoreRows
    <3>7. journal.opened[d] \in Nat
      BY DEF IInv, TypeInv
    <3>8. /\ Counted(d)' \in Nat /\ Counted(d) \in Nat
          /\ Counted(d)' >= Counted(d) - (IF cur.inst \in Opened(d) THEN 1 ELSE 0)
      BY <1>0, <3>4, <3>5, <3>6, <3>7 DEF Counted
    <3>9. Counted(day)' = Counted(d)'
      BY <1>0, <2>1 DEF Counted, Opened, RowsOf
    <3> QED
      BY <2>1, <3>8, <3>9
  <2>3. /\ entries[day] \in Nat /\ window.trades \in Nat /\ journal.pnl[day] \in Int
        /\ window.day \in Days /\ window.day <= day
    BY <1>0 DEF IInv, TypeInv, Windows, FlightInv
  <2>4. PendingEntry = 0 /\ PendingGain' = PendingGain /\ PendingGain \in Int
    BY <1>0 DEF PendingEntry, PendingGain, Gain
  <2>5. PendingEntry' \in {0, 1} /\ (StampOf(OwnerKey).day = day => PendingEntry' = 1)
    <3>1. StampOf(OwnerKey)'.day = StampOf(OwnerKey).day
      BY <1>0 DEF StampOf, OwnerKey
    <3> QED
      BY <1>0, <3>1 DEF PendingEntry
  <2>6. CASE window.day # day
    <3>1. entries[day] = 0
      BY <1>0, <1>2, <2>3, <2>6 DEF IInv, EdgeInv, Edge, Days
    <3>2. 0 <= Counted(day)' + PendingEntry'
      BY <2>2, <2>5
    <3> QED
      BY <1>0, <1>2, <2>6, <3>1, <3>2 DEF IInv, TableInv, Edge, Clean
  <2>7. CASE window.day = day
    <3>1. cur.day = day
      BY <1>0, <1>9, <2>7 DEF IInv, FlightInv
    <3>2. cur.inst \in Opened(d) => StampOf(OwnerKey).day = day
      <4> SUFFICES ASSUME cur.inst \in Opened(d) PROVE StampOf(OwnerKey).day = day
        OBVIOUS
      <4>1. rows[cur.inst] = day /\ OpenedOn(cur.inst) = day /\ Stamped(cur.inst) = cur.before
        BY <1>0, <2>1 DEF Opened, RowsOf, Stamped
      <4>2. CASE stamps[OwnerKey] = NoStamp
        BY <3>1, <4>2 DEF StampOf
      <4>3. CASE stamps[OwnerKey] # NoStamp
        <5>1. OwnerKey = <<cur.before.owner, cur.inst>> /\ cur.before.owner # Nobody
          <6>1. OwnerKey \in Pairs
            BY <1>0, OwnerFacts DEF Working
          <6>2. PICK s \in Strategies : OwnerKey = <<s, cur.inst>>
            BY <6>1 DEF OwnerKey, Pairs
          <6>3. Stamped(cur.inst).owner = s
            BY <1>0, <1>9, <4>3, <6>2 DEF IInv, StampInv, Clean, NoneLost
          <6> QED
            BY <4>1, <6>2, <6>3
        <5> QED
          BY <4>1, <4>3, <5>1 DEF OpenedOn, StampOf
      <4> QED
        BY <4>2, <4>3
    <3>3. Counted(day)' + PendingEntry' >= Counted(day)
      BY <2>2, <2>5, <3>2
    <3>4. Counted(day)' + PendingEntry' \in Nat
      BY <2>2, <2>5
    <3>5. entries[day] <= Counted(day) /\ window.trades <= Counted(day) /\ window.pnl = journal.pnl[day] + PendingGain
      BY <1>2, <1>9, <2>2, <2>3, <2>4, <2>7 DEF IInv, TableInv
    <3>6. entries[day] <= Counted(day)' + PendingEntry' /\ window.trades <= Counted(day)' + PendingEntry'
      BY <2>2, <2>3, <3>3, <3>4, <3>5
    <3>7. \A e \in Days : e > Edge' => journal.pnl[e] = 0
      BY <1>0, <1>9 DEF IInv, TableInv, Edge
    <3> QED
      BY <1>0, <2>4, <3>5, <3>6, <3>7 DEF TableInv
  <2> QED
    BY <2>6, <2>7
<1>10. TableInv'
  BY <1>0, <1>9 DEF TableInv, Clean
<1> QED
  BY <1>1, <1>3, <1>4, <1>7, <1>8, <1>10 DEF IInv

\* The trade is journaled under the day its stamp names, and the stamp goes.
LEMMA JournalInv == IInv /\ Journal => IInv'
<1> SUFFICES ASSUME IInv, Journal PROVE IInv'
  OBVIOUS
<1> DEFINE of == StampOf(OwnerKey).day
           gain == Gain(cur.did)
<1>0. /\ pc = "journal" /\ pc' = "pass" /\ cur' = Idle /\ todo' = todo \ {<<cur.strategy, cur.inst>>}
      /\ stamps' = [stamps EXCEPT ![OwnerKey] = NoStamp]
      /\ UNCHANGED <<stored, active, version, halted, pass, day, booted, pos, window, rows, entries, lapses>>
  BY DEF Journal, Finish, Quiet, NoFault, marketVars, settingVars
<1>1. /\ of \in Days /\ day \in Days /\ cur.day \in Days /\ OwnerKey \in Pairs /\ gain \in Int
      /\ cur.inst \in Instruments /\ Closed /\ ~pos[cur.inst].open /\ booted
  BY <1>0, OwnerFacts DEF IInv, TypeInv, FlightInv, Working, Gain, Looks
<1>2. /\ journal'.opened = [journal.opened EXCEPT ![of] = @ + 1]
      /\ journal'.pnl = [journal.pnl EXCEPT ![cur.day] = @ + gain]
      /\ journal' \in [opened : [Days -> Nat], pnl : [Days -> Int]]
  <2>1. (IF cur.did = "stopped" THEN -1 ELSE 1) = gain
    BY <1>1 DEF Closed, Gain
  <2>2. journal' = [opened |-> [journal.opened EXCEPT ![of] = @ + 1],
                    pnl |-> [journal.pnl EXCEPT ![cur.day] = @ + gain]]
    BY <2>1 DEF Journal
  <2>3. [journal.opened EXCEPT ![of] = @ + 1] \in [Days -> Nat]
    BY <1>1 DEF IInv, TypeInv
  <2>4. [journal.pnl EXCEPT ![cur.day] = @ + gain] \in [Days -> Int]
    BY <1>1 DEF IInv, TypeInv
  <2> HIDE DEF of, gain
  <2> QED
    BY <2>2, <2>3, <2>4
<1> HIDE DEF of, gain
<1>3. TypeInv'
  BY <1>0, <1>1, <1>2, IdleType DEF IInv, TypeInv, Working
<1>4. FlightInv'
  BY <1>0 DEF IInv, FlightInv, Working
<1>5. BookInv'
  BY <1>0 DEF IInv, BookInv, Unsaved, NoneLost
<1>6. EdgeInv' /\ CapInv'
  BY <1>0, WritesKeepCap
<1>7. \A i \in Instruments : Stamped(i)' = pos[i] /\ (i # cur.inst => Stamped(i) = pos[i]) /\ ~Unsaved(i)
  BY <1>0 DEF Stamped, Unsaved
<1>8. /\ \A p \in Pairs : stamps'[p] = IF p = OwnerKey THEN NoStamp ELSE stamps[p]
      /\ OwnerKey[2] = cur.inst
  BY <1>0 DEF IInv, TypeInv, OwnerKey
<1>9. StampInv'
  <2> SUFFICES ASSUME NoneLost PROVE StampInv'
    BY <1>0 DEF StampInv, NoneLost
  <2>1. Stamped(cur.inst) = cur.before
    BY <1>0, <1>1 DEF Stamped
  <2>2. ASSUME NEW s \in Strategies, NEW i \in Instruments, stamps'[<<s, i>>] # NoStamp
        PROVE  pos[i].open /\ pos[i].owner = s
    <3>1. <<s, i>> # OwnerKey /\ stamps[<<s, i>>] # NoStamp
      BY <1>8, <2>2 DEF Pairs
    <3>2. Stamped(i).owner = s /\ Stamped(i).open
      BY <3>1 DEF IInv, StampInv
    <3>3. i # cur.inst
      <4> SUFFICES ASSUME i = cur.inst PROVE FALSE
        OBVIOUS
      <4>1. cur.before.owner = s /\ s # Nobody
        BY <2>1, <3>2
      <4> QED
        BY <3>1, <4>1 DEF OwnerKey
    <3> QED
      BY <1>7, <3>2, <3>3
  <2>3. ASSUME NEW i \in Instruments, NeedsStamp(i)' PROVE HasStamp(i)'
    <3>1. pos[i].open /\ pos[i].owner # Nobody
      BY <1>7, <2>3 DEF NeedsStamp
    <3>2. i # cur.inst
      BY <1>1, <3>1
    <3>3. HasStamp(i)
      BY <1>7, <3>1, <3>2 DEF NeedsStamp, IInv, StampInv
    <3>4. pos[i].owner \in Strategies
      BY <3>1 DEF IInv, TypeInv, Positions, Owners
    <3>5. stamps'[<<pos[i].owner, i>>] = stamps[<<pos[i].owner, i>>]
      BY <1>8, <3>2, <3>4 DEF Pairs
    <3> QED
      BY <1>7, <3>2, <3>3, <3>5 DEF HasStamp
  <2> QED
    BY <1>7, <2>2, <2>3 DEF StampInv
<1>10. ASSUME Clean PROVE TableInv'
  <2>1. cur.day = window.day /\ window.day <= day
    BY <1>0, <1>1, <1>10 DEF IInv, FlightInv, Closed
  <2>2. /\ Counted(day)' \in Nat /\ Counted(day) \in Nat
        /\ Counted(day)' >= Counted(day) + (IF of = day THEN 1 ELSE 0)
    <3>1. PICK d \in Days : d = day
      BY <1>1
    <3>2. rows[cur.inst] = Unset
      BY <1>0, <1>1, <1>7, <1>10 DEF IInv, BookInv, Clean, NoneLost
    <3>3. \A i \in Opened(d) : i \in Instruments /\ i # cur.inst /\ rows[i] = d
      BY <3>2 DEF Opened, RowsOf, Days, Unset
    <3>4. \A i \in Opened(d) : OpenedOn(i)' = OpenedOn(i)
      <4> SUFFICES ASSUME NEW i \in Opened(d) PROVE OpenedOn(i)' = OpenedOn(i)
        OBVIOUS
      <4>1. i \in Instruments /\ i # cur.inst
        BY <3>3
      <4>2. pos[i].owner \in Owners
        BY <4>1 DEF IInv, TypeInv, Positions
      <4>3. pos[i].owner # Nobody => stamps'[<<pos[i].owner, i>>] = stamps[<<pos[i].owner, i>>]
        BY <1>8, <4>1, <4>2 DEF Owners, Pairs
      <4> QED
        BY <1>0, <1>7, <4>1, <4>3 DEF OpenedOn
    <3>5. Opened(d) \subseteq Opened(d)'
      BY <1>0, <3>3, <3>4 DEF Opened, RowsOf
    <3>6. Opened(d) \in SUBSET Instruments /\ Opened(d)' \in SUBSET Instruments
      BY <1>0 DEF Opened, RowsOf
    <3>7. /\ Cardinality(Opened(d)) \in Nat /\ Cardinality(Opened(d)') \in Nat
          /\ Cardinality(Opened(d)) <= Cardinality(Opened(d)')
      BY <3>5, <3>6, MoreRows
    <3>8. /\ journal.opened[d] \in Nat
          /\ journal'.opened[d] = journal.opened[d] + (IF of = d THEN 1 ELSE 0)
      BY <1>1, <1>2 DEF IInv, TypeInv
    <3>9. /\ Counted(d)' \in Nat /\ Counted(d) \in Nat
          /\ Counted(d)' >= Counted(d) + (IF of = d THEN 1 ELSE 0)
      BY <3>7, <3>8 DEF Counted
    <3>10. Counted(day)' = Counted(d)'
      BY <1>0, <3>1 DEF Counted, Opened, RowsOf
    <3> QED
      BY <3>1, <3>9, <3>10
  <2>3. PendingEntry = (IF of = day THEN 1 ELSE 0) /\ PendingEntry' = 0 /\ PendingGain' = 0
        /\ PendingGain = gain
    BY <1>0 DEF PendingEntry, PendingGain, of, gain
  <2>4. /\ entries[day] \in Nat /\ window.trades \in Nat /\ journal.pnl \in [Days -> Int]
        /\ window.day \in Days
    BY <1>1 DEF IInv, TypeInv, Windows
  <2>5. entries[day] <= Counted(day)' + 0
    BY <1>1, <1>10, <2>2, <2>3, <2>4 DEF IInv, TableInv
  <2>6. window.day = day => /\ window.trades <= Counted(day)' + 0
                            /\ window.pnl = journal'.pnl[day] + 0
    <3> SUFFICES ASSUME window.day = day
                 PROVE  window.trades <= Counted(day)' + 0 /\ window.pnl = journal'.pnl[day] + 0
      OBVIOUS
    <3>1. window.trades <= Counted(day) + PendingEntry /\ window.pnl = journal.pnl[day] + gain
      BY <1>1, <1>10, <2>3 DEF IInv, TableInv
    <3>2. journal'.pnl[day] = journal.pnl[day] + gain /\ journal.pnl[day] \in Int
      BY <1>1, <1>2, <2>1, <2>4
    <3> QED
      BY <1>1, <2>2, <2>3, <2>4, <3>1, <3>2
  <2>7. \A e \in Days : e > Edge' => journal'.pnl[e] = 0
    <3>1. Edge' = window.day /\ Edge = window.day
      BY <1>0, <1>1 DEF Edge
    <3>2. \A e \in Days : e > window.day => e # cur.day
      BY <2>1, <2>4 DEF Days
    <3>3. \A e \in Days : e # cur.day => journal'.pnl[e] = journal.pnl[e]
      BY <1>1, <1>2, <2>4
    <3> QED
      BY <1>10, <3>1, <3>2, <3>3 DEF IInv, TableInv
  <2> QED
    BY <1>0, <2>3, <2>5, <2>6, <2>7 DEF TableInv
<1>11. TableInv'
  BY <1>0, <1>10 DEF TableInv, Clean
<1> QED
  BY <1>3, <1>4, <1>5, <1>6, <1>9, <1>11 DEF IInv

LEMMA SaveInv == IInv /\ Save => IInv'
<1> SUFFICES ASSUME IInv, Save PROVE IInv'
  OBVIOUS
<1>1. cur.did \in Deeds
  BY DEF IInv, TypeInv, Looks
<1> QED
  BY <1>1, SaveNothingInv, SaveEnteredInv, SaveClosedInv DEF Deeds, Closed

\* A write raises: from now on the tables are not claimed of, and the cap
\* only until the next restart.
LEMMA WriteRaisesInv == IInv /\ WriteRaises => IInv'
<1> SUFFICES ASSUME IInv, WriteRaises PROVE IInv'
  OBVIOUS
<1>0. /\ pc \in {"save", "journal"} /\ pc' = "rest" /\ todo' = {} /\ cur' = Idle /\ pass' = NoPass
      /\ lapses' = lapses \cup {"unwritten"}
      /\ UNCHANGED <<stored, active, version, halted, day, booted, pos, window, journal, entries>>
  BY DEF WriteRaises, Rest, Lapse, Quiet, marketVars, settingVars
<1>1. rows' \in [Instruments -> {Unset} \cup Days]
  <2>1. pc = "save" => Written \in [Instruments -> {Unset} \cup Days]
    BY WrittenFacts DEF IInv, TypeInv
  <2> QED
    BY <1>0, <2>1 DEF WriteRaises, IInv, TypeInv
<1>2. stamps' \in [Pairs -> {NoStamp} \cup [ver : Nat, day : Days]]
  BY <1>0 DEF WriteRaises, IInv, TypeInv
<1>3. pass' \in [entries : BOOLEAN, active : SUBSET Strategies, version : [Strategies -> Nat]]
  BY <1>0 DEF NoPass
<1>4. TypeInv'
  BY <1>0, <1>1, <1>2, <1>3, IdleType DEF IInv, TypeInv, Working
<1>5. FlightInv'
  BY <1>0 DEF IInv, FlightInv, Working
<1>6. ~NoneLost' /\ ~Clean'
  BY <1>0 DEF NoneLost, Clean
<1>7. Trusted' => Trusted /\ "restarted" \notin lapses
  BY <1>0, <1>6 DEF Trusted
<1>8. EdgeInv' /\ CapInv'
  BY <1>0, <1>7 DEF IInv, EdgeInv, Edge, CapInv
<1> QED
  BY <1>4, <1>5, <1>6, <1>8 DEF IInv, BookInv, StampInv, TableInv

\* A worker that dies keeps the rows and the journal, which count every
\* entry of the day unless it died between a fill and its rows.
LEMMA CrashInv == IInv /\ Crash => IInv'
<1> SUFFICES ASSUME IInv, Crash PROVE IInv'
  OBVIOUS
<1>0. /\ pc' = "rest" /\ todo' = {} /\ cur' = Idle /\ pass' = NoPass
      /\ booted' = FALSE /\ pos' = [i \in Instruments |-> Flat] /\ window' = FreshCount
      /\ stamps' = [p \in Pairs |-> NoStamp]
      /\ UNCHANGED <<stored, active, version, halted, day, rows, journal, entries>>
  BY DEF Crash, Rest, Quiet, tableVars, marketVars, settingVars
<1>1. /\ "restarted" \in lapses'
      /\ Clean' => Clean /\ pc \notin {"save", "journal"}
  BY DEF Crash, Clean
<1>2. TypeInv'
  <2>1. pass' \in [entries : BOOLEAN, active : SUBSET Strategies, version : [Strategies -> Nat]]
    BY <1>0 DEF NoPass
  <2>2. pos' \in [Instruments -> Positions]
    BY <1>0 DEF Flat, Positions, Owners, Unset
  <2>3. window' \in Windows
    BY <1>0 DEF FreshCount, Days, Windows
  <2>4. stamps' \in [Pairs -> {NoStamp} \cup [ver : Nat, day : Days]]
    BY <1>0
  <2>5. booted' \in BOOLEAN
    BY <1>0
  <2> QED
    BY <1>0, <2>1, <2>2, <2>3, <2>4, <2>5, IdleType DEF IInv, TypeInv, Working
<1>3. FlightInv'
  BY <1>0 DEF IInv, TypeInv, FlightInv, Working, Flat, FreshCount, Days
<1>4. BookInv'
  BY <1>0 DEF BookInv
<1>5. \A i \in Instruments : Stamped(i)' = Flat
  BY <1>0 DEF Stamped
<1>6. StampInv'
  <2>1. \A s \in Strategies, i \in Instruments : stamps'[<<s, i>>] = NoStamp
    BY <1>0 DEF Pairs
  <2> QED
    BY <1>5, <2>1 DEF StampInv, NeedsStamp, Flat
<1>7. /\ day \in Days /\ window.day \in Days /\ window.day <= day
      /\ entries \in [Days -> Nat]
  BY DEF IInv, TypeInv, FlightInv, Windows
<1>8. /\ Edge' = day /\ Edge \in Days /\ Edge <= day
      /\ \A d \in Days : d > day => d > Edge
  <2>1. Edge' = day /\ Edge \in Days /\ Edge <= day
    BY <1>0, <1>7 DEF Edge, Days
  <2> QED
    BY <1>7, <2>1 DEF Days
<1>9. EdgeInv'
  BY <1>0, <1>8 DEF IInv, EdgeInv
<1>10. CapInv'
  BY <1>0, <1>1 DEF IInv, CapInv, Trusted
<1>11. TableInv'
  <2>1. Counted(day)' >= Counted(day) /\ Counted(day)' \in Nat /\ Counted(day) \in Nat
    <3>1. PICK d \in Days : d = day
      BY <1>7
    <3>2. Opened(d)' = RowsOf(d)
      BY <1>0, <1>5 DEF Opened, RowsOf, OpenedOn, Flat
    <3>3. /\ Cardinality(RowsOf(d)) \in Nat /\ Cardinality(Opened(d)) \in Nat
          /\ Cardinality(Opened(d)) <= Cardinality(RowsOf(d)) /\ journal.opened[d] \in Nat
      BY CountType DEF IInv, TypeInv
    <3>4. Counted(d)' = journal.opened[d] + Cardinality(RowsOf(d))
      BY <1>0, <3>2 DEF Counted
    <3>5. Counted(d) = journal.opened[d] + Cardinality(Opened(d))
      BY DEF Counted
    <3>6. Counted(day)' = Counted(d)'
      BY <1>0, <3>1 DEF Counted, Opened, RowsOf
    <3> QED
      BY <3>1, <3>3, <3>4, <3>5, <3>6
  <2>2. PendingEntry' = 0 /\ (pc \notin {"save", "journal"} => PendingEntry = 0)
    BY <1>0 DEF PendingEntry
  <2>3. Clean' => entries[day] <= Counted(day)
    BY <1>1, <1>7, <2>1, <2>2 DEF IInv, TableInv
  <2>4. Clean' => entries[day] <= Counted(day)' + 0
    BY <1>7, <2>1, <2>3
  <2> QED
    BY <1>0, <1>1, <1>8, <2>2, <2>4 DEF IInv, TableInv
<1> QED
  BY <1>2, <1>3, <1>4, <1>6, <1>9, <1>10, <1>11 DEF IInv

LEMMA NextInv == IInv /\ [Next]_vars => IInv'
<1> SUFFICES ASSUME IInv, [Next]_vars PROVE IInv'
  OBVIOUS
<1>1. CASE StartPass \/ EndPass
  BY <1>1, PassInv
<1>2. CASE Exit \/ NoEntry
  BY <1>2, ExitInv
<1>3. CASE Enter
  BY <1>3, EnterInv
<1>4. CASE Save
  BY <1>4, SaveInv
<1>5. CASE Journal
  BY <1>5, JournalInv
<1>6. CASE \E s \in Strategies, i \in Instruments : Skip(s, i) \/ Take(s, i) \/ Defer(s, i)
  BY <1>6, LookInv
<1>7. CASE WriteRaises
  BY <1>7, WriteRaisesInv
<1>8. CASE Crash
  BY <1>8, CrashInv
<1>9. CASE NextDay
  BY <1>9, NextDayInv
<1>10. CASE \/ Switch \/ HaltOrResume
            \/ \E p \in Pairs : NewBar(p) \/ FeedStops(p)
            \/ \E s \in Strategies : SwitchStrategy(s) \/ Edit(s)
  BY <1>10, EnvironmentInv
<1>11. CASE UNCHANGED vars
  <2>1. UNCHANGED books /\ UNCHANGED <<pc, cur, pass, todo, stored, active, version, halted>>
    BY <1>11 DEF vars, books, marketVars, settingVars, passVars, memoryVars, tableVars
  <2>2. TypeInv'
    BY <2>1 DEF IInv, TypeInv, books, Working
  <2> QED
    BY <2>1, <2>2, KeepInv DEF IInv, FlightInv
<1> QED
  BY <1>1, <1>2, <1>3, <1>4, <1>5, <1>6, <1>7, <1>8, <1>9, <1>10, <1>11
     DEF Next, Pass, Environment
-----------------------------------------------------------------------------
\* No day of the window has more entries than the account's cap, whatever the
\* engines, the days of their bars and the busy locks; and across restarts,
\* unless a write was lost or a bar behind the window was traded
\* (paper/engine.py RiskWindow, auto_trade_worker.py _process).
THEOREM EntriesStayWithinCap == Spec => []EntriesWithinCap
<1>1. Init => IInv
  BY InitInv
<1>2. IInv /\ [Next]_vars => IInv'
  BY NextInv
<1>3. IInv => EntriesWithinCap
  BY DEF IInv, CapInv, Trusted, Clean, EntriesWithinCap
<1> QED
  BY <1>1, <1>2, <1>3, PTL DEF Spec

LEMMA InvForgetsNothing == IInv => RestartForgetsNothing
<1> SUFFICES ASSUME IInv, pc = "rest", booted, Clean, window.day = day
             PROVE  /\ RebuiltWindow.trades >= window.trades /\ RebuiltWindow.pnl = window.pnl
                    /\ \A i \in Instruments : RestoredBook[i].open = pos[i].open
  BY DEF RestartForgetsNothing, Clean
<1>1. PendingEntry = 0 /\ PendingGain = 0
  BY DEF PendingEntry, PendingGain
<1>2. /\ Cardinality(RowsOf(day)) \in Nat /\ Cardinality(Opened(day)) \in Nat
      /\ Cardinality(Opened(day)) <= Cardinality(RowsOf(day))
      /\ journal.opened[day] \in Nat /\ window.trades \in Nat /\ journal.pnl[day] \in Int
  BY CountType DEF IInv, TypeInv, Windows
<1>3. /\ RebuiltWindow.trades = journal.opened[day] + Cardinality(RowsOf(day))
      /\ RebuiltWindow.pnl = journal.pnl[day]
      /\ Counted(day) = journal.opened[day] + Cardinality(Opened(day))
  BY DEF RebuiltWindow, Counted, RowsOf
<1>4. window.trades <= Counted(day) + 0 /\ window.pnl = journal.pnl[day] + 0
  BY <1>1 DEF IInv, TableInv
<1>6. RebuiltWindow.trades >= window.trades /\ RebuiltWindow.pnl = window.pnl
  BY <1>2, <1>3, <1>4
<1>5. ASSUME NEW i \in Instruments PROVE RestoredBook[i].open = pos[i].open
  <2>1. pos[i].open <=> rows[i] # Unset
    BY DEF IInv, BookInv, Unsaved, Clean, NoneLost
  <2>2. pos[i].open \in BOOLEAN
    BY DEF IInv, TypeInv, Positions
  <2>3. RestoredBook[i].open = (rows[i] # Unset)
    BY DEF RestoredBook, Flat
  <2> QED
    BY <2>1, <2>2, <2>3
<1> QED
  BY <1>6, <1>5

\* Between two passes a restart would count every entry and every loss the
\* window counts, and hold what the book holds, unless a write was lost or a
\* bar behind the window was traded (auto_trade_worker.py _process).
THEOREM RestartsForgetNothing == Spec => []RestartForgetsNothing
<1>1. Init => IInv
  BY InitInv
<1>2. IInv /\ [Next]_vars => IInv'
  BY NextInv
<1> QED
  BY <1>1, <1>2, InvForgetsNothing, PTL DEF Spec

JournalRow ==
  journal' # journal /\ "unwritten" \notin lapses /\ cur.before.owner # Nobody
    => trade' = [strategy |-> cur.before.owner, ver |-> cur.before.ver]

LEMMA JournalStep == IInv /\ [Next]_vars => JournalRow
<1> SUFFICES ASSUME IInv, [Next]_vars, journal' # journal, NoneLost, cur.before.owner # Nobody
             PROVE  trade' = [strategy |-> cur.before.owner, ver |-> cur.before.ver]
  BY DEF JournalRow, NoneLost
<1>1. Journal
  BY DEF Next, Pass, Environment, vars, StartPass, EndPass, Rest, Exit, NoEntry, Enter, Save,
         Skip, Take, Defer, WriteRaises, Crash, NextDay, Switch, HaltOrResume, NewBar, FeedStops,
         SwitchStrategy, Edit, Worker, tableVars
<1>2. /\ pc = "journal" /\ Closed /\ cur.before.open /\ cur.inst \in Instruments
      /\ trade' = [strategy |-> OwnerKey[1], ver |-> StampOf(OwnerKey).ver]
  BY <1>1 DEF Journal, IInv, FlightInv, TypeInv, Working
<1>3. OwnerKey = <<cur.before.owner, cur.inst>>
  BY DEF OwnerKey
<1>4. Stamped(cur.inst) = cur.before
  BY <1>2 DEF Stamped
<1>5. HasStamp(cur.inst)
  BY <1>2, <1>4 DEF IInv, StampInv, NeedsStamp, Unsaved
<1>6. StampOf(OwnerKey).ver = cur.before.ver
  BY <1>3, <1>4, <1>5 DEF HasStamp, StampOf
<1> QED
  BY <1>2, <1>3, <1>6

\* A trade is journaled against the strategy and the version that opened it,
\* whichever pair saw the close (_process: "Journal against whoever opened the
\* position").
THEOREM TradesNameTheirOpener == Spec => JournalNamesOpener
<1>1. Init => IInv
  BY InitInv
<1>2. IInv /\ [Next]_vars => IInv'
  BY NextInv
<1>3. IInv /\ [Next]_vars => [JournalRow]_vars
  BY JournalStep
<1>4. Spec => [][JournalRow]_vars
  BY <1>1, <1>2, <1>3, PTL DEF Spec
<1> QED
  BY <1>4 DEF JournalNamesOpener, JournalRow
=============================================================================
