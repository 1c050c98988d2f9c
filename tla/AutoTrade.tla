------------------------------ MODULE AutoTrade ------------------------------
(***************************************************************************)
(* The unattended loop of one account (workers/auto_trade_worker.py) and   *)
(* the paper engines it drives (paper/engine.py).                          *)
(*                                                                         *)
(* A pass walks over every eligible strategy and active instrument, looks  *)
(* at the newest stored bar of each, and feeds it to that pair's engine    *)
(* unless the pair has seen it, the feed has stopped, the halt forbids an  *)
(* entry or the account is busy in another process.  The engines of the    *)
(* account share one book of positions and one window of risk counters.    *)
(* What a bar changed is written row by row, and any write may raise; a    *)
(* process that dies rebuilds book and counters from the rows.             *)
(*                                                                         *)
(* The lock is TradeLock's; here the account is busy, or not.  A bar is    *)
(* its number, the day it is stamped with and the sides of the open        *)
(* bracket it touches; prices and sizes are left out, and every loss or    *)
(* gain counts one.  Each strategy has its timeframe, so each pair its own *)
(* bars.  MockBroker fills every market order: its probabilities default   *)
(* to zero.                                                                *)
(*                                                                         *)
(* There are two days: the window rolls, and trades are journaled, by the  *)
(* day of the bar; positions rows, and what a restart rebuilds, go by the  *)
(* wall clock, and a bar of yesterday may be traded today.                 *)
(***************************************************************************)
EXTENDS Integers, FiniteSets

CONSTANTS Strategies, Instruments,
          TradeCap,   \* auto_trading_max_trades_per_day
          OpenCap,    \* auto_trading_max_positions
          LossCap,    \* auto_trading_daily_loss_limit_pct, in losses
          FailOpen,   \* trade_lock_fail_open
          Touches,    \* the sides of an open bracket a bar may reach
          MaxBar,     \* bound: bars, over all pairs
          MaxDay,     \* bound: days
          MaxVersion, \* bound: versions of a strategy
          MaxFaults,  \* bound: crashes, failed writes, busy or unreachable locks
          MaxChanges  \* bound: halts, resumes and changed settings

ASSUME LimitsAssumption == TradeCap \in Nat /\ OpenCap \in Nat /\ LossCap \in Nat /\ FailOpen \in BOOLEAN
ASSUME InstrumentsAssumption == IsFiniteSet(Instruments)
ASSUME TouchesAssumption == Touches \subseteq SUBSET {"stop", "target"}
ASSUME BoundsAssumption ==
  MaxBar \in Nat /\ MaxDay \in Nat \ {0} /\ MaxVersion \in Nat \ {0} /\ MaxFaults \in Nat /\ MaxChanges \in Nat

VARIABLES
  stored,    \* the newest stored bar of each pair
  day,       \* the wall clock, in days
  enabled,   \* auto_trading_enabled, with the AUTO_TRADE permission
  active,    \* the strategies active and eligible
  version,   \* strategies.version
  halted,    \* the account's halt in Redis
  pc,        \* where the worker is
  todo,      \* the pairs this pass has still to process
  pass,      \* what the pass read when it began
  cur,       \* the pair being processed
  seen,      \* _last_candle_seen
  booted,    \* are book and window built
  pos,       \* PositionManager
  window,    \* RiskWindow, with the day it is of
  stamps,    \* _opened_at and _opened_version
  rows,      \* positions: the day an open row was created
  journal,   \* trades: how many opened, and what was realised, per day
  trade,     \* history: the last trade row's strategy and version
  entries,   \* history: entries filled per day of the window
  lapses,    \* history: what went wrong so far
  faults,    \* bound: faults left
  changes    \* bound: changes left

marketVars  == <<stored, day>>
settingVars == <<enabled, active, version, halted>>
passVars    == <<todo, pass, cur>>
memoryVars  == <<seen, booted, pos, window, stamps>>
tableVars   == <<rows, journal, trade>>
vars == <<marketVars, settingVars, pc, passVars, memoryVars, tableVars, entries, lapses, faults, changes>>

Pairs == Strategies \X Instruments
Days  == 1 .. MaxDay
Unset == 0

NoBar      == [t |-> 0, day |-> 1, hits |-> {}, fresh |-> FALSE]
Nobody     == "nobody"
ASSUME NobodyAssumption == Nobody \notin Strategies
Flat       == [open |-> FALSE, owner |-> Nobody, ver |-> Unset]
NoStamp    == [ver |-> Unset, day |-> Unset]
NoTrade    == [strategy |-> Nobody, ver |-> Unset]
EmptyRows  == [i \in Instruments |-> Unset]
EmptyDays  == [d \in Days |-> 0]
FreshCount == [trades |-> 0, pnl |-> 0, day |-> 1]
Idle       == [strategy |-> Nobody, inst |-> Nobody, day |-> 1, hits |-> {}, before |-> Flat, did |-> "nothing"]
NoPass     == [entries |-> FALSE, active |-> {}, version |-> [s \in Strategies |-> 1]]

(* What the first pair of an account builds from the rows: positions with  *)
(* no strategy, and the day's counters from the two disjoint sets of rows. *)
RestoredBook == [i \in Instruments |-> [Flat EXCEPT !.open = rows[i] # Unset]]

(* Mutant: only closed trades count as entries of the day.                 *)
RebuiltClosedOnly == [trades |-> journal.opened[day], pnl |-> journal.pnl[day], day |-> day]

(* The day's entries are the trades opened in it and the rows opened in it. *)
RebuiltWindow ==
  [trades |-> journal.opened[day] + Cardinality({i \in Instruments : rows[i] = day}),
   pnl    |-> journal.pnl[day],
   day    |-> day]

Init ==
  /\ stored = [p \in Pairs |-> NoBar] /\ day = 1
  /\ enabled = TRUE /\ active = Strategies /\ version = [s \in Strategies |-> 1] /\ halted = FALSE
  /\ pc = "rest" /\ todo = {} /\ pass = NoPass /\ cur = Idle
  /\ seen = [p \in Pairs |-> 0] /\ booted = FALSE
  /\ pos = [i \in Instruments |-> Flat] /\ window = FreshCount
  /\ stamps = [p \in Pairs |-> NoStamp]
  /\ rows = EmptyRows /\ journal = [opened |-> EmptyDays, pnl |-> EmptyDays]
  /\ trade = NoTrade /\ entries = EmptyDays
  /\ lapses = {} /\ faults = MaxFaults /\ changes = MaxChanges

Fault    == faults > 0 /\ faults' = faults - 1
Change   == changes > 0 /\ changes' = changes - 1
Lapse(l) == lapses' = lapses \cup {l}
NoFault  == UNCHANGED <<lapses, faults>>
Quiet    == UNCHANGED <<marketVars, settingVars, changes>>
-----------------------------------------------------------------------------
(* A pass begins: the halt and the strategies are read, once.              *)
StartPass ==
  /\ pc = "rest" /\ pc' = "pass"
  /\ pass' = [entries |-> ~halted, active |-> active, version |-> version]
  /\ todo' = IF enabled THEN active \X Instruments ELSE {}
  /\ trade' = NoTrade
  /\ UNCHANGED <<cur, memoryVars, rows, journal, entries>> /\ Quiet /\ NoFault

(* Book and window are built when the account's first engine is.           *)
Book   == IF booted THEN pos ELSE RestoredBook
Window == IF booted THEN window ELSE RebuiltWindow
Boot   == booted' = TRUE /\ pos' = Book /\ window' = Window

(* The bar is left alone: there is none, this pair has seen it, the feed   *)
(* has stopped, or the account is halted and flat.  All but the first two  *)
(* mark it as seen.                                                        *)
Skip(s, i) ==
  LET bar == stored[<<s, i>>] IN
  /\ pc = "pass" /\ <<s, i>> \in todo
  /\ \/ bar.t \in {0, seen[<<s, i>>]} /\ seen' = seen
     \/ /\ bar.t \notin {0, seen[<<s, i>>]}
        /\ ~bar.fresh \/ (~pass.entries /\ ~Book[i].open)
        /\ seen' = [seen EXCEPT ![<<s, i>>] = bar.t]
  /\ todo' = todo \ {<<s, i>>} /\ Boot
  /\ UNCHANGED <<pc, pass, cur, stamps, tableVars, entries>> /\ Quiet /\ NoFault

(* A bar this pass wants to feed.                                          *)
Wanted(s, i) ==
  LET bar == stored[<<s, i>>] IN
  /\ pc = "pass" /\ <<s, i>> \in todo
  /\ bar.t \notin {0, seen[<<s, i>>]} /\ bar.fresh
  /\ pass.entries \/ Book[i].open
  /\ Boot

(* The lock is taken, or Redis raises and trade_lock_fail_open goes on     *)
(* without it.                                                             *)
Take(s, i) ==
  /\ Wanted(s, i)
  /\ NoFault \/ (FailOpen /\ Fault /\ UNCHANGED lapses)
  /\ seen' = [seen EXCEPT ![<<s, i>>] = stored[<<s, i>>].t]
  /\ cur' = [strategy |-> s, inst |-> i,
             day |-> stored[<<s, i>>].day, hits |-> stored[<<s, i>>].hits,
             before |-> Book[i], did |-> "nothing"]
  /\ pc' = "candle"
  /\ UNCHANGED <<todo, pass, stamps, tableVars, entries>> /\ Quiet

(* Mutant: a bar that could not be traded stays marked.                    *)
DeferMarked(s, i) ==
  /\ Wanted(s, i) /\ Fault
  /\ seen' = [seen EXCEPT ![<<s, i>>] = stored[<<s, i>>].t] /\ todo' = todo \ {<<s, i>>}
  /\ UNCHANGED <<pc, pass, cur, stamps, tableVars, entries, lapses>> /\ Quiet

(* The account is busy, or Redis raises: the mark is undone and the next   *)
(* pass tries the bar again.                                               *)
Defer(s, i) ==
  /\ Wanted(s, i) /\ Fault
  /\ seen' = seen /\ todo' = todo \ {<<s, i>>}
  /\ UNCHANGED <<pc, pass, cur, stamps, tableVars, entries, lapses>> /\ Quiet
-----------------------------------------------------------------------------
(* RiskWindow.roll: only a bar of a later day resets the counters.         *)
Rolled == IF cur.day > window.day THEN [trades |-> 0, pnl |-> 0, day |-> cur.day] ELSE window

(* What a bar behind the window opens or closes is counted in the window's *)
(* day and journaled under the bar's.                                      *)
Counting == IF cur.day < window.day THEN Lapse("late") ELSE UNCHANGED lapses

(* Mutant: the gate lets the trade after the last one through.             *)
GateOffByOne(w) ==
  /\ w.trades <= TradeCap /\ -w.pnl < LossCap
  /\ Cardinality({i \in Instruments : pos[i].open}) < OpenCap

(* The checks of the risk gate that read the account's window and book;    *)
(* any other check may refuse as well.                                     *)
GateOpen(w) ==
  /\ w.trades < TradeCap /\ -w.pnl < LossCap
  /\ Cardinality({i \in Instruments : pos[i].open}) < OpenCap

Feed(did) == cur' = [cur EXCEPT !.did = did] /\ pc' = "save"

(* on_candle with a position: only its bracket is looked at.               *)
Exit ==
  LET i == cur.inst IN
  /\ pc = "candle" /\ pos[i].open
  /\ \/ /\ cur.hits = {} /\ Feed("nothing") /\ pos' = pos /\ window' = Rolled /\ UNCHANGED lapses
     \/ /\ cur.hits # {} /\ Feed(IF "stop" \in cur.hits THEN "stopped" ELSE "gained")
        /\ pos' = [pos EXCEPT ![i] = Flat]
        /\ window' = [Rolled EXCEPT !.pnl = @ + (IF "stop" \in cur.hits THEN -1 ELSE 1)]
        /\ Counting
  /\ UNCHANGED <<todo, pass, seen, booted, stamps, tableVars, entries, faults>>
  /\ Quiet

(* on_candle without one: no signal, or none the gate lets through.        *)
NoEntry ==
  /\ pc = "candle" /\ ~pos[cur.inst].open
  /\ window' = Rolled /\ Feed("nothing")
  /\ UNCHANGED <<todo, pass, seen, booted, pos, stamps, tableVars, entries>>
  /\ Quiet /\ NoFault

(* ... or a signal that passes: filled at once and attributed.             *)
Enter ==
  LET i == cur.inst IN
  /\ pc = "candle" /\ ~pos[i].open /\ GateOpen(Rolled)
  /\ window' = [Rolled EXCEPT !.trades = @ + 1]
  /\ pos' = [pos EXCEPT ![i] = [open |-> TRUE, owner |-> cur.strategy, ver |-> pass.version[cur.strategy]]]
  /\ entries' = [entries EXCEPT ![Rolled.day] = @ + 1]
  /\ Feed("entered") /\ Counting
  /\ UNCHANGED <<todo, pass, seen, booted, stamps, tableVars, faults>> /\ Quiet
-----------------------------------------------------------------------------
Closed == cur.did \in {"stopped", "gained"}

(* persist_position updates the open row or creates one, of today.         *)
Written ==
  [rows EXCEPT ![cur.inst] =
     IF ~pos[cur.inst].open THEN Unset ELSE IF @ = Unset THEN day ELSE @]

(* The pair is done.                                                       *)
Finish == pc' = "pass" /\ cur' = Idle /\ todo' = todo \ {<<cur.strategy, cur.inst>>}

(* The pass is over, to its end or by an exception.                        *)
Rest == pc' = "rest" /\ todo' = {} /\ cur' = Idle /\ pass' = NoPass

(* The position, then the risk event, are written and an entry is stamped. *)
Save ==
  /\ pc = "save"
  /\ rows' = Written
  /\ stamps' = IF cur.did = "entered"
               THEN [stamps EXCEPT ![<<cur.strategy, cur.inst>>] = [ver |-> pass.version[cur.strategy], day |-> cur.day]]
               ELSE stamps
  /\ IF Closed THEN pc' = "journal" /\ UNCHANGED <<todo, cur>> ELSE Finish
  /\ UNCHANGED <<pass, seen, booted, pos, window, journal, trade, entries>> /\ Quiet /\ NoFault

(* Mutant: the trade is journaled against the pair that saw the close.     *)
ObserverKey == <<cur.strategy, cur.inst>>

(* Whose trade it was: the strategy that opened the position, when known.  *)
OwnerKey == <<IF cur.before.owner = Nobody THEN cur.strategy ELSE cur.before.owner, cur.inst>>

(* The version and the day of the entry's bar, or for want of a stamp      *)
(* those of the close.                                                     *)
CurrentVersion(s) == IF s \in pass.active THEN pass.version[s] ELSE version[s]
StampOf(k) == IF stamps[k] # NoStamp THEN stamps[k] ELSE [ver |-> CurrentVersion(k[1]), day |-> cur.day]

(* The stamp is popped and the trade journaled, closed on the bar's day.   *)
Journal ==
  LET stamp == StampOf(OwnerKey) IN
  /\ pc = "journal" /\ Finish
  /\ stamps' = [stamps EXCEPT ![OwnerKey] = NoStamp]
  /\ journal' = [opened |-> [journal.opened EXCEPT ![stamp.day] = @ + 1],
                 pnl    |-> [journal.pnl EXCEPT ![cur.day] = @ + (IF cur.did = "stopped" THEN -1 ELSE 1)]]
  /\ trade' = [strategy |-> OwnerKey[1], ver |-> stamp.ver]
  /\ UNCHANGED <<pass, seen, booted, pos, window, rows, entries>> /\ Quiet /\ NoFault

(* A write raises: the pass ends there, for every pair still to come.  The *)
(* position may be in the table by then, and the stamp may be gone.        *)
WriteRaises ==
  /\ pc \in {"save", "journal"} /\ Fault /\ Lapse("unwritten")
  /\ Rest
  /\ \/ pc = "save" /\ UNCHANGED <<rows, stamps>>
     \/ pc = "save" /\ rows' = Written /\ UNCHANGED stamps
     \/ pc = "journal" /\ stamps' = [stamps EXCEPT ![OwnerKey] = NoStamp] /\ UNCHANGED rows
  /\ UNCHANGED <<seen, booted, pos, window, journal, trade, entries>> /\ Quiet

(* The pass ends; its report of rows no bar was fed for is left out.       *)
EndPass ==
  /\ pc = "pass" /\ todo = {} /\ Rest
  /\ UNCHANGED <<memoryVars, tableVars, entries>> /\ Quiet /\ NoFault

(* The worker dies, anywhere, and starts again.                            *)
Crash ==
  /\ Fault /\ lapses' = lapses \cup {"restarted"}
                           \cup (IF pc \in {"save", "journal"} THEN {"unwritten"} ELSE {})
  /\ Rest
  /\ seen' = [p \in Pairs |-> 0] /\ booted' = FALSE /\ pos' = [i \in Instruments |-> Flat]
  /\ window' = FreshCount /\ stamps' = [p \in Pairs |-> NoStamp]
  /\ UNCHANGED <<tableVars, entries>> /\ Quiet
-----------------------------------------------------------------------------
Worker == UNCHANGED <<pc, passVars, memoryVars, tableVars, entries, lapses, faults>>

(* What comes while a bar is being processed is read at the next look, as  *)
(* if it had come just after; settings and halt are read once, when a pass *)
(* begins, so that what changes during it comes to the same as after it.   *)
Between == pc \in {"rest", "pass"}

(* A bar closes and is stored, stamped with the day it began, which may    *)
(* not be today's.                                                         *)
NewBar(p) ==
  /\ Between
  /\ \E t \in 1 .. MaxBar, d \in stored[p].day .. day, hits \in Touches :
       /\ \A q \in Pairs : stored[q].t < t
       /\ t = 1 \/ \E q \in Pairs : stored[q].t = t - 1
       /\ stored' = [stored EXCEPT ![p] = [t |-> t, day |-> d, hits |-> hits, fresh |-> TRUE]]
  /\ Worker /\ UNCHANGED <<day, settingVars, changes>>

(* MAX_CANDLE_AGE_IN_BARS go by without a new one.                         *)
FeedStops(p) ==
  /\ pc = "rest" /\ stored[p].fresh /\ stored' = [stored EXCEPT ![p].fresh = FALSE]
  /\ Worker /\ UNCHANGED <<day, settingVars, changes>>

(* Midnight, also between a bar's decision and its first write.            *)
NextDay ==
  /\ Between \/ pc = "save"
  /\ day < MaxDay /\ day' = day + 1
  /\ Worker /\ UNCHANGED <<stored, settingVars, changes>>

(* POST /auto-trading/enable and /disable, PUT /strategies, the halt.      *)
Switch ==
  /\ pc = "rest" /\ Change /\ enabled' = ~enabled
  /\ Worker /\ UNCHANGED <<marketVars, active, version, halted>>
SwitchStrategy(s) ==
  /\ pc = "rest" /\ Change /\ active' = IF s \in active THEN active \ {s} ELSE active \cup {s}
  /\ Worker /\ UNCHANGED <<marketVars, enabled, version, halted>>
Edit(s) ==
  /\ Change /\ version[s] < MaxVersion /\ version' = [version EXCEPT ![s] = @ + 1]
  /\ Worker /\ UNCHANGED <<marketVars, enabled, active, halted>>
HaltOrResume ==
  /\ pc = "rest" /\ Change /\ halted' = ~halted
  /\ Worker /\ UNCHANGED <<marketVars, enabled, active, version>>

Pass ==
  \/ StartPass \/ Exit \/ NoEntry \/ Enter \/ Save \/ Journal \/ EndPass
  \/ \E s \in Strategies, i \in Instruments : Skip(s, i) \/ Take(s, i) \/ Defer(s, i)
Environment ==
  \/ WriteRaises \/ Crash \/ NextDay \/ Switch \/ HaltOrResume
  \/ \E p \in Pairs : NewBar(p) \/ FeedStops(p)
  \/ \E s \in Strategies : SwitchStrategy(s) \/ Edit(s)
Next == Pass \/ Environment

Spec == Init /\ [][Next]_vars

(* The loop runs on, whatever a pass raised; nothing else is promised.     *)
FairSpec == Spec /\ WF_vars(Pass)
-----------------------------------------------------------------------------
(* No day of the window has more entries than the account's cap, over all  *)
(* its engines, whichever days their bars are of ("account-wide, so callers *)
(* driving several engines for one account must share one instance"); and  *)
(* across restarts too, unless a write was lost or a bar behind the window *)
(* was traded, which a restart files under another day.                    *)
EntriesWithinCap ==
  "restarted" \notin lapses \/ {"unwritten", "late"} \cap lapses = {}
    => \A d \in Days : entries[d] <= TradeCap

(* Between two passes a restart would give no budget back: what it would   *)
(* rebuild by the wall clock counts every entry and every loss the window  *)
(* counts by its bars, with the same two exceptions.                       *)
RestartForgetsNothing ==
  pc = "rest" /\ booted /\ {"unwritten", "late"} \cap lapses = {} /\ window.day = day
    => /\ RebuiltWindow.trades >= window.trades /\ RebuiltWindow.pnl = window.pnl
       /\ \A i \in Instruments : RestoredBook[i].open = pos[i].open

(* A trade is journaled against the strategy and the version that opened   *)
(* it, whichever pair saw the close and whatever was edited meanwhile,     *)
(* while the process that opened it lives (blueprint 91: "always know      *)
(* exactly which version created a trade").                                *)
JournalNamesOpener ==
  [][journal' # journal /\ "unwritten" \notin lapses /\ cur.before.owner # Nobody
       => trade' = [strategy |-> cur.before.owner, ver |-> cur.before.ver]]_vars

(* An entry is open, in memory or, after a restart, in its row.            *)
Open(i) == IF booted THEN pos[i].open ELSE rows[i] # Unset

(* A bar that breaks the stop closes the position, halted or not, however  *)
(* often the account is busy or the worker dies: unless a newer bar comes, *)
(* the feed stops or the loop is switched off first.                       *)
StopsHonoured ==
  \A s \in Strategies, i \in Instruments, t \in 1 .. MaxBar :
    (Open(i) /\ "stop" \in stored[<<s, i>>].hits /\ stored[<<s, i>>].t = t /\ seen[<<s, i>>] # t
       /\ pc = "rest")
      ~> (~Open(i) \/ stored[<<s, i>>].t # t \/ ~stored[<<s, i>>].fresh
          \/ ~enabled \/ s \notin active)
=============================================================================
