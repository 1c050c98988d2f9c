--------------------------- MODULE ProtectiveStops ---------------------------
(***************************************************************************)
(* One position, the stop order that guards it at the broker, and the      *)
(* reconciliation pass that compares the two sides (api/orders.py,         *)
(* trading/protective_stops.py, trading/reconciliation.py,                 *)
(* workers/reconciliation_worker.py, trading/live_reconciliation.py).      *)
(*                                                                         *)
(* A handler under the user's lock trades, then withdraws the resting stop *)
(* and places another; at the broker a stop may fire at any moment, on its *)
(* own.  The pass runs in the same process without the lock: it reads the  *)
(* broker's orders, then its positions, then compares them with the book   *)
(* in memory, and halts the account on any difference.  Calls to broker,   *)
(* database and Redis may fail, and the process may die at every await.    *)
(*                                                                         *)
(* Quantities are signed.  A stop is identified by its place in the        *)
(* broker's list.  The journal of ordinary orders is OrderLifecycle's, and *)
(* so is an entry that is acknowledged and fills later (UpstoxBroker).     *)
(***************************************************************************)
EXTENDS Integers, FiniteSets, Sequences

CONSTANTS MaxQty,     \* bound: the largest position
          MaxStops,   \* bound: stops placed in a behaviour
          MaxFaults   \* bound: faults, crashes and resumes in a behaviour

ASSUME BoundsAssumption == MaxQty \in Nat \ {0} /\ MaxStops \in Nat /\ MaxFaults \in Nat

VARIABLES
  pc,       \* where the handler inside the lock stands
  want,     \* the signed quantity it trades
  book,     \* the PositionRecord: quantity and protective_order_id
  row,      \* its row in positions
  up,       \* does the process hold a stack for the user
  bq,       \* the broker's position
  stops,    \* the broker's stop orders
  halted,   \* the Redis flag
  told,     \* has the user been notified since the account was halted
  pass,     \* where the reconciliation pass stands
  view,     \* what it read from the broker
  known,    \* was the account halted when it found a difference
  lapses,   \* history: what went wrong so far
  faults    \* bound: faults left

handlerVars == <<pc, want, book, row, up>>
brokerVars  == <<bq, stops>>
passVars    == <<pass, view, known>>
alertVars   == <<halted, told>>
vars == <<handlerVars, brokerVars, passVars, alertVars, lapses, faults>>

NoId   == 0
Flat   == [qty |-> 0, pid |-> NoId]
NoView == [stops |-> <<>>, qty |-> 0]
Abs(n) == IF n < 0 THEN -n ELSE n

(* Lapses are "interrupted", "unsaved", "unanswered", "fired", "expired"   *)
(* and "resumed".                                                          *)

Init ==
  /\ pc = "idle" /\ want = 0
  /\ book = Flat /\ row = Flat /\ up = FALSE
  /\ bq = 0 /\ stops = <<>>
  /\ halted = FALSE /\ told = FALSE
  /\ pass = "idle" /\ view = NoView /\ known = FALSE
  /\ lapses = {}
  /\ faults = MaxFaults

Fault    == faults > 0 /\ faults' = faults - 1
Lapse(l) == lapses' = lapses \cup {l}
Sound    == UNCHANGED <<lapses, faults>>

Resting == {i \in DOMAIN stops : stops[i].status = "resting"}
-----------------------------------------------------------------------------
(* POST /orders: an order against the position only reduces it, is clamped *)
(* to it, and passes a halt.                                               *)
Begin(n) ==
  LET reducing == book.qty * n < 0 IN
  /\ pc = "idle"
  /\ halted => reducing
  /\ reducing => Abs(n) <= Abs(book.qty)
  /\ Abs(book.qty + n) <= MaxQty /\ Len(stops) < MaxStops
  /\ pc' = "admitted" /\ want' = n /\ up' = TRUE
  /\ UNCHANGED <<book, row, brokerVars, passVars, alertVars>> /\ Sound

(* The broker fills it as it answers, and apply_fill follows.              *)
Fill ==
  /\ pc = "admitted"
  /\ bq' = bq + want
  /\ book' = [book EXCEPT !.qty = @ + want]
  /\ pc' = "journal"
  /\ UNCHANGED <<want, row, up, stops, passVars, alertVars>> /\ Sound

(* A gate or the broker refuses: the position is saved as it is.           *)
Refused ==
  /\ pc = "admitted" /\ pc' = "save"
  /\ UNCHANGED <<want, book, row, up, brokerVars, passVars, alertVars>> /\ Sound

(* The order is FAILED: it may have been filled all the same.              *)
OrderUnanswered ==
  /\ pc = "admitted" /\ Fault /\ pc' = "save"
  /\ \/ bq' = bq + want /\ Lapse("unanswered")
     \/ UNCHANGED <<bq, lapses>>
  /\ UNCHANGED <<want, book, row, up, stops, passVars, alertVars>>

(* Where ensure_protective_stop goes once no old stop can fire any more.   *)
AfterCancel == IF book.qty # 0 THEN "place" ELSE "save"

(* persist_order commits; ensure_protective_stop begins.                   *)
Journal ==
  /\ pc = "journal"
  /\ pc' = IF book.pid # NoId THEN "cancel" ELSE AfterCancel
  /\ UNCHANGED <<want, book, row, up, brokerVars, passVars, alertVars>> /\ Sound

(* broker.cancel_order returns: the stop is withdrawn, or had ended before. *)
CancelOld ==
  /\ pc = "cancel"
  /\ stops' = [stops EXCEPT ![book.pid].status = IF @ = "resting" THEN "cancelled" ELSE @]
  /\ book' = [book EXCEPT !.pid = NoId]
  /\ pc' = AfterCancel
  /\ UNCHANGED <<want, row, up, bq, passVars, alertVars>> /\ Sound

(* broker.cancel_order raises, landed or not.                              *)
CancelRaises ==
  /\ pc = "cancel"
  /\ \/ stops' = [stops EXCEPT ![book.pid].status = IF @ = "resting" THEN "cancelled" ELSE @]
     \/ UNCHANGED stops
  /\ pc' = "check"
  /\ UNCHANGED <<want, book, row, up, bq, passVars, alertVars>> /\ Sound

(* Mutant: a venue that cannot be asked has no live stop.                  *)
CheckTrusting ==
  /\ pc = "check"
  /\ \/ stops[book.pid].status = "resting" /\ pc' = "halt" /\ UNCHANGED book
     \/ book' = [book EXCEPT !.pid = NoId] /\ pc' = AfterCancel
  /\ UNCHANGED <<want, row, up, brokerVars, passVars, alertVars>> /\ Sound

(* _is_no_longer_resting: only a stop the broker lists as ended, or no     *)
(* longer lists, is gone; a failed get_orders is no answer.                *)
Check ==
  /\ pc = "check"
  /\ \/ pc' = "halt" /\ UNCHANGED book
     \/ /\ stops[book.pid].status # "resting"
        /\ book' = [book EXCEPT !.pid = NoId]
        /\ pc' = AfterCancel
  /\ UNCHANGED <<want, row, up, brokerVars, passVars, alertVars>> /\ Sound

(* A stop for the whole position, on the other side.                       *)
Stop(s) == [qty |-> -book.qty, status |-> s]

(* The new stop rests.                                                     *)
PlaceStop ==
  /\ pc = "place"
  /\ stops' = Append(stops, Stop("resting"))
  /\ book' = [book EXCEPT !.pid = Len(stops')]
  /\ pc' = "save"
  /\ UNCHANGED <<want, row, up, bq, passVars, alertVars>> /\ Sound

(* The price is already through the trigger: the stop fires on arrival.    *)
PlaceThrough ==
  /\ pc = "place"
  /\ stops' = Append(stops, Stop("fired"))
  /\ bq' = bq - book.qty
  /\ book' = [book EXCEPT !.pid = Len(stops')]
  /\ pc' = "save"
  /\ Lapse("fired")
  /\ UNCHANGED <<want, row, up, passVars, alertVars, faults>>

(* Mutant: a refused stop is only logged.                                  *)
StopRefusedQuietly ==
  /\ pc = "place" /\ pc' = "save"
  /\ UNCHANGED <<want, book, row, up, brokerVars, passVars, alertVars>> /\ Sound

(* The broker refuses the stop.                                            *)
StopRefused ==
  /\ pc = "place" /\ pc' = "halt"
  /\ UNCHANGED <<want, book, row, up, brokerVars, passVars, alertVars>> /\ Sound

(* The broker does not answer: a stop may rest there whose id nobody has.  *)
StopUnanswered ==
  /\ pc = "place" /\ Fault /\ pc' = "halt"
  /\ \/ stops' = Append(stops, Stop("resting")) /\ Lapse("unanswered")
     \/ UNCHANGED <<stops, lapses>>
  /\ UNCHANGED <<want, book, row, up, bq, passVars, alertVars>>

(* The position is not verifiably protected: halt, then notify.            *)
Halt ==
  /\ pc = "halt" /\ pc' = "notify"
  /\ halted' = TRUE
  /\ UNCHANGED <<want, book, row, up, brokerVars, passVars, told>> /\ Sound

Notify ==
  /\ pc = "notify" /\ pc' = "save"
  /\ told' = TRUE
  /\ UNCHANGED <<want, book, row, up, brokerVars, passVars, halted>> /\ Sound

(* persist_position commits.                                               *)
Save ==
  /\ pc = "save" /\ pc' = "idle"
  /\ row' = book /\ want' = 0
  /\ UNCHANGED <<book, up, brokerVars, passVars, alertVars>> /\ Sound

(* The database or Redis raises under the handler: the rest is skipped.    *)
HandlerRaises ==
  /\ pc \in {"journal", "halt", "notify", "save"} /\ Fault
  /\ pc' = "idle" /\ want' = 0
  /\ Lapse("unsaved")
  /\ UNCHANGED <<book, row, up, brokerVars, passVars, alertVars>>
-----------------------------------------------------------------------------
(* The price reaches a stop: the broker fires it.                          *)
StopFires(i) ==
  /\ i \in Resting
  /\ stops' = [stops EXCEPT ![i].status = "fired"]
  /\ bq' = bq + stops[i].qty
  /\ Lapse("fired")
  /\ UNCHANGED <<handlerVars, passVars, alertVars, faults>>

(* The venue ends a stop on its own (it is good for the day).              *)
StopExpires(i) ==
  /\ i \in Resting /\ Fault
  /\ stops' = [stops EXCEPT ![i].status = "cancelled"]
  /\ Lapse("expired")
  /\ UNCHANGED <<handlerVars, bq, passVars, alertVars>>

(* The process dies.  A flat position's row is closed and not restored.    *)
(* A request on its way may have reached the broker.                       *)
Crash ==
  /\ Fault
  /\ book' = IF row.qty = 0 THEN Flat ELSE row
  /\ pc' = "idle" /\ want' = 0 /\ up' = FALSE
  /\ pass' = "idle" /\ view' = NoView /\ known' = FALSE
  /\ \/ UNCHANGED brokerVars
     \/ pc = "admitted" /\ bq' = bq + want /\ UNCHANGED stops
     \/ pc = "place" /\ stops' = Append(stops, Stop("resting")) /\ UNCHANGED bq
     \/ /\ pc = "cancel" /\ stops[book.pid].status = "resting"
        /\ stops' = [stops EXCEPT ![book.pid].status = "cancelled"] /\ UNCHANGED bq
  /\ lapses' = IF pc = "idle" THEN lapses ELSE lapses \cup {"interrupted"}
  /\ UNCHANGED <<row, alertVars>>

(* Any other request of the user builds the stack.                         *)
BuildStack ==
  /\ ~up /\ up' = TRUE
  /\ UNCHANGED <<pc, want, book, row, brokerVars, passVars, alertVars>> /\ Sound
-----------------------------------------------------------------------------
(* run_once: the broker's orders, then its positions, each as of when the  *)
(* broker answered.                                                        *)
ReadOrders ==
  /\ pass = "idle" /\ up
  /\ pass' = "orders"
  /\ view' = [NoView EXCEPT !.stops = stops]
  /\ UNCHANGED <<handlerVars, brokerVars, known, alertVars>> /\ Sound

ReadPositions ==
  /\ pass = "orders"
  /\ pass' = "positions"
  /\ view' = [view EXCEPT !.qty = bq]
  /\ UNCHANGED <<handlerVars, brokerVars, known, alertVars>> /\ Sound

(* The stops the pass knows of: worker.run_once hands reconcile the open   *)
(* positions.                                                              *)
KnownStops(b) == IF b.qty # 0 THEN {b.pid} ELSE {}

(* Mutant: only the orders are compared.                                   *)
DiffersInOrders(v, b) ==
  \E i \in DOMAIN v.stops : v.stops[i].status \in {"resting", "fired"} /\ i \notin KnownStops(b)

(* reconcile: a stop of the broker that is live or filled and unknown, or  *)
(* another quantity.                                                       *)
Differs(v, b) ==
  \/ v.qty # b.qty
  \/ \E i \in DOMAIN v.stops : v.stops[i].status \in {"resting", "fired"} /\ i \notin KnownStops(b)

InSync ==
  /\ pass = "positions" /\ ~Differs(view, book)
  /\ pass' = "idle" /\ view' = NoView
  /\ UNCHANGED <<handlerVars, brokerVars, known, alertVars>> /\ Sound

(* A difference, or a broker that cannot be reached, is dealt with alike.  *)
FindDifference ==
  /\ pass = "positions" /\ Differs(view, book)
  /\ pass' = "found" /\ view' = NoView
  /\ UNCHANGED <<handlerVars, brokerVars, known, alertVars>> /\ Sound

Unreachable ==
  /\ pass \in {"orders", "idle"} /\ up /\ Fault
  /\ pass' = "found" /\ view' = NoView
  /\ UNCHANGED <<handlerVars, brokerVars, known, alertVars, lapses>>

(* account_halt_reason: is this difference news?                           *)
AskHalted ==
  /\ pass = "found" /\ pass' = "halting"
  /\ known' = halted
  /\ UNCHANGED <<handlerVars, brokerVars, view, alertVars>> /\ Sound

HaltAccount ==
  /\ pass = "halting"
  /\ halted' = TRUE
  /\ pass' = IF known THEN "idle" ELSE "telling"
  /\ UNCHANGED <<handlerVars, brokerVars, view, known, told>> /\ Sound

Tell ==
  /\ pass = "telling" /\ pass' = "idle"
  /\ told' = TRUE /\ known' = FALSE
  /\ UNCHANGED <<handlerVars, brokerVars, view, halted>> /\ Sound

(* Redis or the database raises: reconcile_all_connected_accounts logs it. *)
PassRaises ==
  /\ pass \in {"found", "halting", "telling"} /\ Fault
  /\ pass' = "idle" /\ known' = FALSE
  /\ UNCHANGED <<handlerVars, brokerVars, view, alertVars, lapses>>

(* POST /admin/accounts/{id}/resume.                                       *)
Resume ==
  /\ halted /\ Fault
  /\ halted' = FALSE /\ told' = FALSE
  /\ Lapse("resumed")
  /\ UNCHANGED <<handlerVars, brokerVars, passVars>>
-----------------------------------------------------------------------------
Proceed ==
  \/ Fill \/ Refused \/ Journal
  \/ CancelOld \/ CancelRaises \/ Check
  \/ PlaceStop \/ PlaceThrough \/ StopRefused
  \/ Halt \/ Notify \/ Save

Reconcile ==
  \/ ReadOrders \/ ReadPositions \/ InSync \/ FindDifference
  \/ AskHalted \/ HaltAccount \/ Tell

Next ==
  \/ \E n \in -MaxQty .. MaxQty : n # 0 /\ Begin(n)
  \/ Proceed
  \/ OrderUnanswered \/ StopUnanswered \/ HandlerRaises
  \/ \E i \in DOMAIN stops : StopFires(i) \/ StopExpires(i)
  \/ Crash \/ BuildStack
  \/ Reconcile
  \/ Unreachable \/ PassRaises \/ Resume

Spec == Init /\ [][Next]_vars

(* The calls that handler and pass await return (nothing bounds one to     *)
(* Redis or Postgres that hangs), and the pass is run every minute.        *)
FairSpec == Spec /\ WF_vars(Proceed) /\ WF_vars(Reconcile)
-----------------------------------------------------------------------------
(* Whenever no handler is at work, the position has exactly its own stop   *)
(* resting at the broker, of its size and on the other side, and a flat    *)
(* one has none - or the account is halted (protective_stops.py).          *)
ProtectedAtRest ==
  pc = "idle" /\ lapses = {} /\ ~halted =>
    IF book.qty = 0 THEN Resting = {}
    ELSE Resting = {book.pid} /\ stops[book.pid].qty = -book.qty

(* Two stops never rest against one position, even between two awaits      *)
(* (cancel_protective_stop).                                               *)
OneStopRests == lapses \subseteq {"fired"} => Cardinality(Resting) <= 1

(* An account whose two sides differ while its stack is in memory is       *)
(* halted within a pass (reconciliation_worker.py).                        *)
DivergenceHalts ==
  (pc = "idle" /\ up /\ bq # book.qty) ~> (halted \/ bq = book.qty \/ ~up)
=============================================================================
