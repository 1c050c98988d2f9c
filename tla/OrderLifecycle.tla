---------------------------- MODULE OrderLifecycle ----------------------------
(***************************************************************************)
(* One user's orders in the API process: the order state machine and its   *)
(* idempotency index, the execution engine, the orders table that mirrors  *)
(* them, and the broker on the other side of an unreliable connection      *)
(* (api/orders.py, trading/order_manager.py, trading/execution.py,         *)
(* trading/persistence.py, brokers/upstox/adapter.py).                     *)
(*                                                                         *)
(* Handlers place or cancel one order under the user's lock (TradeLock:    *)
(* HandlersSerialized).  Every await is a step boundary.  A request to the *)
(* broker may be answered, refused, answered by a gateway, or not at all,  *)
(* and then it may still arrive.  The stack - the order book in memory and *)
(* the counters of the risk gate - dies with the process, and a change of  *)
(* broker account discards it while a handler may still be using it; both  *)
(* times it is rebuilt from the table.                                     *)
(*                                                                         *)
(* An idempotency key stands for an order.  One UTC day is modelled.       *)
(***************************************************************************)
EXTENDS Integers, FiniteSets, Sequences, SequencesExt

CONSTANTS Keys,         \* idempotency keys
          Exits,        \* the keys of orders that only reduce a position
          Handlers,     \* handler invocations of the API process
          MaxTrades,    \* max_trades_per_day
          RejectLimit,  \* max_repeated_rejections
          MaxFaults     \* bound: faults, crashes and rebuilds in a behaviour

Nobody == "nobody"

ASSUME SetsAssumption   == IsFiniteSet(Keys) /\ IsFiniteSet(Handlers) /\ Nobody \notin Handlers
ASSUME ExitsAssumption  == Exits \subseteq Keys
ASSUME LimitsAssumption == MaxTrades \in Nat /\ RejectLimit \in Nat \ {0}
ASSUME BoundAssumption  == MaxFaults \in Nat

VARIABLES
  lock,      \* the handler inside the user's lock
  pc,        \* where each handler stands
  key,       \* the order it works on, or Nobody
  stack,     \* the user's cached _UserTradingStack
  own,       \* the stack a handler works on: Shared, or one discarded under it
  rows,      \* the orders table, with each order's events
  venue,     \* for each key, the orders that reached the broker
  loose,     \* requests the broker may still receive, unawaited
  sent,      \* history: how often a key was sent to the broker
  answer,    \* how each handler's last call ended
  lapses,    \* history: what went wrong so far
  faults     \* bound: faults left

vars == <<lock, pc, key, stack, own, rows, venue, loose, sent, answer, lapses, faults>>
venueVars == <<venue, loose, sent>>

Shared  == [shared |-> TRUE]
NoOrder == [status |-> "none"]
NoId    == 0

Statuses == {"CREATED", "VALIDATING", "RISK_APPROVED", "SUBMITTED", "ACKNOWLEDGED",
             "PARTIALLY_FILLED", "FILLED", "MONITORING", "CLOSED",
             "REJECTED", "CANCELLED", "EXPIRED", "FAILED"}
VenueLive == {"ACKNOWLEDGED", "PARTIALLY_FILLED"}
VenueStatuses == VenueLive \cup {"FILLED", "CANCELLED"}
Stages    == {"idle", "risk", "placing", "cancelling", "saving"}
Answers   == {"none", "done", "refused", "failed", "illegal"}
Lapses    == {"interrupted", "unsaved", "raised", "rebuilt"}

(* _ALLOWED_TRANSITIONS.                                                   *)
Allowed(s) ==
  CASE s = "CREATED"          -> {"VALIDATING", "REJECTED", "FAILED"}
    [] s = "VALIDATING"       -> {"RISK_APPROVED", "REJECTED"}
    [] s = "RISK_APPROVED"    -> {"SUBMITTED", "REJECTED", "FAILED"}
    [] s = "SUBMITTED"        -> {"ACKNOWLEDGED", "CANCELLED", "REJECTED", "FAILED"}
    [] s = "ACKNOWLEDGED"     -> {"PARTIALLY_FILLED", "FILLED", "CANCELLED", "EXPIRED"}
    [] s = "PARTIALLY_FILLED" -> {"PARTIALLY_FILLED", "FILLED", "CANCELLED"}
    [] s = "FILLED"           -> {"MONITORING", "CLOSED"}
    [] s = "MONITORING"       -> {"CLOSED"}
    [] OTHER                  -> {}

(* transition: the status and its event, together.                         *)
Moved(o, path) == [o EXCEPT !.status = Last(path), !.trail = @ \o path]

(* Every step of the path is in the table, the first from the given status. *)
Legal(from, path) ==
  \A i \in DOMAIN path : path[i] \in Allowed(IF i = 1 THEN from ELSE path[i - 1])

Created == [status |-> "SUBMITTED", bid |-> NoId,
            trail |-> <<"CREATED", "VALIDATING", "RISK_APPROVED", "SUBMITTED">>]

(* Mutant: orders are restored without their events.                       *)
RestoreBare ==
  [orders |-> [k \in Keys |-> IF rows[k] = NoOrder THEN NoOrder ELSE [rows[k] EXCEPT !.trail = <<>>]],
   placed |-> Cardinality({k \in Keys : rows[k] # NoOrder}),
   rejections |-> 0]

(* Mutant: the idempotency index is not restored.                          *)
RestoreForgetful ==
  [orders |-> [k \in Keys |-> NoOrder],
   placed |-> Cardinality({k \in Keys : rows[k] # NoOrder}),
   rejections |-> 0]

(* Mutant: the day's count starts again with every stack.                  *)
RestoreFreshDay ==
  [orders |-> rows, placed |-> 0, rejections |-> 0]

(* The stack as _stack_for builds it from the table: the orders, the day's *)
(* count of them, and no memory of rejections.                             *)
Restored ==
  [orders |-> rows,
   placed |-> Cardinality({k \in Keys : rows[k] # NoOrder}),
   rejections |-> 0]

Init ==
  /\ lock = Nobody
  /\ pc = [h \in Handlers |-> "idle"]
  /\ key = [h \in Handlers |-> Nobody]
  /\ rows = [k \in Keys |-> NoOrder]
  /\ stack = [orders |-> [k \in Keys |-> NoOrder], placed |-> 0, rejections |-> 0]
  /\ own = [h \in Handlers |-> Shared]
  /\ venue = [k \in Keys |-> <<>>]
  /\ loose = [k \in Keys |-> 0]
  /\ sent = [k \in Keys |-> 0]
  /\ answer = [h \in Handlers |-> "none"]
  /\ lapses = {}
  /\ faults = MaxFaults
-----------------------------------------------------------------------------
StackOf(h) == IF own[h] = Shared THEN stack ELSE own[h]
OrderOf(h) == StackOf(h).orders[key[h]]

(* The handler's stack becomes s, whether or not it is still the cached one. *)
Keep(h, s) ==
  IF own[h] = Shared THEN stack' = s /\ UNCHANGED own
                     ELSE own' = [own EXCEPT ![h] = s] /\ UNCHANGED stack

(* Mutant: the dependency serialize_user_trading is dropped.               *)
EnterUnlocked(h, k, s) ==
  /\ pc[h] = "idle"
  /\ lock' = h
  /\ key' = [key EXCEPT ![h] = k]
  /\ pc' = [pc EXCEPT ![h] = s]
  /\ answer' = [answer EXCEPT ![h] = "none"]

Enter(h, k, s) ==
  /\ pc[h] = "idle" /\ lock = Nobody
  /\ lock' = h
  /\ key' = [key EXCEPT ![h] = k]
  /\ pc' = [pc EXCEPT ![h] = s]
  /\ answer' = [answer EXCEPT ![h] = "none"]

(* Mutant: an error path that keeps the lock.                              *)
LeaveLocked(h, a) ==
  /\ lock' = IF a = "failed" THEN lock ELSE Nobody
  /\ pc' = [pc EXCEPT ![h] = "idle"]
  /\ own' = [own EXCEPT ![h] = Shared]
  /\ key' = [key EXCEPT ![h] = Nobody]
  /\ answer' = [answer EXCEPT ![h] = a]

Leave(h, a) ==
  /\ lock' = Nobody
  /\ pc' = [pc EXCEPT ![h] = "idle"]
  /\ own' = [own EXCEPT ![h] = Shared]
  /\ key' = [key EXCEPT ![h] = Nobody]
  /\ answer' = [answer EXCEPT ![h] = a]

At(h, s) == pc' = [pc EXCEPT ![h] = s] /\ UNCHANGED <<lock, key, answer>>

Fault  == faults > 0 /\ faults' = faults - 1
Lapse(l) == lapses' = lapses \cup {l}
-----------------------------------------------------------------------------
(* POST /orders: the stack is fetched; quote, account and risk data follow. *)
BeginPlace(h, k) ==
  /\ Enter(h, k, "risk")
  /\ UNCHANGED <<stack, own, rows, venueVars, lapses, faults>>

(* What this module keeps of RiskEngine.evaluate: the rejections in a row, *)
(* and for an order that is not reducing, the day's count.                 *)
GateOpen(h) ==
  /\ StackOf(h).rejections < RejectLimit
  /\ key[h] \in Exits \/ StackOf(h).placed < MaxTrades

(* This gate or any other refuses: nothing is created.                     *)
Refuse(h) ==
  /\ pc[h] = "risk"
  /\ Leave(h, "refused")
  /\ UNCHANGED <<stack, rows, venueVars, lapses, faults>>

(* The key is new: the order is created, driven to SUBMITTED and sent.     *)
Submit(h) ==
  /\ pc[h] = "risk" /\ GateOpen(h) /\ OrderOf(h) = NoOrder
  /\ Keep(h, [StackOf(h) EXCEPT !.orders[key[h]] = Created])
  /\ sent' = [sent EXCEPT ![key[h]] = @ + 1]
  /\ At(h, "placing")
  /\ UNCHANGED <<rows, venue, loose, lapses, faults>>

(* The key is known: the existing order is saved again and answered.       *)
Dedupe(h) ==
  /\ pc[h] = "risk" /\ GateOpen(h) /\ OrderOf(h) # NoOrder
  /\ At(h, "saving")
  /\ UNCHANGED <<stack, own, rows, venueVars, lapses, faults>>

(* The order in its new state counts for the day and, unless the broker    *)
(* rejected it, ends the run of rejections.                                *)
Counted(s, k, o) ==
  [orders     |-> [s.orders EXCEPT ![k] = o],
   placed     |-> s.placed + 1,
   rejections |-> IF o.status = "REJECTED" THEN s.rejections + 1 ELSE 0]

(* submit has its result: the order follows the path, and the counters     *)
(* with it.  A path the table forbids raises.                              *)
Receive(h, path, id) ==
  /\ pc[h] = "placing"
  /\ IF Legal(OrderOf(h).status, path)
     THEN /\ Keep(h, Counted(StackOf(h), key[h], [Moved(OrderOf(h), path) EXCEPT !.bid = id]))
          /\ At(h, "saving")
     ELSE Leave(h, "illegal") /\ UNCHANGED stack
  /\ UNCHANGED <<rows, sent>>

Reaches(k, s) == venue' = [venue EXCEPT ![k] = Append(@, s)]
Loosened(k)   == loose' = [loose EXCEPT ![k] = @ + 1]
NewId(h)      == Len(venue[key[h]]) + 1

(* The broker takes the order, and may have filled it on the spot.         *)
Accept(h, s) ==
  /\ Receive(h, CASE s = "ACKNOWLEDGED"     -> <<"ACKNOWLEDGED">>
                  [] s = "PARTIALLY_FILLED" -> <<"ACKNOWLEDGED", "PARTIALLY_FILLED">>
                  [] s = "FILLED"           -> <<"ACKNOWLEDGED", "FILLED", "MONITORING">>, NewId(h))
  /\ Reaches(key[h], s)
  /\ UNCHANGED <<loose, lapses, faults>>

(* The broker refuses the order.                                           *)
Reject(h) ==
  /\ Receive(h, <<"REJECTED">>, NoId)
  /\ UNCHANGED <<venue, loose, lapses, faults>>

(* An error status from a gateway in between: the same REJECTED result,    *)
(* whatever becomes of the request.                                        *)
GatewayError(h) ==
  /\ Fault
  /\ Receive(h, <<"REJECTED">>, NoId)
  /\ Loosened(key[h])
  /\ UNCHANGED <<venue, lapses>>

(* A timeout or an unreadable answer: FAILED.                              *)
Unanswered(h) ==
  /\ Fault
  /\ Receive(h, <<"FAILED">>, NoId)
  /\ Loosened(key[h])
  /\ UNCHANGED <<venue, lapses>>

(* Any other exception leaves the handler between SUBMITTED and the rest:  *)
(* no counter, no row.                                                     *)
PlaceRaises(h) ==
  /\ pc[h] = "placing" /\ Fault
  /\ Leave(h, "failed")
  /\ Loosened(key[h])
  /\ Lapse("raised")
  /\ UNCHANGED <<stack, rows, venue, sent>>
-----------------------------------------------------------------------------
(* POST /orders/{id}/cancel: only SUBMITTED or ACKNOWLEDGED.  Without a    *)
(* broker id there is nobody to ask.                                       *)
BeginCancel(h, k) ==
  LET o == stack.orders[k] IN
  /\ o.status \in {"SUBMITTED", "ACKNOWLEDGED"}
  /\ IF o.bid # NoId
     THEN Enter(h, k, "cancelling") /\ UNCHANGED stack
     ELSE /\ Enter(h, k, "saving")
          /\ stack' = [stack EXCEPT !.orders[k] = Moved(@, <<"CANCELLED">>)]
  /\ UNCHANGED <<own, rows, venueVars, lapses, faults>>

(* Mutant: a cancel the broker refuses is taken for one that was late.     *)
CancelAnyway(h) ==
  LET k == key[h]  o == OrderOf(h) IN
  /\ pc[h] = "cancelling"
  /\ venue' = [venue EXCEPT ![k][o.bid] = IF @ \in VenueLive THEN "CANCELLED" ELSE @]
  /\ IF Legal(o.status, <<"CANCELLED">>)
     THEN /\ Keep(h, [StackOf(h) EXCEPT !.orders[k] = Moved(@, <<"CANCELLED">>)])
          /\ At(h, "saving")
     ELSE Leave(h, "illegal") /\ UNCHANGED stack
  /\ UNCHANGED <<rows, loose, sent, lapses, faults>>

(* The broker cancels.                                                     *)
CancelConfirmed(h) ==
  LET k == key[h]  o == OrderOf(h) IN
  /\ pc[h] = "cancelling" /\ venue[k][o.bid] \in VenueLive \cup {"CANCELLED"}
  /\ venue' = [venue EXCEPT ![k][o.bid] = "CANCELLED"]
  /\ IF Legal(o.status, <<"CANCELLED">>)
     THEN /\ Keep(h, [StackOf(h) EXCEPT !.orders[k] = Moved(@, <<"CANCELLED">>)])
          /\ At(h, "saving")
     ELSE Leave(h, "illegal") /\ UNCHANGED stack
  /\ UNCHANGED <<rows, loose, sent, lapses, faults>>

(* BrokerError or no answer: the order stays as it is; the broker may have *)
(* cancelled all the same.                                                 *)
CancelFails(h) ==
  LET k == key[h]  o == OrderOf(h) IN
  /\ pc[h] = "cancelling"
  /\ \/ UNCHANGED venue
     \/ venue[k][o.bid] \in VenueLive /\ venue' = [venue EXCEPT ![k][o.bid] = "CANCELLED"]
  /\ Leave(h, "failed")
  /\ UNCHANGED <<stack, rows, loose, sent, lapses, faults>>
-----------------------------------------------------------------------------
(* Mutant: an existing row keeps its status.                               *)
WithoutStatus(r, o) ==
  IF r = NoOrder THEN o
  ELSE [o EXCEPT !.status = r.status, !.trail = r.trail \o SubSeq(@, Len(r.trail) + 1, Len(@))]

(* The row that persist_order leaves: status and broker id of the order,   *)
(* and the events the table did not have by count.                         *)
Written(r, o) ==
  IF r = NoOrder THEN o
  ELSE [o EXCEPT !.trail = r.trail \o SubSeq(@, Len(r.trail) + 1, Len(@))]

Save(h) ==
  /\ pc[h] = "saving"
  /\ rows' = [rows EXCEPT ![key[h]] = Written(@, OrderOf(h))]
  /\ Leave(h, "done")
  /\ UNCHANGED <<stack, venueVars, lapses, faults>>

SaveRaises(h) ==
  /\ pc[h] = "saving" /\ Fault
  /\ Leave(h, "failed")
  /\ Lapse("unsaved")
  /\ UNCHANGED <<stack, rows, venueVars>>
-----------------------------------------------------------------------------
(* A request nobody waits for arrives after all, or never.                 *)
Late(k) ==
  /\ loose[k] > 0
  /\ loose' = [loose EXCEPT ![k] = @ - 1]
  /\ Reaches(k, "ACKNOWLEDGED") \/ UNCHANGED venue
  /\ UNCHANGED <<lock, pc, key, stack, own, rows, sent, answer, lapses, faults>>

(* The market fills an order at the venue; the process is not told.        *)
VenueFills(k) ==
  /\ \E i \in DOMAIN venue[k], s \in {"PARTIALLY_FILLED", "FILLED"} :
       /\ venue[k][i] \in VenueLive /\ venue[k][i] # s
       /\ venue' = [venue EXCEPT ![k][i] = s]
  /\ UNCHANGED <<lock, pc, key, stack, own, rows, loose, sent, answer, lapses, faults>>

InFlight(h) == pc[h] \in {"placing", "saving"}

(* The broker account changed and an unserialised request (GET /orders)    *)
(* comes first: the cached stack is replaced; a handler inside keeps the   *)
(* one it has.                                                             *)
Rebuild ==
  /\ Fault
  /\ stack' = Restored
  /\ own' = [h \in Handlers |-> IF pc[h] # "idle" /\ own[h] = Shared THEN stack ELSE own[h]]
  /\ lapses' = IF \E h \in Handlers : pc[h] # "idle" THEN lapses \cup {"rebuilt"} ELSE lapses
  /\ UNCHANGED <<lock, pc, key, rows, venueVars, answer>>

(* The process dies and comes back; what it was sending may still arrive.  *)
Crash ==
  /\ Fault
  /\ stack' = Restored
  /\ own' = [h \in Handlers |-> Shared]
  /\ lock' = Nobody
  /\ pc' = [h \in Handlers |-> "idle"]
  /\ key' = [h \in Handlers |-> Nobody]
  /\ answer' = [h \in Handlers |-> IF pc[h] = "idle" THEN answer[h] ELSE "failed"]
  /\ loose' = [k \in Keys |-> loose[k]
                 + Cardinality({h \in Handlers : pc[h] = "placing" /\ key[h] = k})]
  /\ lapses' = IF \E h \in Handlers : InFlight(h) THEN lapses \cup {"interrupted"} ELSE lapses
  /\ UNCHANGED <<rows, venue, sent>>
-----------------------------------------------------------------------------
(* The steps a handler takes once its awaits return.                       *)
Proceed(h) ==
  \/ Refuse(h) \/ Submit(h) \/ Dedupe(h)
  \/ \E s \in {"ACKNOWLEDGED", "PARTIALLY_FILLED", "FILLED"} : Accept(h, s)
  \/ Reject(h)
  \/ CancelConfirmed(h) \/ CancelFails(h)
  \/ Save(h)

Next ==
  \/ \E h \in Handlers, k \in Keys : BeginPlace(h, k) \/ BeginCancel(h, k)
  \/ \E h \in Handlers : \/ Proceed(h)
                         \/ GatewayError(h) \/ Unanswered(h) \/ PlaceRaises(h) \/ SaveRaises(h)
  \/ \E k \in Keys : Late(k) \/ VenueFills(k)
  \/ Rebuild \/ Crash

Spec == Init /\ [][Next]_vars
-----------------------------------------------------------------------------
RealOrder == [status : Statuses, bid : Nat, trail : Seq(Statuses)]
OrderType == {NoOrder} \cup RealOrder
StackType == [orders : [Keys -> OrderType], placed : Nat, rejections : Nat]

(* Every variable has its type.                                            *)
TypeOK ==
  /\ lock \in Handlers \cup {Nobody}
  /\ pc \in [Handlers -> Stages]
  /\ key \in [Handlers -> Keys \cup {Nobody}]
  /\ stack \in StackType
  /\ own \in [Handlers -> {Shared} \cup StackType]
  /\ rows \in [Keys -> OrderType]
  /\ venue \in [Keys -> Seq(VenueStatuses)]
  /\ loose \in [Keys -> Nat]
  /\ sent \in [Keys -> Nat]
  /\ answer \in [Handlers -> Answers]
  /\ lapses \subseteq Lapses
  /\ faults \in 0 .. MaxFaults

(* The user's lock is held exactly while one handler is at work, on every  *)
(* path out of it, crash and rebuild included (serialize_user_trading).    *)
LockFollowsHandler == \A h \in Handlers : pc[h] # "idle" <=> lock = h

(* No handler ever runs into IllegalTransitionError: cancels and fills of  *)
(* one order never cross (cancel_order's comment on its lock).             *)
NeverIllegal == \A h \in Handlers : answer[h] # "illegal"

(* One key, one order at the broker - across any number of restarts and    *)
(* rebuilds that interrupted nothing (load_recent_orders).                 *)
OneSubmissionPerKey == lapses = {} => \A k \in Keys : sent[k] <= 1

(* An entry is sent only while the orders sent this day are fewer than     *)
(* max_trades_per_day; a restart or a reconnect does not open a fresh day  *)
(* (_stack_for).                                                           *)
DailyCapHolds ==
  [][\A k \in Keys \ Exits : sent'[k] > sent[k] /\ lapses = {} =>
       Cardinality({j \in Keys : sent[j] > 0}) < MaxTrades]_vars

(* The event trail in the table is a walk through the state machine that   *)
(* ends at the row's status, whatever crashed (persist_order).             *)
TrailFaithful ==
  "rebuilt" \notin lapses =>
    \A k \in Keys : rows[k] # NoOrder =>
      LET t == rows[k].trail IN
      /\ t # <<>> /\ Head(t) = "CREATED" /\ Last(t) = rows[k].status
      /\ \A i \in 2 .. Len(t) : t[i] \in Allowed(t[i - 1])

(* Between handlers the table is the book in memory, and its size the      *)
(* day's count (load_orders_placed_since).                                 *)
MirrorAtRest ==
  lock = Nobody /\ lapses = {} =>
    /\ stack.orders = rows
    /\ stack.placed = Cardinality({k \in Keys : rows[k] # NoOrder})

(* An order the broker knows is CANCELLED here only if it is there: a      *)
(* failed cancel never looks like a successful one (cancel_order).         *)
CancelledIsDead ==
  \A k \in Keys :
    LET o == stack.orders[k] IN
    o.status = "CANCELLED" /\ o.bid # NoId => venue[k][o.bid] = "CANCELLED"
=============================================================================
