------------------------------ MODULE TradeLock ------------------------------
(***************************************************************************)
(* Trading on one account, serialised between the handlers of the API      *)
(* process and the auto-trade supervisor of the worker process             *)
(* (core/redis.py, api/orders.py, workers/auto_trade_worker.py).           *)
(*                                                                         *)
(* A handler first queues on the API's in-process asyncio.Lock, then both  *)
(* kinds of caller poll Redis for the account's lease, a key that expires  *)
(* after TTL.  Under the lease a caller reads the account's exposure - its *)
(* own engine's book in memory plus the other engine's rows in Postgres -, *)
(* fills, and writes its own rows; then it releases.  Nothing renews the   *)
(* lease, so a slow caller outlives it.  Any Redis or database call may    *)
(* fail and either process may die anywhere.                               *)
(*                                                                         *)
(* Time is relative: the lease and each deadline count down with Tick.     *)
(* The token of an acquisition is its caller: a caller cannot acquire      *)
(* again while a lease carrying its own old token is still in force.       *)
(***************************************************************************)
EXTENDS Integers, Sequences

CONSTANTS ApiCalls,   \* handler invocations of the API process
          Worker,     \* the supervisor's pass, in the worker process
          TTL,        \* TRADE_LOCK_TTL_SECONDS
          Wait,       \* TRADE_LOCK_WAIT_SECONDS
          Limit,      \* the account's exposure limit
          MaxOrder,   \* bound: the largest exposure one order adds
          FailOpen    \* the processes with settings.trade_lock_fail_open

ASSUME CallersAssumption == Worker \notin ApiCalls
ASSUME TimesAssumption   == TTL \in Nat \ {0} /\ Wait \in Nat /\ TTL <= Wait
ASSUME LimitsAssumption  == Limit \in Nat /\ MaxOrder \in Nat \ {0}
ASSUME FailOpenAssumption == FailOpen \subseteq {"manual", "auto"}

VARIABLES
  stage,     \* where each caller stands
  queue,     \* the asyncio.Lock: its holder, then its waiters in order
  left,      \* time to each poller's deadline
  lease,     \* the Redis key: its token and remaining life, or Free
  token,     \* does the caller hold a token to release
  pending,   \* exposure an approved order is about to add
  held,      \* each engine's book in memory
  rows,      \* each engine's open positions in Postgres
  answer,    \* how the caller's last call ended
  behind,    \* history: the lease met at the start of the wait still holds
  lapses     \* history: guarantees given up so far

lockVars == <<stage, queue, left, lease, token, behind>>
bookVars == <<pending, held, rows>>
vars == <<lockVars, bookVars, answer, lapses>>

Callers  == ApiCalls \cup {Worker}
Engines  == {"manual", "auto"}
Stages   == {"idle", "queued", "polling", "inside", "approved", "traded", "done"}
Critical == {"inside", "approved", "traded", "done"}
Answers  == {"none", "done", "rejected", "busy", "unavailable", "failed"}
Lapses   == {"overrun", "failopen", "unsaved"}
Free     == [by |-> "nobody"]

(* The key as SET NX PX writes it.                                         *)
Lease(c) == [by |-> "caller", owner |-> c, ttl |-> TTL]

Engine(c) == IF c = Worker THEN "auto" ELSE "manual"
Other(e)  == IF e = "auto" THEN "manual" ELSE "auto"

(* Mutant: the release script does not compare the token.                  *)
AnyLease(c) == lease # Free

(* The lease in force, if any, carries this caller's token.                *)
HoldsLease(c) == lease # Free /\ lease.owner = c

Init ==
  /\ stage = [c \in Callers |-> "idle"]
  /\ queue = <<>>
  /\ left = [c \in Callers |-> 0]
  /\ lease = Free
  /\ token = [c \in Callers |-> FALSE]
  /\ pending = [c \in Callers |-> 0]
  /\ held = [e \in Engines |-> 0]
  /\ rows = [e \in Engines |-> 0]
  /\ answer = [c \in Callers |-> "none"]
  /\ behind = [c \in Callers |-> FALSE]
  /\ lapses = {}
-----------------------------------------------------------------------------
(* acquire_trade_lock is entered: the deadline is set.                     *)
StartPolling(c) ==
  /\ stage' = [stage EXCEPT ![c] = "polling"]
  /\ left' = [left EXCEPT ![c] = Wait]
  /\ behind' = [behind EXCEPT ![c] = lease # Free]

(* A request arrives and asks for the user's asyncio.Lock.                 *)
Request(c) ==
  /\ c \in ApiCalls /\ stage[c] = "idle"
  /\ queue' = Append(queue, c)
  /\ stage' = [stage EXCEPT ![c] = "queued"]
  /\ answer' = [answer EXCEPT ![c] = "none"]
  /\ UNCHANGED <<left, lease, token, behind, bookVars, lapses>>

(* Mutant: every waiter passes the asyncio.Lock.                           *)
EnterUnlocked(c) ==
  /\ stage[c] = "queued"
  /\ StartPolling(c)
  /\ UNCHANGED <<queue, lease, token, bookVars, answer, lapses>>

(* The asyncio.Lock is granted in arrival order.                           *)
EnterProcessLock(c) ==
  /\ stage[c] = "queued" /\ queue # <<>> /\ Head(queue) = c
  /\ StartPolling(c)
  /\ UNCHANGED <<queue, lease, token, bookVars, answer, lapses>>

(* The supervisor has a candle to process for this account.                *)
StartPass ==
  /\ stage[Worker] = "idle"
  /\ StartPolling(Worker)
  /\ answer' = [answer EXCEPT ![Worker] = "none"]
  /\ UNCHANGED <<queue, lease, token, bookVars, lapses>>

(* Mutant: the early returns keep the asyncio.Lock.                        *)
LeaveLocked(c, a) ==
  /\ stage' = [stage EXCEPT ![c] = "idle"]
  /\ answer' = [answer EXCEPT ![c] = a]
  /\ queue' = IF c \in ApiCalls /\ a \notin {"busy", "unavailable"} THEN Tail(queue) ELSE queue
  /\ pending' = [pending EXCEPT ![c] = 0]
  /\ token' = [token EXCEPT ![c] = FALSE]

(* The caller leaves with an answer; a handler also leaves the             *)
(* asyncio.Lock, on every path.                                            *)
Leave(c, a) ==
  /\ stage' = [stage EXCEPT ![c] = "idle"]
  /\ answer' = [answer EXCEPT ![c] = a]
  /\ queue' = IF c \in ApiCalls THEN Tail(queue) ELSE queue
  /\ pending' = [pending EXCEPT ![c] = 0]
  /\ token' = [token EXCEPT ![c] = FALSE]

(* Mutant: SET without NX.                                                 *)
AcquireAnyway(c) ==
  /\ stage[c] = "polling"
  /\ lease' = Lease(c)
  /\ token' = [token EXCEPT ![c] = TRUE]
  /\ stage' = [stage EXCEPT ![c] = "inside"]
  /\ left' = [left EXCEPT ![c] = 0]
  /\ UNCHANGED <<queue, behind, bookVars, answer, lapses>>

(* SET NX PX finds the key absent.                                         *)
Acquire(c) ==
  /\ stage[c] = "polling" /\ lease = Free
  /\ lease' = Lease(c)
  /\ token' = [token EXCEPT ![c] = TRUE]
  /\ stage' = [stage EXCEPT ![c] = "inside"]
  /\ left' = [left EXCEPT ![c] = 0]
  /\ UNCHANGED <<queue, behind, bookVars, answer, lapses>>

(* Mutant: the caller gives up one poll before its deadline.               *)
GiveUpEarly(c) ==
  /\ stage[c] = "polling" /\ lease # Free /\ left[c] <= 1
  /\ Leave(c, "busy")
  /\ UNCHANGED <<left, lease, behind, held, rows, lapses>>

(* SET NX PX finds the key present and the deadline has passed.            *)
GiveUp(c) ==
  /\ stage[c] = "polling" /\ lease # Free /\ left[c] = 0
  /\ Leave(c, "busy")
  /\ UNCHANGED <<left, lease, behind, held, rows, lapses>>

(* The poll raises.  The command may have reached Redis before the         *)
(* connection failed, and then the key carries a token nobody kept.        *)
PollRaises(c) ==
  /\ stage[c] = "polling"
  /\ lease' \in {lease} \cup (IF lease = Free THEN {Lease(c)} ELSE {})
  /\ left' = [left EXCEPT ![c] = 0]
  /\ IF Engine(c) \in FailOpen
     THEN /\ stage' = [stage EXCEPT ![c] = "inside"]
          /\ lapses' = lapses \cup {"failopen"}
          /\ UNCHANGED <<queue, pending, token, answer>>
     ELSE /\ Leave(c, "unavailable")
          /\ UNCHANGED lapses
  /\ UNCHANGED <<behind, held, rows>>
-----------------------------------------------------------------------------
(* Mutant: each engine gates on its own book alone.                        *)
OwnExposure(c) == held[Engine(c)]

(* What the caller's risk gate sees of the account: its own engine's book, *)
(* the other engine's rows.                                                *)
CurrentExposure(c) == held[Engine(c)] + rows[Other(Engine(c))]

(* The gate approves an entry of size n.                                   *)
ApproveEntry(c, n) ==
  /\ stage[c] = "inside" /\ CurrentExposure(c) + n <= Limit
  /\ pending' = [pending EXCEPT ![c] = n]
  /\ stage' = [stage EXCEPT ![c] = "approved"]
  /\ UNCHANGED <<queue, left, lease, token, behind, held, rows, answer, lapses>>

(* An exit skips the exposure limit and is clamped to what is open.        *)
ApproveExit(c, n) ==
  /\ stage[c] = "inside" /\ n <= held[Engine(c)]
  /\ pending' = [pending EXCEPT ![c] = -n]
  /\ stage' = [stage EXCEPT ![c] = "approved"]
  /\ UNCHANGED <<queue, left, lease, token, behind, held, rows, answer, lapses>>

(* The gate refuses, or the call trades nothing (a cancel, a candle        *)
(* without a signal): a handler is done, the supervisor still writes its   *)
(* position.                                                               *)
TradeNothing(c) ==
  /\ stage[c] = "inside"
  /\ stage' = [stage EXCEPT ![c] = IF c = Worker THEN "traded" ELSE "done"]
  /\ answer' = [answer EXCEPT ![c] = "rejected"]
  /\ UNCHANGED <<queue, left, lease, token, behind, bookVars, lapses>>

(* The broker fills the approved order; the book in memory has it.         *)
Fill(c) ==
  /\ stage[c] = "approved"
  /\ held' = [held EXCEPT ![Engine(c)] = @ + pending[c]]
  /\ pending' = [pending EXCEPT ![c] = 0]
  /\ stage' = [stage EXCEPT ![c] = "traded"]
  /\ answer' = [answer EXCEPT ![c] = "done"]
  /\ UNCHANGED <<queue, left, lease, token, behind, rows, lapses>>

(* The broker declines it: nothing changes hands.                          *)
Decline(c) ==
  /\ stage[c] = "approved"
  /\ pending' = [pending EXCEPT ![c] = 0]
  /\ stage' = [stage EXCEPT ![c] = "traded"]
  /\ answer' = [answer EXCEPT ![c] = "rejected"]
  /\ UNCHANGED <<queue, left, lease, token, behind, held, rows, lapses>>

(* persist_position commits the engine's position.                         *)
Persist(c) ==
  /\ stage[c] = "traded"
  /\ rows' = [rows EXCEPT ![Engine(c)] = held[Engine(c)]]
  /\ stage' = [stage EXCEPT ![c] = "done"]
  /\ UNCHANGED <<queue, left, lease, token, behind, pending, held, answer, lapses>>

(* The commit raises: the lock's finally clause runs all the same.         *)
PersistRaises(c) ==
  /\ stage[c] = "traded"
  /\ stage' = [stage EXCEPT ![c] = "done"]
  /\ answer' = [answer EXCEPT ![c] = "failed"]
  /\ lapses' = lapses \cup {"unsaved"}
  /\ UNCHANGED <<queue, left, lease, token, behind, bookVars>>
-----------------------------------------------------------------------------
(* When a lease ends, nobody is behind it any more.                        *)
LeaseEnds == lease' = Free /\ behind' = [c \in Callers |-> FALSE]

(* Mutant: the lock is released before the position is written.            *)
ReleaseEarly(c) ==
  /\ stage[c] \in {"traded", "done"}
  /\ Leave(c, answer[c])
  /\ IF token[c] /\ HoldsLease(c) THEN LeaseEnds ELSE UNCHANGED <<lease, behind>>
  /\ UNCHANGED <<left, held, rows, lapses>>

(* release_trade_lock: compare the token, then delete, in one script.      *)
Release(c) ==
  /\ stage[c] = "done"
  /\ Leave(c, answer[c])
  /\ IF token[c] /\ HoldsLease(c) THEN LeaseEnds ELSE UNCHANGED <<lease, behind>>
  /\ UNCHANGED <<left, held, rows, lapses>>

(* The release raises before it reached Redis: the key lives out its TTL.  *)
ReleaseRaises(c) ==
  /\ stage[c] = "done" /\ token[c]
  /\ Leave(c, "failed")
  /\ UNCHANGED <<left, lease, behind, held, rows, lapses>>

(* Mutant: the key is set without an expiry.                               *)
TickNoExpiry ==
  /\ \E c \in Callers : left[c] > 0
  /\ left' = [c \in Callers |-> IF left[c] > 0 THEN left[c] - 1 ELSE 0]
  /\ UNCHANGED <<stage, queue, lease, token, behind, bookVars, answer, lapses>>

(* Time passes: deadlines come closer and the key expires, whether or not  *)
(* its holder is still at work.                                            *)
Tick ==
  /\ \/ lease # Free
     \/ \E c \in Callers : left[c] > 0
  /\ left' = [c \in Callers |-> IF left[c] > 0 THEN left[c] - 1 ELSE 0]
  /\ IF lease = Free THEN UNCHANGED <<lease, behind, lapses>>
     ELSE IF lease.ttl > 1
     THEN /\ lease' = [lease EXCEPT !.ttl = @ - 1]
          /\ UNCHANGED <<behind, lapses>>
     ELSE /\ LeaseEnds
          /\ lapses' = IF token[lease.owner] THEN lapses \cup {"overrun"} ELSE lapses
  /\ UNCHANGED <<stage, queue, token, bookVars, answer>>

(* A process dies: its memory is gone, and when it is back the engine's    *)
(* book is rebuilt from its rows.  The key in Redis stays.                 *)
Crash(e) ==
  LET dead == {c \in Callers : Engine(c) = e} IN
  /\ stage' = [c \in Callers |-> IF c \in dead THEN "idle" ELSE stage[c]]
  /\ left' = [c \in Callers |-> IF c \in dead THEN 0 ELSE left[c]]
  /\ token' = [c \in Callers |-> IF c \in dead THEN FALSE ELSE token[c]]
  /\ behind' = [c \in Callers |-> IF c \in dead THEN FALSE ELSE behind[c]]
  /\ pending' = [c \in Callers |-> IF c \in dead THEN 0 ELSE pending[c]]
  /\ answer' = [c \in Callers |-> IF c \in dead /\ stage[c] # "idle" THEN "failed" ELSE answer[c]]
  /\ queue' = IF e = "manual" THEN <<>> ELSE queue
  /\ held' = [held EXCEPT ![e] = rows[e]]
  /\ UNCHANGED <<lease, rows, lapses>>
-----------------------------------------------------------------------------
(* The steps a live process takes on its own.                              *)
Proceed(c) ==
  \/ EnterProcessLock(c)
  \/ Acquire(c) \/ GiveUp(c)
  \/ \E n \in 1 .. MaxOrder : ApproveEntry(c, n) \/ ApproveExit(c, n)
  \/ TradeNothing(c)
  \/ Fill(c) \/ Decline(c)
  \/ Persist(c)
  \/ Release(c)

Fault(c) == PollRaises(c) \/ PersistRaises(c) \/ ReleaseRaises(c)

Next ==
  \/ \E c \in Callers : Request(c) \/ Proceed(c) \/ Fault(c)
  \/ StartPass
  \/ Tick
  \/ \E e \in Engines : Crash(e)

Spec == Init /\ [][Next]_vars

(* The event loop grants a free asyncio.Lock, and time passes.  No awaited *)
(* call is owed its return: the Redis client and the database engine are   *)
(* built without a timeout (core/redis.py, database/session.py).           *)
FairSpec == Spec /\ WF_vars(Tick) /\ \A c \in ApiCalls : WF_vars(EnterProcessLock(c))
-----------------------------------------------------------------------------
LeaseType == {Free} \cup [by : {"caller"}, owner : Callers, ttl : 1 .. TTL]

(* Every variable has its type.                                            *)
TypeOK ==
  /\ stage \in [Callers -> Stages]
  /\ queue \in Seq(ApiCalls)
  /\ left \in [Callers -> 0 .. Wait]
  /\ lease \in LeaseType
  /\ token \in [Callers -> BOOLEAN]
  /\ pending \in [Callers -> Int]
  /\ held \in [Engines -> Nat]
  /\ rows \in [Engines -> Nat]
  /\ answer \in [Callers -> Answers]
  /\ behind \in [Callers -> BOOLEAN]
  /\ lapses \subseteq Lapses

(* Two callers are never both between the lease and its release, unless a  *)
(* holder outlived its lease or traded without one (redis.py, the lock's   *)
(* purpose).                                                               *)
MutualExclusion ==
  \/ "overrun" \in lapses \/ "failopen" \in lapses
  \/ \A c, d \in Callers : stage[c] \in Critical /\ stage[d] \in Critical => c = d

(* The API's own handlers stay serialised whatever Redis does, fail-open   *)
(* included (serialize_user_trading holds the asyncio.Lock around it).     *)
HandlersSerialized ==
  \A c, d \in ApiCalls : stage[c] \in Critical /\ stage[d] \in Critical => c = d

(* The whole account, both books as they are in memory, stays within its   *)
(* exposure limit as long as no guarantee was given up.                    *)
ExposureWithinLimit == lapses = {} => held["manual"] + held["auto"] <= Limit

(* A step that deletes the key is its owner's release or its expiry: a     *)
(* late holder never deletes the next holder's lease (the release script). *)
OnlyOwnerReleases ==
  [][(lease # Free /\ lease' = Free) =>
       \/ lease.ttl = 1 /\ stage' = stage
       \/ stage[lease.owner] = "done" /\ stage'[lease.owner] = "idle"]_vars

(* A caller is turned away as busy only because someone else took the      *)
(* lease after it began to wait: the wait covers a full hold, even one     *)
(* whose holder died at once (redis.py, TRADE_LOCK_WAIT_SECONDS).          *)
WaitCoversHold ==
  [][\A c \in Callers : answer[c] # "busy" /\ answer'[c] = "busy" => ~behind[c]]_vars

(* The calls this engine's process awaits return.                          *)
AwaitsReturn(e) == \A c \in Callers : Engine(c) = e => WF_vars(Proceed(c))

(* A process whose own awaits return answers each of its calls, whatever   *)
(* becomes of the other process: a holder there that hangs for good loses  *)
(* the account with its lease rather than keeping it (redis.py).  A hang   *)
(* within a process still stops that process, its queue included.          *)
HangStaysInProcess ==
  \A e \in Engines : AwaitsReturn(e) =>
    \A c \in Callers : Engine(c) = e => (stage[c] # "idle" ~> stage[c] = "idle")

(* A key that nobody can release any more does not wedge the account.      *)
OrphanedLeaseEnds ==
  (lease # Free /\ ~token[lease.owner]) ~> lease = Free

Gate == INSTANCE AccountGate WITH manual <- rows["manual"], auto <- rows["auto"],
                                  lapsed <- lapses # {}

(* The lock implements the atomic gate on the account's recorded exposure. *)
GateSpec == Gate!Spec
=============================================================================
