--------------------------- MODULE TradeLockProofs ---------------------------
(***************************************************************************)
(* The guarantees of the trade lock for any number of handlers, any times  *)
(* and any limit.  One inductive invariant, in parts: the asyncio.Lock's   *)
(* queue is exactly the handlers at work, only its head is past it; a      *)
(* token is a lease until a lease is outlived; the books agree with the    *)
(* rows except under the one caller that is between its fill and its       *)
(* write.                                                                  *)
(***************************************************************************)
EXTENDS TradeLock, TLAPS

USE CallersAssumption, TimesAssumption, LimitsAssumption, FailOpenAssumption

QueueInv ==
  /\ \A i, j \in 1 .. Len(queue) : queue[i] = queue[j] => i = j
  /\ \A c \in ApiCalls : stage[c] # "idle" <=> \E i \in 1 .. Len(queue) : queue[i] = c
  /\ \A c \in ApiCalls : stage[c] \notin {"idle", "queued"} => queue # <<>> /\ queue[1] = c

TokenInv ==
  /\ \A c \in Callers : token[c] => stage[c] \in Critical
  /\ "failopen" \notin lapses => \A c \in Callers : stage[c] \in Critical => token[c]
  /\ "overrun" \notin lapses => \A c \in Callers : token[c] => HoldsLease(c)

(* An approved exit fits in the book it shrinks, an approved entry is at   *)
(* most MaxOrder.                                                          *)
PendingInv ==
  \A c \in Callers :
    /\ stage[c] = "approved" => held[Engine(c)] + pending[c] >= 0 /\ pending[c] <= MaxOrder
    /\ stage[c] # "approved" => pending[c] = 0

(* As long as there was no lapse: only a caller between fill and write     *)
(* makes a book differ from its rows, by at most one order, and the        *)
(* account is within its limit in memory, in Postgres and in what the      *)
(* approved order is about to make of it.                                  *)
BookInv ==
  lapses = {} =>
    /\ \A e \in Engines : (\A c \in Callers : Engine(c) = e => stage[c] # "traded")
                             => held[e] = rows[e]
    /\ \A e \in Engines : held[e] <= rows[e] + MaxOrder
    /\ held["manual"] + held["auto"] <= Limit
    /\ rows["manual"] + rows["auto"] <= Limit
    /\ \A c \in Callers : stage[c] = "approved"
         => \/ pending[c] <= 0
            \/ held[Engine(c)] + pending[c] + rows[Other(Engine(c))] <= Limit

IInv == TypeOK /\ QueueInv /\ TokenInv /\ PendingInv /\ BookInv
-----------------------------------------------------------------------------
LEMMA EngineType == \A c \in Callers : Engine(c) \in Engines /\ Other(Engine(c)) \in Engines
                                        /\ Other(Engine(c)) # Engine(c)
BY DEF Engine, Other, Engines

(* What is known of a lease in force, and of its next second.              *)
LEMMA LeaseShape ==
  ASSUME lease \in LeaseType
  PROVE  /\ Free \in LeaseType
         /\ lease # Free => /\ lease.owner \in Callers /\ lease.ttl \in 1 .. TTL
                            /\ lease.ttl > 1 =>
                                 /\ [lease EXCEPT !.ttl = @ - 1] \in LeaseType
                                 /\ [lease EXCEPT !.ttl = @ - 1] # Free
                                 /\ [lease EXCEPT !.ttl = @ - 1].owner = lease.owner
BY DEF LeaseType, Free

LEMMA InitInv == Init => IInv
<1> SUFFICES ASSUME Init PROVE IInv
  OBVIOUS
<1>1. TypeOK
  BY DEF Init, TypeOK, Stages, LeaseType, Answers, Lapses, Engines
<1>2. QueueInv
  BY DEF Init, QueueInv, Callers
<1>3. TokenInv
  BY DEF Init, TokenInv, Critical
<1>4. PendingInv
  BY EngineType DEF Init, PendingInv
<1>5. BookInv
  BY EngineType DEF Init, BookInv, Engines
<1> QED
  BY <1>1, <1>2, <1>3, <1>4, <1>5 DEF IInv

LEMMA Mutex == IInv => MutualExclusion
BY DEF IInv, TokenInv, MutualExclusion, HoldsLease

LEMMA Handlers == IInv => HandlersSerialized
BY DEF IInv, QueueInv, HandlersSerialized, Critical
-----------------------------------------------------------------------------
(* Each caller's actions, the clock and a crash: every step of the system. *)
Acts(c) ==
  \/ Request(c) \/ EnterProcessLock(c) \/ Acquire(c) \/ GiveUp(c) \/ PollRaises(c)
  \/ (\E n \in 1 .. MaxOrder : ApproveEntry(c, n) \/ ApproveExit(c, n))
  \/ TradeNothing(c) \/ Fill(c) \/ Decline(c) \/ Persist(c) \/ PersistRaises(c)
  \/ Release(c) \/ ReleaseRaises(c)

LEMMA NextSplit ==
  Next => \/ \E c \in Callers : Acts(c)
          \/ StartPass \/ Tick \/ \E e \in Engines : Crash(e)
BY DEF Next, Proceed, Fault, Acts

LEMMA TypeStep == IInv /\ [Next]_vars => TypeOK'
<1> SUFFICES ASSUME IInv, [Next]_vars PROVE TypeOK'
  OBVIOUS
<1> USE EngineType DEF IInv, TypeOK
<1>1. ASSUME NEW c \in Callers, Request(c) PROVE TypeOK'
  BY <1>1 DEF Request, bookVars, Stages, Answers
<1>2. ASSUME NEW c \in Callers, EnterProcessLock(c) PROVE TypeOK'
  BY <1>2 DEF EnterProcessLock, StartPolling, bookVars, Stages
<1>3. ASSUME StartPass PROVE TypeOK'
  BY <1>3 DEF StartPass, StartPolling, bookVars, Stages, Callers, Answers
<1>4. ASSUME NEW c \in Callers, Acquire(c) PROVE TypeOK'
  BY <1>4 DEF Acquire, Lease, LeaseType, bookVars, Stages
<1>5. ASSUME NEW c \in Callers, NEW a \in Answers, Leave(c, a), stage[c] \notin {"idle", "queued"}
      PROVE  /\ stage' \in [Callers -> Stages] /\ answer' \in [Callers -> Answers]
             /\ queue' \in Seq(ApiCalls) /\ pending' \in [Callers -> Int]
             /\ token' \in [Callers -> BOOLEAN]
  <2>1. queue' \in Seq(ApiCalls)
    BY <1>5 DEF Leave, QueueInv
  <2> QED
    BY <1>5, <2>1 DEF Leave, Stages
<1>6. ASSUME NEW c \in Callers, GiveUp(c) PROVE TypeOK'
  BY <1>6, <1>5 DEF GiveUp, Answers
<1>7. ASSUME NEW c \in Callers, PollRaises(c) PROVE TypeOK'
  <2>1. lease' \in LeaseType /\ left' \in [Callers -> 0 .. Wait]
    BY <1>7 DEF PollRaises, Lease, LeaseType
  <2>2. CASE Engine(c) \in FailOpen
    BY <1>7, <2>1, <2>2 DEF PollRaises, Stages, Lapses
  <2>3. CASE Engine(c) \notin FailOpen
    BY <1>7, <2>1, <2>3, <1>5 DEF PollRaises, Answers
  <2> QED
    BY <2>2, <2>3
<1>8. ASSUME NEW c \in Callers, NEW n \in 1 .. MaxOrder, ApproveEntry(c, n) \/ ApproveExit(c, n)
      PROVE TypeOK'
  <2>1. CASE ApproveEntry(c, n)
    BY <2>1 DEF ApproveEntry, Stages
  <2>2. CASE ApproveExit(c, n)
    <3>1. -n \in Int
      OBVIOUS
    <3> QED
      BY <2>2, <3>1 DEF ApproveExit, Stages
  <2> QED
    BY <1>8, <2>1, <2>2
<1>9. ASSUME NEW c \in Callers, TradeNothing(c) PROVE TypeOK'
  BY <1>9 DEF TradeNothing, bookVars, Stages, Answers
<1>10. ASSUME NEW c \in Callers, Fill(c) PROVE TypeOK'
  <2>1. held[Engine(c)] + pending[c] \in Nat
    BY <1>10 DEF Fill, PendingInv
  <2> QED
    BY <1>10, <2>1 DEF Fill, Stages, Answers
<1>11. ASSUME NEW c \in Callers, Decline(c) PROVE TypeOK'
  BY <1>11 DEF Decline, Stages, Answers
<1>12. ASSUME NEW c \in Callers, Persist(c) PROVE TypeOK'
  BY <1>12 DEF Persist, Stages
<1>13. ASSUME NEW c \in Callers, PersistRaises(c) PROVE TypeOK'
  BY <1>13 DEF PersistRaises, bookVars, Stages, Answers, Lapses
<1>14. ASSUME NEW c \in Callers, Release(c) PROVE TypeOK'
  BY <1>14, <1>5 DEF Release, LeaseEnds, LeaseType
<1>15. ASSUME NEW c \in Callers, ReleaseRaises(c) PROVE TypeOK'
  BY <1>15, <1>5 DEF ReleaseRaises, Answers
<1>16. ASSUME Tick PROVE TypeOK'
  <2>1. left' \in [Callers -> 0 .. Wait]
    <3>1. left' = [c \in Callers |-> IF left[c] > 0 THEN left[c] - 1 ELSE 0]
      BY <1>16 DEF Tick
    <3>2. \A c \in Callers : left[c] \in 0 .. Wait
      OBVIOUS
    <3> QED
      BY <3>1, <3>2
  <2>2. lease' \in LeaseType
    BY <1>16, LeaseShape DEF Tick, LeaseEnds
  <2>3. behind' \in [Callers -> BOOLEAN]
    <3>1. CASE lease = Free
      BY <1>16, <3>1 DEF Tick
    <3>2. CASE lease # Free /\ lease.ttl > 1
      BY <1>16, <3>2 DEF Tick
    <3>3. CASE lease # Free /\ ~(lease.ttl > 1)
      BY <1>16, <3>3 DEF Tick, LeaseEnds
    <3> QED
      BY <3>1, <3>2, <3>3
  <2>4. lapses' \subseteq Lapses
    BY <1>16 DEF Tick, Lapses
  <2> QED
    BY <1>16, <2>1, <2>2, <2>3, <2>4 DEF Tick, bookVars
<1>17. ASSUME NEW e \in Engines, Crash(e) PROVE TypeOK'
  <2>1. stage' \in [Callers -> Stages] /\ answer' \in [Callers -> Answers]
    BY <1>17 DEF Crash, Stages, Answers
  <2>2. token' \in [Callers -> BOOLEAN] /\ behind' \in [Callers -> BOOLEAN]
    BY <1>17, Zenon DEF Crash
  <2>3. left' \in [Callers -> 0 .. Wait] /\ pending' \in [Callers -> Int]
    BY <1>17 DEF Crash
  <2>4. queue' \in Seq(ApiCalls) /\ held' \in [Engines -> Nat]
    BY <1>17 DEF Crash
  <2> QED
    BY <1>17, <2>1, <2>2, <2>3, <2>4 DEF Crash
<1>18. ASSUME UNCHANGED vars PROVE TypeOK'
  BY <1>18 DEF vars, lockVars, bookVars
<1> QED
  BY <1>1, <1>2, <1>3, <1>4, <1>6, <1>7, <1>8, <1>9, <1>10, <1>11, <1>12, <1>13, <1>14,
     <1>15, <1>16, <1>17, <1>18, NextSplit DEF Acts
-----------------------------------------------------------------------------
(* A step that moves no handler into or out of the asyncio.Lock.           *)
LEMMA SameQueue ==
  ASSUME QueueInv, queue' = queue,
         \A c \in ApiCalls : /\ stage'[c] = "idle" <=> stage[c] = "idle"
                             /\ stage[c] = "queued" => stage'[c] = "queued"
  PROVE  QueueInv'
BY DEF QueueInv

(* The holder leaves: the next in the queue becomes its head.              *)
LEMMA LeaveQueue ==
  ASSUME IInv, NEW c \in Callers, NEW a, Leave(c, a), stage[c] \notin {"idle", "queued"}
  PROVE  QueueInv'
<1> USE DEF IInv, TypeOK
<1>1. CASE c = Worker
  <2>1. queue' = queue /\ \A d \in ApiCalls : stage'[d] = stage[d]
    BY <1>1 DEF Leave, Callers
  <2> QED
    BY <2>1, SameQueue
<1>2. CASE c \in ApiCalls
  <2>1. /\ queue # <<>> /\ queue[1] = c /\ queue' = Tail(queue)
        /\ Len(queue') = Len(queue) - 1
        /\ \A i \in 1 .. Len(queue') : queue'[i] = queue[i + 1]
    BY <1>2 DEF Leave, QueueInv
  <2>2. \A d \in ApiCalls : stage'[d] = IF d = c THEN "idle" ELSE stage[d]
    BY DEF Leave, Callers
  <2>3. \A i, j \in 1 .. Len(queue') : queue'[i] = queue'[j] => i = j
    BY <2>1 DEF QueueInv
  <2>4. ASSUME NEW d \in ApiCalls
        PROVE  stage'[d] # "idle" <=> \E i \in 1 .. Len(queue') : queue'[i] = d
    <3>1. CASE d = c
      BY <3>1, <2>1, <2>2 DEF QueueInv
    <3>2. CASE d # c
      <4>1. (\E i \in 1 .. Len(queue) : queue[i] = d)
              <=> \E i \in 1 .. Len(queue') : queue'[i] = d
        <5>1. ASSUME NEW i \in 1 .. Len(queue), queue[i] = d
              PROVE  \E k \in 1 .. Len(queue') : queue'[k] = d
          <6>1. i - 1 \in 1 .. Len(queue') /\ queue'[i - 1] = d
            BY <5>1, <2>1, <3>2
          <6> QED
            BY <6>1
        <5> QED
          BY <5>1, <2>1
      <4> QED
        BY <4>1, <3>2, <2>2 DEF QueueInv
    <3> QED
      BY <3>1, <3>2
  <2>5. \A d \in ApiCalls : stage'[d] \in {"idle", "queued"}
    BY <1>2, <2>1, <2>2 DEF QueueInv, Callers, Stages
  <2> QED
    BY <2>3, <2>4, <2>5 DEF QueueInv
<1> QED
  BY <1>1, <1>2 DEF Callers

LEMMA QueueStep == IInv /\ [Next]_vars => QueueInv'
<1> SUFFICES ASSUME IInv, [Next]_vars PROVE QueueInv'
  OBVIOUS
<1> USE DEF IInv, TypeOK, Callers
<1>1. ASSUME NEW c \in Callers, Request(c) PROVE QueueInv'
  <2>1. /\ c \in ApiCalls /\ stage[c] = "idle"
        /\ Len(queue') = Len(queue) + 1 /\ queue'[Len(queue) + 1] = c
        /\ \A i \in 1 .. Len(queue) : queue'[i] = queue[i]
        /\ \A d \in ApiCalls : stage'[d] = IF d = c THEN "queued" ELSE stage[d]
    BY <1>1 DEF Request
  <2>2. ~\E i \in 1 .. Len(queue) : queue[i] = c
    BY <2>1 DEF QueueInv
  <2>3. Len(queue) \in Nat /\ \A i \in 1 .. Len(queue') : i = Len(queue) + 1 \/ i \in 1 .. Len(queue)
    BY <2>1
  <2>4. ASSUME NEW i \in 1 .. Len(queue'), NEW j \in 1 .. Len(queue'), queue'[i] = queue'[j]
        PROVE  i = j
    <3>1. CASE i \in 1 .. Len(queue) /\ j \in 1 .. Len(queue)
      <4>1. queue[i] = queue[j]
        BY <3>1, <2>1, <2>4
      <4> QED
        BY <4>1, <3>1 DEF QueueInv
    <3>2. CASE i = Len(queue) + 1 \/ j = Len(queue) + 1
      BY <3>2, <2>1, <2>2, <2>3, <2>4
    <3>3. /\ i = Len(queue) + 1 \/ i \in 1 .. Len(queue)
          /\ j = Len(queue) + 1 \/ j \in 1 .. Len(queue)
      BY <2>3
    <3> QED
      BY <3>1, <3>2, <3>3
  <2>5. ASSUME NEW d \in ApiCalls
        PROVE  stage'[d] # "idle" <=> \E i \in 1 .. Len(queue') : queue'[i] = d
    <3>1. CASE d = c
      <4>1. Len(queue) + 1 \in 1 .. Len(queue') /\ queue'[Len(queue) + 1] = d
        BY <3>1, <2>1, <2>3
      <4> QED
        BY <4>1, <3>1, <2>1
    <3>2. CASE d # c
      <4>1. ASSUME NEW i \in 1 .. Len(queue), queue[i] = d
            PROVE  \E k \in 1 .. Len(queue') : queue'[k] = d
        <5>1. i \in 1 .. Len(queue') /\ queue'[i] = d
          BY <4>1, <2>1, <2>3
        <5> QED
          BY <5>1
      <4>2. ASSUME NEW i \in 1 .. Len(queue'), queue'[i] = d
            PROVE  \E k \in 1 .. Len(queue) : queue[k] = d
        <5>1. i \in 1 .. Len(queue) /\ queue[i] = d
          BY <4>2, <3>2, <2>1, <2>3
        <5> QED
          BY <5>1
      <4> QED
        BY <4>1, <4>2, <3>2, <2>1 DEF QueueInv
    <3> QED
      BY <3>1, <3>2
  <2>6. ASSUME NEW d \in ApiCalls, stage'[d] \notin {"idle", "queued"}
        PROVE  queue' # <<>> /\ queue'[1] = d
    <3>1. stage[d] \notin {"idle", "queued"} /\ queue # <<>> /\ queue[1] = d
      BY <2>1, <2>6 DEF QueueInv
    <3>2. 1 \in 1 .. Len(queue)
      BY <3>1
    <3> QED
      BY <3>1, <3>2, <2>1, <2>3, <1>1 DEF Request
  <2> QED
    BY <2>4, <2>5, <2>6 DEF QueueInv
<1>2. ASSUME NEW c \in Callers, EnterProcessLock(c) PROVE QueueInv'
  BY <1>2 DEF EnterProcessLock, StartPolling, QueueInv
<1>3. ASSUME StartPass PROVE QueueInv'
  BY <1>3, SameQueue DEF StartPass, StartPolling
<1>4. ASSUME NEW c \in Callers, Acquire(c) PROVE QueueInv'
  BY <1>4, SameQueue DEF Acquire
<1>5. ASSUME NEW c \in Callers, GiveUp(c) \/ Release(c) \/ ReleaseRaises(c) PROVE QueueInv'
  BY <1>5, LeaveQueue DEF GiveUp, Release, ReleaseRaises
<1>6. ASSUME NEW c \in Callers, PollRaises(c) PROVE QueueInv'
  <2>1. CASE Engine(c) \in FailOpen
    BY <1>6, <2>1, SameQueue DEF PollRaises
  <2>2. CASE Engine(c) \notin FailOpen
    BY <1>6, <2>2, LeaveQueue DEF PollRaises
  <2> QED
    BY <2>1, <2>2
<1>7. ASSUME NEW c \in Callers, NEW n \in 1 .. MaxOrder, ApproveEntry(c, n) \/ ApproveExit(c, n)
      PROVE QueueInv'
  BY <1>7, SameQueue DEF ApproveEntry, ApproveExit
<1>8. ASSUME NEW c \in Callers,
             TradeNothing(c) \/ Fill(c) \/ Decline(c) \/ Persist(c) \/ PersistRaises(c)
      PROVE QueueInv'
  BY <1>8, SameQueue DEF TradeNothing, Fill, Decline, Persist, PersistRaises
<1>9. ASSUME Tick \/ UNCHANGED vars PROVE QueueInv'
  <2>1. queue' = queue /\ stage' = stage
    BY <1>9 DEF Tick, vars, lockVars
  <2> QED
    BY <2>1, SameQueue
<1>10. ASSUME NEW e \in Engines, Crash(e) PROVE QueueInv'
  <2>1. CASE e = "manual"
    BY <1>10, <2>1 DEF Crash, Engine, QueueInv
  <2>2. CASE e = "auto"
    <3>1. queue' = queue /\ \A c \in ApiCalls : stage'[c] = stage[c]
      BY <1>10, <2>2 DEF Crash, Engine
    <3> QED
      BY <3>1, SameQueue
  <2> QED
    BY <2>1, <2>2 DEF Engines
<1> QED
  BY <1>1, <1>2, <1>3, <1>4, <1>5, <1>6, <1>7, <1>8, <1>9, <1>10, NextSplit DEF Acts
-----------------------------------------------------------------------------
(* A step that leaves the lease, the tokens and the lapses alone and keeps *)
(* the same callers past the lock.                                         *)
LEMMA SameToken ==
  ASSUME TokenInv, lease' = lease, token' = token, lapses' = lapses,
         \A c \in Callers : stage'[c] \in Critical <=> stage[c] \in Critical
  PROVE  TokenInv'
BY DEF TokenInv, HoldsLease

(* A caller leaves without touching the key.                               *)
LEMMA LeaveToken ==
  ASSUME IInv, NEW c \in Callers, NEW a, Leave(c, a), lease' = lease, lapses' = lapses
  PROVE  TokenInv'
BY DEF IInv, TypeOK, TokenInv, HoldsLease, Leave, Critical

LEMMA TokenStep == IInv /\ [Next]_vars => TokenInv'
<1> SUFFICES ASSUME IInv, [Next]_vars PROVE TokenInv'
  OBVIOUS
<1> USE DEF IInv, TypeOK
<1>1. ASSUME NEW c \in Callers, Request(c) \/ EnterProcessLock(c) PROVE TokenInv'
  BY <1>1, SameToken DEF Request, EnterProcessLock, StartPolling, Critical
<1>2. ASSUME StartPass PROVE TokenInv'
  BY <1>2, SameToken DEF StartPass, StartPolling, Critical, Callers
<1>3. ASSUME NEW c \in Callers, Acquire(c) PROVE TokenInv'
  <2>1. lease'.owner = c /\ lease' # Free /\ lapses' = lapses
    BY <1>3 DEF Acquire, Lease, Free
  <2>2. "overrun" \notin lapses => \A d \in Callers : ~token[d]
    BY <1>3 DEF Acquire, TokenInv, HoldsLease
  <2> QED
    BY <1>3, <2>1, <2>2 DEF Acquire, TokenInv, HoldsLease, Critical
<1>4. ASSUME NEW c \in Callers, GiveUp(c) \/ ReleaseRaises(c) PROVE TokenInv'
  BY <1>4, LeaveToken DEF GiveUp, ReleaseRaises
<1>5. ASSUME NEW c \in Callers, PollRaises(c) PROVE TokenInv'
  <2>1. "overrun" \notin lapses => \A d \in Callers : token[d] => lease' = lease
    BY <1>5 DEF PollRaises, TokenInv, HoldsLease
  <2>2. CASE Engine(c) \in FailOpen
    BY <1>5, <2>1, <2>2 DEF PollRaises, TokenInv, HoldsLease, Critical
  <2>3. CASE Engine(c) \notin FailOpen
    <3>1. lapses' = lapses /\ \A d \in Callers : token'[d] = (d # c /\ token[d])
      BY <1>5, <2>3 DEF PollRaises, Leave
    <3>2. \A d \in Callers : stage'[d] = IF d = c THEN "idle" ELSE stage[d]
      BY <1>5, <2>3 DEF PollRaises, Leave
    <3>3. "overrun" \notin lapses' => \A d \in Callers : token'[d] => HoldsLease(d)'
      BY <3>1, <2>1 DEF TokenInv, HoldsLease
    <3>4. \A d \in Callers : token'[d] => stage'[d] \in Critical
      BY <3>1, <3>2 DEF TokenInv
    <3>5. "failopen" \notin lapses' => \A d \in Callers : stage'[d] \in Critical => token'[d]
      BY <3>1, <3>2 DEF TokenInv, Critical
    <3> QED
      BY <3>3, <3>4, <3>5 DEF TokenInv
  <2> QED
    BY <2>2, <2>3
<1>6. ASSUME NEW c \in Callers, NEW n \in 1 .. MaxOrder, ApproveEntry(c, n) \/ ApproveExit(c, n)
      PROVE TokenInv'
  BY <1>6, SameToken DEF ApproveEntry, ApproveExit, Critical
<1>7. ASSUME NEW c \in Callers, TradeNothing(c) \/ Fill(c) \/ Decline(c) \/ Persist(c)
      PROVE TokenInv'
  BY <1>7, SameToken DEF TradeNothing, Fill, Decline, Persist, Critical
<1>8. ASSUME NEW c \in Callers, PersistRaises(c) PROVE TokenInv'
  BY <1>8 DEF PersistRaises, TokenInv, HoldsLease, Critical
<1>9. ASSUME NEW c \in Callers, Release(c) PROVE TokenInv'
  <2>1. CASE token[c] /\ HoldsLease(c)
    <3>1. "overrun" \notin lapses => \A d \in Callers : token[d] => d = c
      BY <2>1 DEF TokenInv, HoldsLease
    <3> QED
      BY <1>9, <2>1, <3>1 DEF Release, LeaseEnds, Leave, TokenInv, HoldsLease, Critical
  <2>2. CASE ~(token[c] /\ HoldsLease(c))
    BY <1>9, <2>2, LeaveToken DEF Release
  <2> QED
    BY <2>1, <2>2
<1>10. ASSUME Tick PROVE TokenInv'
  <2>1. CASE lease = Free
    BY <1>10, <2>1, SameToken DEF Tick
  <2>2. CASE lease # Free /\ lease.ttl > 1
    <3>1. lease' # Free /\ lease'.owner = lease.owner
      BY <1>10, <2>2, LeaseShape DEF Tick
    <3> QED
      BY <1>10, <2>2, <3>1 DEF Tick, TokenInv, HoldsLease
  <2>3. CASE lease # Free /\ ~(lease.ttl > 1)
    <3>1. "overrun" \notin lapses' => \A d \in Callers : ~token[d]
      BY <1>10, <2>3 DEF Tick, TokenInv, HoldsLease
    <3>2. stage' = stage /\ token' = token /\ lapses \subseteq lapses' /\ lapses' \subseteq lapses \cup {"overrun"}
      BY <1>10, <2>3 DEF Tick
    <3> QED
      BY <3>1, <3>2 DEF TokenInv
  <2> QED
    BY <2>1, <2>2, <2>3
<1>11. ASSUME NEW e \in Engines, Crash(e) PROVE TokenInv'
  BY <1>11 DEF Crash, TokenInv, HoldsLease, Critical
<1>12. ASSUME UNCHANGED vars PROVE TokenInv'
  BY <1>12, SameToken DEF vars, lockVars
<1> QED
  BY <1>1, <1>2, <1>3, <1>4, <1>5, <1>6, <1>7, <1>8, <1>9, <1>10, <1>11, <1>12, NextSplit DEF Acts

(* At most one caller of an engine is past the lock, whatever Redis does;  *)
(* without a lapse at most one of the account.                             *)
LEMMA OneAtWork ==
  ASSUME IInv, NEW c \in Callers, NEW d \in Callers,
         stage[c] \in Critical, stage[d] \in Critical
  PROVE  /\ Engine(c) = Engine(d) => c = d
         /\ lapses = {} => c = d
<1>1. Engine(c) = Engine(d) => c = d
  BY DEF IInv, QueueInv, Engine, Callers, Critical
<1>2. lapses = {} => c = d
  BY DEF IInv, TokenInv, HoldsLease
<1> QED
  BY <1>1, <1>2

LEMMA PendingStep == IInv /\ [Next]_vars => PendingInv'
<1> SUFFICES ASSUME IInv, [Next]_vars PROVE PendingInv'
  OBVIOUS
<1> USE EngineType DEF IInv, TypeOK
<1>1. ASSUME NEW c \in Callers, Request(c) \/ EnterProcessLock(c) PROVE PendingInv'
  BY <1>1 DEF Request, EnterProcessLock, StartPolling, PendingInv, bookVars
<1>2. ASSUME StartPass PROVE PendingInv'
  BY <1>2 DEF StartPass, StartPolling, PendingInv, bookVars, Callers
<1>3. ASSUME NEW c \in Callers, Acquire(c) \/ TradeNothing(c) \/ PersistRaises(c) PROVE PendingInv'
  BY <1>3 DEF Acquire, TradeNothing, PersistRaises, PendingInv, bookVars
<1>4. ASSUME NEW c \in Callers, GiveUp(c) \/ Release(c) \/ ReleaseRaises(c) PROVE PendingInv'
  BY <1>4 DEF GiveUp, Release, ReleaseRaises, Leave, PendingInv
<1>5. ASSUME NEW c \in Callers, PollRaises(c) PROVE PendingInv'
  BY <1>5 DEF PollRaises, Leave, PendingInv
<1>6. ASSUME NEW c \in Callers, NEW n \in 1 .. MaxOrder, ApproveEntry(c, n) PROVE PendingInv'
  BY <1>6 DEF ApproveEntry, PendingInv
<1>7. ASSUME NEW c \in Callers, NEW n \in 1 .. MaxOrder, ApproveExit(c, n) PROVE PendingInv'
  BY <1>7 DEF ApproveExit, PendingInv
<1>8. ASSUME NEW c \in Callers, Fill(c) PROVE PendingInv'
  <2>1. \A d \in Callers : stage[d] = "approved" /\ d # c => Engine(d) # Engine(c)
    BY <1>8, OneAtWork DEF Fill, Critical
  <2>2. \A d \in Callers : d # c => stage'[d] = stage[d] /\ pending'[d] = pending[d]
    BY <1>8 DEF Fill
  <2>3. stage'[c] = "traded" /\ pending'[c] = 0
    BY <1>8 DEF Fill
  <2>4. \A e \in Engines : e # Engine(c) => held'[e] = held[e]
    BY <1>8 DEF Fill
  <2> QED
    BY <2>1, <2>2, <2>3, <2>4 DEF PendingInv
<1>9. ASSUME NEW c \in Callers, Decline(c) \/ Persist(c) PROVE PendingInv'
  BY <1>9 DEF Decline, Persist, PendingInv
<1>10. ASSUME NEW e \in Engines, Crash(e) PROVE PendingInv'
  BY <1>10 DEF Crash, PendingInv
<1>11. ASSUME Tick \/ UNCHANGED vars PROVE PendingInv'
  BY <1>11 DEF Tick, vars, lockVars, bookVars, PendingInv
<1> QED
  BY <1>1, <1>2, <1>3, <1>4, <1>5, <1>6, <1>7, <1>8, <1>9, <1>10, <1>11, NextSplit DEF Acts
-----------------------------------------------------------------------------
(* A step that changes no book, completes no write and approves nothing.   *)
LEMMA SameBook ==
  ASSUME BookInv, held' = held, rows' = rows, lapses' = {} => lapses = {},
         \A c \in Callers :
           /\ stage[c] = "traded" => stage'[c] = "traded"
           /\ stage'[c] = "approved" => stage[c] = "approved" /\ pending'[c] = pending[c]
  PROVE  BookInv'
BY DEF BookInv

(* Under the lease and without a lapse, a caller that has not yet filled   *)
(* sees both books as their rows have them.                                *)
LEMMA GateSeesAll ==
  ASSUME IInv, lapses = {}, NEW c \in Callers, stage[c] \in Critical
  PROVE  /\ held[Other(Engine(c))] = rows[Other(Engine(c))]
         /\ stage[c] # "traded" => held[Engine(c)] = rows[Engine(c)]
<1>1. \A d \in Callers : stage[d] = "traded" => d = c
  BY OneAtWork DEF Critical
<1>2. \A d \in Callers : Engine(d) = Other(Engine(c)) => stage[d] # "traded"
  BY <1>1, EngineType
<1> QED
  BY <1>1, <1>2, EngineType DEF IInv, BookInv

LEMMA BookStep == IInv /\ [Next]_vars => BookInv'
<1> SUFFICES ASSUME IInv, [Next]_vars PROVE BookInv'
  OBVIOUS
<1> USE EngineType DEF IInv, TypeOK
<1>1. ASSUME NEW c \in Callers, Request(c) \/ EnterProcessLock(c) \/ Acquire(c) \/ TradeNothing(c)
      PROVE BookInv'
  BY <1>1, SameBook DEF Request, EnterProcessLock, StartPolling, Acquire, TradeNothing, bookVars
<1>2. ASSUME StartPass PROVE BookInv'
  BY <1>2, SameBook DEF StartPass, StartPolling, bookVars, Callers
<1>3. ASSUME NEW c \in Callers, GiveUp(c) \/ Release(c) \/ ReleaseRaises(c) PROVE BookInv'
  BY <1>3, SameBook DEF GiveUp, Release, ReleaseRaises, Leave
<1>4. ASSUME NEW c \in Callers, PollRaises(c) PROVE BookInv'
  <2>1. CASE Engine(c) \in FailOpen
    BY <1>4, <2>1 DEF PollRaises, BookInv
  <2>2. CASE Engine(c) \notin FailOpen
    BY <1>4, <2>2, SameBook DEF PollRaises, Leave
  <2> QED
    BY <2>1, <2>2
<1>5. ASSUME NEW c \in Callers, NEW n \in 1 .. MaxOrder, ApproveEntry(c, n) PROVE BookInv'
  <2>1. /\ held' = held /\ rows' = rows /\ lapses' = lapses
        /\ stage[c] = "inside" /\ held[Engine(c)] + n + rows[Other(Engine(c))] <= Limit
        /\ \A d \in Callers : /\ stage'[d] = IF d = c THEN "approved" ELSE stage[d]
                              /\ pending'[d] = IF d = c THEN n ELSE pending[d]
    BY <1>5 DEF ApproveEntry, CurrentExposure
  <2>2. ASSUME NEW d \in Callers, stage'[d] = "approved", lapses = {}
        PROVE  \/ pending'[d] <= 0
               \/ held'[Engine(d)] + pending'[d] + rows'[Other(Engine(d))] <= Limit
    <3>1. CASE d = c
      BY <3>1, <2>1
    <3>2. CASE d # c
      BY <3>2, <2>1, <2>2 DEF BookInv
    <3> QED
      BY <3>1, <3>2
  <2>3. \A d \in Callers : stage[d] = "traded" <=> stage'[d] = "traded"
    BY <2>1
  <2> QED
    BY <2>1, <2>2, <2>3 DEF BookInv
<1>6. ASSUME NEW c \in Callers, NEW n \in 1 .. MaxOrder, ApproveExit(c, n) PROVE BookInv'
  <2>1. /\ held' = held /\ rows' = rows /\ lapses' = lapses /\ stage[c] = "inside"
        /\ \A d \in Callers : /\ stage'[d] = IF d = c THEN "approved" ELSE stage[d]
                              /\ pending'[d] = IF d = c THEN -n ELSE pending[d]
    BY <1>6 DEF ApproveExit
  <2>2. -n <= 0
    OBVIOUS
  <2>3. ASSUME NEW d \in Callers, stage'[d] = "approved", lapses = {}
        PROVE  \/ pending'[d] <= 0
               \/ held'[Engine(d)] + pending'[d] + rows'[Other(Engine(d))] <= Limit
    <3>1. CASE d = c
      BY <3>1, <2>1, <2>2
    <3>2. CASE d # c
      BY <3>2, <2>1, <2>3 DEF BookInv
    <3> QED
      BY <3>1, <3>2
  <2>4. \A d \in Callers : stage[d] = "traded" <=> stage'[d] = "traded"
    BY <2>1
  <2> QED
    BY <2>1, <2>3, <2>4 DEF BookInv
<1>7. ASSUME NEW c \in Callers, Fill(c), lapses' = {} PROVE BookInv'
  <2>1. /\ lapses = {} /\ stage[c] = "approved" /\ rows' = rows
        /\ \A d \in Callers : stage'[d] = IF d = c THEN "traded" ELSE stage[d]
        /\ \A e \in Engines : held'[e] = IF e = Engine(c) THEN held[e] + pending[c] ELSE held[e]
    BY <1>7 DEF Fill
  <2>2. held[Other(Engine(c))] = rows[Other(Engine(c))] /\ held[Engine(c)] = rows[Engine(c)]
    BY <2>1, GateSeesAll DEF Critical
  <2>3. pending[c] <= MaxOrder /\ held[Engine(c)] + pending[c] >= 0
    BY <2>1 DEF PendingInv
  <2>4. held'["manual"] + held'["auto"] <= Limit
    <3>1. pending[c] <= 0 \/ held[Engine(c)] + pending[c] + rows[Other(Engine(c))] <= Limit
      BY <2>1 DEF BookInv
    <3>2. held["manual"] + held["auto"] <= Limit
      BY <2>1 DEF BookInv
    <3> QED
      BY <2>1, <2>2, <3>1, <3>2 DEF Engine, Other, Engines
  <2>5. \A d \in Callers : stage'[d] # "approved"
    <3>1. \A d \in Callers \ {c} : stage[d] \notin Critical
      BY <2>1, OneAtWork DEF Critical
    <3> QED
      BY <2>1, <3>1 DEF Critical
  <2>6. \A e \in Engines : (\A d \in Callers : Engine(d) = e => stage'[d] # "traded")
                              => held'[e] = rows'[e]
    <3>1. SUFFICES ASSUME NEW e \in Engines,
                          \A d \in Callers : Engine(d) = e => stage'[d] # "traded"
                   PROVE  held'[e] = rows'[e]
      OBVIOUS
    <3>2. e # Engine(c) /\ \A d \in Callers : Engine(d) = e => stage[d] # "traded"
      BY <3>1, <2>1
    <3>3. held[e] = rows[e]
      BY <3>2, <2>1 DEF BookInv
    <3> QED
      BY <3>2, <3>3, <2>1
  <2>7. ASSUME NEW e \in Engines PROVE held'[e] <= rows'[e] + MaxOrder
    <3>1. CASE e = Engine(c)
      BY <3>1, <2>1, <2>2, <2>3
    <3>2. CASE e # Engine(c)
      BY <3>2, <2>1 DEF BookInv
    <3> QED
      BY <3>1, <3>2
  <2>8. rows'["manual"] + rows'["auto"] <= Limit
    BY <2>1 DEF BookInv
  <2> QED
    BY <2>4, <2>5, <2>6, <2>7, <2>8 DEF BookInv
<1>8. ASSUME NEW c \in Callers, Decline(c) PROVE BookInv'
  BY <1>8, SameBook DEF Decline
<1>9. ASSUME NEW c \in Callers, Persist(c), lapses' = {} PROVE BookInv'
  <2>1. /\ lapses = {} /\ stage[c] = "traded" /\ held' = held /\ pending' = pending
        /\ \A d \in Callers : stage'[d] = IF d = c THEN "done" ELSE stage[d]
        /\ \A e \in Engines : rows'[e] = IF e = Engine(c) THEN held[e] ELSE rows[e]
    BY <1>9 DEF Persist
  <2>2. held[Other(Engine(c))] = rows[Other(Engine(c))]
    BY <2>1, GateSeesAll DEF Critical
  <2>3. \A d \in Callers : stage'[d] # "approved"
    BY <2>1, OneAtWork DEF Critical
  <2>4. \A e \in Engines : held'[e] = rows'[e]
    BY <2>1, <2>2 DEF Engine, Other, Engines
  <2>5. \A e \in Engines : held'[e] = held[e] /\ rows'[e] = held[e] /\ held[e] \in Nat
    BY <2>1, <2>4
  <2>6. \A e \in Engines : held'[e] <= rows'[e] + MaxOrder
    BY <2>5
  <2>7. /\ held'["manual"] + held'["auto"] <= Limit
        /\ rows'["manual"] + rows'["auto"] <= Limit
    BY <2>1, <2>5 DEF BookInv, Engines
  <2> QED
    BY <2>3, <2>4, <2>6, <2>7 DEF BookInv
<1>10. ASSUME NEW c \in Callers, PersistRaises(c) PROVE BookInv'
  BY <1>10 DEF PersistRaises, BookInv
<1>11. ASSUME NEW e \in Engines, Crash(e), lapses' = {} PROVE BookInv'
  <2>1. /\ lapses = {} /\ rows' = rows
        /\ \A f \in Engines : held'[f] = IF f = e THEN rows[f] ELSE held[f]
        /\ \A d \in Callers : /\ stage'[d] = IF Engine(d) = e THEN "idle" ELSE stage[d]
                              /\ Engine(d) # e => pending'[d] = pending[d]
    BY <1>11 DEF Crash
  <2>2. held'["manual"] + held'["auto"] <= Limit
    <3>1. CASE \E d \in Callers : Engine(d) = e /\ stage[d] = "traded"
      <4>1. \A f \in Engines : f # e => held[f] = rows[f]
        BY <2>1, <3>1, GateSeesAll DEF Critical, Engine, Other, Engines
      <4> QED
        BY <2>1, <4>1 DEF BookInv, Engines
    <3>2. CASE ~\E d \in Callers : Engine(d) = e /\ stage[d] = "traded"
      BY <2>1, <3>2 DEF BookInv, Engines
    <3> QED
      BY <3>1, <3>2
  <2>3. \A d \in Callers : stage'[d] = "approved"
          => \/ pending'[d] <= 0
             \/ held'[Engine(d)] + pending'[d] + rows'[Other(Engine(d))] <= Limit
    BY <2>1 DEF BookInv
  <2>4. \A f \in Engines : (\A d \in Callers : Engine(d) = f => stage'[d] # "traded")
                              => held'[f] = rows'[f]
    BY <2>1 DEF BookInv
  <2>5. ASSUME NEW f \in Engines PROVE held'[f] <= rows'[f] + MaxOrder
    <3>1. CASE f = e
      BY <3>1, <2>1
    <3>2. CASE f # e
      BY <3>2, <2>1 DEF BookInv
    <3> QED
      BY <3>1, <3>2
  <2> QED
    BY <2>1, <2>2, <2>3, <2>4, <2>5 DEF BookInv
<1>12. ASSUME Tick \/ UNCHANGED vars PROVE BookInv'
  <2>1. held' = held /\ rows' = rows /\ pending' = pending /\ stage' = stage /\ lapses \subseteq lapses'
    BY <1>12 DEF Tick, vars, lockVars, bookVars
  <2> QED
    BY <2>1, SameBook
<1>13. lapses' # {} => BookInv'
  BY DEF BookInv
<1> QED
  BY <1>1, <1>2, <1>3, <1>4, <1>5, <1>6, <1>7, <1>8, <1>9, <1>10, <1>11, <1>12, <1>13,
     NextSplit DEF Acts

LEMMA Inductive == IInv /\ [Next]_vars => IInv'
BY TypeStep, QueueStep, TokenStep, PendingStep, BookStep DEF IInv

LEMMA Invariant == Spec => []IInv
BY InitInv, Inductive, PTL DEF Spec
-----------------------------------------------------------------------------
(* Every variable keeps its type.                                          *)
THEOREM TypeCorrect == Spec => []TypeOK
BY Invariant, PTL DEF IInv

(* Two callers are past the lock together only after a lease was outlived  *)
(* or a gate taken without one.                                            *)
THEOREM LockExcludes == Spec => []MutualExclusion
BY Invariant, Mutex, PTL

(* The API's handlers are serialised under every Redis failure.            *)
THEOREM HandlersStaySerialized == Spec => []HandlersSerialized
BY Invariant, Handlers, PTL

(* The account's exposure, as both engines hold it, stays within its       *)
(* limit as long as there was no lapse.                                    *)
THEOREM ExposureBounded == Spec => []ExposureWithinLimit
<1>1. IInv => ExposureWithinLimit
  BY DEF IInv, BookInv, ExposureWithinLimit
<1> QED
  BY Invariant, <1>1, PTL
-----------------------------------------------------------------------------
(* A caller still behind the lease it met has at least as long to wait as  *)
(* that lease has to live.                                                 *)
WaitInv ==
  \A c \in Callers : stage[c] = "polling" /\ behind[c]
    => lease # Free /\ lease.ttl <= left[c]

(* Who polls after a step polled before it or has just begun to.           *)
LEMMA WaitStep == IInv /\ WaitInv /\ [Next]_vars => WaitInv'
<1> SUFFICES ASSUME IInv, WaitInv, [Next]_vars PROVE WaitInv'
  OBVIOUS
<1> USE DEF IInv, TypeOK
<1>1. ASSUME NEW c \in Callers, StartPolling(c), lease' = lease PROVE WaitInv'
  <2>1. lease # Free => lease.ttl \in 1 .. TTL
    BY LeaseShape
  <2>2. left'[c] = Wait /\ (behind'[c] => lease # Free)
    BY <1>1 DEF StartPolling
  <2>3. \A d \in Callers : d # c => left'[d] = left[d] /\ behind'[d] = behind[d] /\ stage'[d] = stage[d]
    BY <1>1 DEF StartPolling
  <2> SUFFICES ASSUME NEW d \in Callers, stage'[d] = "polling", behind'[d]
               PROVE  lease # Free /\ lease.ttl <= left'[d]
    BY <1>1 DEF WaitInv
  <2>4. CASE d = c
    BY <2>1, <2>2, <2>4
  <2>5. CASE d # c
    BY <2>3, <2>5 DEF WaitInv
  <2> QED
    BY <2>4, <2>5
<1>2. ASSUME NEW c \in Callers, EnterProcessLock(c) PROVE WaitInv'
  BY <1>1, <1>2 DEF EnterProcessLock
<1>3. CASE StartPass
  BY <1>1, <1>3 DEF StartPass, Callers
<1>4. ASSUME \A c \in Callers : stage'[c] = "polling" => stage[c] = "polling" /\ left'[c] = left[c],
             behind' = behind, lease' = lease
      PROVE  WaitInv'
  BY <1>4 DEF WaitInv
<1>5. ASSUME NEW c \in Callers, Request(c) \/ GiveUp(c) PROVE WaitInv'
  BY <1>4, <1>5 DEF Request, GiveUp, Leave
<1>6. ASSUME NEW c \in Callers, NEW n \in 1 .. MaxOrder, ApproveEntry(c, n) \/ ApproveExit(c, n)
      PROVE  WaitInv'
  BY <1>4, <1>6 DEF ApproveEntry, ApproveExit
<1>7. ASSUME NEW c \in Callers, TradeNothing(c) \/ Fill(c) \/ Decline(c) \/ Persist(c) \/ PersistRaises(c)
      PROVE  WaitInv'
  BY <1>4, <1>7 DEF TradeNothing, Fill, Decline, Persist, PersistRaises
<1>8. ASSUME NEW c \in Callers, ReleaseRaises(c) PROVE WaitInv'
  BY <1>4, <1>8 DEF ReleaseRaises, Leave
<1>9. ASSUME NEW c \in Callers, Release(c) PROVE WaitInv'
  <2>1. CASE token[c] /\ HoldsLease(c)
    BY <1>9, <2>1 DEF Release, LeaseEnds, WaitInv
  <2>2. CASE ~(token[c] /\ HoldsLease(c))
    BY <1>4, <1>9, <2>2 DEF Release, Leave
  <2> QED
    BY <2>1, <2>2
<1>10. ASSUME NEW c \in Callers, Acquire(c) PROVE WaitInv'
  BY <1>10 DEF Acquire, WaitInv
<1>11. ASSUME NEW c \in Callers, PollRaises(c) PROVE WaitInv'
  <2>1. /\ behind' = behind
        /\ lease = Free \/ lease' = lease
        /\ \A d \in Callers : stage'[d] = "polling" => d # c /\ stage[d] = "polling"
        /\ \A d \in Callers : d # c => left'[d] = left[d]
    BY <1>11 DEF PollRaises, Leave, Stages
  <2> QED
    BY <2>1 DEF WaitInv
<1>12. CASE Tick
  <2>1. CASE lease # Free /\ lease.ttl > 1
    <3>1. /\ lease' = [lease EXCEPT !.ttl = @ - 1] /\ behind' = behind /\ stage' = stage
          /\ lease' # Free /\ lease'.ttl = lease.ttl - 1 /\ lease.ttl \in 1 .. TTL
      BY <1>12, <2>1, LeaseShape DEF Tick, LeaseType, Free
    <3>2. \A c \in Callers : left'[c] = IF left[c] > 0 THEN left[c] - 1 ELSE 0
      BY <1>12 DEF Tick
    <3> QED
      BY <3>1, <3>2 DEF WaitInv
  <2>2. CASE lease # Free /\ ~(lease.ttl > 1)
    BY <1>12, <2>2 DEF Tick, LeaseEnds, WaitInv
  <2>3. CASE lease = Free
    BY <1>12, <2>3 DEF Tick, WaitInv
  <2> QED
    BY <2>1, <2>2, <2>3
<1>13. ASSUME NEW e \in Engines, Crash(e) PROVE WaitInv'
  BY <1>13 DEF Crash, WaitInv
<1>14. CASE UNCHANGED vars
  BY <1>4, <1>14 DEF vars, lockVars, bookVars
<1> QED
  BY <1>2, <1>3, <1>5, <1>6, <1>7, <1>8, <1>9, <1>10, <1>11, <1>12, <1>13, <1>14, NextSplit DEF Acts

(* Only GiveUp answers busy, at the deadline.                              *)
LEMMA BusyIsGivenUp ==
  ASSUME IInv, [Next]_vars, NEW c \in Callers, answer[c] # "busy", answer'[c] = "busy"
  PROVE  GiveUp(c)
<1> USE DEF IInv, TypeOK
<1>1. ASSUME NEW d \in Callers, Acts(d) PROVE GiveUp(c)
  BY <1>1 DEF Acts, Request, EnterProcessLock, Acquire, GiveUp, PollRaises, ApproveEntry,
              ApproveExit, TradeNothing, Fill, Decline, Persist, PersistRaises, Release,
              ReleaseRaises, Leave
<1>2. ~(StartPass \/ Tick \/ \E e \in Engines : Crash(e))
  BY DEF StartPass, Tick, Crash, Callers
<1>3. ~UNCHANGED vars
  BY DEF vars, bookVars, lockVars
<1> QED
  BY <1>1, <1>2, <1>3, NextSplit

(* The wait covers a full hold: whoever is turned away as busy met another *)
(* lease than the one it began to wait behind.                             *)
THEOREM NobodyWaitsInVain == Spec => WaitCoversHold
<1>1. Init => WaitInv
  BY DEF Init, WaitInv
<1>2. ASSUME IInv, WaitInv, [Next]_vars, NEW c \in Callers, answer[c] # "busy", answer'[c] = "busy"
      PROVE  ~behind[c]
  <2>1. stage[c] = "polling" /\ left[c] = 0
    BY <1>2, BusyIsGivenUp DEF GiveUp
  <2>2. lease # Free => lease.ttl \in 1 .. TTL
    BY <1>2, LeaseShape DEF IInv, TypeOK
  <2> QED
    BY <1>2, <2>1, <2>2 DEF WaitInv
<1>3. IInv /\ WaitInv /\ [Next]_vars
        => \A c \in Callers : answer[c] # "busy" /\ answer'[c] = "busy" => ~behind[c]
  BY <1>2
<1> QED
  BY <1>1, <1>3, WaitStep, Invariant, PTL DEF Spec, WaitCoversHold

(* A late holder never deletes the next holder's lease: it compares the    *)
(* token, and the key otherwise goes only by its expiry.                   *)
THEOREM LeasesEndByTheirOwner == Spec => OnlyOwnerReleases
<1>1. ASSUME IInv, [Next]_vars, lease # Free, lease' = Free
      PROVE  \/ lease.ttl = 1 /\ stage' = stage
             \/ stage[lease.owner] = "done" /\ stage'[lease.owner] = "idle"
  <2> USE <1>1 DEF IInv, TypeOK
  <2>1. lease.owner \in Callers /\ lease.ttl \in 1 .. TTL
    BY LeaseShape
  <2>2. ASSUME NEW c \in Callers, Acts(c) PROVE Release(c) /\ HoldsLease(c)
    BY <2>2 DEF Acts, Request, EnterProcessLock, Acquire, GiveUp, PollRaises, ApproveEntry,
                ApproveExit, TradeNothing, Fill, Decline, Persist, PersistRaises, Release,
                ReleaseRaises
  <2>3. ASSUME NEW c \in Callers, Acts(c)
        PROVE  stage[lease.owner] = "done" /\ stage'[lease.owner] = "idle"
    BY <2>1, <2>2, <2>3 DEF Release, HoldsLease, Leave
  <2>4. CASE Tick
    <3>1. ~(lease.ttl > 1)
      BY <2>4, LeaseShape DEF Tick
    <3> QED
      BY <2>1, <2>4, <3>1 DEF Tick
  <2>5. ~(StartPass \/ \E e \in Engines : Crash(e))
    BY DEF StartPass, Crash
  <2>6. ~UNCHANGED vars
    BY DEF vars, lockVars
  <2> QED
    BY <2>3, <2>4, <2>5, <2>6, NextSplit
<1>2. IInv /\ [Next]_vars
        => (lease # Free /\ lease' = Free =>
              \/ lease.ttl = 1 /\ stage' = stage
              \/ stage[lease.owner] = "done" /\ stage'[lease.owner] = "idle")
  BY <1>1
<1> QED
  BY <1>2, Invariant, PTL DEF Spec, OnlyOwnerReleases
-----------------------------------------------------------------------------
(* Only a commit changes the rows, and a lapse changes nothing else that   *)
(* the gate sees.                                                          *)
LEMMA RowsChangeByPersist ==
  ASSUME [Next]_vars
  PROVE  \/ rows' = rows /\ lapses \subseteq lapses'
         \/ \E c \in Callers : Persist(c)
<1>1. CASE Next
  <2>1. ASSUME NEW c \in Callers, Acts(c), ~Persist(c) PROVE rows' = rows /\ lapses \subseteq lapses'
    BY <2>1 DEF Acts, Request, EnterProcessLock, Acquire, GiveUp, PollRaises, ApproveEntry,
                ApproveExit, TradeNothing, Fill, Decline, PersistRaises, Release,
                ReleaseRaises, bookVars
  <2>2. ASSUME StartPass \/ Tick \/ \E e \in Engines : Crash(e)
        PROVE rows' = rows /\ lapses \subseteq lapses'
    BY <2>2 DEF StartPass, Tick, Crash, bookVars
  <2> QED
    BY <1>1, <2>1, <2>2, NextSplit
<1>2. CASE UNCHANGED vars
  BY <1>2 DEF vars, bookVars
<1> QED
  BY <1>1, <1>2

(* A commit is one atomic, checked record of the abstract gate.            *)
LEMMA PersistRecords ==
  ASSUME IInv, IInv', NEW c \in Callers, Persist(c)
  PROVE  [Gate!Next]_(Gate!gateVars)
<1> USE EngineType DEF IInv, TypeOK
<1>1. /\ lapses' = lapses /\ stage[c] = "traded"
      /\ \A e \in Engines : rows'[e] = IF e = Engine(c) THEN held[e] ELSE rows[e]
  BY DEF Persist
<1>2. CASE lapses # {}
  BY <1>1, <1>2 DEF Gate!Next, Gate!Unpromised, Engines
<1>3. CASE lapses = {}
  <2>1. held[Other(Engine(c))] = rows[Other(Engine(c))]
    BY <1>1, <1>3, GateSeesAll DEF Critical
  <2>2. /\ held["manual"] + held["auto"] <= Limit
        /\ \A e \in Engines : held[e] \in 0 .. rows[e] + MaxOrder
    BY <1>3 DEF BookInv
  <2>3. CASE Engine(c) = "manual"
    <3>1. held["auto"] = rows["auto"] /\ rows'["manual"] = held["manual"] /\ rows'["auto"] = rows["auto"]
      BY <1>1, <2>1, <2>3 DEF Other, Engines
    <3>2. Gate!RecordManual
      BY <1>1, <2>2, <3>1 DEF Gate!RecordManual, Engines
    <3> QED
      BY <3>2 DEF Gate!Next
  <2>4. CASE Engine(c) = "auto"
    <3>1. held["manual"] = rows["manual"] /\ rows'["auto"] = held["auto"] /\ rows'["manual"] = rows["manual"]
      BY <1>1, <2>1, <2>4 DEF Other, Engines
    <3>2. Gate!RecordAuto
      BY <1>1, <2>2, <3>1 DEF Gate!RecordAuto, Engines
    <3> QED
      BY <3>2 DEF Gate!Next
  <2> QED
    BY <2>3, <2>4 DEF Engines
<1> QED
  BY <1>2, <1>3

(* The whole protocol - queue, lease, clock, crashes - is one atomic check *)
(* and record of the account's exposure.                                   *)
THEOREM LockImplementsGate == Spec => GateSpec
<1>1. Init => Gate!Init
  BY DEF Init, Gate!Init, Engines
<1>2. ASSUME IInv, IInv', [Next]_vars PROVE [Gate!Next]_(Gate!gateVars)
  <2>1. CASE rows' = rows /\ lapses \subseteq lapses'
    <3>1. CASE lapses = {} /\ lapses' # {}
      BY <2>1, <3>1 DEF Gate!Next, Gate!Lapse
    <3>2. CASE ~(lapses = {} /\ lapses' # {})
      BY <2>1, <3>2 DEF Gate!gateVars
    <3> QED
      BY <3>1, <3>2
  <2>2. CASE \E c \in Callers : Persist(c)
    BY <1>2, <2>2, PersistRecords
  <2> QED
    BY <1>2, <2>1, <2>2, RowsChangeByPersist
<1> QED
  BY <1>1, <1>2, Invariant, PTL DEF Spec, GateSpec, Gate!Spec
=============================================================================
